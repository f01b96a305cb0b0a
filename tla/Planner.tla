------------------------------- MODULE Planner -------------------------------
(***************************************************************************)
(* Planning (controllers/node/planner.go, plannersession.go, plannerpool.go, *)
(* workeroutput.go; internal/deviceplan/session.go and pool_process):      *)
(* a plan is computed by a process outside the manager that asks for facts *)
(* (metadata of images, certificates) in a conversation, and its result is *)
(* persisted in a ConfigMap that answers all later passes.                 *)
(*                                                                         *)
(* The process runs in a Pod of its own, which a second controller attaches *)
(* to, or in a worker Pod of a pool, where the pass of the Node talks to it *)
(* itself.  A slot is the one or the other.  An attempt is the content     *)
(* address of a request; facts are versions, 0 for not asked.              *)
(*                                                                         *)
(* The frames of a conversation alternate, so each direction of a stream   *)
(* holds at most a frame and the one that reports the end.                 *)
(***************************************************************************)
EXTENDS Integers, Sequences

CONSTANTS
    Nodes,
    Attempts,    \* what Nodes may ask to be planned
    Workers,     \* Pods of the pool
    Images,      \* images that only planning finds out about
    MaxRounds,   \* defaultMaxSessionRounds, the worker's bound
    MaxRequests, \* plannerSessionMaxRequests, the manager's bound
    MaxVersion,  \* bound: versions of an image's metadata, and certificates issued
    Worlds       \* what planning asks for, and what may happen

\* pool: whether there is one; owner, want: whose the attempts are and which ones
\* are asked for at first; script, certs, ok: what planning finds out it needs,
\* step by step, and what it comes to; lag: caches that may be behind; kinds, left:
\* what may happen, and how often.
Caches == {"maps", "pods", "policies"}
Kinds == {"edit", "tag", "secret", "kill", "cut", "skew", "crash"}
World == [pool : BOOLEAN, owner : [Attempts -> Nodes], want : [Nodes -> Attempts \cup {0}],
          script : Seq(SUBSET Images), certs : BOOLEAN, ok : BOOLEAN,
          lag : SUBSET Caches, kinds : SUBSET Kinds, left : Nat]

ASSUME SlotsAssumption == Attempts \cap Workers = {} /\ 0 \notin Attempts \cup Workers
ASSUME BoundsAssumption ==
    {MaxRounds, MaxRequests, MaxVersion} \subseteq Nat \ {0} /\ MaxRounds <= MaxRequests
ASSUME WorldsAssumption ==
    /\ Worlds \subseteq World
    /\ \A w \in Worlds, n \in Nodes : w.want[n] # 0 => w.owner[w.want[n]] = n

VARIABLES
    want,     \* the attempt each Node asks for, 0 for no Node
    pass,     \* the pass of each Node
    inputs,   \* ConfigMaps of planning inputs
    records,  \* persisted results
    policies, \* NetworkPolicies
    pods,     \* planner Pods
    seen,     \* the manager's caches of the four
    proc,     \* planner processes
    out,      \* what they wrote and the manager has not read
    sess,     \* the manager's ends of the conversations
    busy,     \* workers of the pool it uses
    facts,    \* the registry's metadata and the certificate Secret, as versions
    cut,      \* a process or a stream was cut off
    world

vars == <<want, pass, inputs, records, policies, pods, seen, proc, out, sess, busy, facts, cut, world>>
objects == <<inputs, records, policies, pods>>
planning == <<proc, out, sess>>

Slots == Attempts \cup Workers
Versions == 0..MaxVersion
Facts == [images : [Images -> Versions], cert : Versions]
NoFacts == [images |-> [i \in Images |-> 0], cert |-> 0]
Inputs == [a : Attempts, facts : Facts]
Initial(a) == [a |-> a, facts |-> NoFacts]

\* Frames: requests, the terminal result, and the diagnostic of a worker
AskImages(set, n) == [type |-> "images", set |-> set, seq |-> n]
AskCertificates(n) == [type |-> "certs", seq |-> n]
Result(f, n) == [type |-> "result", facts |-> f, seq |-> n]
Diagnostic == [type |-> "error"]
NoFrame == [type |-> "none"]

Record == [kind : {"plan"}, facts : Facts] \cup {[kind |-> "error"], [kind |-> "none"]}
NoRecord == [kind |-> "none"]

\* accepted is the annotation with the digest of the accepted result, log the last
\* frame in the log; ending: its deletion was asked for
NoPod == [phase |-> "none", accepted |-> NoFrame, log |-> NoFrame, ending |-> FALSE]
StartedPod == [NoPod EXCEPT !.phase = "running"]

\* What a Delete makes of a Pod: one that runs is given its grace period, in which
\* it goes on and keeps its name; one that ended goes at once.
Deleted(pod) == IF pod.phase = "running" THEN [pod EXCEPT !.ending = TRUE] ELSE NoPod

\* heard: its output reaches the manager; fed: its input is open
NoProc == [st |-> "none", a |-> 0, facts |-> NoFacts, seq |-> 0, heard |-> FALSE, fed |-> FALSE]
NoSess == [st |-> "none", a |-> 0, facts |-> NoFacts, seq |-> 0]
IdlePass == [pc |-> "idle", a |-> 0, w |-> 0, frame |-> NoFrame]

-----------------------------------------------------------------------------
(* The process: SessionWorker.Run. *)

Known(f) == {i \in Images : f.images[i] # 0}

\* Adapter.DiscoverImages and missingImageRequirements: what planning finds out it
\* needs depends on what it knows already.
Missing(f) ==
    LET open == {k \in DOMAIN world.script : ~(world.script[k] \subseteq Known(f))}
        first == CHOOSE k \in open : \A j \in open : k <= j
    IN IF open = {} THEN {} ELSE world.script[first] \ Known(f)

Needed == UNION {world.script[k] : k \in DOMAIN world.script}

\* A frame is written to the stream, and in a Pod of its own to the log.
Writes(s, frame, p) ==
    /\ out' = [out EXCEPT ![s] = IF proc[s].heard THEN Append(@, frame) ELSE @]
    /\ pods' = IF s \in Attempts THEN [pods EXCEPT ![s].log = frame, ![s].phase = p] ELSE pods

Exits(s, frame) == /\ Writes(s, frame, "done") /\ proc' = [proc EXCEPT ![s] = NoProc]

Asks(s, frame) == /\ Writes(s, frame, "running") /\ proc' = [proc EXCEPT ![s].st = "waiting"]

EvaluateOneLess(s) ==
    /\ proc[s].st = "planning"
    /\ LET p == proc[s]
       IN \/ /\ p.seq >= MaxRounds
             /\ Exits(s, Diagnostic)
          \/ /\ p.seq < MaxRounds /\ Missing(p.facts) # {}
             /\ Asks(s, AskImages(Missing(p.facts), p.seq))
          \/ /\ p.seq < MaxRounds /\ Missing(p.facts) = {} /\ world.certs /\ p.facts.cert = 0
             /\ Asks(s, AskCertificates(p.seq))
          \/ /\ p.seq < MaxRounds /\ Missing(p.facts) = {} /\ ~(world.certs /\ p.facts.cert = 0)
             /\ Exits(s, IF world.ok THEN Result(p.facts, p.seq) ELSE Diagnostic)
    /\ UNCHANGED <<want, pass, inputs, records, policies, seen, sess, busy, facts, cut, world>>

Evaluate(s) ==
    /\ proc[s].st = "planning"
    /\ LET p == proc[s]
       IN \/ /\ p.seq > MaxRounds
             /\ Exits(s, Diagnostic)
          \/ /\ p.seq <= MaxRounds /\ Missing(p.facts) # {}
             /\ Asks(s, AskImages(Missing(p.facts), p.seq))
          \/ /\ p.seq <= MaxRounds /\ Missing(p.facts) = {} /\ world.certs /\ p.facts.cert = 0
             /\ Asks(s, AskCertificates(p.seq))
          \/ /\ p.seq <= MaxRounds /\ Missing(p.facts) = {} /\ ~(world.certs /\ p.facts.cert = 0)
             /\ Exits(s, IF world.ok THEN Result(p.facts, p.seq) ELSE Diagnostic)
    /\ UNCHANGED <<want, pass, inputs, records, policies, seen, sess, busy, facts, cut, world>>

\* Reading from a stdin that was closed ends the process with a diagnostic.
LoseInput(s) ==
    /\ proc[s].st = "waiting" /\ ~proc[s].fed
    /\ Exits(s, Diagnostic)
    /\ UNCHANGED <<want, pass, inputs, records, policies, seen, sess, busy, facts, cut, world>>

-----------------------------------------------------------------------------
(* The manager's end: PlannerSessionReconciler.Reconcile, PlannerPool.converse. *)

Unheard(p) == [p EXCEPT !.heard = FALSE, !.fed = FALSE]

\* failAttempt: the stream closes, and the Pod is deleted.
FailAttempt(a) ==
    /\ pods' = [pods EXCEPT ![a] = Deleted(@)]
    /\ proc' = [proc EXCEPT ![a] = Unheard(@)]
    /\ out' = [out EXCEPT ![a] = <<>>]
    /\ sess' = [sess EXCEPT ![a] = NoSess]

\* In a Pod of its own a refused frame fails the attempt, in a worker of the
\* pool the pass that waits for the result.
Refuse(s) ==
    IF s \in Attempts THEN FailAttempt(s)
    ELSE /\ sess' = [sess EXCEPT ![s].st = "refused"]
         /\ proc' = [proc EXCEPT ![s] = Unheard(@)]
         /\ out' = [out EXCEPT ![s] = <<>>]
         /\ UNCHANGED pods

\* A Pod's input is open once (StdinOnce): a later manager only hears the process.
Attach(a) ==
    /\ seen.pods[a].phase = "running" /\ seen.pods[a].accepted = NoFrame
    /\ sess[a].st = "none"
    /\ IF Initial(a) \in inputs /\ pods[a].phase = "running"
       THEN /\ sess' = [sess EXCEPT ![a] = [st |-> "talk", a |-> a, facts |-> NoFacts, seq |-> 1]]
            /\ proc' = [proc EXCEPT ![a] = IF @.st = "reading" /\ @.a = 0
                                           THEN [@ EXCEPT !.st = "planning", !.a = a, !.seq = 1,
                                                          !.heard = TRUE, !.fed = TRUE]
                                           ELSE [@ EXCEPT !.heard = TRUE]]
            /\ UNCHANGED <<pods, out>>
       ELSE FailAttempt(a)
    /\ UNCHANGED <<want, pass, inputs, records, policies, seen, busy, facts, cut, world>>

\* An end of the conversation that has the answer
Told(end, given) == [end EXCEPT !.facts = given, !.seq = end.seq + 1]

Respond(s, given) ==
    /\ sess' = [sess EXCEPT ![s] = Told(@, given)]
    /\ proc' = [proc EXCEPT ![s] = IF @.st = "waiting" /\ @.fed
                                   THEN [Told(@, given) EXCEPT !.st = "planning"] ELSE @]
    /\ out' = [out EXCEPT ![s] = Tail(@)]
    /\ UNCHANGED pods

AddsFacts(s, frame) == frame.set # {} /\ frame.set \cap Known(sess[s].facts) = {}

ServeImages(s, frame) ==
    IF frame.seq = sess[s].seq /\ frame.seq <= MaxRequests /\ AddsFacts(s, frame)
    THEN /\ Respond(s, [sess[s].facts EXCEPT !.images =
                          [i \in Images |-> IF i \in frame.set THEN facts.images ELSE @[i]]])
         /\ UNCHANGED facts
    ELSE Refuse(s) /\ UNCHANGED facts

Issued(f) == IF f.cert = 0 THEN [f EXCEPT !.cert = f.next, !.next = @ + 1] ELSE f

ServeCertificates(s, frame) ==
    IF frame.seq = sess[s].seq /\ frame.seq <= MaxRequests /\ sess[s].facts.cert = 0
    THEN /\ facts' = Issued(facts)
         /\ Respond(s, [sess[s].facts EXCEPT !.cert = facts'.cert])
    ELSE Refuse(s) /\ UNCHANGED facts

\* validateControllerSessionResult, and the annotation that accepts the result
ServeResultUnvalidated(s, frame) ==
    /\ sess' = [sess EXCEPT ![s].st = "drain"]
    /\ pods' = IF s \in Attempts THEN [pods EXCEPT ![s].accepted = frame] ELSE pods
    /\ out' = [out EXCEPT ![s] = Tail(@)]
    /\ UNCHANGED <<proc, facts>>

ServeResult(s, frame) ==
    IF frame.facts = sess[s].facts /\ frame.seq = sess[s].seq /\ (s \in Attempts => pods[s].phase # "none")
    THEN /\ sess' = [sess EXCEPT ![s].st = "drain"]
         /\ pods' = IF s \in Attempts THEN [pods EXCEPT ![s].accepted = frame] ELSE pods
         /\ out' = [out EXCEPT ![s] = Tail(@)]
         /\ UNCHANGED <<proc, facts>>
    ELSE Refuse(s) /\ UNCHANGED facts

Serve(s) ==
    /\ sess[s].st = "talk" /\ out[s] # <<>>
    /\ LET frame == Head(out[s])
       IN CASE frame.type = "images" -> ServeImages(s, frame)
            [] frame.type = "certs" -> ServeCertificates(s, frame)
            [] frame.type = "result" -> ServeResult(s, frame)
            [] frame.type = "error" -> /\ sess' = [sess EXCEPT ![s].st = "reported"]
                                       /\ out' = [out EXCEPT ![s] = Tail(@)]
                                       /\ UNCHANGED <<proc, pods, facts>>
    /\ UNCHANGED <<want, pass, inputs, records, policies, seen, busy, cut, world>>

\* The stream of a Pod ends; the Pod is left to the Node's pass.
Detach(a) ==
    /\ sess[a].st # "none" /\ out[a] = <<>> /\ ~proc[a].heard
    /\ sess' = [sess EXCEPT ![a] = NoSess]
    /\ UNCHANGED <<want, pass, objects, seen, proc, out, busy, facts, cut, world>>

-----------------------------------------------------------------------------
(* The pass of a Node: PlannerReconciler.Reconcile and executeWorkerAttempt. *)

Goto(n, pc) == pass' = [pass EXCEPT ![n].pc = pc]
EndPass(n) == pass' = [pass EXCEPT ![n] = IdlePass]

\* contentAddressedPlannerObjectName and workerOutputStore.Lookup
Lookup(n) ==
    /\ pass[n].pc = "idle" /\ want[n] # 0
    /\ LET found == seen.records[want[n]] # NoRecord
       IN pass' = [pass EXCEPT ![n] =
                     [IdlePass EXCEPT !.a = want[n],
                                      !.pc = CASE found -> "final"
                                               [] ~found /\ world.pool -> "acquire"
                                               [] ~found /\ ~world.pool -> "input"]]
    /\ UNCHANGED <<want, objects, seen, planning, busy, facts, cut, world>>

\* PlannerInputConfigMapReconciler.Ensure; a create over an object the cache does
\* not show fails.
EnsureInput(n, input, next) ==
    IF input \in inputs \ seen.inputs
    THEN EndPass(n) /\ UNCHANGED inputs
    ELSE Goto(n, next) /\ inputs' = inputs \cup (IF input \in seen.inputs THEN {} ELSE {input})

StoreInput(n) ==
    /\ pass[n].pc = "input"
    /\ EnsureInput(n, Initial(pass[n].a), "policy")
    /\ UNCHANGED <<want, records, policies, pods, seen, planning, busy, facts, cut, world>>

\* ensurePlannerNetworkPolicy: a pass that created the policy goes no further.
EnsurePolicy(n) ==
    /\ pass[n].pc = "policy"
    /\ LET a == pass[n].a
       IN IF a \in seen.policies
          THEN Goto(n, "pod") /\ UNCHANGED policies
          ELSE EndPass(n) /\ policies' = policies \cup {a}
    /\ UNCHANGED <<want, inputs, records, pods, seen, planning, busy, facts, cut, world>>

\* ensurePlannerPod
EnsurePod(n) ==
    /\ pass[n].pc = "pod"
    /\ LET a == pass[n].a
       IN \/ /\ seen.pods[a] = NoPod /\ pods[a] = NoPod
             /\ pods' = [pods EXCEPT ![a] = StartedPod]
             /\ proc' = [proc EXCEPT ![a] = [NoProc EXCEPT !.st = "reading"]]
             /\ EndPass(n)
          \/ /\ seen.pods[a].phase = "done"
             /\ Goto(n, "harvest")
             /\ UNCHANGED <<pods, proc>>
          \/ /\ (seen.pods[a] = NoPod /\ pods[a] # NoPod) \/ seen.pods[a].phase = "running"
             /\ EndPass(n)
             /\ UNCHANGED <<pods, proc>>
    /\ UNCHANGED <<want, inputs, records, policies, seen, out, sess, busy, facts, cut, world>>

DeletePod(a) == pods' = [pods EXCEPT ![a] = Deleted(@)]

\* The log of the terminated Pod: without a frame the Pod is deleted, a request
\* as last frame is an error, a result must be the accepted one and its
\* certificates be there.
Harvest(n) ==
    /\ pass[n].pc = "harvest"
    /\ LET a == pass[n].a
           log == pods[a].log
       IN \/ /\ log = NoFrame
             /\ DeletePod(a) /\ EndPass(n) /\ UNCHANGED inputs
          \/ /\ log.type \in {"images", "certs"}
             /\ EndPass(n) /\ UNCHANGED <<inputs, pods>>
          \/ /\ log.type = "error"
             /\ pass' = [pass EXCEPT ![n].pc = "persist", ![n].frame = log]
             /\ UNCHANGED <<inputs, pods>>
          \/ /\ log.type = "result" /\ seen.pods[a].accepted # log
             /\ DeletePod(a) /\ EndPass(n) /\ UNCHANGED inputs
          \/ /\ log.type = "result" /\ seen.pods[a].accepted = log
             /\ log.facts.cert # 0 /\ facts.cert = 0
             /\ EndPass(n) /\ UNCHANGED <<inputs, pods>>
          \/ /\ log.type = "result" /\ seen.pods[a].accepted = log
             /\ log.facts.cert = 0 \/ facts.cert # 0
             /\ pass' = [pass EXCEPT ![n].pc = "store", ![n].frame = log]
             /\ UNCHANGED <<inputs, pods>>
    /\ UNCHANGED <<want, records, policies, seen, planning, busy, facts, cut, world>>

ReleaseSessionOnly(n) ==
    /\ busy' = busy
    /\ sess' = [s \in Slots |-> IF s = pass[n].w THEN NoSess ELSE sess[s]]

\* PlannerPool.release; no worker outside the pool
Release(n) ==
    /\ busy' = busy \ {pass[n].w}
    /\ sess' = [s \in Slots |-> IF s = pass[n].w THEN NoSess ELSE sess[s]]

\* The finalized input, then the record: workerOutputStore.Persist.
StoreFinal(n) ==
    /\ pass[n].pc = "store"
    /\ EnsureInput(n, [a |-> pass[n].a, facts |-> pass[n].frame.facts], "persist")
    /\ IF pass'[n].pc = "idle" THEN Release(n) ELSE UNCHANGED <<busy, sess>>
    /\ UNCHANGED <<want, records, policies, pods, seen, proc, out, facts, cut, world>>

AsRecord(frame) ==
    IF frame.type = "result" THEN [kind |-> "plan", facts |-> frame.facts] ELSE [kind |-> "error"]

Persist(n) ==
    /\ pass[n].pc = "persist"
    /\ LET a == pass[n].a
           new == AsRecord(pass[n].frame)
           known == seen.records[a]
       IN IF known = new \/ (known = NoRecord /\ records[a] = NoRecord)
          THEN /\ records' = [records EXCEPT ![a] = IF known = new THEN @ ELSE new]
               /\ Goto(n, IF world.pool THEN "final" ELSE "delete")
          ELSE EndPass(n) /\ UNCHANGED records
    /\ Release(n)
    /\ UNCHANGED <<want, inputs, policies, pods, seen, proc, out, facts, cut, world>>

\* deleteWorkerAttemptArtifacts: the Pod, then the policy
DeleteAttemptPod(n) ==
    /\ pass[n].pc = "delete"
    /\ DeletePod(pass[n].a)
    /\ Goto(n, "open")
    /\ UNCHANGED <<want, inputs, records, policies, seen, planning, busy, facts, cut, world>>

DeleteAttemptPolicy(n) ==
    /\ pass[n].pc = "open"
    /\ policies' = policies \ {pass[n].a}
    /\ Goto(n, "final")
    /\ UNCHANGED <<want, inputs, records, pods, seen, planning, busy, facts, cut, world>>

\* The finalized input of the record must be there; a persisted failure ends the pass.
Final(n) ==
    /\ pass[n].pc = "final"
    /\ LET rec == IF pass[n].frame = NoFrame THEN seen.records[pass[n].a] ELSE AsRecord(pass[n].frame)
       IN IF rec.kind = "plan" /\ [a |-> pass[n].a, facts |-> rec.facts] \in seen.inputs
          THEN pass' = [pass EXCEPT ![n].pc = "check", ![n].frame = Result(rec.facts, 0)]
          ELSE EndPass(n)
    /\ UNCHANGED <<want, objects, seen, planning, busy, facts, cut, world>>

\* revalidateSessionImages and the certificates: facts that moved drop the record
\* (deletePlannerSessionOutput).
Stale(f) == \E i \in Known(f) : f.images[i] # facts.images

Check(n) ==
    /\ pass[n].pc = "check"
    /\ LET used == pass[n].frame.facts
           moved == Stale(used)
           now == IF used.cert = 0 \/ moved THEN facts ELSE Issued(facts)
       IN /\ facts' = now
          /\ IF moved \/ (used.cert # 0 /\ used.cert # now.cert)
             THEN EndPass(n) /\ records' = [records EXCEPT ![pass[n].a] = NoRecord]
             ELSE Goto(n, "pods") /\ UNCHANGED records
    /\ UNCHANGED <<want, inputs, policies, pods, seen, planning, busy, cut, world>>

\* garbageCollectWorkerArtifacts: what the caches list and the converged attempt
\* does not need, kind by kind.
Mine(n, a) == world.owner[a] = n

Swept(n) == {a \in Attempts : Mine(n, a) /\ a # pass[n].a}

\* Mutant: a Pod that still runs is left.
SweepEndedPods(n) ==
    /\ pass[n].pc = "pods"
    /\ pods' = [a \in Attempts |-> IF a \in Swept(n) /\ seen.pods[a].phase = "done" THEN Deleted(pods[a]) ELSE pods[a]]
    /\ Goto(n, "policies")
    /\ UNCHANGED <<want, inputs, records, policies, seen, planning, busy, facts, cut, world>>

SweepPods(n) ==
    /\ pass[n].pc = "pods"
    /\ pods' = [a \in Attempts |-> IF a \in Swept(n) /\ seen.pods[a] # NoPod THEN Deleted(pods[a]) ELSE pods[a]]
    /\ Goto(n, "policies")
    /\ UNCHANGED <<want, inputs, records, policies, seen, planning, busy, facts, cut, world>>

SweepPolicies(n) ==
    /\ pass[n].pc = "policies"
    /\ policies' = policies \ (Swept(n) \cap seen.policies)
    /\ Goto(n, "maps")
    /\ UNCHANGED <<want, inputs, records, pods, seen, planning, busy, facts, cut, world>>

SweepMaps(n) ==
    /\ pass[n].pc = "maps"
    /\ LET kept == [a |-> pass[n].a, facts |-> pass[n].frame.facts]
       IN inputs' = inputs \ {i \in seen.inputs : Mine(n, i.a) /\ i # kept}
    /\ records' = [a \in Attempts |->
                     IF a \in Swept(n) /\ seen.records[a] # NoRecord THEN NoRecord ELSE records[a]]
    /\ EndPass(n)
    /\ UNCHANGED <<want, policies, pods, seen, planning, busy, facts, cut, world>>

-----------------------------------------------------------------------------
(* The pool: PlannerPool.run. *)

\* runPoolProcess: a worker Pod runs one process, which holds its lock to its end.
Locked(w) == proc[w].st # "none"

\* acquire, and the request it starts, which fails while a process of an earlier
\* manager holds the lock.
Acquire(n) ==
    /\ pass[n].pc = "acquire"
    /\ \/ /\ Workers \subseteq busy
          /\ EndPass(n)
          /\ UNCHANGED <<busy, sess, proc, out, cut>>
       \/ \E w \in Workers \ busy :
            /\ busy' = busy \cup {w}
            /\ pass' = [pass EXCEPT ![n].pc = "talk", ![n].w = w]
            /\ IF ~Locked(w)
               THEN /\ proc' = [proc EXCEPT ![w] = [NoProc EXCEPT !.st = "planning", !.a = pass[n].a,
                                                                  !.seq = 1, !.heard = TRUE, !.fed = TRUE]]
                    /\ sess' = [sess EXCEPT ![w] = [NoSess EXCEPT !.st = "talk", !.a = pass[n].a, !.seq = 1]]
                    /\ UNCHANGED cut
               ELSE /\ sess' = [sess EXCEPT ![w] = [NoSess EXCEPT !.st = "lost", !.a = pass[n].a]]
                    /\ cut' = TRUE
                    /\ UNCHANGED proc
            /\ out' = [out EXCEPT ![w] = <<>>]
    /\ UNCHANGED <<want, objects, seen, facts, world>>

\* The conversation ends: an accepted result, a diagnostic, a refusal, or a stream
\* that broke, which is an error of planning once the request had started.
Conclude(n) ==
    /\ pass[n].pc = "talk"
    /\ LET w == pass[n].w
           over == out[w] = <<>> /\ ~proc[w].heard
       IN \/ /\ sess[w].st = "drain" /\ over
             /\ sess[w].facts.cert = 0 \/ facts.cert # 0
             /\ pass' = [pass EXCEPT ![n].pc = "store", ![n].frame = Result(sess[w].facts, 0)]
             /\ UNCHANGED <<busy, sess>>
          \/ /\ sess[w].st = "drain" /\ over
             /\ sess[w].facts.cert # 0 /\ facts.cert = 0
             /\ EndPass(n) /\ Release(n)
          \/ /\ sess[w].st \in {"reported", "lost"} \/ (sess[w].st = "talk" /\ over)
             /\ pass' = [pass EXCEPT ![n].pc = "persist", ![n].frame = Diagnostic]
             /\ UNCHANGED <<busy, sess>>
          \/ /\ sess[w].st \in {"refused", "lost"}
             /\ EndPass(n) /\ Release(n)
    /\ UNCHANGED <<want, objects, seen, proc, out, facts, cut, world>>

-----------------------------------------------------------------------------
(* Caches, and what may happen around planning. *)

\* The caches a world does not list as behind are never behind when they are read.
Current(c) ==
    CASE c = "maps" -> seen.inputs = inputs /\ seen.records = records
      [] c = "pods" -> seen.pods = pods
      [] c = "policies" -> seen.policies = policies
CachesServe == \A c \in Caches \ world.lag : Current(c)

Sync(c) ==
    /\ ~Current(c)
    /\ seen' = CASE c = "maps" -> [seen EXCEPT !.inputs = inputs, !.records = records]
                 [] c = "pods" -> [seen EXCEPT !.pods = pods]
                 [] c = "policies" -> [seen EXCEPT !.policies = policies]
    /\ UNCHANGED <<want, pass, objects, planning, busy, facts, cut, world>>

Happens(kind) == kind \in world.kinds /\ world.left > 0 /\ world' = [world EXCEPT !.left = @ - 1]

\* The Node asks for something else.
Edit(n, a) ==
    /\ Happens("edit") /\ Mine(n, a) /\ want[n] \notin {0, a}
    /\ want' = [want EXCEPT ![n] = a]
    /\ UNCHANGED <<pass, objects, seen, planning, busy, facts, cut>>

\* A tag moves in the registry; the certificate Secret is deleted.
MoveTag ==
    /\ Happens("tag") /\ facts.images < MaxVersion
    /\ facts' = [facts EXCEPT !.images = @ + 1]
    /\ UNCHANGED <<want, pass, objects, seen, planning, busy, cut>>

LoseSecret ==
    /\ Happens("secret") /\ facts.cert # 0 /\ facts.next <= MaxVersion
    /\ facts' = [facts EXCEPT !.cert = 0]
    /\ UNCHANGED <<want, pass, objects, seen, planning, busy, cut>>

\* The grace period is over: the kubelet has stopped what still ran, and the Pod is gone.
Terminate(a) ==
    /\ pods[a].ending
    /\ pods' = [pods EXCEPT ![a] = NoPod]
    /\ proc' = [proc EXCEPT ![a] = NoProc]
    /\ UNCHANGED <<want, pass, inputs, records, policies, seen, out, sess, busy, facts, cut, world>>

\* The process is killed: an eviction, the deadline, memory.
Kill(s) ==
    /\ Happens("kill") /\ proc[s].st # "none"
    /\ proc' = [proc EXCEPT ![s] = NoProc]
    /\ pods' = IF s \in Attempts THEN [pods EXCEPT ![s].phase = "done"] ELSE pods
    /\ cut' = TRUE
    /\ UNCHANGED <<want, pass, inputs, records, policies, seen, out, sess, busy, facts>>

\* activeDeadlineSeconds ends a process nobody attaches to.
Deadline(a) ==
    /\ a \in Attempts /\ proc[a].st = "reading" /\ pods[a].accepted # NoFrame
    /\ proc' = [proc EXCEPT ![a] = NoProc]
    /\ pods' = [pods EXCEPT ![a].phase = "done"]
    /\ UNCHANGED <<want, pass, inputs, records, policies, seen, out, sess, busy, facts, cut, world>>

\* The stream breaks.
Cut(s) ==
    /\ Happens("cut") /\ sess[s].st \in {"talk", "drain"}
    /\ IF s \in Attempts THEN FailAttempt(s)
       ELSE /\ sess' = [sess EXCEPT ![s].st = "lost"]
            /\ proc' = [proc EXCEPT ![s] = Unheard(@)]
            /\ out' = [out EXCEPT ![s] = <<>>]
            /\ UNCHANGED pods
    /\ cut' = TRUE
    /\ UNCHANGED <<want, pass, inputs, records, policies, seen, busy, facts>>

\* A worker of another revision reports a result that the facts it was given do
\* not account for.
Misreport(s) ==
    /\ Happens("skew") /\ proc[s].st = "planning" /\ proc[s].facts # NoFacts
    /\ Exits(s, Result(NoFacts, proc[s].seq))
    /\ UNCHANGED <<want, pass, inputs, records, policies, seen, sess, busy, facts, cut>>

\* The manager is replaced: streams close, memory and caches start anew.
Crash ==
    /\ Happens("crash")
    /\ pass' = [n \in Nodes |-> IdlePass]
    /\ sess' = [s \in Slots |-> NoSess]
    /\ proc' = [s \in Slots |-> Unheard(proc[s])]
    /\ out' = [s \in Slots |-> <<>>]
    /\ busy' = {}
    /\ seen' = [inputs |-> inputs, records |-> records, policies |-> policies, pods |-> pods]
    /\ cut' = (cut \/ \E s \in Slots : proc[s].heard)
    /\ UNCHANGED <<want, objects, facts>>

-----------------------------------------------------------------------------
Init ==
    /\ world \in Worlds
    /\ want = world.want
    /\ pass = [n \in Nodes |-> IdlePass]
    /\ inputs = {}
    /\ records = [a \in Attempts |-> NoRecord]
    /\ policies = {}
    /\ pods = [a \in Attempts |-> NoPod]
    /\ seen = [inputs |-> inputs, records |-> records, policies |-> policies, pods |-> pods]
    /\ proc = [s \in Slots |-> NoProc]
    /\ out = [s \in Slots |-> <<>>]
    /\ sess = [s \in Slots |-> NoSess]
    /\ busy = {}
    /\ facts = [images |-> 1, cert |-> 0, next |-> 1]
    /\ cut = FALSE

PassStep(n) ==
    /\ CachesServe
    /\ \/ Lookup(n) \/ StoreInput(n) \/ EnsurePolicy(n) \/ EnsurePod(n) \/ Harvest(n)
       \/ StoreFinal(n) \/ Persist(n) \/ DeleteAttemptPod(n) \/ DeleteAttemptPolicy(n)
       \/ Final(n) \/ Check(n) \/ SweepPods(n) \/ SweepPolicies(n) \/ SweepMaps(n)
       \/ Acquire(n) \/ Conclude(n)

SessionStep(s) ==
    /\ CachesServe
    /\ \/ s \in Attempts /\ (Attach(s) \/ Detach(s))
       \/ Serve(s)

SlotStep(s) == SessionStep(s) \/ Evaluate(s) \/ LoseInput(s) \/ Deadline(s)

Environment ==
    \/ \E n \in Nodes, a \in Attempts : Edit(n, a)
    \/ \E s \in Slots : Kill(s) \/ Cut(s) \/ Misreport(s)
    \/ MoveTag \/ LoseSecret \/ Crash

Next ==
    \/ \E n \in Nodes : PassStep(n)
    \/ \E s \in Slots : SlotStep(s)
    \/ \E a \in Attempts : Terminate(a)
    \/ \E c \in Caches : Sync(c)
    \/ Environment

Spec == Init /\ [][Next]_vars

\* Every Node is looked at again and again (directRequeueAfter), streams and
\* watches deliver, processes run.  Nothing in the code orders the acceptance of a
\* result, the Pod's end and the cache that shows them: they do not come in the
\* wrong order every single time.
Accepts(a) == /\ sess[a].st = "talk" /\ out[a] # <<>> /\ pods[a].log = Head(out[a])
              /\ SessionStep(a) /\ sess'[a].st = "drain"
Shows(a) == pods[a].phase = "done" /\ pods[a].accepted = pods[a].log /\ Sync("pods")

FairSpec ==
    /\ Spec
    /\ \A n \in Nodes : WF_vars(PassStep(n))
    /\ \A s \in Slots : WF_vars(SlotStep(s))
    /\ WF_vars(\E c \in Caches : Sync(c))
    /\ \A a \in Attempts : WF_vars(Terminate(a)) /\ SF_vars(Accepts(a)) /\ SF_vars(Shows(a))

-----------------------------------------------------------------------------
Frames == {[type |-> "images", set |-> set, seq |-> k] : set \in SUBSET Images, k \in 1..MaxRounds}
          \cup {AskCertificates(k) : k \in 1..MaxRounds}
          \cup {Result(f, k) : f \in Facts, k \in 0..MaxRounds} \cup {Diagnostic, NoFrame}

\* Every variable has its type; what the manager and the process know of a
\* conversation is the same, but for an answer the other has not got.
TypeOK ==
    /\ want \in [Nodes -> Attempts \cup {0}]
    /\ inputs \subseteq Inputs /\ seen.inputs \subseteq Inputs
    /\ records \in [Attempts -> Record] /\ seen.records \in [Attempts -> Record]
    /\ policies \subseteq Attempts /\ seen.policies \subseteq Attempts
    /\ \A a \in Attempts : pods[a].phase \in {"none", "running", "done"} /\ pods[a].log \in Frames
    /\ \A n \in Nodes : pass[n].frame \in Frames /\ pass[n].w \in Workers \cup {0}
    /\ \A s \in Slots : Len(out[s]) <= 2 /\ sess[s].seq <= MaxRequests + 1 /\ proc[s].seq <= MaxRounds + 1
    /\ busy \subseteq Workers
    /\ facts.images \in Versions /\ facts.cert \in Versions /\ facts.next \in 1..MaxVersion + 1
    /\ cut \in BOOLEAN

\* A plan is persisted only if it was computed from every fact planning asks for
\* and from no other, each supplied by the manager in one conversation, whoever
\* reports what through the log of a Pod or the stream of a worker
\* (validateControllerSessionResult, the accepted digest of executeWorkerAttempt).
PlansAreSound ==
    \A a \in Attempts :
        records[a].kind = "plan" =>
            /\ world.ok
            /\ Known(records[a].facts) = Needed
            /\ (records[a].facts.cert # 0) = world.certs

\* The rounds planning needs: one for every discovery at most, one for
\* certificates, and one for the result.
Rounds == Len(world.script) + (IF world.certs THEN 2 ELSE 1)

\* A failure is persisted, and never tried again, only if planning reported it, if
\* it needs more rounds than it has, or if a process, a stream or the manager went
\* away in the middle of a conversation.
FailuresAreReported ==
    \A a \in Attempts : records[a].kind = "error" => cut \/ ~world.ok \/ Rounds > MaxRounds

\* A planner process runs behind its NetworkPolicy until its Pod is told to end: the
\* policy comes first, and goes only after the Pod was deleted, whatever is edited
\* and whenever the manager stops (executeWorkerAttempt, deleteWorkerAttemptArtifacts,
\* the sweep).  The policy is not kept for the grace period of a Pod that is swept
\* while it runs.  Both sides read their caches: where those may be behind there is
\* no such promise.
Isolated ==
    world.lag \cap {"pods", "policies"} = {} =>
        \A a \in Attempts : proc[a].st # "none" /\ a \notin policies => pods[a].ending

\* What planning comes to: the wanted attempt has its record, from facts that are
\* true, and the Node has no other attempt's objects.
Planned(n) ==
    LET rec == records[want[n]]
    IN /\ rec.kind = (IF world.ok THEN "plan" ELSE "error")
       /\ world.ok => ~Stale(rec.facts) /\ rec.facts.cert \in {0, facts.cert}
       /\ world.ok => \A a \in Attempts \ {want[n]} : Mine(n, a) =>
            pods[a] = NoPod /\ a \notin policies /\ records[a] = NoRecord /\ \A i \in inputs : i.a # a

\* A Pod that ended in the middle of a conversation, or whose certificates are gone,
\* is not planned again; nor is a failure that was persisted for what was cut off.
GivenUp(a) ==
    \/ cut /\ records[a].kind = "error"
    \/ cut /\ pods[a].phase = "done" /\ pods[a].log.type \in {"images", "certs"}
    \/ "secret" \in world.kinds /\ pods[a].phase = "done" /\ pods[a].log.type = "result" /\ facts.cert = 0

\* Every Node comes to its plan and stays with it, through edits, tags that move,
\* lost Secrets, caches that are behind, killed processes, broken streams, a
\* replaced manager, and a pool with fewer workers than Nodes.
Converges == <>[](\A n \in Nodes : want[n] # 0 => Planned(n) \/ GivenUp(want[n]))

=============================================================================
