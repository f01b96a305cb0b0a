----------------------- MODULE PlannerSessionProofs -----------------------
(***************************************************************************)
(* The invariant of planning, and why it stands in the steps of a planning *)
(* process, of the session that serves it and of the Pod it runs in        *)
(* (plannersession.go, and the process's side of session.go).              *)
(*                                                                         *)
(* That a plan is complete needs that every result on its way is, or has a *)
(* sequence number that gives it away.  That a failure has a cause needs   *)
(* that the two ends of a conversation agree while its input is open, and  *)
(* that the rounds so far are no more than the answers in the facts, of    *)
(* which there are fewer than rounds.                                      *)
(***************************************************************************)
EXTENDS Planner, WellFoundedInduction, TLAPS

-----------------------------------------------------------------------------
(* Facts, and what a world makes of them. *)

FactSet == [images : [Images -> Nat], cert : Nat]

Needs(w) == UNION {w.script[k] : k \in DOMAIN w.script}
Open(w, f) == {k \in DOMAIN w.script : ~(w.script[k] \subseteq Known(f))}
First(w, f) == {k \in Open(w, f) : \A j \in Open(w, f) : k <= j}

\* The discoveries before the first that is open
Element(S) == CHOOSE k : k \in S
Settled(w, f) == IF Open(w, f) = {} THEN Len(w.script) ELSE Element(First(w, f)) - 1

\* Facts that planning asked for, and all the facts that a plan is made of
Asked(w, f) == Known(f) \subseteq Needs(w) /\ (f.cert # 0 => w.certs)
Complete(w, f) == w.ok /\ Known(f) = Needs(w) /\ (f.cert # 0 <=> w.certs)

\* The answers that went into facts, at most
Answers(w, f) == Settled(w, f) + (IF f.cert = 0 THEN 0 ELSE 1)

\* Planning may fail.
Excused(w, c) == c \/ ~w.ok \/ Len(w.script) + (IF w.certs THEN 2 ELSE 1) > MaxRounds

-----------------------------------------------------------------------------
(* Types. *)

FrameSet == [type : {"images"}, set : SUBSET Images, seq : Nat] \cup [type : {"certs"}, seq : Nat]
            \cup [type : {"result"}, facts : FactSet, seq : Nat] \cup {Diagnostic}
PodSet == [phase : {"none", "running", "done"}, accepted : FrameSet \cup {NoFrame},
           log : FrameSet \cup {NoFrame}, ending : BOOLEAN]
ProcSet == [st : {"none", "reading", "planning", "waiting"}, a : Attempts \cup {0}, facts : FactSet,
            seq : Nat, heard : BOOLEAN, fed : BOOLEAN]
SessSet == [st : {"none", "talk", "drain", "reported", "refused", "lost"}, a : Attempts \cup {0},
            facts : FactSet, seq : Nat]
PassSet == [pc : {"idle", "input", "policy", "pod", "harvest", "store", "persist", "delete", "open",
                  "final", "check", "pods", "policies", "maps", "acquire", "talk"},
            a : Attempts \cup {0}, w : Workers \cup {0}, frame : FrameSet \cup {NoFrame}]
RecordSet == [kind : {"plan"}, facts : FactSet] \cup {[kind |-> "error"], NoRecord}

Types ==
    /\ world \in World /\ want \in [Nodes -> Attempts \cup {0}]
    /\ pass \in [Nodes -> PassSet]
    /\ records \in [Attempts -> RecordSet] /\ pods \in [Attempts -> PodSet]
    /\ seen \in [inputs : SUBSET [a : Attempts \cup {0}, facts : FactSet], records : [Attempts -> RecordSet],
                 policies : SUBSET Attempts, pods : [Attempts -> PodSet]]
    /\ inputs \subseteq [a : Attempts \cup {0}, facts : FactSet] /\ policies \subseteq Attempts
    /\ proc \in [Slots -> ProcSet] /\ sess \in [Slots -> SessSet] /\ out \in [Slots -> Seq(FrameSet)]
    /\ busy \subseteq Workers
    /\ facts \in [images : Nat \ {0}, cert : Nat, next : Nat \ {0}]
    /\ cut \in BOOLEAN

-----------------------------------------------------------------------------
(* The invariant. *)

\* A result is complete, or its sequence number shows that facts are missing.
FrameOK(w, c, f) ==
    /\ f.type = "images" => f.set \subseteq Needs(w)
    /\ f.type = "certs" => w.certs
    /\ f.type = "result" => Complete(w, f.facts) \/ (f.facts = NoFacts /\ f.seq > 1)
    /\ f.type = "error" => Excused(w, c)

ProcOK(w, c, p) ==
    /\ Asked(w, p.facts)
    /\ p.facts # NoFacts => p.seq > 1
    /\ p.st \in {"none", "reading"} => p.facts = NoFacts /\ ~p.heard /\ ~p.fed /\ p.a = 0
    /\ p.st \in {"planning", "waiting"} => p.seq > 0 /\ p.seq <= Answers(w, p.facts) + 1
    /\ p.fed => p.heard
    /\ p.heard /\ ~p.fed => Excused(w, c)

SessOK(w, c, se) ==
    /\ Asked(w, se.facts)
    /\ se.facts = NoFacts => se.seq <= 1
    /\ se.st = "drain" => Complete(w, se.facts)
    /\ se.st \in {"reported", "lost"} => Excused(w, c)

\* While the input is open the two ends of a conversation agree.
Agree(w, p, se, o) ==
    p.fed /\ se.st = "talk" =>
        /\ p.facts = se.facts /\ p.seq = se.seq
        /\ p.st = "planning" => o = <<>>
        /\ p.st = "waiting" =>
              /\ Len(o) = 1 /\ o[1].seq = p.seq
              /\ \/ /\ o[1].type = "images" /\ o[1].set # {} /\ o[1].set \cap Known(p.facts) = {}
                    /\ \E k \in First(w, p.facts) : w.script[k] \subseteq Known(p.facts) \cup o[1].set
                 \/ o[1].type = "certs" /\ p.facts.cert = 0

\* In a Pod of its own, a process is attached to, or was cut off, or reads.
OwnOK(w, c, p, se, o) ==
    /\ se.st = "none" => ~p.heard /\ o = <<>>
    /\ p.st \in {"planning", "waiting"} /\ ~p.fed => Excused(w, c)

\* In a worker, a conversation ends with a report, or was cut off.
PoolOK(w, c, p, se, o) ==
    se.st = "talk" => Excused(w, c) \/ p.heard \/ \E i \in 1..Len(o) : o[i].type \in {"result", "error"}

SlotOK(w, c, s, p, se, o) ==
    /\ ProcOK(w, c, p) /\ SessOK(w, c, se)
    /\ \A i \in 1..Len(o) : FrameOK(w, c, o[i])
    /\ Agree(w, p, se, o)
    /\ s \in Attempts => OwnOK(w, c, p, se, o)
    /\ s \in Workers => PoolOK(w, c, p, se, o)

PodOK(w, c, pod) ==
    /\ pod.log # NoFrame => FrameOK(w, c, pod.log)
    /\ pod.accepted # NoFrame => pod.accepted.type = "result" /\ Complete(w, pod.accepted.facts)

\* A process runs exactly in the Pods that run.
Runs(pod, p) == pod.phase = "running" <=> p.st # "none"

RecordOK(w, c, r) ==
    /\ r.kind = "plan" => Complete(w, r.facts)
    /\ r.kind = "error" => Excused(w, c)

\* What a pass is about to persist
PassOK(w, c, n, p) ==
    /\ p.pc # "idle" => p.a \in Attempts /\ w.owner[p.a] = n
    /\ p.pc = "talk" => p.w \in Workers
    /\ p.pc = "store" => p.frame.type = "result"
    /\ p.pc \in {"store", "persist"} =>
          \/ p.frame.type = "result" /\ Complete(w, p.frame.facts)
          \/ p.frame.type = "error" /\ Excused(w, c)

SlotsOK == \A s \in Slots : SlotOK(world, cut, s, proc[s], sess[s], out[s])
PodsOK == \A a \in Attempts : PodOK(world, cut, pods[a]) /\ PodOK(world, cut, seen.pods[a])
RunsOK == \A a \in Attempts : Runs(pods[a], proc[a])
RecordsOK == \A a \in Attempts : RecordOK(world, cut, records[a])
PassesOK ==
    \A n \in Nodes : PassOK(world, cut, n, pass[n]) /\ (want[n] # 0 => world.owner[want[n]] = n)

Sound == SlotsOK /\ PodsOK /\ RunsOK /\ RecordsOK /\ PassesOK

\* A Pod that runs and was not told to end
Serving(pod) == pod.phase = "running" /\ ~pod.ending

\* A pass has the policy before it starts a Pod, and told the Pods whose policies
\* it deletes to end.
Fenced(w, n, p, pol, pd) ==
    /\ p.pc = "pod" => p.a \in pol
    /\ p.pc = "open" => ~Serving(pd[p.a])
    /\ p.pc = "policies" => \A a \in Attempts : w.owner[a] = n /\ a # p.a => ~Serving(pd[a])

Guarded ==
    world.lag \cap {"pods", "policies"} = {} =>
        /\ \A a \in Attempts : Serving(pods[a]) => a \in policies
        /\ \A n \in Nodes : Fenced(world, n, pass[n], policies, pods)

PlanInv == Types /\ Sound /\ Guarded

-----------------------------------------------------------------------------
(* What facts add up to. *)

\* Who was told nothing knows nothing.
LEMMA NoFactsKnown ==
    NoFacts \in FactSet /\ Known(NoFacts) = {} /\ NoFacts.cert = 0 /\ \A w : Asked(w, NoFacts)
  BY SMT DEF NoFacts, FactSet, Known, Asked

\* A set of numbers has a least one.
LEMMA LeastNumber ==
    ASSUME NEW S \in SUBSET Nat, S # {}
    PROVE  \E k \in S : \A j \in S : k <= j
  <1>1. PICK x \in S : \A y \in S : ~(<<y, x>> \in OpToRel(<, Nat))
    BY NatLessThanWellFounded, WFMin, Zenon
  <1>2. \A y \in S : (y < x) => <<y, x>> \in OpToRel(<, Nat)
    BY Zenon DEF OpToRel
  <1>3. \A y \in S : ~(y < x)
    BY <1>1, <1>2, Zenon
  <1>4. \A y \in S : x <= y
    BY <1>3, SMT
  <1> QED
    BY <1>4, Zenon

\* What planning asks for is the rest of the first discovery it has not made.
LEMMA MissingFacts ==
    ASSUME NEW f, world \in World
    PROVE  /\ Missing(f) \subseteq Needs(world)
           /\ Missing(f) = {} => Open(world, f) = {}
           /\ Missing(f) # {} => \E k \in First(world, f) : world.script[k] \subseteq Known(f) \cup Missing(f)
  <1>1. CASE Open(world, f) = {}
    <2>1. Missing(f) = {}
      BY <1>1, Zenon DEF Missing, Open
    <2> QED
      BY <1>1, <2>1, Zenon
  <1>2. CASE Open(world, f) # {}
    <2>1. world.script \in Seq(SUBSET Images)
      BY SMT DEF World
    <2>2. DOMAIN world.script \subseteq Nat
      BY <2>1, SMT
    <2>3. Open(world, f) \subseteq Nat
      BY <2>2, Zenon DEF Open
    <2> DEFINE first == CHOOSE k \in Open(world, f) : \A j \in Open(world, f) : k <= j
    <2>4. \E k \in Open(world, f) : \A j \in Open(world, f) : k <= j
      BY <1>2, <2>3, LeastNumber, Zenon
    <2>5. first \in Open(world, f) /\ first \in First(world, f)
      BY <2>4, Zenon DEF First
    <2>6. Missing(f) = world.script[first] \ Known(f)
      BY <1>2, Zenon DEF Missing, Open
    <2> HIDE DEF first
    <2>7. first \in DOMAIN world.script /\ ~(world.script[first] \subseteq Known(f))
      BY <2>5, Zenon DEF Open
    <2>8. Missing(f) \subseteq Needs(world) /\ Missing(f) # {}
      BY <2>6, <2>7, Zenon DEF Needs
    <2> QED
      BY <2>5, <2>6, <2>8, Zenon
  <1> QED
    BY <1>1, <1>2, Zenon

LEMMA MissingUnknown == \A f : Missing(f) \cap Known(f) = {}
  BY Zenon DEF Missing

\* A plan that asks for nothing more is made of all its facts.
LEMMA NothingMissing ==
    ASSUME NEW w \in World, NEW f, Asked(w, f), w.ok, Open(w, f) = {}, ~(w.certs /\ f.cert = 0)
    PROVE  Complete(w, f)
  <1>1. Needs(w) \subseteq Known(f)
    BY Zenon DEF Needs, Open
  <1>2. Known(f) = Needs(w)
    BY <1>1, Zenon DEF Asked
  <1> QED
    BY <1>2, Zenon DEF Complete, Asked

LEMMA ScriptLength ==
    ASSUME NEW w \in World
    PROVE  Len(w.script) \in Nat /\ DOMAIN w.script = 1..Len(w.script)
  <1>1. w.script \in Seq(SUBSET Images)
    BY SMT DEF World
  <1> QED
    BY <1>1, SMT

\* The discoveries that are settled are those before the first open one.
LEMMA SettledFacts ==
    ASSUME NEW w \in World, NEW f
    PROVE  /\ Open(w, f) = {} => Settled(w, f) = Len(w.script)
           /\ Open(w, f) # {} => First(w, f) # {}
           /\ \A k \in First(w, f) : k \in 1..Len(w.script) /\ Settled(w, f) = k - 1
           /\ Settled(w, f) \in Nat /\ Settled(w, f) <= Len(w.script)
  <1>1. Len(w.script) \in Nat /\ Open(w, f) \subseteq 1..Len(w.script)
    BY ScriptLength, Zenon DEF Open
  <1>2. Open(w, f) \in SUBSET Nat
    BY <1>1, SMT
  <1>3. Open(w, f) # {} => First(w, f) # {}
    BY <1>2, LeastNumber, Zenon DEF First
  <1>4. ASSUME NEW k \in First(w, f)
        PROVE  k \in 1..Len(w.script) /\ Settled(w, f) = k - 1
    <2> DEFINE m == Element(First(w, f))
    <2>1. m \in First(w, f)
      BY <1>4, Zenon DEF Element
    <2>2. m \in 1..Len(w.script) /\ k \in 1..Len(w.script) /\ m <= k /\ k <= m /\ Open(w, f) # {}
      BY <1>1, <1>4, <2>1, Zenon DEF First
    <2>3. Settled(w, f) = m - 1
      BY <2>2, Zenon DEF Settled
    <2> HIDE DEF m
    <2> QED
      BY <1>1, <2>2, <2>3, SMT
  <1>5. Open(w, f) = {} => Settled(w, f) = Len(w.script)
    BY Zenon DEF Settled
  <1>6. Settled(w, f) \in Nat /\ Settled(w, f) <= Len(w.script)
    <2>1. CASE Open(w, f) = {}
      BY <1>1, <1>5, <2>1, SMT
    <2>2. CASE Open(w, f) # {}
      <3>1. PICK k \in First(w, f) : TRUE
        BY <1>3, <2>2, Zenon
      <3>2. k \in 1..Len(w.script) /\ Settled(w, f) = k - 1
        BY <1>4, <3>1, Zenon
      <3> QED
        BY <1>1, <3>2, SMT
    <2> QED
      BY <2>1, <2>2, Zenon
  <1> QED
    BY <1>3, <1>4, <1>5, <1>6, Zenon

\* Planning never has more answers than a complete conversation.
LEMMA AnswersBound ==
    ASSUME NEW w \in World, NEW f \in FactSet, Asked(w, f)
    PROVE  Answers(w, f) \in Nat /\ Answers(w, f) <= Len(w.script) + (IF w.certs THEN 1 ELSE 0)
  <1>1. f.cert # 0 => w.certs
    BY Zenon DEF Asked
  <1>2. Settled(w, f) \in Nat /\ Len(w.script) \in Nat /\ Settled(w, f) <= Len(w.script)
    BY SettledFacts, ScriptLength, Zenon
  <1> DEFINE certs == IF w.certs THEN 1 ELSE 0
             cert == IF f.cert = 0 THEN 0 ELSE 1
  <1>3. (cert = 0 \/ cert = 1) /\ (certs = 0 \/ certs = 1) /\ (cert = 1 => certs = 1)
    BY <1>1, Zenon
  <1>4. Answers(w, f) = Settled(w, f) + cert
    BY Zenon DEF Answers
  <1> HIDE DEF certs, cert
  <1>5. Answers(w, f) \in Nat /\ Answers(w, f) <= Len(w.script) + certs
    BY <1>2, <1>3, <1>4, SMT
  <1> QED
    BY <1>5, Zenon DEF certs

\* Who knows more has settled no less, and more if the first open discovery is made.
LEMMA SettledGrows ==
    ASSUME NEW w \in World, NEW f, NEW g, Known(f) \subseteq Known(g)
    PROVE  /\ Settled(w, f) <= Settled(w, g)
           /\ (\E k \in First(w, f) : w.script[k] \subseteq Known(g)) => Settled(w, f) + 1 <= Settled(w, g)
  <1>1. Open(w, g) \subseteq Open(w, f)
    BY Zenon DEF Open
  <1>2. Len(w.script) \in Nat
    BY ScriptLength, Zenon
  <1>3. CASE Open(w, g) = {}
    <2>1. Settled(w, g) = Len(w.script) /\ Settled(w, f) \in Nat /\ Settled(w, f) <= Len(w.script)
      BY <1>3, SettledFacts, Zenon
    <2>2. \A k \in First(w, f) : k \in 1..Len(w.script) /\ Settled(w, f) = k - 1
      BY SettledFacts, Zenon
    <2>3. (\E k \in First(w, f) : w.script[k] \subseteq Known(g)) => Settled(w, f) + 1 <= Len(w.script)
      BY <1>2, <2>2, SMT
    <2> QED
      BY <2>1, <2>3, Zenon
  <1>4. CASE Open(w, g) # {}
    <2>1. PICK j \in First(w, g) : j \in 1..Len(w.script) /\ Settled(w, g) = j - 1
      BY <1>4, SettledFacts, Zenon
    <2>2. j \in Open(w, f) /\ ~(w.script[j] \subseteq Known(g))
      BY <1>1, <2>1, Zenon DEF First, Open
    <2>3. PICK i \in First(w, f) : i \in 1..Len(w.script) /\ Settled(w, f) = i - 1
      BY <2>2, SettledFacts, Zenon
    <2>4. i <= j
      BY <2>2, <2>3, Zenon DEF First
    <2>5. ASSUME NEW k \in First(w, f), w.script[k] \subseteq Known(g)
          PROVE  Settled(w, f) + 1 <= Settled(w, g)
      <3>1. k \in 1..Len(w.script) /\ Settled(w, f) = k - 1
        BY SettledFacts, Zenon
      <3>2. k <= j /\ k # j
        BY <2>2, <2>5, Zenon DEF First
      <3> QED
        BY <1>2, <2>1, <3>1, <3>2, SMT
    <2>6. Settled(w, f) <= Settled(w, g)
      BY <1>2, <2>1, <2>3, <2>4, SMT
    <2> QED
      BY <2>5, <2>6, Zenon
  <1> QED
    BY <1>3, <1>4, Zenon

\* An answer that completes the discovery it was asked for counts, and so does a certificate.
LEMMA AnswersGrow ==
    ASSUME NEW w \in World, NEW f \in FactSet, NEW g \in FactSet, Known(f) \subseteq Known(g),
           \/ g.cert = f.cert /\ \E k \in First(w, f) : w.script[k] \subseteq Known(g)
           \/ f.cert = 0 /\ g.cert # 0
    PROVE  Answers(w, f) + 1 <= Answers(w, g)
  <1>1. Settled(w, f) \in Nat /\ Settled(w, g) \in Nat
    BY SettledFacts, Zenon
  <1>2. CASE f.cert = 0 /\ g.cert # 0
    <2>1. Settled(w, f) <= Settled(w, g)
      BY SettledGrows, Zenon
    <2> QED
      BY <1>1, <1>2, <2>1, SMT DEF Answers
  <1>3. CASE g.cert = f.cert /\ \E k \in First(w, f) : w.script[k] \subseteq Known(g)
    <2>1. Settled(w, f) + 1 <= Settled(w, g)
      BY <1>3, SettledGrows, Zenon
    <2> QED
      BY <1>1, <1>3, <2>1, SMT DEF Answers, FactSet
  <1> QED
    BY <1>2, <1>3, Zenon

-----------------------------------------------------------------------------
(* A slot: its process, the manager's end, and what is between them. *)

\* What is absent is well-formed and sound.
LEMMA NoneOK ==
    /\ NoProc \in ProcSet /\ NoSess \in SessSet /\ NoPod \in PodSet /\ StartedPod \in PodSet
    /\ IdlePass \in PassSet /\ NoRecord \in RecordSet
    /\ NoProc.st = "none" /\ ~NoProc.heard /\ ~NoProc.fed /\ NoSess.st = "none" /\ NoSess.seq = 0
    /\ NoSess.facts = NoFacts
    /\ \A w, c : ProcOK(w, c, NoProc) /\ SessOK(w, c, NoSess) /\ PodOK(w, c, NoPod)
                 /\ PodOK(w, c, StartedPod) /\ RecordOK(w, c, NoRecord)
  <1>1. /\ NoProc \in ProcSet /\ NoSess \in SessSet /\ NoPod \in PodSet
        /\ NoRecord \in RecordSet
    BY NoFactsKnown, SMT DEF NoProc, NoSess, NoPod, NoRecord, ProcSet, SessSet, PodSet, RecordSet
  <1>2. NoPod.log = NoFrame /\ NoPod.accepted = NoFrame
    BY Zenon DEF NoPod
  <1>3. IdlePass \in PassSet
    BY SMT DEF IdlePass, PassSet
  <1>4. /\ NoProc.st = "none" /\ ~NoProc.heard /\ ~NoProc.fed /\ NoProc.a = 0 /\ NoProc.facts = NoFacts
        /\ NoSess.st = "none" /\ NoSess.seq = 0 /\ NoSess.facts = NoFacts
    BY Zenon DEF NoProc, NoSess
  <1>5. /\ NoPod.log = NoFrame /\ NoPod.accepted = NoFrame /\ NoRecord.kind = "none"
        /\ StartedPod.log = NoFrame /\ StartedPod.accepted = NoFrame
    <2>1. StartedPod.log = NoPod.log /\ StartedPod.accepted = NoPod.accepted
      BY <1>1, Zenon DEF StartedPod, PodSet
    <2> QED
      BY <1>2, <2>1, Zenon DEF NoRecord
  <1>6. ASSUME NEW w, NEW c PROVE ProcOK(w, c, NoProc) /\ SessOK(w, c, NoSess)
    BY <1>4, NoFactsKnown, SMT DEF ProcOK, SessOK
  <1>7. ASSUME NEW w, NEW c PROVE PodOK(w, c, NoPod) /\ PodOK(w, c, StartedPod) /\ RecordOK(w, c, NoRecord)
    BY <1>5, SMT DEF PodOK, RecordOK
  <1>8. StartedPod \in PodSet
    BY <1>1, Zenon DEF StartedPod, PodSet
  <1> QED
    BY <1>1, <1>3, <1>4, <1>6, <1>7, <1>8, Zenon

\* The process ends, with its report where it is heard.
LEMMA SlotExits ==
    ASSUME NEW w, NEW c, NEW s, NEW p \in ProcSet, NEW se \in SessSet, NEW o \in Seq(FrameSet),
           NEW f \in FrameSet, SlotOK(w, c, s, p, se, o), p.heard => FrameOK(w, c, f), f.type \in {"result", "error"}
    PROVE  SlotOK(w, c, s, NoProc, se, IF p.heard THEN Append(o, f) ELSE o)
  <1>1. CASE ~p.heard
    <2>1. SlotOK(w, c, s, NoProc, se, o)
      BY <1>1, NoneOK, Zenon DEF SlotOK, OwnOK, PoolOK, Agree
    <2> QED
      BY <1>1, <2>1, Zenon
  <1>2. CASE p.heard
    <2> DEFINE q == Append(o, f)
    <2>1. /\ Len(q) = Len(o) + 1 /\ q[Len(q)] = f /\ \A i \in 1..Len(o) : q[i] = o[i]
          /\ Len(o) \in Nat
      BY SMT
    <2> HIDE DEF q
    <2>2. \A i \in 1..Len(q) : FrameOK(w, c, q[i])
      <3>1. \A i \in 1..Len(q) : i = Len(q) \/ i \in 1..Len(o)
        BY <2>1, SMT
      <3> QED
        BY <1>2, <2>1, <3>1, Zenon DEF SlotOK
    <2>3. s \in Attempts => OwnOK(w, c, NoProc, se, q)
      BY <1>2, NoneOK, SMT DEF SlotOK, OwnOK
    <2>4. s \in Workers => PoolOK(w, c, NoProc, se, q)
      <3>1. Len(q) \in 1..Len(q)
        BY <2>1, SMT
      <3> QED
        BY <2>1, <3>1, Zenon DEF PoolOK
    <2>5. SlotOK(w, c, s, NoProc, se, q)
      BY <2>2, <2>3, <2>4, NoneOK, Zenon DEF SlotOK, Agree
    <2> QED
      BY <1>2, <2>5, Zenon DEF q
  <1> QED
    BY <1>1, <1>2, Zenon

\* The process asks.
LEMMA SlotAsks ==
    ASSUME NEW w, NEW c, NEW s, NEW p \in ProcSet, NEW se \in SessSet, NEW o \in Seq(FrameSet),
           NEW f \in FrameSet, SlotOK(w, c, s, p, se, o), FrameOK(w, c, f), p.st = "planning",
           f.seq = p.seq, f.type = "images" => f.set # {} /\ f.set \cap Known(p.facts) = {},
           \/ f.type = "images" /\ \E k \in First(w, p.facts) : w.script[k] \subseteq Known(p.facts) \cup f.set
           \/ f.type = "certs" /\ p.facts.cert = 0
    PROVE  SlotOK(w, c, s, [p EXCEPT !.st = "waiting"], se, IF p.heard THEN Append(o, f) ELSE o)
  <1> DEFINE r == [p EXCEPT !.st = "waiting"]
  <1>1. /\ r.st = "waiting" /\ r.a = p.a /\ r.facts = p.facts /\ r.seq = p.seq
        /\ r.heard = p.heard /\ r.fed = p.fed
    BY Zenon DEF ProcSet
  <1> HIDE DEF r
  <1>2. ProcOK(w, c, r)
    BY <1>1, SMT DEF SlotOK, ProcOK
  <1>3. CASE ~p.heard
    <2>1. ~p.fed
      BY <1>3, Zenon DEF SlotOK, ProcOK
    <2>2. SlotOK(w, c, s, r, se, o)
      BY <1>1, <1>2, <1>3, <2>1, Zenon DEF SlotOK, OwnOK, PoolOK, Agree
    <2> QED
      BY <1>3, <2>2, Zenon DEF r
  <1>4. CASE p.heard
    <2> DEFINE q == Append(o, f)
    <2>1. /\ Len(q) = Len(o) + 1 /\ q[Len(q)] = f /\ \A i \in 1..Len(o) : q[i] = o[i]
          /\ Len(o) \in Nat /\ (o = <<>> => Len(o) = 0)
      BY SMT
    <2> HIDE DEF q
    <2>2. \A i \in 1..Len(q) : FrameOK(w, c, q[i])
      <3>1. \A i \in 1..Len(q) : i = Len(q) \/ i \in 1..Len(o)
        BY <2>1, SMT
      <3> QED
        BY <2>1, <3>1, Zenon DEF SlotOK
    <2>3. s \in Attempts => OwnOK(w, c, r, se, q)
      BY <1>1, <1>4, SMT DEF SlotOK, OwnOK
    <2>4. s \in Workers => PoolOK(w, c, r, se, q)
      BY <1>1, <1>4, Zenon DEF PoolOK
    <2>5. Agree(w, r, se, q)
      <3>1. SUFFICES ASSUME p.fed, se.st = "talk" PROVE Agree(w, r, se, q)
        BY <1>1, Zenon DEF Agree
      <3>2. p.facts = se.facts /\ p.seq = se.seq /\ o = <<>>
        BY <3>1, Zenon DEF SlotOK, Agree
      <3>3. Len(q) = 1 /\ q[1] = f
        BY <2>1, <3>2, SMT
      <3>4. r.st # "planning"
        BY <1>1, SMT
      <3> QED
        BY <1>1, <3>2, <3>3, <3>4, Zenon DEF Agree
    <2>6. SlotOK(w, c, s, r, se, q)
      BY <1>2, <2>2, <2>3, <2>4, <2>5, Zenon DEF SlotOK
    <2> QED
      BY <1>4, <2>6, Zenon DEF q, r
  <1> QED
    BY <1>3, <1>4, Zenon

\* An answer: what it adds counts if the process gets it.
LEMMA SlotAnswered ==
    ASSUME NEW w \in World, NEW c, NEW s, NEW p \in ProcSet, NEW se \in SessSet, NEW o \in Seq(FrameSet),
           NEW g \in FactSet, SlotOK(w, c, s, p, se, o), se.st = "talk", o # <<>>,
           o[1].type \in {"images", "certs"}, Asked(w, g), g # NoFacts, Known(se.facts) \subseteq Known(g),
           o[1].type = "images" => g.cert = se.facts.cert /\ o[1].set \subseteq Known(g),
           o[1].type = "certs" => g.cert # 0
    PROVE  SlotOK(w, c, s,
                  IF p.st = "waiting" /\ p.fed
                  THEN [Told(p, g) EXCEPT !.st = "planning"] ELSE p,
                  Told(se, g), Tail(o))
  <1> DEFINE q == Tail(o)
             t == Told(se, g)
  <1>1. t.st = "talk" /\ t.facts = g /\ t.seq = se.seq + 1 /\ se.seq \in Nat /\ p.seq \in Nat
    BY SMT DEF SessSet, ProcSet, Told
  <1>2. /\ Len(o) = Len(q) + 1 /\ Len(q) \in Nat /\ \A i \in 1..Len(q) : q[i] = o[i + 1]
        /\ q \in Seq(FrameSet)
    BY SMT
  <1>3. (Len(q) = 0 => q = <<>>) /\ (p.st = "planning" => p.st # "waiting")
    BY <1>2, SMT
  <1> HIDE DEF q, t
  <1>4. SessOK(w, c, t)
    BY <1>1, SMT DEF SessOK
  <1>5. \A i \in 1..Len(q) : FrameOK(w, c, q[i])
    <2>1. \A i \in 1..Len(q) : i + 1 \in 1..Len(o)
      BY <1>2, SMT
    <2> QED
      BY <1>2, <2>1, Zenon DEF SlotOK
  <1>6. PoolOK(w, c, p, se, o) => PoolOK(w, c, p, t, q)
    <2>1. SUFFICES ASSUME NEW i \in 1..Len(o), o[i].type \in {"result", "error"}
                   PROVE  \E j \in 1..Len(q) : q[j].type \in {"result", "error"}
      BY <1>1, Zenon DEF PoolOK
    <2>2. i # 1
      BY <2>1, SMT
    <2>3. i - 1 \in 1..Len(q) /\ (i - 1) + 1 = i
      BY <1>2, <2>2, SMT
    <2>4. q[i - 1] = o[i]
      BY <1>2, <2>3, Zenon
    <2> QED
      BY <2>1, <2>3, <2>4, Zenon
  <1>7. OwnOK(w, c, p, t, q) \/ ~(s \in Attempts)
    <2>1. t.st # "none"
      BY <1>1, SMT
    <2> QED
      BY <2>1, Zenon DEF SlotOK, OwnOK
  <1>8. CASE p.st = "waiting" /\ p.fed
    <2> DEFINE r == [Told(p, g) EXCEPT !.st = "planning"]
    <2>1. r.st = "planning" /\ r.facts = g /\ r.seq = p.seq + 1 /\ r.heard = p.heard /\ r.fed = p.fed
      BY Zenon DEF ProcSet, Told
    <2> HIDE DEF r
    <2>2. /\ p.facts = se.facts /\ p.seq = se.seq /\ Len(o) = 1
          /\ \/ o[1].type = "images" /\ \E k \in First(w, p.facts) : w.script[k] \subseteq Known(p.facts) \cup o[1].set
             \/ o[1].type = "certs" /\ p.facts.cert = 0
      BY <1>8, Zenon DEF SlotOK, Agree
    <2>3. Answers(w, p.facts) + 1 <= Answers(w, g)
      <3>1. p.facts \in FactSet
        BY Zenon DEF ProcSet
      <3>2. CASE o[1].type = "certs"
        <4>1. o[1].type # "images"
          BY <3>2, SMT
        <4> QED
          BY <2>2, <3>1, <3>2, <4>1, AnswersGrow, Zenon
      <3>3. CASE o[1].type = "images"
        <4>1. o[1].type # "certs"
          BY <3>3, SMT
        <4>2. \E k \in First(w, p.facts) : w.script[k] \subseteq Known(g)
          BY <2>2, <3>3, <4>1, Zenon
        <4> QED
          BY <2>2, <3>1, <3>3, <4>2, AnswersGrow, Zenon
      <3> QED
        BY <2>2, <3>2, <3>3, Zenon
    <2>4. p.seq > 0 /\ p.seq <= Answers(w, p.facts) + 1 /\ p.heard
      BY <1>8, Zenon DEF SlotOK, ProcOK
    <2>5. Answers(w, p.facts) \in Nat /\ Answers(w, g) \in Nat
      <3>1. p.facts \in FactSet /\ Asked(w, p.facts)
        BY Zenon DEF ProcSet, SlotOK, ProcOK
      <3> QED
        BY <3>1, AnswersBound, Zenon
    <2>6. r.seq > 1 /\ r.seq > 0 /\ r.seq <= Answers(w, g) + 1
      BY <1>1, <2>1, <2>3, <2>4, <2>5, SMT
    <2>7. r.st # "none" /\ r.st # "reading" /\ r.st # "waiting"
      BY <2>1, SMT
    <2>8. ProcOK(w, c, r)
      BY <1>8, <2>1, <2>4, <2>6, <2>7, SMT DEF ProcOK
    <2>9. q = <<>>
      BY <1>2, <1>3, <2>2, SMT
    <2>10. Agree(w, r, t, q)
      BY <1>1, <2>1, <2>2, <2>7, <2>9, Zenon DEF Agree
    <2>11. s \in Attempts => OwnOK(w, c, r, t, q)
      <3>1. t.st # "none"
        BY <1>1, SMT
      <3> QED
        BY <1>8, <2>1, <3>1, Zenon DEF OwnOK
    <2>12. s \in Workers => PoolOK(w, c, r, t, q)
      BY <2>1, <2>4, Zenon DEF PoolOK
    <2>13. SlotOK(w, c, s, r, t, q)
      BY <1>4, <1>5, <2>8, <2>10, <2>11, <2>12, Zenon DEF SlotOK
    <2> QED
      BY <1>8, <2>13, Zenon DEF q, t, r
  <1>9. CASE ~(p.st = "waiting" /\ p.fed)
    <2>1. ~p.fed
      <3>1. SUFFICES ASSUME p.fed PROVE FALSE
        OBVIOUS
      <3>2. p.st # "planning"
        BY <3>1, Zenon DEF SlotOK, Agree
      <3>3. p.st \in {"none", "reading"}
        BY <1>9, <3>1, <3>2, SMT DEF ProcSet
      <3> QED
        BY <3>1, <3>3, Zenon DEF SlotOK, ProcOK
    <2>2. Agree(w, p, t, q)
      BY <2>1, Zenon DEF Agree
    <2>3. SlotOK(w, c, s, p, t, q)
      BY <1>4, <1>5, <1>6, <1>7, <2>2, Zenon DEF SlotOK
    <2> QED
      BY <1>9, <2>3, Zenon DEF q, t
  <1> QED
    BY <1>8, <1>9, Zenon

LEMMA TailFacts ==
    ASSUME NEW o \in Seq(FrameSet), o # <<>>
    PROVE  /\ Len(o) = Len(Tail(o)) + 1 /\ Len(Tail(o)) \in Nat /\ Tail(o) \in Seq(FrameSet)
           /\ \A i \in 1..Len(Tail(o)) : i + 1 \in 1..Len(o) /\ Tail(o)[i] = o[i + 1]
           /\ 1 \in 1..Len(o) /\ Head(o) = o[1] /\ o[1] \in FrameSet
  BY SMT

\* The manager's end settles: the terminal frame was read.
LEMMA SlotSettles ==
    ASSUME NEW w, NEW c, NEW s, NEW p \in ProcSet, NEW se \in SessSet, NEW o \in Seq(FrameSet), o # <<>>,
           SlotOK(w, c, s, p, se, o), NEW t, SessOK(w, c, t), t.st \notin {"none", "talk"}
    PROVE  SlotOK(w, c, s, p, t, Tail(o))
  <1>1. t.st # "none" /\ t.st # "talk"
    BY SMT
  <1>2. \A i \in 1..Len(Tail(o)) : FrameOK(w, c, Tail(o)[i])
    BY TailFacts, Zenon DEF SlotOK
  <1> QED
    BY <1>1, <1>2, Zenon DEF SlotOK, Agree, OwnOK, PoolOK

\* A result that the conversation accounts for is complete.
LEMMA SlotAccepted ==
    ASSUME NEW w, NEW c, NEW s, NEW p \in ProcSet, NEW se \in SessSet, NEW o \in Seq(FrameSet), o # <<>>,
           SlotOK(w, c, s, p, se, o), o[1].type = "result", o[1].facts = se.facts, o[1].seq = se.seq
    PROVE  Complete(w, se.facts) /\ SlotOK(w, c, s, p, [se EXCEPT !.st = "drain"], Tail(o))
  <1> DEFINE t == [se EXCEPT !.st = "drain"]
  <1>1. t.st = "drain" /\ t.facts = se.facts /\ t.seq = se.seq /\ se.seq \in Nat
    BY Zenon DEF SessSet
  <1> HIDE DEF t
  <1>2. Complete(w, se.facts)
    <2>1. FrameOK(w, c, o[1])
      BY TailFacts, Zenon DEF SlotOK
    <2>2. Complete(w, se.facts) \/ (se.facts = NoFacts /\ se.seq > 1)
      BY <2>1, Zenon DEF FrameOK
    <2>3. se.facts = NoFacts => se.seq <= 1
      BY Zenon DEF SlotOK, SessOK
    <2> QED
      BY <1>1, <2>2, <2>3, SMT
  <1>3. t.st \notin {"none", "talk", "reported", "lost"}
    BY <1>1, SMT
  <1>4. SessOK(w, c, t)
    BY <1>1, <1>2, <1>3, Zenon DEF SlotOK, SessOK
  <1> QED
    BY <1>2, <1>3, <1>4, SlotSettles, Zenon DEF t

\* A diagnostic is read from the stream.
LEMMA SlotReported ==
    ASSUME NEW w, NEW c, NEW s, NEW p \in ProcSet, NEW se \in SessSet, NEW o \in Seq(FrameSet), o # <<>>,
           SlotOK(w, c, s, p, se, o), o[1].type = "error"
    PROVE  SlotOK(w, c, s, p, [se EXCEPT !.st = "reported"], Tail(o))
  <1> DEFINE t == [se EXCEPT !.st = "reported"]
  <1>1. t.st = "reported" /\ t.facts = se.facts /\ t.seq = se.seq
    BY Zenon DEF SessSet
  <1> HIDE DEF t
  <1>2. FrameOK(w, c, o[1])
    BY TailFacts, Zenon DEF SlotOK
  <1>3. Excused(w, c)
    BY <1>2, Zenon DEF FrameOK
  <1>4. t.st \notin {"none", "talk", "drain"}
    BY <1>1, SMT
  <1>5. SessOK(w, c, t)
    BY <1>1, <1>3, <1>4, Zenon DEF SlotOK, SessOK
  <1> QED
    BY <1>4, <1>5, SlotSettles, Zenon DEF t

\* A process whose streams were closed goes on.
LEMMA UnheardOK ==
    ASSUME NEW w, NEW c, NEW p \in ProcSet, ProcOK(w, c, p)
    PROVE  /\ Unheard(p) \in ProcSet /\ ProcOK(w, c, Unheard(p))
           /\ ~Unheard(p).heard /\ ~Unheard(p).fed /\ Unheard(p).st = p.st
  <1>1. /\ Unheard(p).st = p.st /\ Unheard(p).facts = p.facts /\ Unheard(p).seq = p.seq
        /\ Unheard(p).a = p.a /\ Unheard(p).heard = FALSE /\ Unheard(p).fed = FALSE
    BY Zenon DEF Unheard, ProcSet
  <1>2. Unheard(p) \in ProcSet
    BY Zenon DEF Unheard, ProcSet
  <1> QED
    BY <1>1, <1>2, Zenon DEF ProcOK

\* A stream of a worker is closed.
LEMMA SlotClosed ==
    ASSUME NEW w, NEW c, NEW s \in Workers, NEW p \in ProcSet, NEW se \in SessSet, NEW o,
           SlotOK(w, c, s, p, se, o), NEW st \in {"refused", "lost"}, st = "lost" => Excused(w, c)
    PROVE  SlotOK(w, c, s, Unheard(p), [se EXCEPT !.st = st], <<>>)
  <1> DEFINE t == [se EXCEPT !.st = st]
  <1>1. t.st = st /\ t.facts = se.facts /\ t.seq = se.seq
    BY Zenon DEF SessSet
  <1> HIDE DEF t
  <1>2. t.st \notin {"none", "talk", "drain", "reported"}
    BY <1>1, SMT
  <1>3. SessOK(w, c, t)
    BY <1>1, <1>2, Zenon DEF SlotOK, SessOK
  <1>4. ~(s \in Attempts)
    BY SlotsAssumption, Zenon
  <1>5. ProcOK(w, c, Unheard(p)) /\ ~Unheard(p).fed
    BY UnheardOK, Zenon DEF SlotOK
  <1>6. \A i \in 1..Len(<<>>) : FrameOK(w, c, <<>>[i])
    BY SMT
  <1>7. SlotOK(w, c, s, Unheard(p), t, <<>>)
    BY <1>2, <1>3, <1>4, <1>5, <1>6, Zenon DEF SlotOK, Agree, PoolOK
  <1> QED
    BY <1>7, Zenon DEF t

\* The end of an attempt, or of its manager's end, or of its process
LEMMA SlotCleared ==
    ASSUME NEW w, NEW c, NEW s PROVE SlotOK(w, c, s, NoProc, NoSess, <<>>)
  <1>1. \A i \in 1..Len(<<>>) : FrameOK(w, c, <<>>[i])
    BY SMT
  <1>2. NoSess.st # "talk" /\ ~(NoProc.st \in {"planning", "waiting"})
    BY NoneOK, SMT
  <1> QED
    BY <1>1, <1>2, NoneOK, Zenon DEF SlotOK, Agree, PoolOK, OwnOK

\* The manager's end is given up.
LEMMA SlotReleased ==
    ASSUME NEW w, NEW c, NEW s, NEW p, NEW se, NEW o, SlotOK(w, c, s, p, se, o),
           s \in Attempts => o = <<>> /\ ~p.heard
    PROVE  SlotOK(w, c, s, p, NoSess, o)
  <1>1. NoSess.st # "talk"
    BY NoneOK, SMT
  <1> QED
    BY <1>1, NoneOK, Zenon DEF SlotOK, Agree, PoolOK, OwnOK

\* A process stops without a word.
LEMMA SlotStopped ==
    ASSUME NEW w, NEW c, NEW s, NEW p, NEW se, NEW o, SlotOK(w, c, s, p, se, o),
           s \in Workers => Excused(w, c)
    PROVE  SlotOK(w, c, s, NoProc, se, o)
  <1>1. ~(NoProc.st \in {"planning", "waiting"})
    BY NoneOK, SMT
  <1> QED
    BY <1>1, NoneOK, Zenon DEF SlotOK, Agree, PoolOK, OwnOK

\* The manager goes away, and its streams with it.
LEMMA SlotCrashed ==
    ASSUME NEW w, NEW c, NEW s, NEW p \in ProcSet, NEW se, NEW o, SlotOK(w, c, s, p, se, o),
           p.heard => Excused(w, c)
    PROVE  SlotOK(w, c, s, Unheard(p), NoSess, <<>>)
  <1>1. ProcOK(w, c, Unheard(p)) /\ ~Unheard(p).fed /\ ~Unheard(p).heard /\ Unheard(p).st = p.st
    BY UnheardOK, Zenon DEF SlotOK
  <1>2. \A i \in 1..Len(<<>>) : FrameOK(w, c, <<>>[i])
    BY SMT
  <1>3. NoSess.st # "talk"
    BY NoneOK, SMT
  <1>4. s \in Attempts /\ p.st \in {"planning", "waiting"} => Excused(w, c)
    BY Zenon DEF SlotOK, OwnOK, ProcOK
  <1> QED
    BY <1>1, <1>2, <1>3, <1>4, NoneOK, Zenon DEF SlotOK, Agree, PoolOK, OwnOK

LEMMA ReadingProc ==
    LET r == [NoProc EXCEPT !.st = "reading"]
    IN  /\ r \in ProcSet /\ r.st = "reading" /\ r.a = 0 /\ r.facts = NoFacts /\ ~r.heard /\ ~r.fed
        /\ \A w, c : ProcOK(w, c, r)
  <1> DEFINE r == [NoProc EXCEPT !.st = "reading"]
  <1>2. r.st = "reading" /\ r.a = 0 /\ r.facts = NoFacts /\ ~r.heard /\ ~r.fed
    BY Zenon DEF NoProc
  <1>3. r \in ProcSet
    <2>1. NoProc \in ProcSet
      BY NoneOK, Zenon
    <2> QED
      BY <2>1, Zenon DEF ProcSet
  <1> HIDE DEF r
  <1>4. ~(r.st \in {"planning", "waiting"})
    BY <1>2, SMT
  <1>5. \A w, c : ProcOK(w, c, r)
    BY <1>2, <1>4, NoFactsKnown, Zenon DEF ProcOK
  <1> QED
    BY <1>2, <1>3, <1>5, Zenon DEF r

\* A process starts in a Pod of its own, and reads.
LEMMA SlotStarted ==
    ASSUME NEW w, NEW c, NEW s \in Attempts, NEW p, NEW se, NEW o, SlotOK(w, c, s, p, se, o)
    PROVE  SlotOK(w, c, s, [NoProc EXCEPT !.st = "reading"], se, o)
  <1> DEFINE r == [NoProc EXCEPT !.st = "reading"]
  <1>1. r.st = "reading" /\ ~r.heard /\ ~r.fed /\ ProcOK(w, c, r)
    BY ReadingProc, Zenon
  <1> HIDE DEF r
  <1>2. ~(r.st \in {"planning", "waiting"}) /\ ~(s \in Workers)
    BY <1>1, SlotsAssumption, SMT
  <1>3. SlotOK(w, c, s, r, se, o)
    BY <1>1, <1>2, Zenon DEF SlotOK, Agree, OwnOK
  <1> QED
    BY <1>3, Zenon DEF r

\* A conversation starts.
LEMMA SlotFresh ==
    ASSUME NEW w \in World, NEW c, NEW s, NEW r, NEW t,
           r.st = "planning", r.facts = NoFacts, r.seq = 1, r.heard, r.fed,
           t.st = "talk", t.facts = NoFacts, t.seq = 1
    PROVE  SlotOK(w, c, s, r, t, <<>>)
  <1>1. r.st \notin {"none", "reading", "waiting"} /\ t.st \notin {"none", "drain", "reported", "lost"}
    BY SMT
  <1>2. \A i \in 1..Len(<<>>) : FrameOK(w, c, <<>>[i])
    BY SMT
  <1>3. Answers(w, NoFacts) \in Nat
    BY NoFactsKnown, AnswersBound, Zenon
  <1>4. r.seq > 0 /\ r.seq <= Answers(w, NoFacts) + 1
    BY <1>3, SMT
  <1>5. ProcOK(w, c, r)
    BY <1>1, <1>4, NoFactsKnown, Zenon DEF ProcOK
  <1>6. t.seq <= 1
    BY SMT
  <1>7. SessOK(w, c, t)
    BY <1>1, <1>6, NoFactsKnown, Zenon DEF SessOK
  <1> QED
    BY <1>1, <1>2, <1>5, <1>7, Zenon DEF SlotOK, Agree, OwnOK, PoolOK

\* A later manager hears a process whose input is closed.
LEMMA SlotReattached ==
    ASSUME NEW w \in World, NEW c, NEW s \in Attempts, NEW p \in ProcSet, NEW se \in SessSet, NEW o, NEW t,
           SlotOK(w, c, s, p, se, o), se.st = "none", p.st \in {"planning", "waiting"},
           t.st = "talk", t.facts = NoFacts, t.seq = 1
    PROVE  SlotOK(w, c, s, [p EXCEPT !.heard = TRUE], t, o)
  <1> DEFINE r == [p EXCEPT !.heard = TRUE]
  <1>1. r.st = p.st /\ r.facts = p.facts /\ r.seq = p.seq /\ r.fed = p.fed /\ r.heard
    BY Zenon DEF ProcSet
  <1> HIDE DEF r
  <1>2. ~p.heard /\ o = <<>>
    BY Zenon DEF SlotOK, OwnOK
  <1>3. ~p.fed
    BY <1>2, Zenon DEF SlotOK, ProcOK
  <1>4. Excused(w, c)
    BY <1>3, Zenon DEF SlotOK, OwnOK
  <1>5. t.st \notin {"none", "drain", "reported", "lost"} /\ p.st \notin {"none", "reading"} /\ ~(s \in Workers)
    BY SlotsAssumption, SMT
  <1>6. ProcOK(w, c, r)
    BY <1>1, <1>3, <1>4, <1>5, Zenon DEF SlotOK, ProcOK
  <1>7. t.seq <= 1
    BY SMT
  <1>8. SessOK(w, c, t)
    BY <1>5, <1>7, NoFactsKnown, Zenon DEF SessOK
  <1>9. SlotOK(w, c, s, r, t, o)
    BY <1>1, <1>3, <1>4, <1>5, <1>6, <1>8, Zenon DEF SlotOK, Agree, OwnOK
  <1> QED
    BY <1>9, Zenon DEF r

\* The worker is still locked.
LEMMA SlotLost ==
    ASSUME NEW w, NEW c, NEW s \in Workers, NEW p, NEW se, NEW o, NEW t,
           SlotOK(w, c, s, p, se, o), Excused(w, c), t.st = "lost", t.facts = NoFacts, t.seq = 0
    PROVE  SlotOK(w, c, s, p, t, <<>>)
  <1>1. t.st \notin {"none", "talk", "drain", "reported"} /\ ~(s \in Attempts) /\ t.seq <= 1
    BY SlotsAssumption, SMT
  <1>2. \A i \in 1..Len(<<>>) : FrameOK(w, c, <<>>[i])
    BY SMT
  <1>3. SessOK(w, c, t)
    BY <1>1, NoFactsKnown, Zenon DEF SessOK
  <1> QED
    BY <1>1, <1>2, <1>3, Zenon DEF SlotOK, Agree, PoolOK

-----------------------------------------------------------------------------
(* What a world says of planning does not change; what was cut off stays so. *)

Same(w, v) ==
    v.script = w.script /\ v.certs = w.certs /\ v.ok = w.ok /\ v.owner = w.owner /\ v.lag = w.lag

LEMMA FramesKept ==
    ASSUME NEW w, NEW v, NEW c, NEW d, Same(w, v), c => d
    PROVE  /\ Excused(w, c) => Excused(v, d)
           /\ \A f : Asked(w, f) => Asked(v, f)
           /\ \A f : Complete(w, f) => Complete(v, f)
           /\ \A f : FrameOK(w, c, f) => FrameOK(v, d, f)
           /\ \A f : First(v, f) = First(w, f) /\ Open(v, f) = Open(w, f) /\ Answers(v, f) = Answers(w, f)
  <1>1. Needs(v) = Needs(w) /\ \A f : Open(v, f) = Open(w, f) /\ First(v, f) = First(w, f)
    BY Zenon DEF Needs, Open, First, Same
  <1>2. Excused(w, c) => Excused(v, d)
    BY Zenon DEF Excused, Same
  <1>3. /\ \A f : Asked(w, f) => Asked(v, f)
        /\ \A f : Complete(w, f) => Complete(v, f)
    BY <1>1, SMT DEF Asked, Complete, Same
  <1>4. \A f : FrameOK(w, c, f) => FrameOK(v, d, f)
    BY <1>1, <1>2, <1>3, Zenon DEF FrameOK, Same
  <1>5. ASSUME NEW f PROVE Answers(v, f) = Answers(w, f)
    <2>1. Open(v, f) = Open(w, f) /\ First(v, f) = First(w, f) /\ v.script = w.script
      BY <1>1, Zenon DEF Same
    <2>2. Settled(v, f) = Settled(w, f)
      BY <2>1, SMT DEF Settled
    <2> QED
      BY <2>2, SMT DEF Answers
  <1> QED
    BY <1>1, <1>2, <1>3, <1>4, <1>5, Zenon

LEMMA SlotKept ==
    ASSUME NEW w, NEW v, NEW c, NEW d, Same(w, v), c => d,
           NEW s, NEW p, NEW se, NEW o, SlotOK(w, c, s, p, se, o)
    PROVE  SlotOK(v, d, s, p, se, o)
  <1>1. ProcOK(v, d, p)
    <2>1. /\ Excused(w, c) => Excused(v, d)
          /\ Asked(w, p.facts) => Asked(v, p.facts)
          /\ Answers(v, p.facts) = Answers(w, p.facts)
      BY FramesKept, Zenon
    <2>2. ProcOK(w, c, p)
      BY Zenon DEF SlotOK
    <2> QED
      BY <2>1, <2>2, Zenon DEF ProcOK
  <1>2. SessOK(v, d, se)
    <2>1. SessOK(w, c, se)
      BY Zenon DEF SlotOK
    <2> QED
      BY <2>1, FramesKept, Zenon DEF SessOK
  <1>3. \A i \in 1..Len(o) : FrameOK(v, d, o[i])
    BY FramesKept, Zenon DEF SlotOK
  <1>4. v.script = w.script /\ \A f : Open(v, f) = Open(w, f) /\ First(v, f) = First(w, f)
    BY FramesKept, Zenon DEF Same
  <1>5. Agree(v, p, se, o)
    <2>1. Agree(w, p, se, o)
      BY Zenon DEF SlotOK
    <2> QED
      BY <1>4, <2>1, SMT DEF Agree
  <1>6. s \in Attempts => OwnOK(v, d, p, se, o)
    BY FramesKept, Zenon DEF SlotOK, OwnOK
  <1>7. s \in Workers => PoolOK(v, d, p, se, o)
    BY FramesKept, Zenon DEF SlotOK, PoolOK
  <1> QED
    BY <1>1, <1>2, <1>3, <1>5, <1>6, <1>7, Zenon DEF SlotOK

LEMMA RestKept ==
    ASSUME NEW w, NEW v, NEW c, NEW d, Same(w, v), c => d
    PROVE  /\ \A x : PodOK(w, c, x) => PodOK(v, d, x)
           /\ \A x : RecordOK(w, c, x) => RecordOK(v, d, x)
           /\ \A n, x : PassOK(w, c, n, x) => PassOK(v, d, n, x)
           /\ v.owner = w.owner /\ v.lag = w.lag
  <1>0. /\ Excused(w, c) => Excused(v, d)
        /\ \A f : Complete(w, f) => Complete(v, f)
        /\ \A f : FrameOK(w, c, f) => FrameOK(v, d, f)
    BY FramesKept, Zenon
  <1>1. ASSUME NEW x, PodOK(w, c, x) PROVE PodOK(v, d, x)
    BY <1>0, <1>1, Zenon DEF PodOK
  <1>2. ASSUME NEW x, RecordOK(w, c, x) PROVE RecordOK(v, d, x)
    BY <1>0, <1>2, Zenon DEF RecordOK
  <1>3. v.owner = w.owner /\ v.lag = w.lag
    BY Zenon DEF Same
  <1>4. ASSUME NEW n, NEW x, PassOK(w, c, n, x) PROVE PassOK(v, d, n, x)
    BY <1>0, <1>3, <1>4, Zenon DEF PassOK
  <1> QED
    BY <1>1, <1>2, <1>3, <1>4, Zenon

-----------------------------------------------------------------------------
(* What a step leaves alone. *)

Stands == Same(world, world') /\ (cut => cut')

LEMMA WorldStands == ASSUME UNCHANGED <<world, cut>> PROVE Stands
  BY Zenon DEF Stands, Same

LEMMA SlotsKept ==
    ASSUME SlotsOK, Stands, UNCHANGED <<proc, sess, out>> PROVE SlotsOK'
  <1>1. ASSUME NEW s \in Slots PROVE SlotOK(world', cut', s, proc[s], sess[s], out[s])
    BY <1>1, SlotKept, Zenon DEF SlotsOK, Stands
  <1> QED
    BY <1>1, Zenon DEF SlotsOK

\* One slot changes, and is sound afterwards.
LEMMA OneSlot ==
    ASSUME SlotsOK, Stands, NEW s \in Slots,
           \A t \in Slots : t # s => proc'[t] = proc[t] /\ sess'[t] = sess[t] /\ out'[t] = out[t],
           SlotOK(world', cut', s, proc'[s], sess'[s], out'[s])
    PROVE  SlotsOK'
  <1>1. ASSUME NEW t \in Slots, t # s PROVE SlotOK(world', cut', t, proc'[t], sess'[t], out'[t])
    <2>1. SlotOK(world', cut', t, proc[t], sess[t], out[t])
      BY SlotKept, Zenon DEF SlotsOK, Stands
    <2> QED
      BY <1>1, <2>1, Zenon
  <1> QED
    BY <1>1, Zenon DEF SlotsOK

LEMMA PodsKept ==
    ASSUME PodsOK, Stands, UNCHANGED <<pods, seen>> PROVE PodsOK'
  <1>1. ASSUME NEW a \in Attempts PROVE PodOK(world', cut', pods[a]) /\ PodOK(world', cut', seen.pods[a])
    BY <1>1, RestKept, Zenon DEF PodsOK, Stands
  <1> QED
    BY <1>1, Zenon DEF PodsOK

\* One Pod changes, and is sound afterwards.
LEMMA OnePod ==
    ASSUME PodsOK, Stands, UNCHANGED seen, NEW a \in Attempts,
           \A b \in Attempts : b # a => pods'[b] = pods[b], PodOK(world', cut', pods'[a])
    PROVE  PodsOK'
  <1>1. ASSUME NEW b \in Attempts PROVE PodOK(world', cut', pods[b]) /\ PodOK(world', cut', seen.pods[b])
    BY <1>1, RestKept, Zenon DEF PodsOK, Stands
  <1> QED
    BY <1>1, Zenon DEF PodsOK

LEMMA RecordsKept ==
    ASSUME RecordsOK, Stands, UNCHANGED records PROVE RecordsOK'
  <1>1. ASSUME NEW a \in Attempts PROVE RecordOK(world', cut', records[a])
    BY <1>1, RestKept, Zenon DEF RecordsOK, Stands
  <1> QED
    BY <1>1, Zenon DEF RecordsOK

LEMMA PassesKept ==
    ASSUME PassesOK, Stands, UNCHANGED <<pass, want>> PROVE PassesOK'
  <1>1. ASSUME NEW n \in Nodes PROVE PassOK(world', cut', n, pass[n]) /\ (want[n] # 0 => world'.owner[want[n]] = n)
    <2>1. PassOK(world, cut, n, pass[n]) /\ (want[n] # 0 => world.owner[want[n]] = n)
      BY <1>1, Zenon DEF PassesOK
    <2>2. (PassOK(world, cut, n, pass[n]) => PassOK(world', cut', n, pass[n])) /\ world'.owner = world.owner
      BY RestKept, Zenon DEF Stands
    <2> QED
      BY <2>1, <2>2, Zenon
  <1> QED
    BY <1>1, Zenon DEF PassesOK

LEMMA OnePassOK ==
    ASSUME PassesOK, Stands, UNCHANGED want, NEW n \in Nodes,
           \A m \in Nodes : m # n => pass'[m] = pass[m], PassOK(world', cut', n, pass'[n])
    PROVE  PassesOK'
  <1>1. ASSUME NEW m \in Nodes PROVE PassOK(world', cut', m, pass[m]) /\ (want[m] # 0 => world'.owner[want[m]] = m)
    <2>1. PassOK(world, cut, m, pass[m]) /\ (want[m] # 0 => world.owner[want[m]] = m)
      BY <1>1, Zenon DEF PassesOK
    <2>2. (PassOK(world, cut, m, pass[m]) => PassOK(world', cut', m, pass[m])) /\ world'.owner = world.owner
      BY RestKept, Zenon DEF Stands
    <2> QED
      BY <2>1, <2>2, Zenon
  <1> QED
    BY <1>1, Zenon DEF PassesOK

\* Steps that start no process, delete no policy and move no pass to where it
\* would do either
LEMMA GuardKept ==
    ASSUME Guarded, Stands, policies \subseteq policies', Types,
           \A a \in Attempts : Serving(pods'[a]) => Serving(pods[a]),
           \A n \in Nodes : pass'[n].pc \in {"pod", "open", "policies"} =>
                                pass'[n].pc = pass[n].pc /\ pass'[n].a = pass[n].a,
           \A n \in Nodes : pass[n].pc = "open" => pass[n].a \in Attempts
    PROVE  Guarded'
  <1>1. world'.lag = world.lag /\ world'.owner = world.owner
    BY Zenon DEF Stands, Same
  <1>2. SUFFICES ASSUME world.lag \cap {"pods", "policies"} = {}
                 PROVE  /\ \A a \in Attempts : Serving(pods'[a]) => a \in policies'
                        /\ \A n \in Nodes : Fenced(world', n, pass'[n], policies', pods')
    BY <1>1, Zenon DEF Guarded
  <1>3. \A a \in Attempts : Serving(pods'[a]) => a \in policies'
    BY <1>2, Zenon DEF Guarded
  <1>4. ASSUME NEW n \in Nodes PROVE Fenced(world', n, pass'[n], policies', pods')
    <2>1. Fenced(world, n, pass[n], policies, pods)
      BY <1>2, <1>4, Zenon DEF Guarded
    <2>2. pass'[n].pc = "pod" => pass'[n].a \in policies'
      BY <1>4, <2>1, Zenon DEF Fenced
    <2>3. pass'[n].pc = "open" => ~Serving(pods'[pass'[n].a])
      BY <1>4, <2>1, Zenon DEF Fenced
    <2>4. pass'[n].pc = "policies" => \A a \in Attempts : world'.owner[a] = n /\ a # pass'[n].a => ~Serving(pods'[a])
      BY <1>1, <1>4, <2>1, Zenon DEF Fenced
    <2> QED
      BY <2>2, <2>3, <2>4, Zenon DEF Fenced
  <1> QED
    BY <1>3, <1>4, Zenon

-----------------------------------------------------------------------------
(* The process. *)

\* A frame is written (Writes).
LEMMA WritesStep ==
    ASSUME Types, PodsOK, Stands, UNCHANGED seen, NEW s \in Slots, NEW f \in FrameSet,
           NEW ph \in {"running", "done"}, Writes(s, f, ph), s \in Attempts => FrameOK(world', cut', f)
    PROVE  /\ out' \in [Slots -> Seq(FrameSet)]
           /\ out'[s] = (IF proc[s].heard THEN Append(out[s], f) ELSE out[s])
           /\ \A t \in Slots : t # s => out'[t] = out[t]
           /\ pods' \in [Attempts -> PodSet]
           /\ s \in Attempts => pods'[s].phase = ph /\ pods'[s].ending = pods[s].ending
           /\ \A a \in Attempts : a # s => pods'[a] = pods[a]
           /\ PodsOK'
  <1>1. out \in [Slots -> Seq(FrameSet)] /\ pods \in [Attempts -> PodSet]
    BY Zenon DEF Types
  <1>2. out[s] \in Seq(FrameSet) /\ Append(out[s], f) \in Seq(FrameSet)
    BY <1>1, SMT
  <1>3. out' = [out EXCEPT ![s] = IF proc[s].heard THEN Append(@, f) ELSE @]
    BY Zenon DEF Writes
  <1>4. /\ out' \in [Slots -> Seq(FrameSet)]
        /\ out'[s] = (IF proc[s].heard THEN Append(out[s], f) ELSE out[s])
        /\ \A t \in Slots : t # s => out'[t] = out[t]
    BY <1>1, <1>2, <1>3, Zenon
  <1>5. CASE ~(s \in Attempts)
    <2>1. UNCHANGED pods
      BY <1>5, Zenon DEF Writes
    <2> QED
      BY <1>1, <1>4, <1>5, <2>1, PodsKept, Zenon
  <1>6. CASE s \in Attempts
    <2>1. pods' = [pods EXCEPT ![s].log = f, ![s].phase = ph]
      BY <1>6, Zenon DEF Writes
    <2>2. pods[s] \in PodSet
      BY <1>1, <1>6, Zenon
    <2>3. /\ pods'[s].log = f /\ pods'[s].phase = ph /\ pods'[s].accepted = pods[s].accepted
          /\ pods'[s].ending = pods[s].ending /\ pods'[s] \in PodSet
      <3>1. pods'[s] = [pods[s] EXCEPT !.log = f, !.phase = ph]
        BY <1>1, <1>6, <2>1, Zenon
      <3>2. /\ pods'[s].log = f /\ pods'[s].phase = ph /\ pods'[s].accepted = pods[s].accepted
            /\ pods'[s].ending = pods[s].ending
        BY <2>2, <3>1, Zenon DEF PodSet
      <3>3. pods'[s] \in PodSet
        BY <2>2, <3>1, Zenon DEF PodSet
      <3> QED
        BY <3>2, <3>3, Zenon
    <2>4. \A a \in Attempts : a # s => pods'[a] = pods[a]
      BY <1>1, <2>1, Zenon
    <2>5. pods' \in [Attempts -> PodSet]
      BY <1>1, <1>6, <2>1, <2>3, <2>4, SMT
    <2>6. PodOK(world', cut', pods'[s])
      <3>1. PodOK(world', cut', pods[s])
        BY <1>6, RestKept, Zenon DEF PodsOK, Stands
      <3> QED
        BY <1>6, <2>3, <3>1, Zenon DEF PodOK
    <2>7. PodsOK'
      BY <1>6, <2>4, <2>6, OnePod, Zenon
    <2> QED
      BY <1>4, <2>3, <2>4, <2>5, <2>7, Zenon
  <1> QED
    BY <1>5, <1>6, Zenon

\* What the process does, it does in its slot.
ProcStep ==
    /\ SlotsOK' /\ PodsOK' /\ RunsOK'
    /\ out' \in [Slots -> Seq(FrameSet)] /\ pods' \in [Attempts -> PodSet] /\ proc' \in [Slots -> ProcSet]
    /\ \A a \in Attempts : Serving(pods'[a]) => Serving(pods[a])

\* A process writes its last frame and ends (Exits).
LEMMA ExitsStep ==
    ASSUME Types, Sound, Stands, UNCHANGED <<seen, sess>>, NEW s \in Slots, NEW f \in FrameSet,
           f.type \in {"result", "error"}, Exits(s, f),
           s \in Attempts \/ proc[s].heard => FrameOK(world', cut', f)
    PROVE  ProcStep
  <1>1. Writes(s, f, "done") /\ proc' = [proc EXCEPT ![s] = NoProc]
    BY Zenon DEF Exits
  <1>2. proc \in [Slots -> ProcSet] /\ sess \in [Slots -> SessSet] /\ out \in [Slots -> Seq(FrameSet)]
    BY Zenon DEF Types
  <1>3. PodsOK
    BY Zenon DEF Sound
  <1>4. /\ out' \in [Slots -> Seq(FrameSet)]
        /\ out'[s] = (IF proc[s].heard THEN Append(out[s], f) ELSE out[s])
        /\ \A t \in Slots : t # s => out'[t] = out[t]
        /\ pods' \in [Attempts -> PodSet]
        /\ s \in Attempts => pods'[s].phase = "done"
        /\ \A a \in Attempts : a # s => pods'[a] = pods[a]
        /\ PodsOK'
    BY <1>1, <1>3, WritesStep, Zenon
  <1>5. /\ proc' \in [Slots -> ProcSet] /\ proc'[s] = NoProc
        /\ \A t \in Slots : t # s => proc'[t] = proc[t]
    BY <1>1, <1>2, NoneOK, Zenon
  <1>6. SlotsOK'
    <2>1. SlotOK(world', cut', s, proc[s], sess[s], out[s])
      BY SlotKept, Zenon DEF Sound, SlotsOK, Stands
    <2>2. SlotOK(world', cut', s, NoProc, sess[s], IF proc[s].heard THEN Append(out[s], f) ELSE out[s])
      BY <1>2, <2>1, SlotExits, Zenon
    <2>3. SlotOK(world', cut', s, proc'[s], sess'[s], out'[s])
      BY <1>4, <1>5, <2>2, Zenon
    <2> QED
      BY <1>4, <1>5, <2>3, OneSlot, Zenon DEF Sound
  <1>7. RunsOK'
    <2>1. ASSUME NEW a \in Attempts PROVE Runs(pods'[a], proc'[a])
      <3>1. CASE a = s
        <4>1. pods'[a].phase = "done" /\ proc'[a].st = "none"
          BY <1>4, <1>5, <2>1, <3>1, NoneOK, Zenon
        <4>2. pods'[a].phase # "running"
          BY <4>1, SMT
        <4> QED
          BY <4>1, <4>2, Zenon DEF Runs
      <3>2. CASE a # s
        <4>1. a \in Slots
          BY <2>1, Zenon DEF Slots
        <4>2. pods'[a] = pods[a] /\ proc'[a] = proc[a]
          BY <1>4, <1>5, <2>1, <3>2, <4>1, Zenon
        <4> QED
          BY <2>1, <4>2, Zenon DEF Sound, RunsOK
      <3> QED
        BY <3>1, <3>2, Zenon
    <2> QED
      BY <2>1, Zenon DEF RunsOK
  <1>8. \A a \in Attempts : Serving(pods'[a]) => Serving(pods[a])
    <2>1. s \in Attempts => pods'[s].phase # "running"
      BY <1>4, SMT
    <2> QED
      BY <1>4, <2>1, Zenon DEF Serving
  <1> QED
    BY <1>4, <1>5, <1>6, <1>7, <1>8, Zenon DEF ProcStep

\* A process asks and waits (Asks).
LEMMA AsksStep ==
    ASSUME Types, Sound, UNCHANGED <<seen, sess, world, cut>>, NEW s \in Slots, NEW f \in FrameSet,
           proc[s].st = "planning", Asks(s, f), FrameOK(world, cut, f), f.seq = proc[s].seq,
           f.type = "images" => f.set # {} /\ f.set \cap Known(proc[s].facts) = {},
           \/ f.type = "images" /\ \E k \in First(world, proc[s].facts) :
                                      world.script[k] \subseteq Known(proc[s].facts) \cup f.set
           \/ f.type = "certs" /\ proc[s].facts.cert = 0
    PROVE  ProcStep
  <1>1. Writes(s, f, "running") /\ proc' = [proc EXCEPT ![s].st = "waiting"]
    BY Zenon DEF Asks
  <1>2. proc \in [Slots -> ProcSet] /\ sess \in [Slots -> SessSet] /\ out \in [Slots -> Seq(FrameSet)]
    BY Zenon DEF Types
  <1>3. PodsOK /\ Stands
    BY WorldStands, Zenon DEF Sound
  <1>4. /\ out' \in [Slots -> Seq(FrameSet)]
        /\ out'[s] = (IF proc[s].heard THEN Append(out[s], f) ELSE out[s])
        /\ \A t \in Slots : t # s => out'[t] = out[t]
        /\ pods' \in [Attempts -> PodSet]
        /\ s \in Attempts => pods'[s].phase = "running" /\ pods'[s].ending = pods[s].ending
        /\ \A a \in Attempts : a # s => pods'[a] = pods[a]
        /\ PodsOK'
    BY <1>1, <1>3, WritesStep, Zenon
  <1>5. /\ proc'[s] = [proc[s] EXCEPT !.st = "waiting"]
        /\ \A t \in Slots : t # s => proc'[t] = proc[t]
    BY <1>1, <1>2, Zenon
  <1>6. proc[s] \in ProcSet
    BY <1>2, Zenon
  <1>7. proc'[s] \in ProcSet /\ proc'[s].st = "waiting" /\ proc'[s].st # "none"
    BY <1>5, <1>6, SMT DEF ProcSet
  <1>8. proc' \in [Slots -> ProcSet]
    BY <1>1, <1>2, <1>5, <1>7, SMT
  <1>9. SlotsOK'
    <2>1. SlotOK(world, cut, s, proc[s], sess[s], out[s])
      BY Zenon DEF Sound, SlotsOK
    <2>2. SlotOK(world, cut, s, [proc[s] EXCEPT !.st = "waiting"], sess[s],
                 IF proc[s].heard THEN Append(out[s], f) ELSE out[s])
      BY <1>2, <2>1, SlotAsks, Zenon
    <2>3. SlotOK(world', cut', s, proc'[s], sess'[s], out'[s])
      BY <1>4, <1>5, <2>2, Zenon
    <2> QED
      BY <1>3, <1>4, <1>5, <2>3, OneSlot, Zenon DEF Sound
  <1>10. RunsOK'
    <2>1. ASSUME NEW a \in Attempts PROVE Runs(pods'[a], proc'[a])
      <3>1. CASE a = s
        BY <1>4, <1>7, <2>1, <3>1, Zenon DEF Runs
      <3>2. CASE a # s
        <4>1. a \in Slots
          BY <2>1, Zenon DEF Slots
        <4>2. pods'[a] = pods[a] /\ proc'[a] = proc[a]
          BY <1>4, <1>5, <2>1, <3>2, <4>1, Zenon
        <4> QED
          BY <2>1, <4>2, Zenon DEF Sound, RunsOK
      <3> QED
        BY <3>1, <3>2, Zenon
    <2> QED
      BY <2>1, Zenon DEF RunsOK
  <1>11. \A a \in Attempts : Serving(pods'[a]) => Serving(pods[a])
    <2>1. proc[s].st # "none"
      BY SMT
    <2>2. s \in Attempts => pods[s].phase = "running"
      BY <2>1, Zenon DEF Sound, RunsOK, Runs
    <2> QED
      BY <1>4, <2>2, Zenon DEF Serving
  <1> QED
    BY <1>4, <1>8, <1>9, <1>10, <1>11, Zenon DEF ProcStep

\* What is left of a step of a process
LEMMA ProcStepKeeps ==
    ASSUME PlanInv, Stands, ProcStep, world' \in World, cut' \in BOOLEAN,
           UNCHANGED <<want, pass, inputs, records, policies, seen, sess, busy, facts>>
    PROVE  PlanInv'
  <1>1. Types'
    BY Zenon DEF PlanInv, Types, ProcStep
  <1>2. RecordsOK' /\ PassesOK'
    BY RecordsKept, PassesKept, Zenon DEF PlanInv, Sound
  <1>3. Sound'
    BY <1>2, Zenon DEF Sound, ProcStep
  <1>4. \A n \in Nodes : pass[n].pc = "open" => pass[n].a \in Attempts
    <2>1. ASSUME NEW n \in Nodes, pass[n].pc = "open" PROVE pass[n].pc # "idle"
      BY <2>1, SMT
    <2> QED
      BY <2>1, Zenon DEF PlanInv, Sound, PassesOK, PassOK
  <1>5. \A a \in Attempts : Serving(pods'[a]) => Serving(pods[a])
    BY Zenon DEF ProcStep
  <1>6. Guarded'
    BY <1>4, <1>5, GuardKept, Zenon DEF PlanInv
  <1> QED
    BY <1>1, <1>3, <1>6, Zenon DEF PlanInv

LEMMA DiagnosticForm == Diagnostic \in FrameSet /\ Diagnostic.type = "error"
  BY Zenon DEF FrameSet, Diagnostic

LEMMA ImagesForm ==
    ASSUME NEW set \in SUBSET Images, NEW k \in Nat
    PROVE  /\ AskImages(set, k) \in FrameSet /\ AskImages(set, k).type = "images"
           /\ AskImages(set, k).set = set /\ AskImages(set, k).seq = k
  BY Zenon DEF FrameSet, AskImages

LEMMA CertificatesForm ==
    ASSUME NEW k \in Nat
    PROVE  AskCertificates(k) \in FrameSet /\ AskCertificates(k).type = "certs" /\ AskCertificates(k).seq = k
  BY Zenon DEF FrameSet, AskCertificates

LEMMA ResultForm ==
    ASSUME NEW g \in FactSet, NEW k \in Nat
    PROVE  /\ Result(g, k) \in FrameSet /\ Result(g, k).type = "result"
           /\ Result(g, k).facts = g /\ Result(g, k).seq = k
  BY Zenon DEF FrameSet, Result

LEMMA NeedsImages ==
    ASSUME NEW w \in World PROVE Needs(w) \subseteq Images
  <1>1. w.script \in Seq(SUBSET Images)
    BY SMT DEF World
  <1>2. \A k \in DOMAIN w.script : w.script[k] \subseteq Images
    BY <1>1, SMT
  <1> QED
    BY <1>2, Zenon DEF Needs

\* A diagnostic is an error, whoever finds an excuse for it.
LEMMA DiagnosticOK ==
    ASSUME NEW w, NEW c, Excused(w, c) PROVE FrameOK(w, c, Diagnostic)
  <1>1. Diagnostic.type \notin {"images", "certs", "result"}
    BY DiagnosticForm, SMT
  <1> QED
    BY <1>1, Zenon DEF FrameOK

\* Planning that runs out of rounds needs more than it has.
LEMMA RoundsExcuse ==
    ASSUME NEW w \in World, NEW c, NEW p \in ProcSet, ProcOK(w, c, p), p.st \in {"planning", "waiting"},
           p.seq > MaxRounds
    PROVE  Excused(w, c)
  <1>1. p.facts \in FactSet /\ p.seq \in Nat
    BY Zenon DEF ProcSet
  <1>2. Asked(w, p.facts) /\ p.seq <= Answers(w, p.facts) + 1
    BY Zenon DEF ProcOK
  <1> DEFINE certs == IF w.certs THEN 1 ELSE 0
             more == IF w.certs THEN 2 ELSE 1
  <1>3. (more = 1 /\ certs = 0) \/ (more = 2 /\ certs = 1)
    BY Zenon
  <1>4. Answers(w, p.facts) \in Nat /\ Answers(w, p.facts) <= Len(w.script) + certs
    BY <1>1, <1>2, AnswersBound, Zenon
  <1>5. Len(w.script) \in Nat /\ MaxRounds \in Nat
    <2>1. Len(w.script) \in Nat
      BY ScriptLength, Zenon
    <2> QED
      BY <2>1, BoundsAssumption, SMT
  <1> HIDE DEF certs, more
  <1>6. Len(w.script) + more > MaxRounds
    BY <1>1, <1>2, <1>3, <1>4, <1>5, SMT
  <1> QED
    BY <1>6, Zenon DEF Excused, more

\* What a process in a slot is, from the invariant
LEMMA SlotFacts ==
    ASSUME PlanInv, NEW s \in Slots
    PROVE  /\ world \in World /\ cut \in BOOLEAN
           /\ proc[s] \in ProcSet /\ sess[s] \in SessSet /\ out[s] \in Seq(FrameSet)
           /\ proc[s].facts \in FactSet /\ proc[s].seq \in Nat
           /\ sess[s].facts \in FactSet /\ sess[s].seq \in Nat
           /\ SlotOK(world, cut, s, proc[s], sess[s], out[s])
           /\ ProcOK(world, cut, proc[s]) /\ SessOK(world, cut, sess[s])
  <1>1. /\ world \in World /\ cut \in BOOLEAN
        /\ proc[s] \in ProcSet /\ sess[s] \in SessSet /\ out[s] \in Seq(FrameSet)
    BY Zenon DEF PlanInv, Types
  <1>2. SlotOK(world, cut, s, proc[s], sess[s], out[s])
    BY Zenon DEF PlanInv, Sound, SlotsOK
  <1>3. /\ proc[s].facts \in FactSet /\ proc[s].seq \in Nat
        /\ sess[s].facts \in FactSet /\ sess[s].seq \in Nat
    BY <1>1, Zenon DEF ProcSet, SessSet
  <1> QED
    BY <1>1, <1>2, <1>3, Zenon DEF SlotOK

LEMMA DiagnosticExits ==
    ASSUME Types, Sound, Stands, UNCHANGED <<seen, sess>>, NEW s \in Slots, Exits(s, Diagnostic),
           s \in Attempts \/ proc[s].heard => Excused(world', cut')
    PROVE  ProcStep
  <1>1. Diagnostic \in FrameSet /\ Diagnostic.type \in {"result", "error"}
    BY DiagnosticForm, Zenon
  <1>2. s \in Attempts \/ proc[s].heard => FrameOK(world', cut', Diagnostic)
    BY DiagnosticOK, Zenon
  <1> QED
    BY <1>1, <1>2, ExitsStep, Zenon

LEMMA StepEvaluate ==
    ASSUME PlanInv, NEW s \in Slots, Evaluate(s) PROVE PlanInv'
  <1> DEFINE p == proc[s]
  <1>1. /\ world \in World /\ cut \in BOOLEAN /\ p \in ProcSet /\ p.facts \in FactSet /\ p.seq \in Nat
        /\ ProcOK(world, cut, p) /\ Types /\ Sound
    BY SlotFacts, Zenon DEF PlanInv
  <1>2. /\ p.st = "planning"
        /\ UNCHANGED <<want, pass, inputs, records, policies, seen, sess, busy, facts, cut, world>>
    BY Zenon DEF Evaluate
  <1>3. Stands /\ Asked(world, p.facts)
    BY <1>1, <1>2, WorldStands, Zenon DEF ProcOK
  <1> SUFFICES ProcStep
    BY <1>1, <1>2, <1>3, ProcStepKeeps, Zenon
  <1>4. CASE p.seq > MaxRounds /\ Exits(s, Diagnostic)
    <2>1. Excused(world', cut')
      BY <1>1, <1>2, <1>4, RoundsExcuse, Zenon
    <2> QED
      BY <1>1, <1>2, <1>3, <1>4, <2>1, DiagnosticExits, Zenon
  <1>5. CASE Missing(p.facts) # {} /\ Asks(s, AskImages(Missing(p.facts), p.seq))
    <2> DEFINE f == AskImages(Missing(p.facts), p.seq)
    <2>1. /\ Missing(p.facts) \subseteq Needs(world)
          /\ \E k \in First(world, p.facts) : world.script[k] \subseteq Known(p.facts) \cup Missing(p.facts)
      BY <1>1, <1>5, MissingFacts, Zenon
    <2>2. Missing(p.facts) \in SUBSET Images
      BY <1>1, <2>1, NeedsImages, Zenon
    <2>3. f \in FrameSet /\ f.type = "images" /\ f.set = Missing(p.facts) /\ f.seq = p.seq
      BY <1>1, <2>2, ImagesForm, Zenon
    <2> HIDE DEF f
    <2>4. f.type \notin {"certs", "result", "error"}
      BY <2>3, SMT
    <2>5. FrameOK(world, cut, f)
      BY <2>1, <2>3, <2>4, Zenon DEF FrameOK
    <2>6. Asks(s, f)
      BY <1>5, Zenon DEF f
    <2>7. f.set # {} /\ f.set \cap Known(p.facts) = {}
      BY <1>5, <2>3, MissingUnknown, Zenon
    <2> QED
      BY <1>1, <1>2, <2>1, <2>3, <2>5, <2>6, <2>7, AsksStep, Zenon
  <1>6. CASE world.certs /\ p.facts.cert = 0 /\ Asks(s, AskCertificates(p.seq))
    <2> DEFINE f == AskCertificates(p.seq)
    <2>1. f \in FrameSet /\ f.type = "certs" /\ f.seq = p.seq
      BY <1>1, CertificatesForm, Zenon
    <2> HIDE DEF f
    <2>2. f.type \notin {"images", "result", "error"}
      BY <2>1, SMT
    <2>3. FrameOK(world, cut, f)
      BY <1>6, <2>1, <2>2, Zenon DEF FrameOK
    <2>4. Asks(s, f)
      BY <1>6, Zenon DEF f
    <2> QED
      BY <1>1, <1>2, <1>6, <2>1, <2>2, <2>3, <2>4, AsksStep, Zenon
  <1>7. CASE /\ Missing(p.facts) = {} /\ ~(world.certs /\ p.facts.cert = 0) /\ world.ok
             /\ Exits(s, Result(p.facts, p.seq))
    <2> DEFINE f == Result(p.facts, p.seq)
    <2>1. f \in FrameSet /\ f.type = "result" /\ f.facts = p.facts
      BY <1>1, ResultForm, Zenon
    <2> HIDE DEF f
    <2>2. f.type \notin {"images", "certs", "error"}
      BY <2>1, SMT
    <2>3. Open(world, p.facts) = {}
      BY <1>1, <1>7, MissingFacts, Zenon
    <2>4. Complete(world, p.facts)
      BY <1>1, <1>3, <1>7, <2>3, NothingMissing, Zenon
    <2>5. FrameOK(world', cut', f)
      BY <1>2, <2>1, <2>2, <2>4, Zenon DEF FrameOK
    <2>6. Exits(s, f)
      BY <1>7, Zenon DEF f
    <2> QED
      BY <1>1, <1>2, <1>3, <2>1, <2>5, <2>6, ExitsStep, Zenon
  <1>8. CASE ~world.ok /\ Exits(s, Diagnostic)
    <2>1. Excused(world', cut')
      BY <1>2, <1>8, Zenon DEF Excused
    <2> QED
      BY <1>1, <1>2, <1>3, <1>8, <2>1, DiagnosticExits, Zenon
  <1> QED
    BY <1>4, <1>5, <1>6, <1>7, <1>8, Zenon DEF Evaluate

LEMMA StepLoseInput ==
    ASSUME PlanInv, NEW s \in Slots, LoseInput(s) PROVE PlanInv'
  <1>1. /\ world \in World /\ cut \in BOOLEAN /\ Types /\ Sound
        /\ SlotOK(world, cut, s, proc[s], sess[s], out[s]) /\ ProcOK(world, cut, proc[s])
    BY SlotFacts, Zenon DEF PlanInv
  <1>2. /\ proc[s].st = "waiting" /\ ~proc[s].fed /\ Exits(s, Diagnostic)
        /\ UNCHANGED <<want, pass, inputs, records, policies, seen, sess, busy, facts, cut, world>>
    BY Zenon DEF LoseInput
  <1>3. s \in Attempts => Excused(world, cut)
    BY <1>1, <1>2, Zenon DEF SlotOK, OwnOK
  <1>4. proc[s].heard => Excused(world, cut)
    BY <1>1, <1>2, Zenon DEF ProcOK
  <1>5. s \in Attempts \/ proc[s].heard => Excused(world', cut')
    BY <1>2, <1>3, <1>4, Zenon
  <1>6. Stands
    BY <1>2, WorldStands, Zenon
  <1>7. ProcStep
    BY <1>1, <1>2, <1>5, <1>6, DiagnosticExits, Zenon
  <1> QED
    BY <1>1, <1>2, <1>6, <1>7, ProcStepKeeps, Zenon

\* What happens around planning changes how often more may happen.
LEMMA HappensStands ==
    ASSUME PlanInv, NEW kind, Happens(kind), cut => cut'
    PROVE  world' \in World /\ Stands /\ Same(world, world')
  <1>1. world' = [world EXCEPT !.left = @ - 1] /\ world.left > 0 /\ world \in World
    BY Zenon DEF Happens, PlanInv, Types
  <1>2. world.left \in Nat
    BY <1>1, Zenon DEF World
  <1>3. world.left - 1 \in Nat
    BY <1>1, <1>2, SMT
  <1>4. Same(world, world')
    BY <1>1, Zenon DEF World, Same
  <1>5. world' \in World
    BY <1>1, <1>3, Zenon DEF World
  <1> QED
    BY <1>4, <1>5, Zenon DEF Stands

LEMMA StepMisreport ==
    ASSUME PlanInv, NEW s \in Slots, Misreport(s) PROVE PlanInv'
  <1>1. /\ cut \in BOOLEAN /\ Types /\ Sound /\ proc[s].seq \in Nat /\ ProcOK(world, cut, proc[s])
    BY SlotFacts, Zenon DEF PlanInv
  <1>2. /\ Happens("skew") /\ proc[s].facts # NoFacts /\ Exits(s, Result(NoFacts, proc[s].seq))
        /\ UNCHANGED <<want, pass, inputs, records, policies, seen, sess, busy, facts, cut>>
    BY Zenon DEF Misreport
  <1>3. world' \in World /\ Stands
    BY <1>2, HappensStands, Zenon
  <1> DEFINE f == Result(NoFacts, proc[s].seq)
  <1>4. f \in FrameSet /\ f.type = "result" /\ f.facts = NoFacts /\ f.seq = proc[s].seq
    BY <1>1, NoFactsKnown, ResultForm, Zenon
  <1>5. Exits(s, f)
    BY <1>2, Zenon
  <1> HIDE DEF f
  <1>6. f.type \notin {"images", "certs", "error"}
    BY <1>4, SMT
  <1>7. f.seq > 1
    BY <1>1, <1>2, <1>4, Zenon DEF ProcOK
  <1>8. FrameOK(world', cut', f)
    BY <1>4, <1>6, <1>7, Zenon DEF FrameOK
  <1>9. ProcStep
    BY <1>1, <1>2, <1>3, <1>4, <1>5, <1>8, ExitsStep, Zenon
  <1> QED
    BY <1>1, <1>2, <1>3, <1>9, ProcStepKeeps, Zenon

\* Processes end without a word, and their Pods with them.
LEMMA StopsStep ==
    ASSUME Types, Sound, Stands, UNCHANGED <<seen, sess, out>>, NEW S \in SUBSET Slots,
           proc' = [s \in Slots |-> IF s \in S THEN NoProc ELSE proc[s]],
           pods' \in [Attempts -> PodSet],
           \A a \in Attempts : ~(a \in S) => pods'[a] = pods[a],
           \A a \in Attempts : a \in S => pods'[a].phase # "running" /\ PodOK(world', cut', pods'[a]),
           S \cap Workers # {} => Excused(world', cut')
    PROVE  ProcStep
  <1>1. proc \in [Slots -> ProcSet] /\ out \in [Slots -> Seq(FrameSet)]
    BY Zenon DEF Types
  <1>2. proc' \in [Slots -> ProcSet]
    BY <1>1, NoneOK, Zenon
  <1>3. SlotsOK'
    <2>1. ASSUME NEW s \in Slots PROVE SlotOK(world', cut', s, proc'[s], sess'[s], out'[s])
      <3>1. SlotOK(world', cut', s, proc[s], sess[s], out[s])
        BY <2>1, SlotKept, Zenon DEF Sound, SlotsOK, Stands
      <3>2. CASE s \in S
        <4>1. s \in Workers => Excused(world', cut')
          BY <3>2, Zenon
        <4>2. SlotOK(world', cut', s, NoProc, sess[s], out[s])
          BY <3>1, <4>1, SlotStopped, Zenon
        <4>3. proc'[s] = NoProc /\ sess'[s] = sess[s] /\ out'[s] = out[s]
          BY <2>1, <3>2, Zenon
        <4> QED
          BY <4>2, <4>3, Zenon
      <3>3. CASE ~(s \in S)
        <4>1. proc'[s] = proc[s] /\ sess'[s] = sess[s] /\ out'[s] = out[s]
          BY <2>1, <3>3, Zenon
        <4> QED
          BY <3>1, <4>1, Zenon
      <3> QED
        BY <3>2, <3>3, Zenon
    <2> QED
      BY <2>1, Zenon DEF SlotsOK
  <1>4. PodsOK'
    <2>1. ASSUME NEW a \in Attempts PROVE PodOK(world', cut', pods[a]) /\ PodOK(world', cut', seen.pods[a])
      <3>1. \A x : PodOK(world, cut, x) => PodOK(world', cut', x)
        BY RestKept, Zenon DEF Stands
      <3> QED
        BY <2>1, <3>1, Zenon DEF PodsOK, Sound
    <2> QED
      BY <2>1, Zenon DEF PodsOK
  <1>5. RunsOK'
    <2>1. ASSUME NEW a \in Attempts PROVE Runs(pods'[a], proc'[a])
      <3>1. a \in Slots
        BY <2>1, Zenon DEF Slots
      <3>2. CASE a \in S
        <4>1. proc'[a].st = "none" /\ pods'[a].phase # "running"
          BY <2>1, <3>1, <3>2, NoneOK, Zenon
        <4> QED
          BY <4>1, Zenon DEF Runs
      <3>3. CASE ~(a \in S)
        <4>1. proc'[a] = proc[a] /\ pods'[a] = pods[a]
          BY <2>1, <3>1, <3>3, Zenon
        <4> QED
          BY <2>1, <4>1, Zenon DEF Sound, RunsOK
      <3> QED
        BY <3>2, <3>3, Zenon
    <2> QED
      BY <2>1, Zenon DEF RunsOK
  <1>6. \A a \in Attempts : Serving(pods'[a]) => Serving(pods[a])
    BY Zenon DEF Serving
  <1> QED
    BY <1>1, <1>2, <1>3, <1>4, <1>5, <1>6, Zenon DEF ProcStep

\* What a Delete leaves of a Pod does not serve.
LEMMA DeletedPod ==
    ASSUME NEW w, NEW c, NEW pod \in PodSet, PodOK(w, c, pod)
    PROVE  /\ Deleted(pod) \in PodSet /\ PodOK(w, c, Deleted(pod)) /\ ~Serving(Deleted(pod))
           /\ Deleted(pod).phase = "running" <=> pod.phase = "running"
  <1>1. CASE pod.phase = "running"
    <2>1. Deleted(pod) = [pod EXCEPT !.ending = TRUE]
      BY <1>1, Zenon DEF Deleted
    <2>2. /\ Deleted(pod) \in PodSet /\ Deleted(pod).ending /\ Deleted(pod).phase = pod.phase
          /\ Deleted(pod).log = pod.log /\ Deleted(pod).accepted = pod.accepted
      BY <2>1, Zenon DEF PodSet
    <2> QED
      BY <2>2, Zenon DEF PodOK, Serving
  <1>2. CASE pod.phase # "running"
    <2>1. Deleted(pod) = NoPod
      BY <1>2, Zenon DEF Deleted
    <2>2. NoPod.phase # "running"
      BY SMT DEF NoPod
    <2> QED
      BY <1>2, <2>1, <2>2, NoneOK, Zenon DEF Serving
  <1> QED
    BY <1>1, <1>2, Zenon

\* Pods are deleted: their processes go on for now.
LEMMA DeletePodsStep ==
    ASSUME Types, Sound, Stands, UNCHANGED <<seen, proc, sess, out>>, NEW S \in SUBSET Attempts,
           pods' = [a \in Attempts |-> IF a \in S THEN Deleted(pods[a]) ELSE pods[a]]
    PROVE  ProcStep /\ \A a \in S : ~Serving(pods'[a])
  <1>1. proc \in [Slots -> ProcSet] /\ pods \in [Attempts -> PodSet] /\ out \in [Slots -> Seq(FrameSet)]
    BY Zenon DEF Types
  <1>2. ASSUME NEW a \in Attempts
        PROVE  /\ pods'[a] \in PodSet /\ PodOK(world', cut', pods'[a]) /\ PodOK(world', cut', seen.pods[a])
               /\ pods'[a].phase = "running" <=> pods[a].phase = "running"
               /\ a \in S => ~Serving(pods'[a])
               /\ Serving(pods'[a]) => Serving(pods[a])
    <2>1. pods[a] \in PodSet
      BY <1>1, <1>2, Zenon
    <2>2. PodOK(world', cut', pods[a]) /\ PodOK(world', cut', seen.pods[a])
      BY <1>2, RestKept, Zenon DEF PodsOK, Sound, Stands
    <2>3. CASE a \in S
      <3>1. pods'[a] = Deleted(pods[a])
        BY <1>2, <2>3, Zenon
      <3> QED
        BY <2>1, <2>2, <3>1, DeletedPod, Zenon
    <2>4. CASE ~(a \in S)
      <3>1. pods'[a] = pods[a]
        BY <1>2, <2>4, Zenon
      <3> QED
        BY <2>1, <2>2, <2>4, <3>1, Zenon
    <2> QED
      BY <2>3, <2>4, Zenon
  <1>3. pods' \in [Attempts -> PodSet]
    BY <1>2, SMT
  <1>4. PodsOK'
    BY <1>2, Zenon DEF PodsOK
  <1>5. RunsOK'
    BY <1>2, Zenon DEF Sound, RunsOK, Runs
  <1>6. SlotsOK'
    BY SlotsKept, Zenon DEF Sound
  <1> QED
    BY <1>1, <1>2, <1>3, <1>4, <1>5, <1>6, Zenon DEF ProcStep

LEMMA DeletePodStep ==
    ASSUME Types, Sound, Stands, UNCHANGED <<seen, proc, sess, out>>, NEW a \in Attempts, DeletePod(a)
    PROVE  ProcStep /\ ~Serving(pods'[a])
  <1>1. pods' = [pods EXCEPT ![a] = Deleted(pods[a])] /\ pods \in [Attempts -> PodSet]
    BY Zenon DEF DeletePod, Types
  <1>2. pods' = [b \in Attempts |-> IF b \in {a} THEN Deleted(pods[b]) ELSE pods[b]]
    BY <1>1, Zenon
  <1>3. {a} \in SUBSET Attempts /\ a \in {a}
    BY Zenon
  <1> QED
    BY <1>2, <1>3, DeletePodsStep, Zenon

\* A Pod is gone, its process with it.
LEMMA StepTerminate ==
    ASSUME PlanInv, NEW a \in Attempts, Terminate(a) PROVE PlanInv'
  <1>1. proc \in [Slots -> ProcSet] /\ pods \in [Attempts -> PodSet] /\ a \in Slots
    BY Zenon DEF PlanInv, Types, Slots
  <1>2. /\ pods' = [pods EXCEPT ![a] = NoPod] /\ proc' = [proc EXCEPT ![a] = NoProc]
        /\ UNCHANGED <<want, pass, inputs, records, policies, seen, out, sess, busy, facts, cut, world>>
    BY Zenon DEF Terminate
  <1>3. proc' = [s \in Slots |-> IF s \in {a} THEN NoProc ELSE proc[s]]
    BY <1>1, <1>2, Zenon
  <1>4. pods' \in [Attempts -> PodSet] /\ pods'[a] = NoPod /\ \A b \in Attempts : ~(b \in {a}) => pods'[b] = pods[b]
    BY <1>1, <1>2, NoneOK, Zenon
  <1>5. NoPod.phase # "running"
    BY SMT DEF NoPod
  <1>6. \A b \in Attempts : b \in {a} => pods'[b].phase # "running" /\ PodOK(world', cut', pods'[b])
    BY <1>4, <1>5, NoneOK, Zenon
  <1>7. {a} \cap Workers = {} /\ {a} \in SUBSET Slots
    BY <1>1, SlotsAssumption, Zenon
  <1>8. Stands /\ world' \in World /\ cut' \in BOOLEAN
    BY <1>2, WorldStands, Zenon DEF PlanInv, Types
  <1>9. ProcStep
    BY <1>2, <1>3, <1>4, <1>6, <1>7, <1>8, StopsStep, Zenon DEF PlanInv
  <1> QED
    BY <1>2, <1>8, <1>9, ProcStepKeeps, Zenon

\* The process of a slot ends and leaves its Pod behind.
LEMMA EndsStep ==
    ASSUME Types, Sound, Stands, UNCHANGED <<seen, sess, out>>, NEW s \in Slots,
           proc' = [proc EXCEPT ![s] = NoProc],
           pods' = IF s \in Attempts THEN [pods EXCEPT ![s].phase = "done"] ELSE pods,
           s \in Workers => Excused(world', cut')
    PROVE  ProcStep
  <1>1. proc \in [Slots -> ProcSet] /\ pods \in [Attempts -> PodSet]
    BY Zenon DEF Types
  <1>2. proc' = [t \in Slots |-> IF t \in {s} THEN NoProc ELSE proc[t]]
    BY <1>1, Zenon
  <1>3. /\ pods' \in [Attempts -> PodSet]
        /\ \A b \in Attempts : ~(b \in {s}) => pods'[b] = pods[b]
        /\ \A b \in Attempts : b \in {s} => pods'[b].phase # "running" /\ PodOK(world', cut', pods'[b])
    <2>1. CASE ~(s \in Attempts)
      BY <1>1, <2>1, Zenon
    <2>2. CASE s \in Attempts
      <3> DEFINE d == [pods[s] EXCEPT !.phase = "done"]
      <3>1. pods' = [pods EXCEPT ![s] = d] /\ pods[s] \in PodSet
        BY <1>1, <2>2, Zenon
      <3>2. d \in PodSet /\ d.phase = "done" /\ d.log = pods[s].log /\ d.accepted = pods[s].accepted
        BY <3>1, Zenon DEF PodSet
      <3> HIDE DEF d
      <3>3. pods' \in [Attempts -> PodSet] /\ pods'[s] = d /\ \A b \in Attempts : ~(b \in {s}) => pods'[b] = pods[b]
        BY <1>1, <2>2, <3>1, <3>2, Zenon
      <3>4. d.phase # "running"
        BY <3>2, SMT
      <3>5. PodOK(world', cut', pods[s])
        BY <2>2, RestKept, Zenon DEF PodsOK, Sound, Stands
      <3>6. PodOK(world', cut', d)
        BY <3>2, <3>5, Zenon DEF PodOK
      <3> QED
        BY <3>3, <3>4, <3>6, Zenon
    <2> QED
      BY <2>1, <2>2, Zenon
  <1>4. {s} \in SUBSET Slots /\ ({s} \cap Workers # {} => Excused(world', cut'))
    BY Zenon
  <1> QED
    BY <1>2, <1>3, <1>4, StopsStep, Zenon

LEMMA StepKill ==
    ASSUME PlanInv, NEW s \in Slots, Kill(s) PROVE PlanInv'
  <1>1. /\ Happens("kill") /\ cut' = TRUE /\ proc' = [proc EXCEPT ![s] = NoProc]
        /\ pods' = IF s \in Attempts THEN [pods EXCEPT ![s].phase = "done"] ELSE pods
        /\ UNCHANGED <<want, pass, inputs, records, policies, seen, out, sess, busy, facts>>
    BY Zenon DEF Kill
  <1>2. world' \in World /\ Stands
    BY <1>1, HappensStands, Zenon
  <1>3. Excused(world', cut') /\ cut' \in BOOLEAN
    BY <1>1, Zenon DEF Excused
  <1>4. ProcStep
    BY <1>1, <1>2, <1>3, EndsStep, Zenon DEF PlanInv
  <1> QED
    BY <1>1, <1>2, <1>3, <1>4, ProcStepKeeps, Zenon

LEMMA StepDeadline ==
    ASSUME PlanInv, NEW s \in Slots, Deadline(s) PROVE PlanInv'
  <1>1. /\ s \in Attempts /\ proc' = [proc EXCEPT ![s] = NoProc]
        /\ pods' = IF s \in Attempts THEN [pods EXCEPT ![s].phase = "done"] ELSE pods
        /\ UNCHANGED <<want, pass, inputs, records, policies, seen, out, sess, busy, facts, cut, world>>
    BY Zenon DEF Deadline
  <1>2. Stands /\ ~(s \in Workers) /\ world' \in World /\ cut' \in BOOLEAN
    BY <1>1, WorldStands, SlotsAssumption, Zenon DEF PlanInv, Types
  <1>3. ProcStep
    BY <1>1, <1>2, EndsStep, Zenon DEF PlanInv
  <1> QED
    BY <1>1, <1>2, <1>3, ProcStepKeeps, Zenon

-----------------------------------------------------------------------------
(* The manager's end. *)

TalkStep == ProcStep /\ sess' \in [Slots -> SessSet]

\* A step of the two ends of a conversation keeps the invariant.
LEMMA TalkKeeps ==
    ASSUME PlanInv, Stands, TalkStep, world' \in World, cut' \in BOOLEAN,
           facts' \in [images : Nat \ {0}, cert : Nat, next : Nat \ {0}],
           UNCHANGED <<want, pass, inputs, records, policies, seen, busy>>
    PROVE  PlanInv'
  <1>1. Types'
    BY Zenon DEF PlanInv, Types, ProcStep, TalkStep
  <1>2. RecordsOK' /\ PassesOK'
    BY RecordsKept, PassesKept, Zenon DEF PlanInv, Sound
  <1>3. Sound'
    BY <1>2, Zenon DEF Sound, ProcStep, TalkStep
  <1>4. \A n \in Nodes : pass[n].pc = "open" => pass[n].a \in Attempts
    <2>1. ASSUME NEW n \in Nodes, pass[n].pc = "open" PROVE pass[n].pc # "idle"
      BY <2>1, SMT
    <2> QED
      BY <2>1, Zenon DEF PlanInv, Sound, PassesOK, PassOK
  <1>5. \A a \in Attempts : Serving(pods'[a]) => Serving(pods[a])
    BY Zenon DEF ProcStep, TalkStep
  <1>6. Guarded'
    BY <1>4, <1>5, GuardKept, Zenon DEF PlanInv
  <1> QED
    BY <1>1, <1>3, <1>6, Zenon DEF PlanInv

LEMMA OneSlotStep ==
    ASSUME Sound, Stands, UNCHANGED seen, NEW s \in Slots,
           proc' \in [Slots -> ProcSet], sess' \in [Slots -> SessSet], out' \in [Slots -> Seq(FrameSet)],
           pods' \in [Attempts -> PodSet],
           \A t \in Slots : t # s => proc'[t] = proc[t] /\ sess'[t] = sess[t] /\ out'[t] = out[t],
           \A a \in Attempts : a # s => pods'[a] = pods[a],
           SlotOK(world', cut', s, proc'[s], sess'[s], out'[s]),
           s \in Attempts => /\ PodOK(world', cut', pods'[s]) /\ Runs(pods'[s], proc'[s])
                             /\ Serving(pods'[s]) => Serving(pods[s])
    PROVE  TalkStep
  <1>1. SlotsOK'
    BY OneSlot, Zenon DEF Sound
  <1>2. PodsOK'
    <2>1. ASSUME NEW a \in Attempts PROVE PodOK(world', cut', pods[a]) /\ PodOK(world', cut', seen.pods[a])
      <3>1. PodOK(world, cut, pods[a]) /\ PodOK(world, cut, seen.pods[a])
        BY <2>1, Zenon DEF PodsOK, Sound
      <3> QED
        BY <3>1, RestKept, Zenon DEF Stands
    <2> QED
      BY <2>1, Zenon DEF PodsOK
  <1>3. RunsOK'
    <2>1. ASSUME NEW a \in Attempts, a # s PROVE Runs(pods'[a], proc'[a])
      <3>1. a \in Slots
        BY <2>1, Zenon DEF Slots
      <3> QED
        BY <2>1, <3>1, Zenon DEF Sound, RunsOK
    <2> QED
      BY <2>1, Zenon DEF RunsOK
  <1>4. \A a \in Attempts : Serving(pods'[a]) => Serving(pods[a])
    BY Zenon
  <1> QED
    BY <1>1, <1>2, <1>3, <1>4, Zenon DEF TalkStep, ProcStep

LEMMA EmptyStream == <<>> \in Seq(FrameSet)
  BY SMT

\* failAttempt: the stream closes and the Pod is deleted. A process that was heard
\* then is cut off.
LEMMA FailAttemptStep ==
    ASSUME Types, Sound, Stands, UNCHANGED seen, NEW s \in Attempts, FailAttempt(s),
           proc[s].heard => Excused(world', cut')
    PROVE  TalkStep
  <1>1. /\ proc \in [Slots -> ProcSet] /\ pods \in [Attempts -> PodSet] /\ sess \in [Slots -> SessSet]
        /\ out \in [Slots -> Seq(FrameSet)] /\ s \in Slots /\ <<>> \in Seq(FrameSet)
        /\ proc[s] \in ProcSet /\ pods[s] \in PodSet
    BY EmptyStream, Zenon DEF Types, Slots
  <1>2. /\ pods' = [pods EXCEPT ![s] = Deleted(pods[s])] /\ proc' = [proc EXCEPT ![s] = Unheard(proc[s])]
        /\ out' = [out EXCEPT ![s] = <<>>] /\ sess' = [sess EXCEPT ![s] = NoSess]
    BY Zenon DEF FailAttempt
  <1>3. SlotOK(world', cut', s, proc[s], sess[s], out[s])
    BY <1>1, SlotKept, Zenon DEF Stands, Sound, SlotsOK
  <1>4. Unheard(proc[s]) \in ProcSet /\ Unheard(proc[s]).st = proc[s].st
    BY <1>1, <1>3, UnheardOK, Zenon DEF SlotOK
  <1>5. PodOK(world', cut', pods[s])
    BY RestKept, Zenon DEF PodsOK, Sound, Stands
  <1>6. /\ Deleted(pods[s]) \in PodSet /\ PodOK(world', cut', Deleted(pods[s])) /\ ~Serving(Deleted(pods[s]))
        /\ Deleted(pods[s]).phase = "running" <=> pods[s].phase = "running"
    BY <1>1, <1>5, DeletedPod, Zenon
  <1>7. /\ proc' \in [Slots -> ProcSet] /\ sess' \in [Slots -> SessSet] /\ out' \in [Slots -> Seq(FrameSet)]
        /\ pods' \in [Attempts -> PodSet]
    BY <1>1, <1>2, <1>4, <1>6, NoneOK, Zenon
  <1>8. /\ \A t \in Slots : t # s => proc'[t] = proc[t] /\ sess'[t] = sess[t] /\ out'[t] = out[t]
        /\ \A a \in Attempts : a # s => pods'[a] = pods[a]
        /\ proc'[s] = Unheard(proc[s]) /\ sess'[s] = NoSess /\ out'[s] = <<>> /\ pods'[s] = Deleted(pods[s])
    BY <1>1, <1>2, Zenon
  <1>9. SlotOK(world', cut', s, Unheard(proc[s]), NoSess, <<>>)
    BY <1>1, <1>3, SlotCrashed, Zenon
  <1>10. SlotOK(world', cut', s, proc'[s], sess'[s], out'[s])
    BY <1>8, <1>9, Zenon
  <1>11. Runs(pods[s], proc[s])
    BY Zenon DEF Sound, RunsOK
  <1>12. Runs(pods'[s], proc'[s]) /\ PodOK(world', cut', pods'[s]) /\ ~Serving(pods'[s])
    BY <1>4, <1>6, <1>8, <1>11, Zenon DEF Runs
  <1> QED
    BY <1>1, <1>7, <1>8, <1>10, <1>12, OneSlotStep, Zenon

\* The stream of a worker is closed.
LEMMA ClosedStep ==
    ASSUME PlanInv, Stands, UNCHANGED <<seen, pods>>, NEW s \in Workers, NEW st \in {"refused", "lost"},
           st = "lost" => Excused(world', cut'),
           sess' = [sess EXCEPT ![s].st = st], proc' = [proc EXCEPT ![s] = Unheard(@)],
           out' = [out EXCEPT ![s] = <<>>]
    PROVE  TalkStep
  <1>1. /\ proc \in [Slots -> ProcSet] /\ pods \in [Attempts -> PodSet] /\ sess \in [Slots -> SessSet]
        /\ out \in [Slots -> Seq(FrameSet)] /\ s \in Slots /\ <<>> \in Seq(FrameSet)
        /\ proc[s] \in ProcSet /\ sess[s] \in SessSet
    BY EmptyStream, Zenon DEF PlanInv, Types, Slots
  <1>2. SlotOK(world, cut, s, proc[s], sess[s], out[s]) /\ ProcOK(world, cut, proc[s])
    BY <1>1, SlotFacts, Zenon
  <1>3. SlotOK(world', cut', s, proc[s], sess[s], out[s])
    BY <1>2, SlotKept, Zenon DEF Stands
  <1>4. Unheard(proc[s]) \in ProcSet /\ Unheard(proc[s]).st = proc[s].st
    BY <1>1, <1>2, UnheardOK, Zenon
  <1>5. /\ \A t \in Slots : t # s => proc'[t] = proc[t] /\ sess'[t] = sess[t] /\ out'[t] = out[t]
        /\ proc'[s] = Unheard(proc[s]) /\ sess'[s] = [sess[s] EXCEPT !.st = st] /\ out'[s] = <<>>
    BY <1>1, Zenon
  <1>6. [sess[s] EXCEPT !.st = st] \in SessSet
    BY <1>1, Zenon DEF SessSet
  <1>7. proc' \in [Slots -> ProcSet] /\ sess' \in [Slots -> SessSet] /\ out' \in [Slots -> Seq(FrameSet)]
    BY <1>1, <1>4, <1>6, Zenon
  <1>8. SlotOK(world', cut', s, Unheard(proc[s]), [sess[s] EXCEPT !.st = st], <<>>)
    BY <1>1, <1>3, SlotClosed, Zenon
  <1>9. SlotOK(world', cut', s, proc'[s], sess'[s], out'[s])
    BY <1>5, <1>8, Zenon
  <1>10. ~(s \in Attempts) /\ pods' \in [Attempts -> PodSet]
    BY <1>1, SlotsAssumption, Zenon
  <1> QED
    BY <1>1, <1>4, <1>5, <1>7, <1>9, <1>10, OneSlotStep, Zenon DEF PlanInv

\* What a process that can still be answered says is not refused.
LEMMA RefusalExcused ==
    ASSUME NEW w \in World, NEW c, NEW s, NEW p \in ProcSet, NEW se \in SessSet, NEW o,
           SlotOK(w, c, s, p, se, o), se.st = "talk", o # <<>>, p.heard,
           \/ o[1].type = "result"
           \/ o[1].type = "images"
              /\ ~(o[1].seq = se.seq /\ o[1].seq <= MaxRequests /\ o[1].set # {}
                   /\ o[1].set \cap Known(se.facts) = {})
           \/ o[1].type = "certs"
              /\ ~(o[1].seq = se.seq /\ o[1].seq <= MaxRequests /\ se.facts.cert = 0)
    PROVE  Excused(w, c)
  <1>1. ProcOK(w, c, p) /\ Agree(w, p, se, o)
    BY Zenon DEF SlotOK
  <1>2. SUFFICES ASSUME p.fed, ~Excused(w, c) PROVE FALSE
    BY <1>1, Zenon DEF ProcOK
  <1>3. p.facts = se.facts /\ p.seq = se.seq /\ p.st # "planning"
    BY <1>1, <1>2, Zenon DEF Agree
  <1>4. ~(p.st \in {"none", "reading"}) /\ p.st \in {"none", "reading", "planning", "waiting"}
    BY <1>1, Zenon DEF ProcOK, ProcSet
  <1>5. p.st = "waiting"
    BY <1>3, <1>4, SMT
  <1>6. /\ o[1].seq = p.seq
        /\ \/ o[1].type = "images" /\ o[1].set # {} /\ o[1].set \cap Known(p.facts) = {}
           \/ o[1].type = "certs" /\ p.facts.cert = 0
    BY <1>1, <1>2, <1>5, Zenon DEF Agree
  <1>7. p.seq \in Nat /\ ~(p.seq > MaxRounds)
    BY <1>1, <1>2, <1>5, RoundsExcuse, Zenon DEF ProcSet
  <1>8. p.seq <= MaxRequests
    BY <1>7, BoundsAssumption, SMT
  <1>9. "images" # "certs" /\ "images" # "result" /\ "certs" # "result"
    BY SMT
  <1> QED
    BY <1>3, <1>6, <1>8, <1>9, Zenon

\* A frame is refused.
LEMMA RefuseStep ==
    ASSUME PlanInv, Stands, UNCHANGED seen, NEW s \in Slots, Refuse(s),
           proc[s].heard => Excused(world', cut')
    PROVE  TalkStep
  <1>1. CASE s \in Attempts
    BY <1>1, FailAttemptStep, Zenon DEF PlanInv, Refuse
  <1>2. CASE ~(s \in Attempts)
    <2>1. s \in Workers
      BY <1>2, Zenon DEF Slots
    <2>2. /\ sess' = [sess EXCEPT ![s].st = "refused"] /\ proc' = [proc EXCEPT ![s] = Unheard(@)]
          /\ out' = [out EXCEPT ![s] = <<>>] /\ UNCHANGED pods
      BY <1>2, Zenon DEF Refuse
    <2>3. "refused" \in {"refused", "lost"} /\ "refused" # "lost"
      BY SMT
    <2> QED
      BY <2>1, <2>2, <2>3, ClosedStep, Zenon
  <1> QED
    BY <1>1, <1>2, Zenon

LEMMA StepCut ==
    ASSUME PlanInv, NEW s \in Slots, Cut(s) PROVE PlanInv'
  <1>1. /\ Happens("cut") /\ cut' = TRUE
        /\ UNCHANGED <<want, pass, inputs, records, policies, seen, busy, facts>>
    BY Zenon DEF Cut
  <1>2. world' \in World /\ Stands
    BY <1>1, HappensStands, Zenon
  <1>3. Excused(world', cut') /\ cut' \in BOOLEAN
    BY <1>1, Zenon DEF Excused
  <1>4. CASE s \in Attempts
    <2>1. FailAttempt(s)
      BY <1>4, Zenon DEF Cut
    <2>2. TalkStep
      BY <1>1, <1>2, <1>3, <1>4, <2>1, FailAttemptStep, Zenon DEF PlanInv
    <2> QED
      BY <1>1, <1>2, <1>3, <2>2, TalkKeeps, Zenon DEF PlanInv, Types
  <1>5. CASE ~(s \in Attempts)
    <2>1. s \in Workers
      BY <1>5, Zenon DEF Slots
    <2>2. /\ sess' = [sess EXCEPT ![s].st = "lost"] /\ proc' = [proc EXCEPT ![s] = Unheard(@)]
          /\ out' = [out EXCEPT ![s] = <<>>] /\ UNCHANGED pods
      BY <1>5, Zenon DEF Cut
    <2>3. TalkStep
      BY <1>1, <1>2, <1>3, <2>1, <2>2, ClosedStep, Zenon
    <2> QED
      BY <1>1, <1>2, <1>3, <2>3, TalkKeeps, Zenon DEF PlanInv, Types
  <1> QED
    BY <1>4, <1>5, Zenon

LEMMA StepAttach ==
    ASSUME PlanInv, NEW a \in Attempts, Attach(a) PROVE PlanInv'
  <1>1. /\ sess[a].st = "none"
        /\ UNCHANGED <<want, pass, inputs, records, policies, seen, busy, facts, cut, world>>
    BY Zenon DEF Attach
  <1>2. Stands /\ a \in Slots
    BY <1>1, WorldStands, Zenon DEF Slots
  <1>3. /\ proc \in [Slots -> ProcSet] /\ pods \in [Attempts -> PodSet] /\ sess \in [Slots -> SessSet]
        /\ out \in [Slots -> Seq(FrameSet)] /\ world' \in World /\ cut' \in BOOLEAN
        /\ facts' \in [images : Nat \ {0}, cert : Nat, next : Nat \ {0}]
    BY <1>1, Zenon DEF PlanInv, Types
  <1> SUFFICES TalkStep
    BY <1>1, <1>2, <1>3, TalkKeeps, Zenon
  <1>4. CASE FailAttempt(a)
    <2>1. ~proc[a].heard
      BY <1>1, <1>2, SlotFacts, Zenon DEF SlotOK, OwnOK
    <2> QED
      BY <1>1, <1>2, <1>4, <2>1, FailAttemptStep, Zenon DEF PlanInv
  <1>5. CASE ~(FailAttempt(a))
    <2> DEFINE p == proc[a]
               t == [st |-> "talk", a |-> a, facts |-> NoFacts, seq |-> 1]
               fresh == [p EXCEPT !.st = "planning", !.a = a, !.seq = 1, !.heard = TRUE, !.fed = TRUE]
               again == [p EXCEPT !.heard = TRUE]
    <2>1. /\ pods[a].phase = "running" /\ UNCHANGED <<pods, out>>
          /\ sess' = [sess EXCEPT ![a] = t]
          /\ proc' = [proc EXCEPT ![a] = IF p.st = "reading" /\ p.a = 0 THEN fresh ELSE again]
      BY <1>3, <1>5, Zenon DEF Attach
    <2>2. /\ p \in ProcSet /\ sess[a] \in SessSet
          /\ SlotOK(world, cut, a, p, sess[a], out[a]) /\ ProcOK(world, cut, p)
      BY <1>2, SlotFacts, Zenon
    <2>3. out[a] = <<>>
      BY <1>1, <2>2, Zenon DEF SlotOK, OwnOK
    <2>4. t.st = "talk" /\ t.facts = NoFacts /\ t.seq = 1
      BY Zenon
    <2>5. t \in SessSet
      BY NoFactsKnown, SMT DEF SessSet
    <2> HIDE DEF t
    <2>6. sess' \in [Slots -> SessSet] /\ sess'[a] = t /\ \A s \in Slots : s # a => sess'[s] = sess[s]
      BY <1>2, <1>3, <2>1, <2>5, Zenon
    <2>7. p.st # "none" /\ PodOK(world', cut', pods'[a])
      BY <1>1, <2>1, Zenon DEF PlanInv, Sound, PodsOK, RunsOK, Runs
    <2>8. CASE p.st = "reading" /\ p.a = 0
      <3>1. p.facts = NoFacts
        BY <2>2, <2>8, Zenon DEF ProcOK
      <3>2. fresh.st = "planning" /\ fresh.facts = NoFacts /\ fresh.seq = 1 /\ fresh.heard /\ fresh.fed
        BY <2>2, <3>1, Zenon DEF ProcSet
      <3>3. fresh \in ProcSet
        BY <2>2, Zenon DEF ProcSet
      <3>4. proc' = [proc EXCEPT ![a] = fresh]
        BY <2>1, <2>8, Zenon
      <3> HIDE DEF fresh
      <3>5. proc' \in [Slots -> ProcSet] /\ proc'[a] = fresh /\ \A s \in Slots : s # a => proc'[s] = proc[s]
        BY <1>2, <1>3, <3>3, <3>4, Zenon
      <3>6. SlotOK(world', cut', a, fresh, t, <<>>)
        BY <1>3, <2>4, <3>2, SlotFresh, Zenon
      <3>7. SlotOK(world', cut', a, proc'[a], sess'[a], out'[a])
        BY <2>1, <2>3, <2>6, <3>5, <3>6, Zenon
      <3>8. proc'[a].st # "none"
        BY <3>2, <3>5, SMT
      <3>9. Runs(pods'[a], proc'[a])
        BY <2>1, <3>8, Zenon DEF Runs
      <3> QED
        BY <1>1, <1>2, <1>3, <2>1, <2>6, <2>7, <3>5, <3>7, <3>9, OneSlotStep, Zenon DEF PlanInv
    <2>9. CASE ~(p.st = "reading" /\ p.a = 0)
      <3>1. p.st # "reading"
        BY <2>2, <2>9, Zenon DEF ProcOK
      <3>2. p.st \in {"planning", "waiting"}
        BY <2>2, <2>7, <3>1, SMT DEF ProcSet
      <3>3. again.st = p.st
        BY <2>2, Zenon DEF ProcSet
      <3>4. again \in ProcSet
        BY <2>2, Zenon DEF ProcSet
      <3>5. SlotOK(world, cut, a, again, t, out[a])
        BY <1>1, <1>3, <2>2, <2>4, <3>2, SlotReattached, Zenon
      <3>6. proc' = [proc EXCEPT ![a] = again]
        BY <2>1, <2>9, Zenon
      <3> HIDE DEF again
      <3>7. proc' \in [Slots -> ProcSet] /\ proc'[a] = again /\ \A s \in Slots : s # a => proc'[s] = proc[s]
        BY <1>2, <1>3, <3>4, <3>6, Zenon
      <3>8. SlotOK(world', cut', a, proc'[a], sess'[a], out'[a])
        BY <1>1, <2>1, <2>6, <3>5, <3>7, Zenon
      <3>9. Runs(pods'[a], proc'[a])
        BY <2>1, <2>7, <3>3, <3>7, Zenon DEF Runs
      <3> QED
        BY <1>1, <1>2, <1>3, <2>1, <2>6, <2>7, <3>7, <3>8, <3>9, OneSlotStep, Zenon DEF PlanInv
    <2> QED
      BY <2>8, <2>9, Zenon
  <1> QED
    BY <1>4, <1>5, Zenon

LEMMA FrameFields ==
    ASSUME NEW f \in FrameSet
    PROVE  /\ f.type = "images" => f.set \in SUBSET Images
           /\ f.type \in {"images", "certs", "result", "error"}
  BY SMT DEF FrameSet, Diagnostic

\* An answer goes to both ends.
LEMMA RespondStep ==
    ASSUME PlanInv, UNCHANGED <<seen, world, cut>>, NEW s \in Slots, sess[s].st = "talk", out[s] # <<>>,
           out[s][1].type \in {"images", "certs"}, NEW g \in FactSet, Respond(s, g),
           Asked(world, g), g # NoFacts, Known(sess[s].facts) \subseteq Known(g),
           out[s][1].type = "images" => g.cert = sess[s].facts.cert /\ out[s][1].set \subseteq Known(g),
           out[s][1].type = "certs" => g.cert # 0
    PROVE  TalkStep
  <1> DEFINE p == proc[s]
             r == IF p.st = "waiting" /\ p.fed
                  THEN [Told(p, g) EXCEPT !.st = "planning"] ELSE p
             t == Told(sess[s], g)
             o == Tail(out[s])
  <1>1. /\ proc \in [Slots -> ProcSet] /\ pods \in [Attempts -> PodSet] /\ sess \in [Slots -> SessSet]
        /\ out \in [Slots -> Seq(FrameSet)] /\ world \in World
    BY Zenon DEF PlanInv, Types
  <1>2. /\ p \in ProcSet /\ sess[s] \in SessSet /\ out[s] \in Seq(FrameSet)
        /\ sess[s].seq \in Nat /\ p.seq \in Nat
        /\ SlotOK(world, cut, s, p, sess[s], out[s])
    BY SlotFacts, Zenon
  <1>3. SlotOK(world, cut, s, r, t, o)
    BY <1>1, <1>2, SlotAnswered, Zenon
  <1>4. sess[s].seq + 1 \in Nat /\ p.seq + 1 \in Nat
    BY <1>2, SMT
  <1>5. t \in SessSet
    BY <1>2, <1>4, Zenon DEF SessSet, Told
  <1>6. r \in ProcSet
    <2>1. [Told(p, g) EXCEPT !.st = "planning"] \in ProcSet
      BY <1>2, <1>4, Zenon DEF ProcSet, Told
    <2> QED
      BY <1>2, <2>1, Zenon
  <1>7. r.st # "none" <=> p.st # "none"
    <2>1. CASE p.st = "waiting" /\ p.fed
      <3>1. r.st = "planning"
        BY <1>2, <2>1, Zenon DEF ProcSet, Told
      <3> HIDE DEF r
      <3> QED
        BY <2>1, <3>1, SMT
    <2>2. CASE ~(p.st = "waiting" /\ p.fed)
      BY <2>2, Zenon
    <2> QED
      BY <2>1, <2>2, Zenon
  <1>8. o \in Seq(FrameSet)
    BY <1>2, TailFacts, Zenon
  <1>9. /\ sess' = [sess EXCEPT ![s] = t] /\ proc' = [proc EXCEPT ![s] = r] /\ out' = [out EXCEPT ![s] = o]
        /\ UNCHANGED pods
    <2>1. sess' = [sess EXCEPT ![s] = t]
      BY Zenon DEF Respond
    <2>2. proc' = [proc EXCEPT ![s] = r]
      BY Zenon DEF Respond
    <2> QED
      BY <2>1, <2>2, Zenon DEF Respond
  <1> HIDE DEF r, t, o
  <1>10. proc' \in [Slots -> ProcSet] /\ sess' \in [Slots -> SessSet] /\ out' \in [Slots -> Seq(FrameSet)]
    BY <1>1, <1>5, <1>6, <1>8, <1>9, Zenon
  <1>11. /\ \A u \in Slots : u # s => proc'[u] = proc[u] /\ sess'[u] = sess[u] /\ out'[u] = out[u]
         /\ proc'[s] = r /\ sess'[s] = t /\ out'[s] = o
    BY <1>1, <1>9, Zenon
  <1>12. s \in Attempts => PodOK(world', cut', pods'[s]) /\ Runs(pods'[s], proc'[s])
    BY <1>7, <1>9, <1>11, Zenon DEF PlanInv, Sound, PodsOK, RunsOK, Runs
  <1>13. SlotOK(world', cut', s, proc'[s], sess'[s], out'[s])
    BY <1>3, <1>11, Zenon
  <1>14. Stands /\ pods' \in [Attempts -> PodSet]
    BY <1>1, <1>9, WorldStands, Zenon
  <1> QED
    BY <1>9, <1>10, <1>11, <1>12, <1>13, <1>14, OneSlotStep, Zenon DEF PlanInv

\* Facts with the metadata of more images, or with a certificate
LEMMA ImagesAdded ==
    ASSUME NEW f \in FactSet, NEW set \in SUBSET Images, NEW v \in Nat \ {0}
    PROVE  LET g == [f EXCEPT !.images = [i \in Images |-> IF i \in set THEN v ELSE @[i]]]
           IN  g \in FactSet /\ g.cert = f.cert /\ Known(g) = Known(f) \cup set
  <1> DEFINE g == [f EXCEPT !.images = [i \in Images |-> IF i \in set THEN v ELSE @[i]]]
  <1>1. f.images \in [Images -> Nat]
    BY Zenon DEF FactSet
  <1>2. g.cert = f.cert /\ g.images = [i \in Images |-> IF i \in set THEN v ELSE f.images[i]]
    BY Zenon DEF FactSet
  <1>3. g.images \in [Images -> Nat]
    BY <1>1, <1>2, SMT
  <1>4. g = [f EXCEPT !.images = g.images]
    BY <1>2, Zenon
  <1>5. g \in FactSet
    BY <1>3, <1>4, Zenon DEF FactSet
  <1> HIDE DEF g
  <1>6. Known(g) = Known(f) \cup set
    BY <1>1, <1>2, SMT DEF Known
  <1> QED
    BY <1>2, <1>5, <1>6, Zenon DEF g

LEMMA CertificateAdded ==
    ASSUME NEW f \in FactSet, NEW v \in Nat \ {0}
    PROVE  LET g == [f EXCEPT !.cert = v]
           IN  g \in FactSet /\ g.cert = v /\ Known(g) = Known(f)
  <1> DEFINE g == [f EXCEPT !.cert = v]
  <1>1. g.cert = v /\ g.images = f.images
    BY Zenon DEF FactSet
  <1>2. v \in Nat
    BY SMT
  <1>3. g \in FactSet
    BY <1>2, Zenon DEF FactSet
  <1> HIDE DEF g
  <1>4. Known(g) = Known(f)
    BY <1>1, Zenon DEF Known
  <1> QED
    BY <1>1, <1>3, <1>4, Zenon DEF g

LEMMA IssuedFacts ==
    ASSUME NEW f \in [images : Nat \ {0}, cert : Nat, next : Nat \ {0}]
    PROVE  Issued(f) \in [images : Nat \ {0}, cert : Nat, next : Nat \ {0}] /\ Issued(f).cert \in Nat \ {0}
  <1>1. CASE f.cert = 0
    <2>1. Issued(f) = [f EXCEPT !.cert = f.next, !.next = f.next + 1]
      BY <1>1, Zenon DEF Issued
    <2>2. f.next \in Nat \ {0} /\ f.next \in Nat /\ f.next + 1 \in Nat \ {0}
      BY SMT
    <2>3. Issued(f).cert = f.next
      BY <2>1, Zenon
    <2> QED
      BY <2>1, <2>2, <2>3, Zenon
  <1>2. CASE f.cert # 0
    <2>1. f.cert \in Nat \ {0}
      BY <1>2, SMT
    <2> QED
      BY <1>2, <2>1, Zenon DEF Issued
  <1> QED
    BY <1>1, <1>2, Zenon

LEMMA StepServe ==
    ASSUME PlanInv, NEW s \in Slots, Serve(s) PROVE PlanInv'
  <1> DEFINE f == Head(out[s])
  <1>1. /\ sess[s].st = "talk" /\ out[s] # <<>>
        /\ UNCHANGED <<want, pass, inputs, records, policies, seen, busy, cut, world>>
    BY Zenon DEF Serve
  <1>2. /\ proc[s] \in ProcSet /\ sess[s] \in SessSet /\ out[s] \in Seq(FrameSet) /\ sess[s].facts \in FactSet
        /\ SlotOK(world, cut, s, proc[s], sess[s], out[s]) /\ SessOK(world, cut, sess[s])
    BY SlotFacts, Zenon
  <1>3. /\ proc \in [Slots -> ProcSet] /\ pods \in [Attempts -> PodSet] /\ sess \in [Slots -> SessSet]
        /\ out \in [Slots -> Seq(FrameSet)] /\ world' \in World /\ cut' \in BOOLEAN
        /\ facts \in [images : Nat \ {0}, cert : Nat, next : Nat \ {0}]
    BY <1>1, Zenon DEF PlanInv, Types
  <1>4. Stands
    BY <1>1, WorldStands, Zenon
  <1>5. f = out[s][1] /\ f \in FrameSet /\ Tail(out[s]) \in Seq(FrameSet) /\ 1 \in 1..Len(out[s])
    BY <1>1, <1>2, TailFacts, Zenon
  <1>6. f.type \in {"images", "certs", "result", "error"} /\ (f.type = "images" => f.set \in SUBSET Images)
    BY <1>5, FrameFields, Zenon
  <1>7. FrameOK(world, cut, f) /\ Asked(world, sess[s].facts)
    BY <1>2, <1>5, Zenon DEF SlotOK, SessOK
  <1>8. CASE f.type = "images"
    <2>0. f.type # "certs" /\ f.type # "result" /\ f.type # "error"
      BY <1>8, SMT
    <2>1. ServeImages(s, f)
      BY <1>8, <2>0, Zenon DEF Serve
    <2>2. UNCHANGED facts
      BY <2>1, Zenon DEF ServeImages
    <2> SUFFICES TalkStep
      BY <1>1, <1>3, <1>4, <2>2, TalkKeeps, Zenon
    <2> DEFINE fits == f.seq = sess[s].seq /\ f.seq <= MaxRequests /\ AddsFacts(s, f)
    <2>3. CASE ~fits
      <3>1. Refuse(s)
        BY <2>1, <2>3, Zenon DEF ServeImages
      <3>2. proc[s].heard => Excused(world', cut')
        BY <1>1, <1>2, <1>3, <1>5, <1>8, <2>3, RefusalExcused, Zenon DEF AddsFacts
      <3> QED
        BY <1>1, <1>4, <3>1, <3>2, RefuseStep, Zenon
    <2>4. CASE fits
      <3> DEFINE g == [sess[s].facts EXCEPT !.images =
                         [i \in Images |-> IF i \in f.set THEN facts.images ELSE @[i]]]
      <3>1. Respond(s, g) /\ AddsFacts(s, f)
        BY <2>1, <2>4, Zenon DEF ServeImages
      <3>2. facts.images \in Nat \ {0}
        BY <1>3, Zenon
      <3>3. g \in FactSet /\ g.cert = sess[s].facts.cert /\ Known(g) = Known(sess[s].facts) \cup f.set
        BY <1>2, <1>6, <1>8, <3>2, ImagesAdded, Zenon
      <3> HIDE DEF g
      <3>4. f.set # {} /\ f.set \subseteq Needs(world)
        BY <1>7, <1>8, <3>1, Zenon DEF AddsFacts, FrameOK
      <3>5. Asked(world, g)
        BY <1>7, <3>3, <3>4, Zenon DEF Asked
      <3>6. g # NoFacts
        BY <3>3, <3>4, NoFactsKnown, Zenon
      <3>7. f.type # "certs"
        BY <1>8, SMT
      <3> QED
        BY <1>1, <1>5, <1>8, <3>1, <3>3, <3>5, <3>6, <3>7, RespondStep, Zenon
    <2> QED
      BY <2>3, <2>4, Zenon
  <1>9. CASE f.type = "certs"
    <2>0. f.type # "images" /\ f.type # "result" /\ f.type # "error"
      BY <1>9, SMT
    <2>1. ServeCertificates(s, f)
      BY <1>9, <2>0, Zenon DEF Serve
    <2> DEFINE fits == f.seq = sess[s].seq /\ f.seq <= MaxRequests /\ sess[s].facts.cert = 0
    <2>2. CASE ~fits
      <3>1. Refuse(s) /\ UNCHANGED facts
        BY <2>1, <2>2, Zenon DEF ServeCertificates
      <3>2. proc[s].heard => Excused(world', cut')
        BY <1>1, <1>2, <1>3, <1>5, <1>9, <2>2, RefusalExcused, Zenon
      <3>3. TalkStep
        BY <1>1, <1>4, <3>1, <3>2, RefuseStep, Zenon
      <3> QED
        BY <1>1, <1>3, <1>4, <3>1, <3>3, TalkKeeps, Zenon
    <2>3. CASE fits
      <3> DEFINE g == [sess[s].facts EXCEPT !.cert = facts'.cert]
      <3>1. Respond(s, g) /\ facts' = Issued(facts)
        BY <2>1, <2>3, Zenon DEF ServeCertificates
      <3>2. facts' \in [images : Nat \ {0}, cert : Nat, next : Nat \ {0}] /\ facts'.cert \in Nat \ {0}
        BY <1>3, <3>1, IssuedFacts, Zenon
      <3>3. g \in FactSet /\ g.cert = facts'.cert /\ Known(g) = Known(sess[s].facts)
        BY <1>2, <3>2, CertificateAdded, Zenon
      <3> HIDE DEF g
      <3>4. g.cert # 0
        BY <3>2, <3>3, SMT
      <3>5. Asked(world, g) /\ g # NoFacts
        BY <1>7, <1>9, <3>3, <3>4, NoFactsKnown, Zenon DEF Asked, FrameOK
      <3>6. f.type # "images"
        BY <1>9, SMT
      <3>7. TalkStep
        BY <1>1, <1>5, <1>9, <3>1, <3>3, <3>4, <3>5, <3>6, RespondStep, Zenon
      <3> QED
        BY <1>1, <1>3, <1>4, <3>2, <3>7, TalkKeeps, Zenon
    <2> QED
      BY <2>2, <2>3, Zenon
  <1>10. CASE f.type = "result"
    <2>0. f.type # "images" /\ f.type # "certs" /\ f.type # "error"
      BY <1>10, SMT
    <2>1. ServeResult(s, f)
      BY <1>10, <2>0, Zenon DEF Serve
    <2>2. UNCHANGED facts
      BY <2>1, Zenon DEF ServeResult
    <2> SUFFICES TalkStep
      BY <1>1, <1>3, <1>4, <2>2, TalkKeeps, Zenon
    <2>3. CASE Refuse(s)
      <3>1. proc[s].heard => Excused(world', cut')
        BY <1>1, <1>2, <1>3, <1>5, <1>10, RefusalExcused, Zenon
      <3> QED
        BY <1>1, <1>4, <2>3, <3>1, RefuseStep, Zenon
    <2>4. CASE ~Refuse(s)
      <3> DEFINE t == [sess[s] EXCEPT !.st = "drain"]
      <3>1. /\ f.facts = sess[s].facts /\ f.seq = sess[s].seq
            /\ sess' = [sess EXCEPT ![s].st = "drain"]
            /\ pods' = IF s \in Attempts THEN [pods EXCEPT ![s].accepted = f] ELSE pods
            /\ out' = [out EXCEPT ![s] = Tail(out[s])]
            /\ UNCHANGED proc
        BY <2>1, <2>4, Zenon DEF ServeResult
      <3>2. sess' = [sess EXCEPT ![s] = t]
        BY <3>1, Zenon
      <3>3. Complete(world, sess[s].facts) /\ SlotOK(world, cut, s, proc[s], t, Tail(out[s]))
        BY <1>1, <1>2, <1>5, <1>10, <3>1, SlotAccepted, Zenon
      <3>4. t \in SessSet
        BY <1>2, Zenon DEF SessSet
      <3> HIDE DEF t
      <3>5. sess' \in [Slots -> SessSet] /\ out' \in [Slots -> Seq(FrameSet)] /\ proc' \in [Slots -> ProcSet]
        BY <1>3, <1>5, <3>1, <3>2, <3>4, Zenon
      <3>6. /\ \A u \in Slots : u # s => proc'[u] = proc[u] /\ sess'[u] = sess[u] /\ out'[u] = out[u]
            /\ proc'[s] = proc[s] /\ sess'[s] = t /\ out'[s] = Tail(out[s])
        BY <1>3, <3>1, <3>2, Zenon
      <3>7. SlotOK(world', cut', s, proc'[s], sess'[s], out'[s])
        BY <1>1, <3>3, <3>6, Zenon
      <3>8. /\ pods' \in [Attempts -> PodSet] /\ \A a \in Attempts : a # s => pods'[a] = pods[a]
            /\ s \in Attempts => /\ PodOK(world', cut', pods'[s]) /\ Runs(pods'[s], proc'[s])
                                 /\ Serving(pods'[s]) => Serving(pods[s])
        <4>1. CASE ~(s \in Attempts)
          BY <1>3, <3>1, <4>1, Zenon
        <4>2. CASE s \in Attempts
          <5> DEFINE d == [pods[s] EXCEPT !.accepted = f]
          <5>1. pods' = [pods EXCEPT ![s] = d] /\ pods[s] \in PodSet
            BY <1>3, <3>1, <4>2, Zenon
          <5>2. d.accepted = f /\ d.log = pods[s].log /\ d.phase = pods[s].phase /\ d.ending = pods[s].ending
            BY <5>1, Zenon DEF PodSet
          <5>3. d \in PodSet
            BY <1>5, <5>1, Zenon DEF PodSet
          <5> HIDE DEF d
          <5>4. pods' \in [Attempts -> PodSet] /\ pods'[s] = d /\ \A a \in Attempts : a # s => pods'[a] = pods[a]
            BY <1>3, <4>2, <5>1, <5>3, Zenon
          <5>5. PodOK(world, cut, pods[s]) /\ Runs(pods[s], proc[s])
            BY <4>2, Zenon DEF PlanInv, Sound, PodsOK, RunsOK
          <5>6. PodOK(world, cut, d) /\ Runs(d, proc[s])
            BY <1>10, <3>1, <3>3, <5>2, <5>5, Zenon DEF PodOK, Runs
          <5>7. Serving(d) => Serving(pods[s])
            BY <5>2, Zenon DEF Serving
          <5> QED
            BY <1>1, <3>6, <5>4, <5>6, <5>7, Zenon
        <4> QED
          BY <4>1, <4>2, Zenon
      <3> QED
        BY <1>1, <1>4, <3>5, <3>6, <3>7, <3>8, OneSlotStep, Zenon DEF PlanInv
    <2> QED
      BY <2>3, <2>4, Zenon
  <1>11. CASE f.type = "error"
    <2> DEFINE t == [sess[s] EXCEPT !.st = "reported"]
    <2>0. f.type # "images" /\ f.type # "certs" /\ f.type # "result"
      BY <1>11, SMT
    <2>1. /\ sess' = [sess EXCEPT ![s].st = "reported"]
          /\ out' = [out EXCEPT ![s] = Tail(out[s])] /\ UNCHANGED <<proc, pods, facts>>
      BY <1>11, <2>0, Zenon DEF Serve
    <2>2. sess' = [sess EXCEPT ![s] = t]
      BY <2>1, Zenon
    <2>3. SlotOK(world, cut, s, proc[s], t, Tail(out[s]))
      BY <1>1, <1>2, <1>5, <1>11, SlotReported, Zenon
    <2>4. t \in SessSet
      BY <1>2, Zenon DEF SessSet
    <2> HIDE DEF t
    <2>5. sess' \in [Slots -> SessSet] /\ out' \in [Slots -> Seq(FrameSet)] /\ proc' \in [Slots -> ProcSet]
      <3>1. sess' \in [Slots -> SessSet]
        BY <1>3, <2>2, <2>4, Zenon
      <3>2. out' \in [Slots -> Seq(FrameSet)] /\ proc' \in [Slots -> ProcSet]
        BY <1>3, <1>5, <2>1, Zenon
      <3> QED
        BY <3>1, <3>2, Zenon
    <2>6. /\ \A u \in Slots : u # s => proc'[u] = proc[u] /\ sess'[u] = sess[u] /\ out'[u] = out[u]
          /\ proc'[s] = proc[s] /\ sess'[s] = t /\ out'[s] = Tail(out[s])
      BY <1>3, <2>1, <2>2, Zenon
    <2>7. SlotOK(world', cut', s, proc'[s], sess'[s], out'[s])
      BY <1>1, <2>3, <2>6, Zenon
    <2>8. s \in Attempts => PodOK(world', cut', pods'[s]) /\ Runs(pods'[s], proc'[s])
      BY <1>1, <2>1, Zenon DEF PlanInv, Sound, PodsOK, RunsOK
    <2>9. TalkStep
      BY <1>1, <1>3, <1>4, <2>1, <2>5, <2>6, <2>7, <2>8, OneSlotStep, Zenon DEF PlanInv
    <2> QED
      BY <1>1, <1>3, <1>4, <2>1, <2>9, TalkKeeps, Zenon
  <1> QED
    BY <1>6, <1>8, <1>9, <1>10, <1>11, Zenon

LEMMA StepDetach ==
    ASSUME PlanInv, NEW a \in Attempts, Detach(a) PROVE PlanInv'
  <1>1. /\ out[a] = <<>> /\ ~proc[a].heard /\ sess' = [sess EXCEPT ![a] = NoSess]
        /\ UNCHANGED <<want, pass, inputs, records, policies, pods, seen, proc, out, busy, facts, cut, world>>
    BY Zenon DEF Detach, objects
  <1>2. Stands /\ a \in Slots
    BY <1>1, WorldStands, Zenon DEF Slots
  <1>3. /\ proc \in [Slots -> ProcSet] /\ pods \in [Attempts -> PodSet] /\ sess \in [Slots -> SessSet]
        /\ out \in [Slots -> Seq(FrameSet)] /\ world' \in World /\ cut' \in BOOLEAN
        /\ facts' \in [images : Nat \ {0}, cert : Nat, next : Nat \ {0}]
    BY <1>1, Zenon DEF PlanInv, Types
  <1>4. sess' \in [Slots -> SessSet] /\ sess'[a] = NoSess /\ \A s \in Slots : s # a => sess'[s] = sess[s]
    BY <1>1, <1>2, <1>3, NoneOK, Zenon
  <1>5. SlotOK(world, cut, a, proc[a], sess[a], out[a])
    BY <1>2, SlotFacts, Zenon
  <1>6. SlotOK(world, cut, a, proc[a], NoSess, out[a])
    BY <1>1, <1>5, SlotReleased, Zenon
  <1>7. SlotOK(world', cut', a, proc'[a], sess'[a], out'[a])
    BY <1>1, <1>4, <1>6, Zenon
  <1>8. PodOK(world', cut', pods'[a]) /\ Runs(pods'[a], proc'[a])
    BY <1>1, Zenon DEF PlanInv, Sound, PodsOK, RunsOK
  <1>9. TalkStep
    BY <1>1, <1>2, <1>3, <1>4, <1>7, <1>8, OneSlotStep, Zenon DEF PlanInv
  <1> QED
    BY <1>1, <1>2, <1>3, <1>9, TalkKeeps, Zenon

-----------------------------------------------------------------------------
(* Caches, and what may happen around planning. *)

LEMMA PassFacts ==
    ASSUME PlanInv, NEW n \in Nodes
    PROVE  /\ pass \in [Nodes -> PassSet] /\ pass[n] \in PassSet /\ PassOK(world, cut, n, pass[n])
           /\ pass[n].pc # "idle" => pass[n].a \in Attempts /\ world.owner[pass[n].a] = n
  BY Zenon DEF PlanInv, Types, Sound, PassesOK, PassOK

LEMMA StepSync ==
    ASSUME PlanInv, NEW c \in Caches, Sync(c) PROVE PlanInv'
  <1> DEFINE SeenSet == [inputs : SUBSET [a : Attempts \cup {0}, facts : FactSet], records : [Attempts -> RecordSet],
                         policies : SUBSET Attempts, pods : [Attempts -> PodSet]]
  <1>1. /\ seen' = CASE c = "maps" -> [seen EXCEPT !.inputs = inputs, !.records = records]
                     [] c = "pods" -> [seen EXCEPT !.pods = pods]
                     [] c = "policies" -> [seen EXCEPT !.policies = policies]
        /\ UNCHANGED <<want, pass, inputs, records, policies, pods, proc, out, sess, busy, facts, cut, world>>
    BY Zenon DEF Sync, objects, planning
  <1>2. /\ seen \in SeenSet /\ inputs \subseteq [a : Attempts \cup {0}, facts : FactSet]
        /\ records \in [Attempts -> RecordSet] /\ policies \subseteq Attempts /\ pods \in [Attempts -> PodSet]
    BY Zenon DEF PlanInv, Types
  <1>3. \/ seen' = [seen EXCEPT !.inputs = inputs, !.records = records]
        \/ seen' = [seen EXCEPT !.pods = pods]
        \/ seen' = [seen EXCEPT !.policies = policies]
    <2>1. c = "maps" \/ c = "pods" \/ c = "policies"
      BY Zenon DEF Caches
    <2>2. "maps" # "pods" /\ "maps" # "policies" /\ "pods" # "policies"
      BY SMT
    <2> QED
      BY <1>1, <2>1, <2>2, Zenon
  <1>4. seen' \in SeenSet /\ (seen'.pods = pods \/ seen'.pods = seen.pods)
    <2>1. CASE seen' = [seen EXCEPT !.inputs = inputs, !.records = records]
      BY <1>2, <2>1, Zenon
    <2>2. CASE seen' = [seen EXCEPT !.pods = pods]
      BY <1>2, <2>2, Zenon
    <2>3. CASE seen' = [seen EXCEPT !.policies = policies]
      BY <1>2, <2>3, Zenon
    <2> QED
      BY <1>3, <2>1, <2>2, <2>3, Zenon
  <1>5. Types'
    BY <1>1, <1>4, Zenon DEF PlanInv, Types
  <1>6. Stands
    BY <1>1, WorldStands, Zenon
  <1>7. SlotsOK' /\ RecordsOK' /\ PassesOK'
    BY <1>1, <1>6, SlotsKept, RecordsKept, PassesKept, Zenon DEF PlanInv, Sound
  <1>8. PodsOK'
    BY <1>1, <1>4, Zenon DEF PlanInv, Sound, PodsOK
  <1>9. RunsOK' /\ Guarded'
    BY <1>1, Zenon DEF PlanInv, Sound, RunsOK, Guarded
  <1> QED
    BY <1>5, <1>7, <1>8, <1>9, Zenon DEF PlanInv, Sound

\* Nothing of what runs moves.
LEMMA StillStep ==
    ASSUME PlanInv, Stands, UNCHANGED <<proc, out, sess, pods, seen>> PROVE TalkStep
  <1>1. SlotsOK' /\ PodsOK'
    BY SlotsKept, PodsKept, Zenon DEF PlanInv, Sound
  <1>2. RunsOK'
    BY Zenon DEF PlanInv, Sound, RunsOK
  <1> QED
    BY <1>1, <1>2, Zenon DEF TalkStep, ProcStep, PlanInv, Types

LEMMA StepEdit ==
    ASSUME PlanInv, NEW n \in Nodes, NEW a \in Attempts, Edit(n, a) PROVE PlanInv'
  <1>1. /\ Happens("edit") /\ world.owner[a] = n /\ want' = [want EXCEPT ![n] = a]
        /\ UNCHANGED <<pass, inputs, records, policies, pods, seen, proc, out, sess, busy, facts, cut>>
    BY Zenon DEF Edit, Mine, objects, planning
  <1>2. world' \in World /\ Stands /\ Same(world, world')
    BY <1>1, HappensStands, Zenon
  <1>3. TalkStep
    BY <1>1, <1>2, StillStep, Zenon
  <1>4. /\ want' \in [Nodes -> Attempts \cup {0}] /\ want'[n] = a
        /\ \A m \in Nodes : m # n => want'[m] = want[m]
    BY <1>1, Zenon DEF PlanInv, Types
  <1>5. Types'
    BY <1>1, <1>2, <1>3, <1>4, Zenon DEF PlanInv, Types, TalkStep, ProcStep
  <1>6. world'.owner = world.owner /\ \A m \in Nodes : PassOK(world', cut', m, pass[m])
    <2>1. \A m \in Nodes : PassOK(world, cut, m, pass[m])
      BY PassFacts, Zenon
    <2> QED
      BY <1>1, <1>2, <2>1, RestKept, Zenon DEF Stands
  <1>7. \A m \in Nodes : want'[m] # 0 => world'.owner[want'[m]] = m
    BY <1>1, <1>4, <1>6, Zenon DEF PlanInv, Sound, PassesOK
  <1>8. PassesOK'
    BY <1>1, <1>6, <1>7, Zenon DEF PassesOK
  <1>9. RecordsOK'
    BY <1>1, <1>2, RecordsKept, Zenon DEF PlanInv, Sound
  <1>10. \A m \in Nodes : pass[m].pc = "open" => pass[m].a \in Attempts
    <2>1. ASSUME NEW m \in Nodes, pass[m].pc = "open" PROVE pass[m].pc # "idle"
      BY <2>1, SMT
    <2> QED
      BY <2>1, PassFacts, Zenon
  <1>11. Guarded'
    BY <1>1, <1>2, <1>10, GuardKept, Zenon DEF PlanInv
  <1> QED
    BY <1>3, <1>5, <1>8, <1>9, <1>11, Zenon DEF PlanInv, Sound, TalkStep, ProcStep

LEMMA StepMoveTag ==
    ASSUME PlanInv, MoveTag PROVE PlanInv'
  <1>1. /\ Happens("tag") /\ facts' = [facts EXCEPT !.images = @ + 1]
        /\ UNCHANGED <<want, pass, inputs, records, policies, pods, seen, proc, out, sess, busy, cut>>
    BY Zenon DEF MoveTag, objects, planning
  <1>2. world' \in World /\ Stands /\ cut' \in BOOLEAN
    BY <1>1, HappensStands, Zenon DEF PlanInv, Types
  <1>3. TalkStep
    BY <1>1, <1>2, StillStep, Zenon
  <1>4. facts \in [images : Nat \ {0}, cert : Nat, next : Nat \ {0}]
    BY Zenon DEF PlanInv, Types
  <1>5. facts' \in [images : Nat \ {0}, cert : Nat, next : Nat \ {0}]
    BY <1>1, <1>4, SMT
  <1> QED
    BY <1>1, <1>2, <1>3, <1>5, TalkKeeps, Zenon

LEMMA StepLoseSecret ==
    ASSUME PlanInv, LoseSecret PROVE PlanInv'
  <1>1. /\ Happens("secret") /\ facts' = [facts EXCEPT !.cert = 0]
        /\ UNCHANGED <<want, pass, inputs, records, policies, pods, seen, proc, out, sess, busy, cut>>
    BY Zenon DEF LoseSecret, objects, planning
  <1>2. world' \in World /\ Stands /\ cut' \in BOOLEAN
    BY <1>1, HappensStands, Zenon DEF PlanInv, Types
  <1>3. TalkStep
    BY <1>1, <1>2, StillStep, Zenon
  <1>4. facts \in [images : Nat \ {0}, cert : Nat, next : Nat \ {0}]
    BY Zenon DEF PlanInv, Types
  <1>5. facts' \in [images : Nat \ {0}, cert : Nat, next : Nat \ {0}]
    BY <1>1, <1>4, SMT
  <1> QED
    BY <1>1, <1>2, <1>3, <1>5, TalkKeeps, Zenon

LEMMA IdleOK ==
    ASSUME NEW w, NEW c, NEW n
    PROVE  PassOK(w, c, n, IdlePass) /\ IdlePass.pc \notin {"pod", "open", "policies"}
  <1>1. IdlePass.pc = "idle"
    BY Zenon DEF IdlePass
  <1>2. IdlePass.pc \notin {"talk", "store", "persist", "pod", "open", "policies"}
    BY <1>1, SMT
  <1> QED
    BY <1>1, <1>2, Zenon DEF PassOK

LEMMA StepCrash ==
    ASSUME PlanInv, Crash PROVE PlanInv'
  <1>1. /\ Happens("crash") /\ pass' = [n \in Nodes |-> IdlePass] /\ sess' = [s \in Slots |-> NoSess]
        /\ proc' = [s \in Slots |-> Unheard(proc[s])] /\ out' = [s \in Slots |-> <<>>] /\ busy' = {}
        /\ seen' = [inputs |-> inputs, records |-> records, policies |-> policies, pods |-> pods]
        /\ cut' = (cut \/ \E s \in Slots : proc[s].heard)
        /\ UNCHANGED <<want, inputs, records, policies, pods, facts>>
    BY Zenon DEF Crash, objects
  <1>2. cut' \in BOOLEAN /\ (cut => cut') /\ \A s \in Slots : proc[s].heard => cut'
    BY <1>1, Zenon DEF PlanInv, Types
  <1>3. world' \in World /\ Stands /\ Same(world, world')
    BY <1>1, <1>2, HappensStands, Zenon
  <1>4. ASSUME NEW s \in Slots
        PROVE  /\ SlotOK(world', cut', s, proc'[s], sess'[s], out'[s])
               /\ proc'[s] \in ProcSet /\ proc'[s].st = proc[s].st
    <2>1. /\ proc[s] \in ProcSet /\ SlotOK(world, cut, s, proc[s], sess[s], out[s])
          /\ ProcOK(world, cut, proc[s])
      BY <1>4, SlotFacts, Zenon
    <2>2. SlotOK(world', cut', s, proc[s], sess[s], out[s])
      BY <1>2, <1>3, <2>1, SlotKept, Zenon
    <2>3. proc[s].heard => Excused(world', cut')
      BY <1>2, <1>4, Zenon DEF Excused
    <2>4. SlotOK(world', cut', s, Unheard(proc[s]), NoSess, <<>>)
      BY <2>1, <2>2, <2>3, SlotCrashed, Zenon
    <2>5. Unheard(proc[s]) \in ProcSet /\ Unheard(proc[s]).st = proc[s].st
      BY <2>1, UnheardOK, Zenon
    <2>6. proc'[s] = Unheard(proc[s]) /\ sess'[s] = NoSess /\ out'[s] = <<>>
      BY <1>1, <1>4, Zenon
    <2> QED
      BY <2>4, <2>5, <2>6, Zenon
  <1>5. SlotsOK'
    BY <1>4, Zenon DEF SlotsOK
  <1>6. RunsOK'
    BY <1>1, <1>4, Zenon DEF PlanInv, Sound, RunsOK, Runs, Slots
  <1>7. PodsOK'
    <2>1. seen'.pods = pods
      BY <1>1, Zenon
    <2>2. ASSUME NEW a \in Attempts PROVE PodOK(world', cut', pods[a])
      BY <1>2, <1>3, <2>2, RestKept, Zenon DEF PlanInv, Sound, PodsOK
    <2> QED
      BY <1>1, <2>1, <2>2, Zenon DEF PodsOK
  <1>8. RecordsOK'
    BY <1>1, <1>3, RecordsKept, Zenon DEF PlanInv, Sound
  <1>9. \A n \in Nodes : pass'[n] = IdlePass
    BY <1>1, Zenon
  <1>10. PassesOK'
    <2>1. world'.owner = world.owner
      BY <1>3, Zenon DEF Same
    <2>2. \A n \in Nodes : want[n] # 0 => world.owner[want[n]] = n
      BY Zenon DEF PlanInv, Sound, PassesOK
    <2>3. \A n \in Nodes : PassOK(world', cut', n, pass'[n])
      BY <1>9, IdleOK, Zenon
    <2> QED
      BY <1>1, <2>1, <2>2, <2>3, Zenon DEF PassesOK
  <1>11. Types'
    <2>1. pass' \in [Nodes -> PassSet] /\ sess' \in [Slots -> SessSet]
      BY <1>1, NoneOK, Zenon
    <2>2. proc' \in [Slots -> ProcSet] /\ out' \in [Slots -> Seq(FrameSet)]
      BY <1>1, <1>4, EmptyStream, Zenon
    <2>3. seen' \in [inputs : SUBSET [a : Attempts \cup {0}, facts : FactSet], records : [Attempts -> RecordSet],
                     policies : SUBSET Attempts, pods : [Attempts -> PodSet]]
      BY <1>1, Zenon DEF PlanInv, Types
    <2> QED
      BY <1>1, <1>2, <1>3, <2>1, <2>2, <2>3, Zenon DEF PlanInv, Types
  <1>12. Guarded'
    <2>1. \A a \in Attempts : pods'[a] = pods[a]
      BY <1>1, Zenon
    <2>2. \A n \in Nodes : Fenced(world', n, pass'[n], policies', pods')
      BY <1>9, IdleOK, Zenon DEF Fenced
    <2>3. world'.lag = world.lag
      BY <1>3, Zenon DEF Same
    <2> QED
      BY <1>1, <2>1, <2>2, <2>3, Zenon DEF PlanInv, Guarded
  <1> QED
    BY <1>5, <1>6, <1>7, <1>8, <1>10, <1>11, <1>12, Zenon DEF PlanInv, Sound

LEMMA InitPlanInv == Init => PlanInv
  <1>1. SUFFICES ASSUME Init PROVE PlanInv
    BY Zenon
  <1>2. world \in World /\ world.want \in [Nodes -> Attempts \cup {0}]
        /\ \A n \in Nodes : world.want[n] # 0 => world.owner[world.want[n]] = n
    BY <1>1, WorldsAssumption, Zenon DEF Init, World
  <1>3. /\ want = world.want /\ pass = [n \in Nodes |-> IdlePass] /\ inputs = {}
        /\ records = [a \in Attempts |-> NoRecord] /\ policies = {} /\ pods = [a \in Attempts |-> NoPod]
        /\ seen = [inputs |-> inputs, records |-> records, policies |-> policies, pods |-> pods]
        /\ proc = [s \in Slots |-> NoProc] /\ out = [s \in Slots |-> <<>>] /\ sess = [s \in Slots |-> NoSess]
        /\ busy = {} /\ facts = [images |-> 1, cert |-> 0, next |-> 1] /\ cut = FALSE
    BY <1>1, Zenon DEF Init
  <1>4. Types
    <2>1. /\ pass \in [Nodes -> PassSet] /\ records \in [Attempts -> RecordSet]
          /\ pods \in [Attempts -> PodSet] /\ proc \in [Slots -> ProcSet] /\ sess \in [Slots -> SessSet]
      BY <1>3, NoneOK, Zenon
    <2>2. out \in [Slots -> Seq(FrameSet)]
      BY <1>3, EmptyStream, Zenon
    <2>3. facts \in [images : Nat \ {0}, cert : Nat, next : Nat \ {0}]
      BY <1>3, SMT
    <2>4. inputs \subseteq [a : Attempts \cup {0}, facts : FactSet] /\ policies \subseteq Attempts
          /\ busy \subseteq Workers /\ cut \in BOOLEAN
      BY <1>3, Zenon
    <2>5. seen \in [inputs : SUBSET [a : Attempts \cup {0}, facts : FactSet], records : [Attempts -> RecordSet],
                    policies : SUBSET Attempts, pods : [Attempts -> PodSet]]
      BY <1>3, <2>1, <2>4, Zenon
    <2> QED
      BY <1>2, <1>3, <2>1, <2>2, <2>3, <2>4, <2>5, Zenon DEF Types
  <1>5. SlotsOK
    <2>1. ASSUME NEW s \in Slots PROVE SlotOK(world, cut, s, proc[s], sess[s], out[s])
      <3>1. proc[s] = NoProc /\ sess[s] = NoSess /\ out[s] = <<>>
        BY <1>3, <2>1, Zenon
      <3>2. SlotOK(world, cut, s, NoProc, NoSess, <<>>)
        BY SlotCleared, Zenon
      <3> QED
        BY <3>1, <3>2, Zenon
    <2> QED
      BY <2>1, Zenon DEF SlotsOK
  <1>6. \A a \in Attempts : pods[a] = NoPod /\ seen.pods[a] = NoPod /\ records[a] = NoRecord /\ proc[a] = NoProc
    BY <1>3, Zenon DEF Slots
  <1>7. PodsOK /\ RecordsOK
    BY <1>6, NoneOK, Zenon DEF PodsOK, RecordsOK
  <1>8. RunsOK
    <2>1. NoPod.phase # "running"
      BY SMT DEF NoPod
    <2> QED
      BY <1>6, <2>1, NoneOK, Zenon DEF RunsOK, Runs
  <1>9. \A n \in Nodes : pass[n] = IdlePass
    BY <1>3, Zenon
  <1>10. PassesOK
    BY <1>2, <1>3, <1>9, IdleOK, Zenon DEF PassesOK
  <1>11. Guarded
    <2>1. \A n \in Nodes : Fenced(world, n, pass[n], policies, pods)
      BY <1>9, IdleOK, Zenon DEF Fenced
    <2>2. NoPod.phase # "running"
      BY SMT DEF NoPod
    <2> QED
      BY <1>6, <2>1, <2>2, Zenon DEF Guarded, Serving
  <1> QED
    BY <1>4, <1>5, <1>7, <1>8, <1>10, <1>11, Zenon DEF PlanInv, Sound

LEMMA StepSlot ==
    ASSUME PlanInv, NEW s \in Slots, SlotStep(s) PROVE PlanInv'
  <1>1. CASE s \in Attempts /\ (Attach(s) \/ Detach(s))
    BY <1>1, StepAttach, StepDetach, Zenon
  <1>2. CASE Serve(s) \/ Evaluate(s) \/ LoseInput(s) \/ Deadline(s)
    BY <1>2, StepServe, StepEvaluate, StepLoseInput, StepDeadline, Zenon
  <1> QED
    BY <1>1, <1>2, Zenon DEF SlotStep, SessionStep

LEMMA StepEnvironment ==
    ASSUME PlanInv, Environment PROVE PlanInv'
  <1>1. CASE \E n \in Nodes, a \in Attempts : Edit(n, a)
    BY <1>1, StepEdit, Zenon
  <1>2. CASE \E s \in Slots : Kill(s) \/ Cut(s) \/ Misreport(s)
    BY <1>2, StepKill, StepCut, StepMisreport, Zenon
  <1>3. CASE MoveTag \/ LoseSecret \/ Crash
    BY <1>3, StepMoveTag, StepLoseSecret, StepCrash, Zenon
  <1> QED
    BY <1>1, <1>2, <1>3, Zenon DEF Environment

=============================================================================
