--------------------------- MODULE ImportedRuntime ---------------------------
(***************************************************************************)
(* The container runtimes clabernetes hands to containerlab's imported     *)
(* node packages, in place of docker:                                      *)
(*                                                                         *)
(*   - the recording runtime (internal/deviceplan/runtime_recorder.go),    *)
(*     which performs nothing: before mutations are being recorded every   *)
(*     effect is refused, afterwards it is written down;                   *)
(*   - the application runtime (internal/directruntime/imported_runtime.go)*)
(*     of the post-start hook, the save command and, with applicationLocal *)
(*     FALSE, of the endpoint worker, which acts on one container.         *)
(*                                                                         *)
(* A package hook is external code: a sequence of calls and a result.  A   *)
(* call is a record: op (the runtime method, or "write" for a file of the  *)
(* package's lab directory), c (a container or image), from and x (the     *)
(* source of its content, or the lab file copied), dst, and soft (the      *)
(* package logs the error of the call and goes on).                        *)
(*                                                                         *)
(* A content is a tuple that names what it depends on, so that a digest of *)
(* it is the content itself.  A path is a tuple too: <<"lab", f>> for a    *)
(* file f of the lab directory, and <<"copy", n>>, <<"stdin", n>> and      *)
(* <<"hosts", c>> for the snapshots the recorder takes.                    *)
(***************************************************************************)
EXTENDS Naturals, Sequences, SequencesExt

NoFiles == [p \in {} |-> <<>>]

With(f, k, v) == [x \in DOMAIN f \cup {k} |-> IF x = k THEN v ELSE f[x]]

-----------------------------------------------------------------------------
(***************************************************************************)
(* Randomness.  The packages' reads of crypto/rand are replayed from a     *)
(* seed: the stream is a function of the digest of the input the session   *)
(* was begun with, the Node, the behaviour and how often that behaviour    *)
(* already ran in the session.                                             *)
(***************************************************************************)
CanonicalEntropyBehavior(b) ==
  CASE b \in {"post-deploy-init", "readiness-init", "save-init"} -> "init"
    [] b = "certificate-preparation" -> "pre-deploy"
    [] OTHER -> b

BeginEntropy(digest) == [digest |-> digest, calls |-> NoFiles]

EntropyReader(session, node, behavior) ==
  LET id == <<node, CanonicalEntropyBehavior(behavior)>>
      n == IF id \in DOMAIN session.calls THEN session.calls[id] ELSE 0
  IN [key |-> <<session.digest, id, n>>,
      session |-> [session EXCEPT !.calls = With(@, id, n + 1)]]

\* What a package writes: a constant of the kind, its Node's definition, its
\* management configuration, or bytes drawn from crypto/rand.
Content(env, from, x) ==
  CASE from = "config"     -> <<"config", x, env.ver>>
    [] from = "management" -> <<"management", x, env.mgmt>>
    [] from = "random"     -> <<"random", x, env.key>>
    [] from = "startup"    -> <<"startup", x, env.startup>>
    [] OTHER               -> <<from, x>>

-----------------------------------------------------------------------------
(* The recording runtime *)

NewRecordingRuntime(images, files) ==
  [recording |-> FALSE, observing |-> FALSE, allowMissing |-> FALSE,
   images |-> images, missing |-> {}, failure |-> "ok", err |-> "ok",
   containers |-> <<>>, started |-> {}, ops |-> <<>>, files |-> files, rooted |-> TRUE]

\* failLocked: the call fails, and the first failure is kept whatever the
\* package does with the error.
FailLocked(rt, why) ==
  [rt EXCEPT !.err = why, !.failure = IF @ = "ok" THEN why ELSE @]

Blocked(rt) == FailLocked(rt, "side-effect")

KnownContainer(rt, c) == c \in Range(rt.containers)

\* Nothing of these is ever done for a package.
AlwaysBlocked ==
  {"Init", "CreateNet", "NetworkAddresses", "SyncMgmtHostRoutes", "DeleteNet",
   "StopContainer", "PauseContainer", "UnpauseContainer", "DeleteContainer",
   "GetNSPath", "LogNonRunningContainerOutput", "CheckConnection",
   "GetRuntimeSocket", "GetCooCBindMounts", "StreamLogs", "StreamEvents"}

RecordPullImage(rt, call) ==
  IF call.c \in rt.images THEN rt ELSE FailLocked(rt, "missing-input")

RecordCreateContainer(rt, call) ==
  IF call.c = "" \/ KnownContainer(rt, call.c) THEN FailLocked(rt, "invariant")
  ELSE [rt EXCEPT !.containers = Append(@, call.c)]

RecordStartContainer(rt, call) ==
  IF KnownContainer(rt, call.c) THEN [rt EXCEPT !.started = @ \cup {call.c}]
  ELSE FailLocked(rt, "invariant")

\* Every recorded operation takes the next of one shared sequence of orders:
\* its place in ops, counted from 0.
Take(rt, kind, call, x, dst) ==
  [rt EXCEPT !.ops = Append(@, [kind |-> kind, c |-> call.c, x |-> x, dst |-> dst])]

RecordExec(env, rt, call) ==
  IF call.from = "none" \/ ~KnownContainer(rt, call.c) THEN FailLocked(rt, "invariant")
  ELSE Take(rt, call.op, call, Content(env, call.from, call.x), "")

CountOps(rt, kinds) == Len(SelectSeq(rt.ops, LAMBDA o : o.kind \in kinds))

\* One controlled hosts file per container; what the package appends to it is
\* part of the file.
RecordGetHostsPath(env, rt, call) ==
  LET p == <<"hosts", call.c>>
      text == Content(env, call.from, call.x)
  IN IF ~KnownContainer(rt, call.c) THEN FailLocked(rt, "invariant")
     ELSE IF \E i \in DOMAIN rt.ops : rt.ops[i].x = p
       THEN [rt EXCEPT !.files[p] = Append(@, text)]
     ELSE IF p \in DOMAIN rt.files THEN FailLocked(rt, "side-effect")
     ELSE [Take(rt, "append", call, p, "/etc/hosts") EXCEPT
             !.files = With(@, p, <<"hosts", text>>)]

\* The snapshot is created exclusively: a file that is there already is an error.
RecordStdin(env, rt, call) ==
  LET p == <<"stdin", CountOps(rt, {"stdin"})>>
  IN IF ~KnownContainer(rt, call.c) \/ call.from = "none"
       THEN FailLocked(rt, "invariant")
     ELSE IF p \in DOMAIN rt.files THEN FailLocked(rt, "side-effect")
     ELSE [Take(rt, "stdin", call, p, "") EXCEPT
             !.files = With(@, p, Content(env, call.from, call.x))]

\* A source inside the recorder's own directory is named, and read when the
\* package has finished; any other source is copied now.  The directory is the
\* lab directory, except in a replay (rooted FALSE).
RecordCopyToContainer(env, rt, call) ==
  LET p == <<"copy", CountOps(rt, {"copy", "append"})>>
      lab == <<"lab", call.x>>
  IN IF ~KnownContainer(rt, call.c) \/ call.dst = "" \/ call.x = ""
       THEN FailLocked(rt, "invariant")
     ELSE IF call.from = "lab" /\ lab \notin DOMAIN rt.files
       THEN FailLocked(rt, "missing-input")
     ELSE IF call.from = "lab" /\ rt.rooted THEN Take(rt, "copy", call, lab, call.dst)
     ELSE IF p \in DOMAIN rt.files THEN FailLocked(rt, "side-effect")
     ELSE [Take(rt, "copy", call, p, call.dst) EXCEPT
             !.files = With(@, p, IF call.from = "lab" THEN rt.files[lab]
                                  ELSE Content(env, call.from, call.x))]

RecordInspectImage(rt, call) ==
  IF call.c \in rt.images THEN rt
  ELSE IF rt.allowMissing THEN [rt EXCEPT !.missing = @ \cup {call.c}]
  ELSE FailLocked(rt, "missing-input")

RecordIsHealthy(rt, call) ==
  IF rt.observing /\ call.c # "" THEN rt
  ELSE IF ~rt.recording THEN Blocked(rt)
  ELSE IF KnownContainer(rt, call.c) THEN rt ELSE FailLocked(rt, "invariant")

\* GetContainerStatus has no error to return, only one to keep.
RecordGetContainerStatus(rt, call) ==
  IF (rt.observing /\ call.c # "") \/ rt.recording THEN rt
  ELSE [Blocked(rt) EXCEPT !.err = "ok"]

\* Package code writing into its lab directory, over what is there or, as
\* most kinds treat the configuration a device saved, only where nothing is.
WriteLabFile(env, rt, call) ==
  LET p == <<"lab", call.x>>
  IN IF call.dst = "absent" /\ p \in DOMAIN rt.files THEN rt
     ELSE [rt EXCEPT !.files = With(@, p, Content(env, call.from, call.x))]

RecordCall(env, rt0, call) ==
  LET rt == [rt0 EXCEPT !.err = "ok"]
  IN CASE call.op = "write"              -> WriteLabFile(env, rt, call)
       [] call.op \in AlwaysBlocked      -> Blocked(rt)
       [] call.op = "InspectImage"       -> RecordInspectImage(rt, call)
       [] call.op = "IsHealthy"          -> RecordIsHealthy(rt, call)
       [] call.op = "GetContainerStatus" -> RecordGetContainerStatus(rt, call)
       [] ~rt.recording                  -> Blocked(rt)
       [] call.op = "PullImage"          -> RecordPullImage(rt, call)
       [] call.op = "CreateContainer"    -> RecordCreateContainer(rt, call)
       [] call.op = "StartContainer"     -> RecordStartContainer(rt, call)
       [] call.op \in {"exec", "execNoWait"} -> RecordExec(env, rt, call)
       [] call.op = "hosts"              -> RecordGetHostsPath(env, rt, call)
       [] call.op = "stdin"              -> RecordStdin(env, rt, call)
       [] call.op = "copy"               -> RecordCopyToContainer(env, rt, call)
       [] OTHER                          -> rt

-----------------------------------------------------------------------------
(***************************************************************************)
(* The application runtime.  It knows the planned containers, and acts on  *)
(* the one whose process it shares; did is what reached the device.        *)
(***************************************************************************)
NewApplicationRuntime(containers, target, local, images, files) ==
  [containers |-> containers, target |-> target, local |-> local,
   images |-> images, created |-> {}, failure |-> "ok", err |-> "ok",
   files |-> files, did |-> <<>>]

\* The planned runtime identities must be present and distinct, and the target
\* one of them.
RuntimeRefused(containers, target) ==
  \/ \E k \in containers : k.rid = ""
  \/ \E k, l \in containers : k # l /\ k.rid = l.rid
  \/ ~\E k \in containers : k.id = target

Planned(rt, c) == { k \in rt.containers : k.rid = c }

TargetOf(rt) == CHOOSE k \in rt.containers : k.id = rt.target

\* A capability the Pod cannot give is remembered, whatever the package does
\* with the error; any other error is the package's to handle.
UnsupportedCapability(rt) ==
  [rt EXCEPT !.err = "unsupported", !.failure = IF @ = "ok" THEN "unsupported" ELSE @]

PlainError(rt) == [rt EXCEPT !.err = "err"]

NeverRealized ==
  {"CreateNet", "NetworkAddresses", "SyncMgmtHostRoutes", "DeleteNet",
   "StopContainer", "PauseContainer", "UnpauseContainer", "DeleteContainer",
   "LogNonRunningContainerOutput", "GetRuntimeSocket", "GetCooCBindMounts",
   "StreamEvents"}

ApplicationImage(rt, call) ==
  IF call.c \in rt.images THEN rt ELSE PlainError(rt)

ApplicationCreateContainer(rt, call) ==
  IF \E k \in Planned(rt, call.c) : k.node = TargetOf(rt).node
  THEN [rt EXCEPT !.created = @ \cup {call.c}]
  ELSE PlainError(rt)

ApplicationStartContainer(rt, call) ==
  IF call.c \in rt.created THEN rt ELSE PlainError(rt)

ApplicationGetNSPath(rt, call) ==
  IF \E k \in Planned(rt, call.c) : k.ns = TargetOf(rt).ns
  THEN rt ELSE PlainError(rt)

ApplicationStreamLogs(rt, call) ==
  IF ~rt.local THEN UnsupportedCapability(rt)
  ELSE IF \E k \in Planned(rt, call.c) : k.node = TargetOf(rt).node
  THEN rt ELSE PlainError(rt)

\* requireLocalContainer: only the container the hook runs in can be acted on.
RequireLocalContainer(rt, c) == \E k \in Planned(rt, c) : k.id = rt.target

Reached(env, rt, call) ==
  [rt EXCEPT !.did = Append(@, [kind |-> call.op, c |-> call.c,
                                x |-> Content(env, call.from, call.x)])]

ApplicationExec(env, rt, call) ==
  IF ~rt.local THEN UnsupportedCapability(rt)
  ELSE IF ~RequireLocalContainer(rt, call.c) \/ call.from = "none" THEN PlainError(rt)
  ELSE Reached(env, rt, call)

ApplicationHostsOrStdin(env, rt, call) ==
  IF ~rt.local THEN UnsupportedCapability(rt)
  ELSE IF ~RequireLocalContainer(rt, call.c) THEN PlainError(rt)
  ELSE Reached(env, rt, call)

ApplicationCopyToContainer(env, rt, call) ==
  IF ~rt.local THEN UnsupportedCapability(rt)
  ELSE IF \/ ~RequireLocalContainer(rt, call.c)
          \/ call.dst = "" \/ call.x = ""
          \/ call.from = "lab" /\ <<"lab", call.x>> \notin DOMAIN rt.files
    THEN PlainError(rt)
  ELSE IF call.from = "lab"
    THEN [rt EXCEPT !.did = Append(@, [kind |-> "copy", c |-> call.c,
                                       x |-> rt.files[<<"lab", call.x>>]])]
  ELSE Reached(env, rt, call)

ApplicationCall(env, rt0, call) ==
  LET rt == [rt0 EXCEPT !.err = "ok"]
  IN CASE call.op = "write"           -> WriteLabFile(env, rt, call)
       [] call.op \in NeverRealized   -> UnsupportedCapability(rt)
       [] call.op \in {"PullImage", "InspectImage"} -> ApplicationImage(rt, call)
       [] call.op = "CreateContainer" -> ApplicationCreateContainer(rt, call)
       [] call.op = "StartContainer"  -> ApplicationStartContainer(rt, call)
       [] call.op = "GetNSPath"       -> ApplicationGetNSPath(rt, call)
       [] call.op = "StreamLogs"      -> ApplicationStreamLogs(rt, call)
       [] call.op \in {"exec", "execNoWait"} -> ApplicationExec(env, rt, call)
       [] call.op \in {"hosts", "stdin"} -> ApplicationHostsOrStdin(env, rt, call)
       [] call.op = "copy"            -> ApplicationCopyToContainer(env, rt, call)
       [] OTHER                       -> rt

-----------------------------------------------------------------------------
(***************************************************************************)
(* Running a hook: its calls in order, until one fails whose error the     *)
(* package does not swallow, then its own result.  A panic is turned into  *)
(* an error.                                                               *)
(***************************************************************************)
InvokeResult(hook, rt) ==
  IF rt.err # "ok" THEN rt.err
  ELSE IF hook.result = "panic" THEN "unsupported" ELSE hook.result

Returned(rt, hook) == [rt EXCEPT !.err = InvokeResult(hook, rt)]

AfterCall(rt, call) == IF call.soft THEN [rt EXCEPT !.err = "ok"] ELSE rt

\* The next step, unless an error ended the work before it.
Then(s, step(_)) == IF s.err # "ok" THEN s ELSE step(s)

RunHook(rt, hook, perform(_, _)) ==
  Returned(FoldLeft(LAMBDA r, call : Then(r, LAMBDA x : AfterCall(perform(x, call), call)),
                    [rt EXCEPT !.err = "ok"], hook.calls), hook)

RunRecorded(env, rt, hook) == RunHook(rt, hook, LAMBDA r, call : RecordCall(env, r, call))

RunApplication(env, rt, hook) == RunHook(rt, hook, LAMBDA r, call : ApplicationCall(env, r, call))
=============================================================================
