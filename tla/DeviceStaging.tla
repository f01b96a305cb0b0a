---------------------------- MODULE DeviceStaging ----------------------------
(***************************************************************************)
(* How preparation fills a Node's artifact volume                          *)
(* (internal/deviceplan/preparer.go and staging_policy.go): the packages   *)
(* are evaluated again, what they write must be what was planned, and it   *)
(* is published beside what the device itself wrote there.                 *)
(*                                                                         *)
(* A volume is a record: its files, the ledger of what preparation last    *)
(* published (ok is FALSE when there is none that can be read) and the     *)
(* digests of the files that were rendered for the Pod's own management    *)
(* network.  A staging state is what one preparation knows of a Node.      *)
(***************************************************************************)
EXTENDS DeviceWorkload

NoLedger == [ok |-> FALSE, files |-> NoFiles, token |-> "", preserved |-> {}]

EmptyVolume == [files |-> NoFiles, ledger |-> NoLedger, digests |-> NoFiles]

-----------------------------------------------------------------------------
(* What is to be published *)

Generated(in, ev) == UNION { GeneratedArtifactPlans(ev, n) : n \in Range(in.nodes) }

Expected(plan) == { f \in plan.files : f.src # "payload" }

ValidatePlanInputIdentity(in, plan) == Refuse(InputDigest(in) # plan.digest, "invariant")

PreparedArtifactMismatch(in, plan, ev) ==
  Refuse(Generated(in, ev) # Expected(plan), "invariant")

\* The packages run once more with the management facts of the Pod.  Only the
\* content of regular files may differ.
Divergence(plan, got) ==
  LET changed == got \ Expected(plan)
      identity(F) == { [f EXCEPT !.digest = <<>>] : f \in F }
  IN [err |-> First(<<Refuse(identity(got) # identity(Expected(plan)), "invariant"),
                      Refuse(\E f \in changed : f.kind # "regular", "invariant")>>),
      divergent |-> changed]

RenderRuntimeManagementArtifacts(in, plan, proj, podDNS) ==
  LET completed == CompleteRuntimeManagement(in, plan, podDNS)
  IN IF completed = in THEN [err |-> "ok", divergent |-> {}]
     ELSE Then(EvaluateInWorkspace(completed, BeginEntropy(InputDigest(in)), proj, FALSE),
               LAMBDA ev : Divergence(plan, Generated(completed, ev)))

\* The evaluation part of Prepare.  The files come with the content the Pod is
\* to start from; divergent are those that differ from the plan.
PrepareArtifacts(in, plan, proj, podDNS) ==
  LET matched(ev) == Failed(ev, PreparedArtifactMismatch(in, plan, ev))
      files(divergent) ==
        divergent \cup { f \in Expected(plan) : ~\E g \in divergent : g.id = f.id }
  IN Then([err |-> ValidatePlanInputIdentity(in, plan)], LAMBDA valid :
     Then(Evaluate(in, proj, TRUE), LAMBDA ev :
     Then(matched(ev), LAMBDA same :
     Then(RenderRuntimeManagementArtifacts(in, plan, proj, podDNS), LAMBDA again :
       [err |-> "ok", files |-> files(again.divergent), divergent |-> again.divergent]))))

\* writeRuntimeArtifactDigests
RuntimeArtifactDigests(divergent, id) ==
  LET own == { f \in divergent : f.node = id }
  IN [p \in { f.path : f \in own } |-> (CHOOSE f \in own : f.path = p).digest]

-----------------------------------------------------------------------------
(* Whether it is published *)

LoadStagingLedger(v) == IF v.ledger.ok THEN v.ledger ELSE NoLedger

\* A reset that the ledger does not acknowledge empties the volume first.
ResetRequested(v, token) == token # "" /\ token # LoadStagingLedger(v).token

WipeNodeArtifacts(v, token) == IF ResetRequested(v, token) THEN EmptyVolume ELSE v

NewStagingPolicy(v, plan, opts, id, token) ==
  LET ledger == LoadStagingLedger(v)
      reset == ResetRequested(v, token)
  IN [persistent |-> id \in opts.claims, enforce |-> plan.nodes[id].enforce,
      files |-> IF reset THEN NoFiles ELSE ledger.files,
      token |-> IF reset THEN token ELSE ledger.token, preserved |-> {}]

\* Mutant: it is published whatever the device made of it.
PublishesAlways(state, v, f) == TRUE

\* Mutant: a file belongs to the device as soon as it is not what is to be published.
PublishesUnchanged(state, v, f) ==
  \/ ~state.persistent \/ state.enforce \/ f.path \notin DOMAIN v.files
  \/ ArtifactKind(v.files[f.path]) = f.kind /\ v.files[f.path] = f.digest

\* On a persistent volume a file that is not what was last published there
\* belongs to the device.
ShouldPublish(state, v, f) ==
  \/ ~state.persistent
  \/ state.enforce
  \/ f.path \notin DOMAIN v.files
  \/ /\ ArtifactKind(v.files[f.path]) = f.kind
     /\ v.files[f.path] = IF f.path \in DOMAIN state.files THEN state.files[f.path] ELSE f.digest

\* stageArtifactContent, stageArtifactSymlink: a temporary file is renamed over
\* the destination, unless that is a file of another kind.
StageArtifact(v, f) ==
  Refuse(f.path \in DOMAIN v.files /\ ArtifactKind(v.files[f.path]) # f.kind, "unsupported")

RecordPublished(state, f) ==
  [state EXCEPT !.files = With(@, f.path, f.digest), !.preserved = @ \ {f.path}]

Preserve(state, f) == [state EXCEPT !.preserved = @ \cup {f.path}]

\* stagePayloads: what is projected must be what was planned.
StagePayload(f, proj) ==
  First(<<Refuse(proj[f.ref] = <<>>, "side-effect"), Refuse(proj[f.ref] # f.digest, "invariant")>>)

\* flush: the ledger of a Node, as this preparation leaves it.
FlushedLedger(state) ==
  [ok |-> TRUE, files |-> state.files, token |-> state.token, preserved |-> state.preserved]

PreservedDeviceArtifact(v, path) == v.ledger.ok /\ path \in v.ledger.preserved
=============================================================================
