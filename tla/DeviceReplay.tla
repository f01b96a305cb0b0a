---------------------------- MODULE DeviceReplay -----------------------------
(***************************************************************************)
(* The package hooks that run beside the started device: the post-start    *)
(* hook and the endpoint worker's (internal/deviceplan/postdeploy.go), the *)
(* readiness probe's (readiness.go) and the save command's (save.go).      *)
(*                                                                         *)
(* The first two rebuild the package's state by running its deployment     *)
(* again on a recorder, in the Node's own artifact volume, and go on to    *)
(* the live runtime only if the recording is the plan's.                   *)
(***************************************************************************)
EXTENDS DeviceStaging

\* The container of exactly one action of this kind, owned by its Node.
TargetRefused(plan, c, kind) ==
  Refuse(~\E k \in plan.containers :
            /\ k.id = c
            /\ c \in plan.nodes[k.node].cs
            /\ Cardinality({ a \in plan.actions : a.kind = kind /\ a.c = c }) = 1
            /\ \A a \in plan.actions : a.kind = kind /\ a.c = c => a.node = k.node, "err")

\* Payloads are read where preparation staged them.
RewriteStagedPayloadPaths(in, plan, id, v) ==
  LET staged(p) == <<"payload", p.id>>
  IN [in EXCEPT !.payloads = { IF p.node = id /\ staged(p) \in DOMAIN v.files
                               THEN [p EXCEPT !.digest = v.files[staged(p)]] ELSE p : p \in @ }]

\* What lies in the lab directory, as opposed to the recorder's snapshots.
LabFiles(files) == [p \in { p \in DOMAIN files : p[1] = "lab" } |-> files[p]]

\* The volume after a hook ran in it.
WithLabFiles(v, files) ==
  [v EXCEPT !.files = [p \in DOMAIN v.files \cup DOMAIN LabFiles(files) |->
                         IF p \in DOMAIN LabFiles(files) THEN files[p] ELSE v.files[p]]]

-----------------------------------------------------------------------------
(***************************************************************************)
(* runImportedRuntimeHook: what the boundary refused counts before what    *)
(* the package says of itself.                                             *)
(***************************************************************************)
RefusedOrFailed(s, n) == Failed(s, First(<<s.rt[n.id].failure, s.rt[n.id].err>>))

ReplayHook(in, s, n, behavior, hook) ==
  Then(s, LAMBDA t : RefusedOrFailed(RecordHook(in, t, n, behavior, hook), n))

ReplayInit(in, s, n, id, v) ==
  LET lab == IF n.id = id THEN LabFiles(v.files) ELSE NoFiles
      files == PreserveStartupConfigPartialMarker(in, n,
                 MaterializeEmbeddedStartupConfig(in, n, lab))
      rt == [NewRecordingRuntime(ImagesOf(in), files) EXCEPT !.rooted = FALSE]
  IN Then(Failed(s, First(<<Refuse(~n.kind.registered, "err"), DecodeNodeDefinition(n),
                            NodeConfigFromDefinition(n)>>)),
          LAMBDA t : Failed(ReplayHook(in, [t EXCEPT !.rt = With(@, n.id, rt)], n,
                                       "post-deploy-init", n.kind.init),
                            EvaluateInterfaces(in, n)))

\* verifyReplayedReadinessInventory
ReplayedInventory(plan, n) ==
  Refuse(Range(n.kind.inventory) #
         { k.rid : k \in { k \in plan.containers : k.id \in plan.nodes[n.id].ready } }, "invariant")

VerifyReplayedContainers(plan, n, rt) ==
  LET rids == { k.rid : k \in { k \in plan.containers : k.node = n.id } }
  IN Refuse(Range(rt.containers) # rids \/ rt.started # rids, "invariant")

\* The operations of the plan that come before the Node's post-deployment hook.
PlannedOperations(plan, n) ==
  LET hook == CHOOSE a \in plan.actions : a.node = n.id /\ a.kind = "postDeploy"
  IN { a \in plan.actions : a.node = n.id /\ a.phase = "postStart" /\ a.order < hook.order }

\* Mutant: a file rendered for the Pod is not the planned one.
ReplaysPlannedBytes(plan, v, a, op, rt) ==
  /\ a.kind = op.kind
  /\ ContainerOf(plan, a.c).rid = op.c
  /\ a.dst = op.dst
  /\ IF Uses(op)
     THEN \E f \in plan.files : f.node = a.node /\ f.path = a.x /\ rt.files[op.x] = f.digest
     ELSE a.x = op.x

\* A file may have the planned content, or the one rendered for the Pod.
SameReplayedDeploymentOperation(plan, v, a, op, rt) ==
  /\ a.kind = op.kind
  /\ ContainerOf(plan, a.c).rid = op.c
  /\ a.dst = op.dst
  /\ IF Uses(op)
     THEN \E f \in plan.files :
            /\ f.node = a.node /\ f.path = a.x
            /\ \/ rt.files[op.x] = f.digest
               \/ /\ f.src # "payload" /\ f.path \in DOMAIN v.digests
                  /\ rt.files[op.x] = v.digests[f.path]
     ELSE a.x = op.x

VerifyReplayedDeploymentOperations(plan, n, v, rt) ==
  LET planned == PlannedOperations(plan, n)
  IN Refuse(\/ Cardinality(planned) # Len(rt.ops)
            \/ \E a \in planned : ~SameReplayedDeploymentOperation(plan, v, a, rt.ops[a.order + 1], rt),
            "invariant")

\* The package of container c's Node as it was when its plan was made.  v is the
\* Node's volume; in has the management facts of the Pod already.
Verified(plan, n, v, s) ==
  LET rt == s.rt[n.id]
  IN Failed(s, First(<<ImportedContainerInventory(n, rt), ReplayedInventory(plan, n), rt.failure,
                       VerifyReplayedContainers(plan, n, rt),
                       VerifyReplayedDeploymentOperations(plan, n, v, rt)>>))

Rehydrated(in, n, v, s) ==
  [err |-> s.err, session |-> s.session, in |-> in,
   vol |-> IF n.id \in DOMAIN s.rt THEN WithLabFiles(v, s.rt[n.id].files) ELSE v]

RehydrateNode(in, plan, n, v) ==
  LET started == [err |-> MountedCertificates(in), session |-> BeginEntropy(InputDigest(in)),
                  rt |-> NoFiles, prepared |-> NoFiles]
      initialized(s) == ForEachNode(in, s, LAMBDA t, m : ReplayInit(in, t, m, n.id, v))
      prepared(s) == ReplayHook(in, s, n, "pre-deploy", n.kind.pre)
      recording(s) == Then(s, LAMBDA t : [t EXCEPT !.rt[n.id].recording = TRUE])
      pulled(s) == ReplayHook(in, s, n, "image-pull", n.kind.pull)
      deployed(s) == ReplayHook(in, s, n, "deploy", n.kind.deploy)
      updated(s) == ReplayHook(in, s, n, "runtime-info", n.kind.update)
  IN Rehydrated(in, n, v,
       Then(updated(deployed(pulled(recording(prepared(initialized(started)))))),
            LAMBDA s : Verified(plan, n, v, s)))

RehydrateImportedDeployment(in, plan, c, v) ==
  LET n == NodeOf(in, ContainerOf(plan, c).node)
  IN RehydrateNode(RewriteStagedPayloadPaths(in, plan, n.id, v), plan, n, v)

-----------------------------------------------------------------------------
(* The hooks *)

\* The live runtime of a container's hooks.
LiveRuntime(in, plan, c, local, v) ==
  NewApplicationRuntime({ [id |-> k.id, rid |-> k.rid, node |-> k.node, ns |-> k.ns] :
                          k \in plan.containers }, c, local, ImagesOf(in), LabFiles(v.files))

HookReturned(rt) == [err |-> First(<<rt.failure, rt.err>>), rt |-> rt]

RunImportedRuntimeHook(in, session, n, behavior, hook, rt) ==
  HookReturned(RunApplication(Env(in, n, EntropyReader(session, n.id, behavior).key), rt, hook))

\* The part of RunPostDeploy that is done once.
BeginPostDeploy(in, plan, c, v, podDNS) ==
  Then([err |-> First(<<ValidatePlanInputIdentity(in, plan), TargetRefused(plan, c, "postDeploy"),
                        Refuse(RuntimeRefused(plan.containers, c), "err")>>), vol |-> v],
       LAMBDA valid :
         RehydrateImportedDeployment(CompleteRuntimeManagement(in, plan, podDNS), plan, c, v))

\* One try of the hook, after so many others.  up: the appliance is far enough
\* for it to succeed.
PostDeployTry(in, plan, c, v, podDNS, tries, up) ==
  LET n == NodeOf(in, ContainerOf(plan, c).node)
      completed == RewriteStagedPayloadPaths(CompleteRuntimeManagement(in, plan, podDNS), plan, n.id, v)
      session == [digest |-> InputDigest(completed),
                  calls |-> With(NoFiles, <<n.id, "post-deploy">>, tries)]
      hook == IF up THEN n.kind.post ELSE [n.kind.post EXCEPT !.result = "err"]
  IN RunImportedRuntimeHook(completed, session, n, "post-deploy", hook,
                            LiveRuntime(in, plan, c, TRUE, v))

\* The endpoint worker completes the management facts without the Pod's resolver.
\* Its package is given the interfaces as realized already (evaluatePreRealizedInterfaces,
\* which refuses what evaluateInterfaces does), so kind.endpoints is what is left for
\* the kind's own hook to do.
RunEndpointHooks(plan, n, c, s) ==
  LET run(behavior, hook, rt) == RunImportedRuntimeHook(s.in, s.session, n, behavior, hook, rt)
      done(t) == [err |-> t.err, vol |-> WithLabFiles(s.vol, t.rt.files)]
  IN done(Then(run("deploy-endpoints", n.kind.endpoints, LiveRuntime(s.in, plan, c, FALSE, s.vol)),
               LAMBDA t : run("post-deploy-endpoints", n.kind.postEndpoints, t.rt)))

RunDeployEndpoints(in, plan, c, v) ==
  LET completed == CompleteRuntimeManagement(in, plan, "")
      n == NodeOf(in, ContainerOf(plan, c).node)
  IN Then(Then([err |-> First(<<ValidatePlanInputIdentity(in, plan),
                                TargetRefused(plan, c, "postDeploy"),
                                TargetRefused(plan, c, "deployEndpoints"),
                                Refuse(RuntimeRefused(plan.containers, c), "err")>>), vol |-> v],
               LAMBDA valid : RehydrateImportedDeployment(completed, plan, c, v)),
          LAMBDA s : RunEndpointHooks(plan, n, c, s))

\* The kind's own health, asked of a package that was only initialised.
ReadinessTarget(plan, c) ==
  Refuse(~\E k \in plan.containers :
            /\ k.id = c
            /\ c \in plan.nodes[k.node].ready
            /\ Cardinality({ a \in plan.actions : a.kind = "readiness" /\ a.c = c }) = 1, "err")

CheckReadiness(in, plan, c, podDNS) ==
  LET completed == CompleteRuntimeManagement(in, plan, podDNS)
      early == First(<<ValidatePlanInputIdentity(in, plan), ReadinessTarget(plan, c)>>)
      n == NodeOf(in, ContainerOf(plan, c).node)
      s0 == [err |-> "ok", session |-> BeginEntropy(InputDigest(completed)),
             rt |-> With(NoFiles, n.id,
                         NewRecordingRuntime(ImagesOf(in),
                           MaterializeEmbeddedStartupConfig(in, n, NoFiles))),
             prepared |-> NoFiles]
      s1 == HookThenRecorder(RecordHook(completed, s0, n, "readiness-init", n.kind.init), n, "err")
      s2 == RecordHook(completed, [s1 EXCEPT !.rt[n.id].observing = TRUE], n, "readiness",
                       n.kind.healthy)
  IN IF early # "ok" THEN early
     ELSE IF s1.err # "ok" THEN s1.err
     ELSE First(<<EvaluateInterfaces(in, n), s2.rt[n.id].failure, s2.rt[n.id].err>>)

RunSave(in, plan, c, v, podDNS) ==
  LET completed == CompleteRuntimeManagement(in, plan, podDNS)
      early == First(<<ValidatePlanInputIdentity(in, plan), TargetRefused(plan, c, "save"),
                       Refuse(RuntimeRefused(plan.containers, c), "err")>>)
      n == NodeOf(in, ContainerOf(plan, c).node)
      lab == [v EXCEPT !.files = MaterializeEmbeddedStartupConfig(in, n, @)]
      session == BeginEntropy(InputDigest(completed))
      init == RunImportedRuntimeHook(completed, session, n, "save-init", n.kind.init,
                                     LiveRuntime(in, plan, c, TRUE, lab))
      save == RunImportedRuntimeHook(completed, session, n, "save", n.kind.save, init.rt)
      after(t) == WithLabFiles(lab, t.files)
  IN IF early # "ok" THEN [err |-> early, vol |-> v]
     ELSE IF First(<<init.err, EvaluateInterfaces(in, n)>>) # "ok"
       THEN [err |-> First(<<init.err, EvaluateInterfaces(in, n)>>), vol |-> after(init.rt)]
     ELSE [err |-> First(<<save.err, Refuse(save.err = "ok" /\ n.kind.savedElsewhere, "err")>>),
           vol |-> after(save.rt)]
=============================================================================
