------------------------------ MODULE DevicePod ------------------------------
(***************************************************************************)
(* The life of a device Pod: it is planned and rendered from the Node's    *)
(* current input, its init containers wait for admission, fill the         *)
(* artifact volumes, install the lifecycle binary and start the            *)
(* connectivity sidecar, and its application containers are launched, run  *)
(* their post-start actions and are probed                                 *)
(* (cmd/clabernetes/cli/entrypoint.go and internal/directruntime).         *)
(*                                                                         *)
(* World w is a record of CONSTANT Worlds: inputs (the successive inputs   *)
(* of the Node), opts (the rendering options), dns (the Pod's resolver),   *)
(* boot (tries of the post-deployment hook before the appliance is up),    *)
(* reflink, others (the versions of the binary in the images of the other  *)
(* Pods of the host), cached and staged (what the host's cache held), and  *)
(* what may happen: writes, crashes, tears, resets and saves.              *)
(***************************************************************************)
EXTENDS DeviceReplay, LifecycleBinary

CONSTANTS Worlds,           \* a sequence of worlds
          RetryTries        \* tries of the post-deployment hook in its window

VARIABLES world,            \* the index of the world
          spec,             \* [n, token]: the current input and reset token
          made,             \* the plan and the rendered Pod it was made of
          pod,              \* the Pod's init containers
          run,              \* its application containers, by id
          vol,              \* the artifact volume of each Node
          left,             \* how often each fault may still happen
          hist              \* what went before, for the properties

vars == <<world, spec, made, pod, run, vol, left, hist, inst, cache>>

W == Worlds[world]

\* What is projected into a Pod is the payloads as they are now.
ProjectionOf(in) ==
  [id \in { p.id : p \in in.payloads } |-> (CHOOSE p \in in.payloads : p.id = id).digest]

\* The plan of an input and the Pod rendered from it, or why there is none.
Made(in) ==
  Then(Plan(in, ProjectionOf(in)), LAMBDA planned :
  Then(Render(planned.plan, [W.opts EXCEPT !.payloads = in.payloads]), LAMBDA rendered :
       [err |-> "ok", plan |-> planned.plan, pod |-> rendered.pod]))

In == W.inputs[pod.spec]
ThePlan == made[1].plan
ThePod == made[1].pod
Proj == ProjectionOf(W.inputs[spec.n])
NodeIDs == { n.id : n \in Range(In.nodes) }
TheContainers == { k.id : k \in ThePlan.containers }

\* The ids of all the Nodes of a world.
AllNodes(w) == UNION { { n.id : n \in Range(Worlds[w].inputs[i].nodes) } : i \in DOMAIN Worlds[w].inputs }

NoPod == [spec |-> 0, token |-> "", pc |-> "none", todo |-> {}, divergent |-> {},
          policy |-> NoFiles, started |-> FALSE, err |-> "ok"]

NewRun == [pc |-> "launch", i |-> 1, tries |-> 0, err |-> "ok", ready |-> "unknown"]

Init ==
  /\ world \in DOMAIN Worlds
  /\ spec = [n |-> 1, token |-> ""]
  /\ made = <<>>
  /\ pod = NoPod
  /\ run = NoFiles
  /\ vol = [id \in AllNodes(world) |-> EmptyVolume]
  /\ left = W.left
  /\ hist = [refused |-> FALSE, cut |-> {}, torn |-> {}]
  /\ LET vers == <<1>> \o W.others
     IN InstallInit(vers, [v \in Range(vers) |-> IF v = 1 THEN W.cached ELSE Absent], W.staged,
                    IF W.cached = Absent THEN <<>> ELSE <<1>>)

Budget(what) == left[what] > 0 /\ left' = [left EXCEPT ![what] = @ - 1]

-----------------------------------------------------------------------------
(* The Node's spec and its Deployment *)

EditSpec ==
  /\ spec.n < Len(W.inputs)
  /\ spec' = [spec EXCEPT !.n = @ + 1]
  /\ hist' = [hist EXCEPT !.refused = FALSE]
  /\ UNCHANGED <<world, made, pod, run, vol, left, inst, cache>>

RequestReset ==
  /\ Budget("resets")
  /\ spec' = [spec EXCEPT !.token = IF @ = "" THEN "reset" ELSE "reset again"]
  /\ UNCHANGED <<world, made, pod, run, vol, hist, inst, cache>>

Current == pod.spec = spec.n /\ pod.token = spec.token

\* What this preparation published and no ledger says so, by Node and path.
Unrecorded ==
  UNION { { <<id, p>> : p \in { p \in DOMAIN pod.policy[id].files \cap DOMAIN vol[id].files :
                                LET l == LoadStagingLedger(vol[id])
                                IN p \notin DOMAIN l.files \/ l.files[p] # pod.policy[id].files[p] } } :
          id \in DOMAIN pod.policy }

\* An input that cannot be planned or rendered leaves the Pod as it is.  Else,
\* as the Deployment is of type Recreate, the old Pod is gone, with every volume
\* that is not a claim's.
ReconcileDeployment ==
  /\ ~Current /\ ~hist.refused
  /\ \E new \in {Made(W.inputs[spec.n])} :
        IF new.err # "ok"
        THEN /\ hist' = [hist EXCEPT !.refused = TRUE]
             /\ UNCHANGED <<made, pod, run, vol, inst, cache>>
        ELSE /\ made' = <<[plan |-> new.plan, pod |-> new.pod]>>
             /\ pod' = [NoPod EXCEPT !.spec = spec.n, !.token = spec.token, !.pc = new.pod.init[1]]
             /\ run' = NoFiles
             /\ vol' = [id \in DOMAIN vol |-> IF id \in W.opts.claims THEN vol[id] ELSE EmptyVolume]
             /\ hist' = [hist EXCEPT !.cut = { x \in @ \cup Unrecorded : x[1] \in W.opts.claims }]
             /\ Recreate(1)
  /\ UNCHANGED <<world, spec, left>>

-----------------------------------------------------------------------------
(* The init containers, in the order they were rendered in *)

NextInit(name) ==
  LET init == ThePod.init
      i == CHOOSE i \in DOMAIN init : init[i] = name
  IN init[i + 1]

\* WaitStartupAdmission: the annotation names this very Pod.
Admit ==
  /\ pod.pc = "startup-gate"
  /\ pod' = [pod EXCEPT !.pc = NextInit("startup-gate")]
  /\ UNCHANGED <<world, spec, made, run, vol, left, hist, inst, cache>>

\* An init container that fails is started again, after a while.
PreparationFails(err) ==
  /\ pod' = [pod EXCEPT !.pc = "backoff", !.err = err, !.todo = {}, !.divergent = {},
                        !.policy = NoFiles]
  /\ hist' = [hist EXCEPT !.cut = @ \cup Unrecorded]

Retry ==
  /\ pod.pc \in {"backoff", "sidecar-backoff"}
  /\ pod' = [pod EXCEPT !.pc = IF @ = "backoff" THEN "prepare" ELSE "connectivity"]
  /\ UNCHANGED <<world, spec, made, run, vol, left, hist, inst, cache>>

\* Prepare, up to its first publication: the volumes of the Nodes whose reset
\* was not acknowledged yet are wiped.
Prepare ==
  /\ pod.pc = "prepare"
  /\ \E staged \in {PrepareArtifacts(In, ThePlan, Proj, W.dns)} :
        IF staged.err # "ok"
        THEN PreparationFails(staged.err) /\ UNCHANGED vol
        ELSE /\ hist' = [hist EXCEPT !.cut = { x \in @ : ~ResetRequested(vol[x[1]], pod.token) }]
             /\ pod' = [pod EXCEPT !.pc = "publish", !.err = "ok", !.divergent = staged.divergent,
                          !.todo = staged.files,
                          !.policy = [id \in NodeIDs |->
                            NewStagingPolicy(vol[id], ThePlan, W.opts, id, pod.token)]]
             /\ vol' = [id \in DOMAIN vol |->
                          IF id \in NodeIDs THEN WipeNodeArtifacts(vol[id], pod.token) ELSE vol[id]]
  /\ UNCHANGED <<world, spec, made, run, left, inst, cache>>

\* One artifact or payload: published, or left to the device.
Stage(f) ==
  IF ~ShouldPublish(pod.policy[f.node], vol[f.node], f)
  THEN /\ pod' = [pod EXCEPT !.todo = @ \ {f}, !.policy[f.node] = Preserve(@, f)]
       /\ UNCHANGED <<vol, hist>>
  ELSE IF StageArtifact(vol[f.node], f) # "ok"
  THEN PreparationFails(StageArtifact(vol[f.node], f)) /\ UNCHANGED vol
  ELSE /\ vol' = [vol EXCEPT ![f.node].files = With(@, f.path, f.digest)]
       /\ pod' = [pod EXCEPT !.todo = @ \ {f}, !.policy[f.node] = RecordPublished(@, f)]
       /\ UNCHANGED hist

PublishArtifact ==
  /\ pod.pc = "publish" /\ pod.todo # {}
  /\ Stage(CHOOSE f \in pod.todo : TRUE)
  /\ UNCHANGED <<world, spec, made, run, left, inst, cache>>

WriteRuntimeArtifactDigests ==
  /\ pod.pc = "publish" /\ pod.todo = {}
  /\ vol' = [id \in DOMAIN vol |->
               IF id \in NodeIDs
               THEN [vol[id] EXCEPT !.digests = RuntimeArtifactDigests(pod.divergent, id)]
               ELSE vol[id]]
  /\ pod' = [pod EXCEPT !.pc = "payloads", !.todo = ThePlan.files \ Expected(ThePlan)]
  /\ UNCHANGED <<world, spec, made, run, left, hist, inst, cache>>

StagePayloads ==
  /\ pod.pc = "payloads" /\ pod.todo # {}
  /\ LET f == CHOOSE f \in pod.todo : TRUE
         bad == StagePayload(f, Proj)
     IN IF bad # "ok" THEN PreparationFails(bad) /\ UNCHANGED vol ELSE Stage(f)
  /\ UNCHANGED <<world, spec, made, run, left, inst, cache>>

\* The ledgers are written one by one, each in place.
Flush ==
  /\ pod.pc = "payloads" /\ pod.todo = {}
  /\ IF pod.policy = NoFiles
     THEN pod' = [pod EXCEPT !.pc = "install", !.divergent = {}] /\ UNCHANGED <<vol, hist>>
     ELSE \E id \in DOMAIN pod.policy :
            /\ vol' = [vol EXCEPT ![id].ledger = FlushedLedger(pod.policy[id])]
            /\ pod' = [pod EXCEPT !.policy = [x \in DOMAIN @ \ {id} |-> @[x]]]
            /\ hist' = [hist EXCEPT !.cut = { x \in @ :
                          ~(/\ x[1] = id /\ x[2] \in DOMAIN pod.policy[id].files
                            /\ x[2] \in DOMAIN vol[id].files
                            /\ vol[id].files[x[2]] = pod.policy[id].files[x[2]]) }]
  /\ UNCHANGED <<world, spec, made, run, left, inst, cache>>

InstallLifecycleBinary ==
  /\ pod.pc = "install"
  /\ IF inst[1].pc = "done"
     THEN pod' = [pod EXCEPT !.pc = NextInit("prepare")] /\ UNCHANGED <<inst, cache>>
     ELSE InstallStep(1, W.reflink) /\ UNCHANGED pod
  /\ UNCHANGED <<world, spec, made, run, vol, left, hist>>

\* Another Pod of the host, with another version of the binary or the same.
OtherInstalls(i) ==
  /\ InstallStep(i, W.reflink)
  /\ UNCHANGED <<world, spec, made, pod, run, vol, left, hist>>

CreateDeviceNetns ==
  /\ pod.pc = "device-netns"
  /\ pod' = [pod EXCEPT !.pc = NextInit("device-netns")]
  /\ UNCHANGED <<world, spec, made, run, vol, left, hist, inst, cache>>

-----------------------------------------------------------------------------
(***************************************************************************)
(* The sidecar.  Of what it does before it is started only the endpoint    *)
(* hooks of the packages are modelled here, Node by Node.                  *)
(***************************************************************************)
EndpointTargets ==
  LET target(n) == (CHOOSE a \in ThePlan.actions : a.kind = "deployEndpoints" /\ a.node = n.id).c
  IN [i \in DOMAIN In.nodes |-> [node |-> In.nodes[i].id, c |-> target(In.nodes[i])]]

RunEndpointTargets ==
  LET ran(s, a, r) == [err |-> r.err, vol |-> [s.vol EXCEPT ![a.node] = r.vol]]
  IN FoldLeft(LAMBDA s, a :
                Then(s, LAMBDA t : ran(t, a, RunDeployEndpoints(In, ThePlan, a.c, t.vol[a.node]))),
              [err |-> "ok", vol |-> vol], EndpointTargets)

ReconcileImportedEndpointLifecycle ==
  /\ pod.pc = "connectivity"
  /\ \E end \in {RunEndpointTargets} :
       /\ vol' = end.vol
       /\ pod' = [pod EXCEPT !.err = end.err, !.started = @ \/ end.err = "ok",
                             !.pc = IF end.err = "ok" THEN "up" ELSE "sidecar-backoff"]
       /\ run' = IF end.err = "ok" /\ ~pod.started THEN [c \in TheContainers |-> NewRun] ELSE run
  /\ UNCHANGED <<world, spec, made, left, hist, inst, cache>>

-----------------------------------------------------------------------------
(* The application containers *)

PostStartActions(plan, c) == { a \in plan.actions : a.phase = "postStart" /\ a.c = c }

\* A container that ends, or whose post-start hook fails, is started again.
Dead(err) == [NewRun EXCEPT !.pc = "dead", !.err = err]

Relaunch(c) ==
  /\ run[c].pc = "dead"
  /\ run' = [run EXCEPT ![c].pc = "launch"]
  /\ UNCHANGED <<world, spec, made, pod, vol, left, hist, inst, cache>>

\* RunLaunch: mount what the volumes cannot express, and become the device.
Launch(c) ==
  /\ run[c].pc = "launch"
  /\ LET foreign == \E a \in ThePlan.actions :
                      /\ a.kind = "mount" /\ a.c = c
                      /\ ~\E m \in ThePlan.mounts : m.id = a.x /\ m.c = c
         none == "no-command" \in ContainerOf(ThePlan, c).traits
     IN run' = [run EXCEPT ![c] = IF foreign \/ none THEN Dead("err") ELSE [NewRun EXCEPT !.pc = "post"]]
  /\ UNCHANGED <<world, spec, made, pod, vol, left, hist, inst, cache>>

\* readLifecycleFile: the bytes must be the plan's, the ones rendered for the
\* Pod, or ones the last preparation left to the device.
ReadLifecycleFile(plan, v, a) ==
  LET f == CHOOSE f \in plan.files : f.node = a.node /\ f.path = a.x
  IN IF f.path \notin DOMAIN v.files THEN "err"
     ELSE Refuse(/\ v.files[f.path] # f.digest
                 /\ ~(f.src # "payload" /\ f.path \in DOMAIN v.digests
                      /\ v.digests[f.path] = v.files[f.path])
                 /\ ~PreservedDeviceArtifact(v, f.path), "differs")

Done(c) == [run[c] EXCEPT !.i = @ + 1, !.tries = 0]

\* A command may fail.  Only the user's own may do so without consequence.
RunLifecycleExec(c, a) ==
  \/ run' = [run EXCEPT ![c] = Done(c)] /\ UNCHANGED <<vol, left>>
  \/ /\ Budget("fails")
     /\ run' = [run EXCEPT ![c] = IF a.kind = "continue" THEN Done(c) ELSE Dead("err")]
     /\ UNCHANGED vol

RunLifecycleFile(c, a) ==
  LET err == ReadLifecycleFile(ThePlan, vol[a.node], a)
  IN /\ run' = [run EXCEPT ![c] = IF err = "ok" THEN Done(c) ELSE Dead(err)]
     /\ UNCHANGED <<vol, left>>

\* The part of RunPostDeploy before the hook is first tried.
RehydratePackage(c, a) ==
  \E begun \in {BeginPostDeploy(In, ThePlan, c, vol[a.node], W.dns)} :
    /\ vol' = [vol EXCEPT ![a.node] = begun.vol]
    /\ run' = [run EXCEPT ![c] = IF begun.err = "ok" THEN [@ EXCEPT !.tries = 1] ELSE Dead(begun.err)]

\* Mutant: the first error of the hook ends the post-start phase.
HookTriedOnce(c, a) ==
  /\ IF run[c].tries = 0
     THEN RehydratePackage(c, a)
     ELSE \E try \in {PostDeployTry(In, ThePlan, c, vol[a.node], W.dns, 0,
                                     run[c].tries > W.boot)} :
             /\ vol' = [vol EXCEPT ![a.node] = WithLabFiles(@, try.rt.files)]
             /\ run' = [run EXCEPT ![c] = IF try.err = "ok" THEN Done(c) ELSE Dead(try.err)]
  /\ UNCHANGED left

\* RunPostDeploy: the package's state is rebuilt once; then its hook is tried
\* until it succeeds, the boundary refuses something or the window is over.
RunPostDeploy(c, a) ==
  /\ IF run[c].tries = 0
     THEN RehydratePackage(c, a)
     ELSE \E try \in {PostDeployTry(In, ThePlan, c, vol[a.node], W.dns, run[c].tries - 1,
                                     run[c].tries > W.boot)} :
             /\ vol' = [vol EXCEPT ![a.node] = WithLabFiles(@, try.rt.files)]
             /\ run' = [run EXCEPT ![c] =
                  IF try.err = "ok" THEN Done(c)
                  ELSE IF try.err \in Codes \/ run[c].tries >= RetryTries THEN Dead(try.err)
                  ELSE [@ EXCEPT !.tries = @ + 1]]
  /\ UNCHANGED left

\* RunLifecycle of the post-start phase, action by action.
PostStart(c) ==
  /\ run[c].pc = "post"
  /\ LET all == PostStartActions(ThePlan, c)
         a == CHOOSE a \in all : Cardinality({ b \in all : b.order < a.order }) = run[c].i - 1
     IN IF run[c].i > Cardinality(all)
        THEN run' = [run EXCEPT ![c].pc = "up", ![c].i = 1] /\ UNCHANGED <<vol, left>>
        ELSE \/ a.kind \in {"exec", "execNoWait", "continue"} /\ RunLifecycleExec(c, a)
             \/ a.kind \in {"copy", "append", "stdin"} /\ RunLifecycleFile(c, a)
             \/ a.kind = "postDeploy" /\ RunPostDeploy(c, a)
  /\ UNCHANGED <<world, spec, made, pod, hist, inst, cache>>

\* RunReadiness.  A container with no readiness action is ready when it runs.
Readiness(c) ==
  /\ run[c].pc = "up" /\ run[c].ready = "unknown"
  /\ LET asked == \E a \in ThePlan.actions : a.kind = "readiness" /\ a.c = c
         err == IF ~asked THEN "ok"
                ELSE First(<<Refuse(ContainerOf(ThePlan, c).health.test = "fails", "err"),
                             CheckReadiness(In, ThePlan, c, W.dns)>>)
     IN run' = [run EXCEPT ![c].ready = IF err = "ok" THEN "yes" ELSE "no", ![c].err = err]
  /\ UNCHANGED <<world, spec, made, pod, vol, left, hist, inst, cache>>

\* The save command, run by a user in the container.
Save(c) ==
  /\ Budget("saves")
  /\ run[c].pc = "up"
  /\ ApplicationSaveCommand(ThePlan, c)
  /\ LET id == ContainerOf(ThePlan, c).node
     IN vol' = [vol EXCEPT ![id] = RunSave(In, ThePlan, c, @, W.dns).vol]
  /\ UNCHANGED <<world, spec, made, pod, run, hist, inst, cache>>

-----------------------------------------------------------------------------
(* The device and the faults *)

\* The files of the lab directory a container may write.
Writable(c) ==
  { m.sub : m \in { m \in ThePod.containers[c].mounts : ~m.ro /\ Len(m.sub) = 2 /\ m.sub[1] = "lab" } }

\* What the device writes bears the reset token it was prepared under.
DeviceContent(token) == <<"device", token>>

DeviceWrites(c) ==
  /\ Budget("writes")
  /\ run[c].pc \in {"post", "up"}
  /\ \E p \in Writable(c) :
       vol' = [vol EXCEPT ![ContainerOf(ThePlan, c).node].files = With(@, p, DeviceContent(pod.token))]
  /\ UNCHANGED <<world, spec, made, pod, run, hist, inst, cache>>

CrashPreparation ==
  /\ Budget("crashes")
  /\ pod.pc \in {"publish", "payloads", "install"}
  /\ PreparationFails("ok")
  /\ Kill(1)
  /\ UNCHANGED <<world, spec, made, run, vol>>

\* A crash in the middle of writing a ledger.
TearLedger ==
  /\ Budget("tears")
  /\ pod.pc = "payloads" /\ pod.todo = {}
  /\ \E id \in DOMAIN pod.policy :
       /\ vol' = [vol EXCEPT ![id].ledger = NoLedger]
       /\ hist' = [hist EXCEPT !.torn = @ \cup {id}]
  /\ pod' = [pod EXCEPT !.pc = "backoff", !.policy = NoFiles, !.divergent = {}]
  /\ UNCHANGED <<world, spec, made, run, inst, cache>>

CrashSidecar ==
  /\ Budget("crashes")
  /\ pod.pc = "up"
  /\ pod' = [pod EXCEPT !.pc = "connectivity"]
  /\ UNCHANGED <<world, spec, made, run, vol, hist, inst, cache>>

CrashContainer(c) ==
  /\ Budget("crashes")
  /\ run[c].pc # "dead"
  /\ run' = [run EXCEPT ![c] = Dead("ok")]
  /\ UNCHANGED <<world, spec, made, pod, vol, hist, inst, cache>>

\* The sandbox is lost: the same Pod starts over, with its volumes.
Reboot ==
  /\ Budget("crashes")
  /\ pod.started
  /\ pod' = [NoPod EXCEPT !.spec = pod.spec, !.token = pod.token, !.pc = ThePod.init[1]]
  /\ run' = NoFiles
  /\ Kill(1)
  /\ UNCHANGED <<world, spec, made, vol, hist>>

KillOther(i) ==
  /\ Budget("crashes")
  /\ inst[i].pc # "idle"
  /\ Kill(i)
  /\ UNCHANGED <<world, spec, made, pod, run, vol, hist>>

InitStep ==
  \/ Admit \/ Prepare \/ PublishArtifact \/ WriteRuntimeArtifactDigests \/ StagePayloads
  \/ Flush \/ InstallLifecycleBinary \/ CreateDeviceNetns \/ ReconcileImportedEndpointLifecycle
  \/ Retry

ContainerStep(c) == Relaunch(c) \/ Launch(c) \/ PostStart(c) \/ Readiness(c)

Next ==
  \/ EditSpec \/ RequestReset \/ ReconcileDeployment
  \/ InitStep
  \/ \E i \in DOMAIN inst \ {1} : OtherInstalls(i) \/ KillOther(i)
  \/ \E c \in DOMAIN run : ContainerStep(c) \/ Save(c) \/ DeviceWrites(c) \/ CrashContainer(c)
  \/ CrashPreparation \/ TearLedger \/ CrashSidecar \/ Reboot

Spec == Init /\ [][Next]_vars

\* The kubelet runs the init containers in order and starts again what ended;
\* the Deployment's Pod is replaced.  Another Pod's installer may stop for good.
FairSpec ==
  /\ Spec
  /\ []<>(Current \/ hist.refused)
     \/ []<><<pod'.spec # pod.spec \/ pod'.token # pod.token \/ hist'.refused # hist.refused>>_vars
  /\ []<>(pod.pc \in {"none", "up"}) \/ []<><<pod' # pod \/ inst'[1] # inst[1]>>_vars
  /\ []<>(\A c \in DOMAIN run : run[c].pc = "up" /\ run[c].ready # "unknown") \/ []<><<run' # run>>_vars

-----------------------------------------------------------------------------
(* Properties *)

HookCalls(n) == UNION { Range(h.calls) : h \in {n.kind.init, n.kind.pre, n.kind.deploy} }
LiveCalls(n) == UNION { Range(h.calls) : h \in {n.kind.post, n.kind.endpoints, n.kind.postEndpoints, n.kind.save} }

\* The lab files that package code rewrites whatever is there.
Rewritten(n) ==
  { <<"lab", c.x>> : c \in { c \in HookCalls(n) \cup LiveCalls(n) : c.op = "write" /\ c.dst # "absent" } }
  \cup { <<"lab", "embedded">>, <<"lab", "partial">> }

IsDeviceContent(x) == x[1] = "device"

\* What a device wrote to a persistent volume stays until the device writes
\* there again, unless its startup configuration is enforced, a reset was asked
\* for since it was written, or the kind's own code rewrites that very file.
\* (After a crash in the middle of writing a ledger a reset is carried out
\* again.)  Preparation, replays, crashes and new Pods in between keep it
\* (staging_policy.go, preparer.go, postdeploy.go).
DeviceStateKept ==
  [][\A id \in DOMAIN vol \cap W.opts.claims : \A p \in DOMAIN vol[id].files :
       LET was == vol[id].files[p]
       IN IsDeviceContent(was) =>
          \/ p \in DOMAIN vol'[id].files /\ (vol'[id].files[p] = was \/ IsDeviceContent(vol'[id].files[p]))
          \/ ThePlan.nodes[id].enforce
          \/ was[2] # pod.token
          \/ id \in hist.torn
          \/ p \in Rewritten(NodeOf(In, id))]_vars

\* When the sidecar has started, every file of the plan is in its volume with
\* the content the current plan declares or the one rendered for this Pod, or
\* it is the device's: an edited definition reaches the volume however many
\* Pods, crashes and edits came before.  (Not so for a file published by a
\* preparation that was cut off before it wrote the ledger: the next one takes
\* it for the device's.  And files package code writes later are its own.)
DeclaredContent ==
  pod.started =>
    \A f \in ThePlan.files :
      LET v == vol[f.node]
          n == NodeOf(In, f.node)
      IN /\ f.path \in DOMAIN v.files
         /\ \/ v.files[f.path] = f.digest
            \/ f.path \in DOMAIN v.digests /\ v.files[f.path] = v.digests[f.path]
            \/ IsDeviceContent(v.files[f.path])
            \/ <<f.node, f.path>> \in hist.cut
            \/ f.node \in hist.torn
            \/ f.path \in Rewritten(n) /\ f.digest[1] = "random"
            \/ f.path \in { <<"lab", c.x>> : c \in LiveCalls(n) }

\* Operations of a deployment that a replay cannot repeat: their content depends
\* on what the Pod knows and the planner did not, or on randomness, which a
\* replay draws from another seed.
Unrepeatable(plan) ==
  \E a \in plan.actions :
    /\ a.phase = "postStart"
    /\ \/ a.kind \in {"exec", "execNoWait"} /\ a.x[1] \in {"management", "random"}
       \/ /\ a.kind \in {"copy", "append", "stdin"}
          /\ \E f \in plan.files : f.node = a.node /\ f.path = a.x /\ f.digest[1] = "random"

\* A file the deployment copies into the container that is not the plan's any
\* more: the device wrote it, or it was taken for the device's.
CopiedFileTouched(plan) ==
  \E a \in plan.actions :
    /\ a.phase = "postStart" /\ a.kind \in {"copy", "append", "stdin"}
    /\ \E id \in DOMAIN vol : id = a.node /\
         \E p \in DOMAIN vol[id].files :
           /\ p = a.x \/ a.x[1] = "copy"
           /\ IsDeviceContent(vol[id].files[p]) \/ <<id, p>> \in hist.cut \/ id \in hist.torn

\* The kind's live hooks ask for what no Pod can do.
BeyondThePod(in) ==
  \E n \in Range(in.nodes) : \E c \in LiveCalls(n) :
    c.op \in NeverRealized \/ (c.op # "write" /\ ~c.soft /\ c.c # n.kind.name)

\* What was planned and rendered can be carried out: in a Pod made from an
\* accepted plan neither preparation nor a post-start action, the endpoint
\* worker or a readiness probe is ever refused by the runtime's own checks
\* (another digest, another operation, another container, a side effect),
\* except for the cases above and while a payload was edited under the Pod.
AcceptedIsPerformed ==
  \/ pod.spec = 0
  \/ Unrepeatable(ThePlan) \/ CopiedFileTouched(ThePlan) \/ BeyondThePod(In)
  \/ /\ pod.err \in Codes => pod.spec # spec.n
     /\ \A c \in DOMAIN run : run[c].err \notin Codes \cup {"differs"}

\* Devices that never come up: no command, a healthcheck that fails, or a
\* post-deployment hook that needs longer than its window.
NeverUp(plan) ==
  \/ W.boot >= RetryTries
  \/ \E k \in plan.containers : "no-command" \in k.traits \/ k.health.test = "fails"

\* The Pod of the last input ends up ready, whatever crashes, edits and resets
\* came before, or that input is refused; but for devices that never come up
\* and the cases a replay cannot repeat.
Converges ==
  <>[](\/ hist.refused
       \/ /\ Current
          /\ \/ pod.pc = "up" /\ \A c \in TheContainers : run[c].ready = "yes"
             \/ Unrepeatable(ThePlan) \/ CopiedFileTouched(ThePlan) \/ BeyondThePod(In)
             \/ NeverUp(ThePlan))

\* Seconds the startup probe of a container gives it.
StartupWindow(probe) == probe.period * probe.failures

\* The Pod of an accepted plan is one the kubelet can run and the runtime can
\* use: no container mounts two things at one path (but for the devices, which
\* are added after that check); a container sees its own Node's artifacts and
\* no other's, and its payloads where they belong; every mount, of a helper
\* too, is of a volume the Pod has; what a post-start action or
\* a hook reads is mounted; the startup probe allows at least the time the
\* device was given; the gate comes first and preparation before the sidecar,
\* so that a container is started with its image's lifecycle binary installed
\* (mapper.go, renderer.go).
PodIsSound ==
  pod.spec # 0 =>
    LET mounts(c) == ThePod.containers[c].mounts
        node(c) == ContainerOf(ThePlan, c).node
        artifacts(id) == <<"artifacts", id>>
        seconds(id) == IF id \in DOMAIN W.opts.probes /\ W.opts.probes[id].seconds # 0
                       THEN W.opts.probes[id].seconds ELSE 900
    IN /\ \A c \in TheContainers : \A m, n \in mounts(c) :
            m # n /\ m.path = n.path => "device" \in {m.vol[1], n.vol[1]}
       /\ \A c \in TheContainers : \A m \in mounts(c) :
            /\ \A id \in NodeIDs \ {node(c)} : m.vol # artifacts(id)
            /\ m.vol \in DOMAIN ThePod.volumes \cup ThePod.own
       /\ \A h \in Range(ThePod.init) : \A m \in ThePod.helpers[h] :
            m.vol \in DOMAIN ThePod.volumes \cup ThePod.own
       /\ \A h \in Range(ThePod.init) : Distinct(ThePod.helpers[h], LAMBDA m : m.path)
       /\ \A f \in ThePlan.files : f.src = "payload" =>
            \E m \in mounts(ThePlan.nodes[f.node].primary) : m.sub = f.path /\ m.ro
       /\ \A a \in ThePlan.actions : a.phase = "postStart" /\ a.kind \in {"copy", "append", "stdin", "postDeploy"} =>
            \E m \in mounts(a.c) : /\ m.vol = artifacts(a.node) /\ IsPrefix(LifecycleRoot, m.path)
                                   /\ a.kind = "postDeploy" => ~m.ro
       /\ \A c \in TheContainers : ThePod.containers[c].ready =>
            StartupWindow(ThePod.containers[c].startup) >= seconds(node(c))
       /\ ThePod.init[1] = IF "gate" \in W.opts.flags THEN "startup-gate" ELSE "prepare"
       /\ Last(ThePod.init) = "connectivity"
       /\ pod.started => inst[1].dst = 1
=============================================================================
