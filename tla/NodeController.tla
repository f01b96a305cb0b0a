--------------------------- MODULE NodeController ---------------------------
(***************************************************************************)
(* The Node controller (controllers/node): the passes over one Node that   *)
(* plan its device, keep its Deployment and the ConfigMaps that Deployment *)
(* mounts, and report status.                                              *)
(*                                                                         *)
(* A pass reads everything but the status it writes from informer caches   *)
(* that lag behind the API server one by one; `seen` holds them.  A plan   *)
(* is its digest: what the spec of the Node and its Links lead to.  Two    *)
(* plans that differ in Links of mode live only can be applied to a        *)
(* running Pod through the connectivity revision it mounts.  The planner   *)
(* is a worker that finishes some time after it was started.               *)
(*                                                                         *)
(* An update that carries the resourceVersion of the cached object is      *)
(* accepted exactly if the cached object is the current one.  The tokens   *)
(* of the observation cache are the flag `current` of the pass: Invalidate *)
(* drops the entry the pass loaded, and no other pass of the same Node     *)
(* runs that could start a new one.                                        *)
(***************************************************************************)
EXTENDS Integers, FiniteSets

CONSTANTS
    Specs,       \* what specs plan to, Links and run state aside
    Links,       \* states of the Links at the Node
    LiveLinks,   \* those between which a running Pod can be moved
    MaxGen,      \* bound: the Node's generations
    MaxRestarts, \* bound: restart tokens, 1, 2, ... in the order of their requests
    Worlds       \* what may happen in a behaviour, and how often

\* A world: kinds of events, of which left may still happen; the caches that may
\* lag while a pass runs; the last restart token.
Kinds == {"spec", "join", "run", "restart", "link", "profile", "drift", "input", "unready", "error",
          "sweep", "crash"}
Caches == {"node", "inputs", "dep", "pod", "cms"}
World == [kinds : SUBSET Kinds, left : Nat, lag : SUBSET Caches, tokens : Nat]

ASSUME SpecsAssumption == Specs # {} /\ 0 \notin Specs
ASSUME LiveLinksAssumption == LiveLinks # {} /\ LiveLinks \subseteq Links
ASSUME BoundsAssumption == MaxGen \in Nat \ {0} /\ MaxRestarts \in Nat
ASSUME WorldsAssumption == Worlds \subseteq World /\ \A w \in Worlds : w.tokens = 0

VARIABLES
    node,    \* the Node: generation, spec, run state, restart annotation (0: none)
    status,  \* its status
    inputs,  \* the Links, and the scheduling part of the NodeProfile (0: none)
    dep,     \* the Deployment
    pod,     \* its Pod
    cms,     \* the Node's ConfigMaps
    worker,  \* planner workers per plan
    seen,    \* the manager's caches of these
    marking, \* an event of an input has invalidated the observation, not yet the status
    queued,  \* the Node waits in the workqueue
    obs,     \* the observation cache's entry
    pass,    \* the pass of the worker
    world    \* what may still happen

vars == <<node, status, inputs, dep, pod, cms, worker, seen, marking, queued, obs, pass, world>>

Grouped == 0   \* the spec of a Node that shares the Pod of another
Tokens == 0..MaxRestarts
Scheduling == {0, 1}
Plans == [spec : Specs, link : Links]
NoPlan == [spec |-> Grouped, link |-> 0]

Node == [gen : 1..MaxGen, spec : Specs \cup {Grouped}, up : BOOLEAN, restart : Tokens]
Inputs == [link : Links, sched : Scheduling]

\* readiness, the PlanApplied condition with its observedGeneration, planDigest,
\* observedRestartToken and the Stopped condition
Status ==
    [ready : {"Ready", "NotReady", "Unknown"}, applied : BOOLEAN, og : 0..MaxGen,
     plan : Plans \cup {NoPlan}, restart : Tokens, stopped : BOOLEAN]
NoStatus ==
    [ready |-> "Unknown", applied |-> FALSE, og |-> 0, plan |-> NoPlan, restart |-> 0, stopped |-> FALSE]

\* The Deployment mounts the plan, input and connectivity revision ConfigMaps of
\* its plan; up is one replica.
NoDep == [plan |-> NoPlan, token |-> 0, sched |-> 0, up |-> FALSE]
Deployment == [plan : Plans, token : Tokens, sched : Scheduling, up : BOOLEAN] \cup {NoDep}
Template(d) == <<d.plan, d.token, d.sched>>

NoPod == [plan |-> NoPlan, token |-> 0, sched |-> 0, ready |-> FALSE, deleting |-> FALSE]
Pod == [plan : Plans, token : Tokens, sched : Scheduling, ready : BOOLEAN, deleting : BOOLEAN] \cup {NoPod}

\* Immutable plans, immutable planning inputs, persisted planner records, and
\* per plan of a Deployment the revision its Pod is to apply.
NoRevisions == [p \in Plans |-> NoPlan]
ConfigMaps ==
    [plans : SUBSET Plans, inputs : SUBSET Plans, records : SUBSET Plans,
     revisions : [Plans -> Plans \cup {NoPlan}]]
NoConfigMaps == [plans |-> {}, inputs |-> {}, records |-> {}, revisions |-> NoRevisions]

Seen == [node : Node, status : Status, inputs : Inputs, dep : Deployment, pod : Pod, cms : ConfigMaps]

NoNode == [gen |-> 0]
Observation == [valid : BOOLEAN, node : Node \cup {NoNode}, dep : Deployment, plan : Plans \cup {NoPlan}]
InvalidObs == [valid |-> FALSE, node |-> NoNode, dep |-> NoDep, plan |-> NoPlan]

Steps == {"idle", "observe", "plan", "read", "decide", "revise", "record", "store", "apply", "report",
          "sweep", "settle", "clear"}
Pass == [pc : Steps, current : BOOLEAN, node : Node \cup {NoNode}, status : Status,
         plan : Plans \cup {NoPlan}, token : Tokens, sched : Scheduling, dep : Deployment,
         cold : BOOLEAN, retain : BOOLEAN, live : BOOLEAN]
IdlePass ==
    [pc |-> "idle", current |-> FALSE, node |-> NoNode, status |-> NoStatus, plan |-> NoPlan,
     token |-> 0, sched |-> 0, dep |-> NoDep, cold |-> FALSE, retain |-> FALSE,
     live |-> FALSE]

-----------------------------------------------------------------------------
(* What the pass computes. *)

\* directStatusNeedsReconciliation
NeedsReconciliation(st, n) == ~(st.applied /\ st.og = n.gen)

\* setDirectStatusPending
PendingStatus(st, n) == [st EXCEPT !.ready = "NotReady", !.applied = FALSE, !.og = n.gen]

\* updateNodeStatus: nothing is written over a newer generation, or when the
\* pass already holds what it wants to write.
WrittenStatusAnyGeneration(n, old, new) == IF old = new THEN status ELSE new
WrittenStatus(n, old, new) == IF old = new \/ node.gen # n.gen THEN status ELSE new
HeldStatus(n, old, new) == IF old = new THEN old ELSE WrittenStatus(n, old, new)

\* EvaluateConnectivityTransition: no change, or live on all affected Links
Live(p, q) == p = q \/ (p.spec = q.spec /\ {p.link, q.link} \subseteq LiveLinks)

\* directDeploymentConforms: DeepDerivative does not look at what the rendered
\* Deployment leaves empty.
Conforms(existing, rendered) ==
    /\ existing.plan = rendered.plan /\ existing.up = rendered.up
    /\ rendered.token \in {0, existing.token}
    /\ rendered.sched \in {0, existing.sched}

\* loadDirectColdPlan finds all three ConfigMaps the Deployment mounts.
ColdPlanAvailable(plan) ==
    /\ plan \in seen.cms.plans /\ plan \in seen.cms.inputs
    /\ seen.cms.revisions[plan] # NoPlan

\* directRestartTokens
RestartToken(n, existing) == IF n.restart # 0 THEN n.restart ELSE existing.token

Render(plan) == [plan |-> plan, token |-> pass.token, sched |-> pass.sched, up |-> pass.node.up]

\* directConnectivityRevision: the Pod is retained if the Deployment is what
\* its own plan renders to now, and the way to the desired plan is live.
RetainsUnchanged(existing, rendered, desired) ==
    /\ existing # NoDep /\ existing.plan = desired /\ Conforms(existing, rendered)
RetainsPod(existing, rendered, desired) ==
    /\ existing # NoDep /\ rendered.up
    /\ ColdPlanAvailable(existing.plan)
    /\ Live(seen.cms.revisions[existing.plan], desired)
    /\ Live(existing.plan, desired)
    /\ Conforms(existing, rendered)

\* currentDirectPod
CurrentPod(d) ==
    IF d # NoDep /\ seen.pod.plan = d.plan /\ ~seen.pod.deleting THEN seen.pod ELSE NoPod

\* updateDirectStatuses with observeDirectContainers and directRunState
ObservedPodOnly(st, n, d, plan) ==
    LET current == CurrentPod(d)
    IN [ready |-> IF current.ready THEN "Ready" ELSE "NotReady", applied |-> TRUE, og |-> n.gen,
        plan |-> plan, restart |-> current.token, stopped |-> ~n.up]
ObservedStatus(st, n, d, plan) ==
    LET current == CurrentPod(d)
        readiness == CASE ~n.up -> "NotReady"
                       [] n.up /\ current = NoPod -> "Unknown"
                       [] n.up /\ current # NoPod -> IF current.ready THEN "Ready" ELSE "NotReady"
    IN [ready |-> readiness, applied |-> TRUE, og |-> n.gen, plan |-> plan,
        restart |-> IF current = NoPod THEN st.restart ELSE current.token,
        stopped |-> ~n.up /\ ~d.up /\ seen.pod = NoPod]

-----------------------------------------------------------------------------
(* The steps of a pass. *)

Goto(step) == pass' = [pass EXCEPT !.pc = step]

\* The pass ends with an error or a dependency to wait for, and is retried.
Retry == /\ pass' = IdlePass /\ queued' = TRUE

\* Load, refreshObservedStatus up to its reads, invalidateStaleDirectStatus.
Begin ==
    /\ pass.pc = "idle" /\ queued /\ queued' = FALSE
    /\ LET n == seen.node
           stale == NeedsReconciliation(seen.status, n)
           observed == /\ obs.valid /\ obs.node = n /\ ~stale
                       /\ seen.dep # NoDep /\ obs.dep = seen.dep
           start == [IdlePass EXCEPT !.current = TRUE, !.node = n]
           pending == PendingStatus(seen.status, n)
       IN \/ /\ observed
             /\ pass' = [start EXCEPT !.pc = "observe", !.status = seen.status,
                                      !.plan = obs.plan, !.dep = obs.dep]
             /\ UNCHANGED status
          \/ /\ ~observed /\ seen.status.ready = "Ready" /\ stale
             /\ status' = WrittenStatus(n, seen.status, pending)
             /\ pass' = [start EXCEPT !.pc = "plan", !.status = HeldStatus(n, seen.status, pending)]
          \/ /\ ~observed /\ ~(seen.status.ready = "Ready" /\ stale)
             /\ pass' = [start EXCEPT !.pc = "plan", !.status = seen.status]
             /\ UNCHANGED status
    /\ UNCHANGED <<node, inputs, dep, pod, cms, worker, seen, marking, obs, world>>

\* resolveDirectProfile, the Links, CompilePlanInput and executeWorkerAttempt: a
\* persisted record answers at once; otherwise a worker is started, or the result
\* of one that finished is persisted.
Plan ==
    /\ pass.pc = "plan"
    /\ pass.node.spec # Grouped
    /\ LET desired == [spec |-> pass.node.spec, link |-> seen.inputs.link]
           planned == [pass EXCEPT !.pc = "read", !.plan = desired, !.sched = seen.inputs.sched]
       IN \/ /\ desired \in seen.cms.records
             /\ pass' = planned
             /\ UNCHANGED <<cms, worker>>
          \/ /\ desired \notin seen.cms.records /\ worker[desired] # "finished"
             /\ worker' = [worker EXCEPT ![desired] = "running"]
             /\ pass' = IdlePass
             /\ UNCHANGED cms
          \/ /\ desired \notin seen.cms.records /\ worker[desired] = "finished"
             /\ cms' = [cms EXCEPT !.inputs = @ \cup {desired}, !.records = @ \cup {desired}]
             /\ worker' = [worker EXCEPT ![desired] = "none"]
             /\ pass' = planned
    /\ UNCHANGED <<node, status, inputs, dep, pod, seen, marking, queued, obs, world>>

\* The rest of PlannerReconciler.Reconcile: the input the record names is read
\* from the cache, where one that was just persisted may be missing.
ReadInput ==
    /\ pass.pc = "read"
    /\ IF pass.plan \in seen.cms.inputs THEN Goto("decide") /\ UNCHANGED queued ELSE Retry
    /\ UNCHANGED <<node, status, inputs, dep, pod, cms, worker, seen, marking, obs, world>>

\* currentOwnedDirectDeployment, directRestartTokens, directConnectivityRevision,
\* whose LifecycleMode is live if a retained Pod has to be moved.
Decide ==
    /\ pass.pc = "decide"
    /\ LET existing == seen.dep
           token == RestartToken(pass.node, existing)
           rendered == [Render(existing.plan) EXCEPT !.token = token]
           retain == RetainsPod(existing, rendered, pass.plan)
       IN pass' = [pass EXCEPT !.pc = "revise", !.dep = existing, !.token = token,
                               !.cold = existing # NoDep /\ ColdPlanAvailable(existing.plan),
                               !.retain = retain,
                               !.live = retain /\ seen.cms.revisions[existing.plan] # pass.plan]
    /\ UNCHANGED <<node, status, inputs, dep, pod, cms, worker, seen, marking, queued, obs, world>>

\* ConnectivityRevisionConfigMapReconciler.Ensure for the plan the Pod was or
\* will be started with.
Revise ==
    /\ pass.pc = "revise"
    /\ LET cold == IF pass.retain THEN pass.dep.plan ELSE pass.plan
           known == seen.cms.revisions[cold]
           next == IF pass.live THEN "record" ELSE IF pass.retain THEN "report" ELSE "store"
       IN \/ /\ known = pass.plan
             /\ Goto(next)
             /\ UNCHANGED <<cms, queued>>
          \/ /\ known # pass.plan /\ known = cms.revisions[cold]
             /\ cms' = [cms EXCEPT !.revisions[cold] = pass.plan]
             /\ Goto(next)
             /\ UNCHANGED queued
          \/ /\ known # pass.plan /\ known # cms.revisions[cold]
             /\ Retry
             /\ UNCHANGED cms
    /\ UNCHANGED <<node, status, inputs, dep, pod, worker, seen, marking, obs, world>>

\* RecordLifecycleAction writes to the same ConfigMap how its Pod is moved, which
\* only a status condition tells of; it finds that recorded before, or the write
\* is refused if the ConfigMap is gone by now.
Record ==
    /\ pass.pc = "record"
    /\ \/ Goto("report") /\ UNCHANGED queued
       \/ cms.revisions[pass.dep.plan] # pass.plan /\ Retry
    /\ UNCHANGED <<node, status, inputs, dep, pod, cms, worker, seen, marking, obs, world>>

\* PlanConfigMapReconciler.Ensure
Store ==
    /\ pass.pc = "store"
    /\ \/ /\ pass.plan \in seen.cms.plans
          /\ Goto("apply")
          /\ UNCHANGED <<cms, queued>>
       \/ /\ pass.plan \notin seen.cms.plans \cup cms.plans
          /\ cms' = [cms EXCEPT !.plans = @ \cup {pass.plan}]
          /\ Goto("apply")
          /\ UNCHANGED queued
       \/ /\ pass.plan \in cms.plans \ seen.cms.plans
          /\ Retry
          /\ UNCHANGED cms
    /\ UNCHANGED <<node, status, inputs, dep, pod, worker, seen, marking, obs, world>>

\* reconcileDirectDeployment, which reads the Deployment again; a refused write
\* is reported by reportDirectPreflightFailure.
Apply ==
    /\ pass.pc = "apply"
    /\ LET rendered == Render(pass.plan)
           failed == PendingStatus(pass.status, pass.node)
       IN \/ /\ seen.dep # NoDep /\ Conforms(seen.dep, rendered)
             /\ pass' = [pass EXCEPT !.pc = "report", !.dep = seen.dep]
             /\ UNCHANGED <<dep, status, queued>>
          \/ /\ seen.dep = NoDep \/ ~Conforms(seen.dep, rendered)
             /\ dep = seen.dep
             /\ dep' = rendered
             /\ pass' = [pass EXCEPT !.pc = "report", !.dep = rendered]
             /\ UNCHANGED <<status, queued>>
          \/ /\ seen.dep = NoDep \/ ~Conforms(seen.dep, rendered)
             /\ dep # seen.dep
             /\ status' = WrittenStatus(pass.node, pass.status, failed)
             /\ Retry
             /\ UNCHANGED dep
    /\ UNCHANGED <<node, inputs, pod, cms, worker, seen, marking, obs, world>>

\* updateDirectStatuses, at the end of a full pass and of refreshObservedStatus.
Report ==
    /\ pass.pc \in {"report", "observe"}
    /\ LET new == ObservedStatus(pass.status, pass.node, pass.dep, pass.plan)
       IN /\ status' = WrittenStatus(pass.node, pass.status, new)
          /\ pass' = IF pass.pc = "observe" THEN IdlePass
                     ELSE [pass EXCEPT !.pc = "sweep", !.status = NoStatus]
    /\ UNCHANGED <<node, inputs, dep, pod, cms, worker, seen, marking, queued, obs, world>>

\* PlanConfigMapReconciler.GarbageCollect, ConnectivityRevisionConfigMapReconciler.GarbageCollect
\* and the first part of garbageCollectWorkerArtifacts, all from cached lists.
SuperfluousRevisions(keep) ==
    {p \in Plans : seen.cms.revisions[p] # NoPlan /\ p \notin keep /\ p # seen.pod.plan}
Without(configMaps, plans, revisions) ==
    [configMaps EXCEPT !.plans = @ \ plans,
                       !.revisions = [p \in Plans |-> IF p \in revisions THEN NoPlan ELSE @[p]]]

SweepAllButDesired ==
    /\ pass.pc = "sweep"
    /\ cms' = [Without(cms, seen.cms.plans \ {pass.plan}, SuperfluousRevisions({pass.plan}))
               EXCEPT !.inputs = @ \ (seen.cms.inputs \ {pass.plan})]
    /\ worker' = [p \in Plans |-> IF p = pass.plan THEN worker[p] ELSE "none"]
    /\ Goto("settle")
    /\ UNCHANGED <<node, status, inputs, dep, pod, seen, marking, queued, obs, world>>

Sweep ==
    /\ pass.pc = "sweep"
    /\ LET mounted == IF pass.retain THEN pass.dep.plan ELSE pass.plan
           needed == {pass.plan, mounted}
       IN /\ cms' = [Without(cms, seen.cms.plans \ {mounted}, SuperfluousRevisions({mounted}))
                     EXCEPT !.inputs = @ \ (seen.cms.inputs \ needed)]
          /\ worker' = [p \in Plans |-> IF p = pass.plan THEN worker[p] ELSE "none"]
    /\ Goto("settle")
    /\ UNCHANGED <<node, status, inputs, dep, pod, seen, marking, queued, obs, world>>

\* The rest of garbageCollectWorkerArtifacts, captureDirectObservation, and Store
\* of the observation cache.
Settle ==
    /\ pass.pc = "settle"
    /\ cms' = [cms EXCEPT !.records = @ \ (seen.cms.records \ {pass.plan})]
    /\ obs' = IF pass.current
              THEN [valid |-> TRUE, node |-> pass.node, dep |-> pass.dep, plan |-> pass.plan]
              ELSE obs
    /\ pass' = IdlePass
    /\ UNCHANGED <<node, status, inputs, dep, pod, worker, seen, marking, queued, world>>

\* reconcileDirectSecondary
Withdraw ==
    /\ pass.pc = "plan" /\ pass.node.spec = Grouped
    /\ dep' = IF seen.dep = NoDep THEN dep ELSE NoDep
    /\ Goto("clear")
    /\ UNCHANGED <<node, status, inputs, pod, cms, worker, seen, marking, queued, obs, world>>

Clear ==
    /\ pass.pc = "clear"
    /\ cms' = Without(cms, seen.cms.plans, SuperfluousRevisions({}))
    /\ pass' = IdlePass
    /\ UNCHANGED <<node, status, inputs, dep, pod, worker, seen, marking, queued, obs, world>>

\* Bound: in a world only some of the caches are behind while a pass runs.
CachesFollow ==
    /\ "node" \in world.lag \/ (seen.node = node /\ seen.status = status)
    /\ "inputs" \in world.lag \/ seen.inputs = inputs
    /\ "dep" \in world.lag \/ seen.dep = dep
    /\ "pod" \in world.lag \/ seen.pod = pod
    /\ "cms" \in world.lag \/ seen.cms = cms

PassStep ==
    /\ CachesFollow
    /\ \/ Begin \/ Plan \/ ReadInput \/ Decide \/ Revise \/ Record \/ Store \/ Apply \/ Report \/ Sweep
       \/ Settle \/ Withdraw \/ Clear

-----------------------------------------------------------------------------
(* Events: a cache catches up with the API server, and the watch's handler *)
(* runs.                                                                   *)

\* ObservationCache.Invalidate
Invalidate == /\ obs' = InvalidObs /\ pass' = [pass EXCEPT !.current = FALSE]

\* ObserveWith, ObservationPredicate: a change of more than status invalidates.
ObserveQueueOnly(changed) == queued' = TRUE /\ UNCHANGED <<obs, pass>>
Observe(changed) ==
    /\ queued' = TRUE
    /\ IF changed THEN Invalidate ELSE UNCHANGED <<obs, pass>>

SyncNode ==
    /\ seen.node # node \/ seen.status # status
    /\ seen' = [seen EXCEPT !.node = node, !.status = status]
    /\ Observe(seen.node # node)
    /\ UNCHANGED <<node, status, inputs, dep, pod, cms, worker, marking, world>>

SyncDep ==
    /\ seen.dep # dep
    /\ seen' = [seen EXCEPT !.dep = dep]
    /\ Observe(TRUE)
    /\ UNCHANGED <<node, status, inputs, dep, pod, cms, worker, marking, world>>

SyncPod ==
    /\ seen.pod # pod
    /\ seen' = [seen EXCEPT !.pod = pod]
    /\ Observe([seen.pod EXCEPT !.ready = pod.ready] # pod)
    /\ UNCHANGED <<node, status, inputs, dep, pod, cms, worker, marking, world>>

SyncConfigMaps ==
    /\ seen.cms # cms
    /\ seen' = [seen EXCEPT !.cms = cms]
    /\ Observe(TRUE)
    /\ UNCHANGED <<node, status, inputs, dep, pod, cms, worker, marking, world>>

\* externalEnqueueHandler for Links and NodeProfiles: the observation goes first,
\* then markDirectStatusesPendingForNodes writes the status, then the Node is queued.
SyncInputs ==
    /\ seen.inputs # inputs
    /\ seen' = [seen EXCEPT !.inputs = inputs]
    /\ Invalidate
    /\ marking' = TRUE
    /\ UNCHANGED <<node, status, inputs, dep, pod, cms, worker, queued, world>>

MarkPending ==
    /\ marking /\ marking' = FALSE
    /\ status' = IF status.ready = "Ready" THEN PendingStatus(status, node) ELSE status
    /\ queued' = TRUE
    /\ UNCHANGED <<node, inputs, dep, pod, cms, worker, seen, obs, pass, world>>

\* The snapshot's deadline passes, and the requeue of the pass that took it comes up.
Revalidate ==
    /\ pass.pc = "idle" /\ obs.valid
    /\ obs' = InvalidObs /\ queued' = TRUE
    /\ UNCHANGED <<node, status, inputs, dep, pod, cms, worker, seen, marking, pass, world>>

Events == Revalidate \/ SyncNode \/ SyncDep \/ SyncPod \/ SyncConfigMaps \/ SyncInputs \/ MarkPending

-----------------------------------------------------------------------------
(* The cluster, outside this repository: the Deployment's controllers and  *)
(* the kubelet (strategy Recreate, one Pod at a time), and the planner's   *)
(* worker.                                                                 *)

PodCreated ==
    /\ dep.up /\ pod = NoPod
    /\ pod' = [plan |-> dep.plan, token |-> dep.token, sched |-> dep.sched, ready |-> FALSE, deleting |-> FALSE]
    /\ UNCHANGED <<node, status, inputs, dep, cms, worker, seen, marking, queued, obs, pass, world>>

PodReady ==
    /\ pod # NoPod /\ ~pod.ready /\ ~pod.deleting
    /\ pod.plan \in cms.plans /\ pod.plan \in cms.inputs /\ cms.revisions[pod.plan] # NoPlan
    /\ pod' = [pod EXCEPT !.ready = TRUE]
    /\ UNCHANGED <<node, status, inputs, dep, cms, worker, seen, marking, queued, obs, pass, world>>

PodDeleted ==
    /\ pod # NoPod /\ ~pod.deleting
    /\ ~dep.up \/ Template(dep) # Template(pod)
    /\ pod' = [pod EXCEPT !.deleting = TRUE]
    /\ UNCHANGED <<node, status, inputs, dep, cms, worker, seen, marking, queued, obs, pass, world>>

PodGone ==
    /\ pod.deleting
    /\ pod' = NoPod
    /\ UNCHANGED <<node, status, inputs, dep, cms, worker, seen, marking, queued, obs, pass, world>>

WorkerFinishes ==
    /\ \E p \in Plans : /\ worker[p] = "running"
                        /\ worker' = [worker EXCEPT ![p] = "finished"]
    /\ queued' = TRUE
    /\ UNCHANGED <<node, status, inputs, dep, pod, cms, seen, marking, obs, pass, world>>

Cluster == PodCreated \/ PodReady \/ PodDeleted \/ PodGone \/ WorkerFinishes

-----------------------------------------------------------------------------
(* Users and failures. *)

Happens(kind) ==
    /\ kind \in world.kinds /\ world.left > 0
    /\ world' = [world EXCEPT !.left = @ - 1]

Edit(kind, new) ==
    /\ Happens(kind)
    /\ node.gen < MaxGen
    /\ node' = [new EXCEPT !.gen = @ + 1]
    /\ UNCHANGED <<status, inputs, dep, pod, cms, worker, seen, marking, queued, obs, pass>>

EditSpec == \E s \in Specs \ {node.spec} : Edit("spec", [node EXCEPT !.spec = s])
Join == node.spec # Grouped /\ Edit("join", [node EXCEPT !.spec = Grouped])
StopOrStart == Edit("run", [node EXCEPT !.up = ~@])

\* The restart annotation is set to a new token, or removed.
Annotate ==
    /\ "restart" \in world.kinds /\ world.left > 0
    /\ \E t \in Tokens : /\ t # node.restart /\ t \in {0, world.tokens + 1}
                         /\ node' = [node EXCEPT !.restart = t]
                         /\ world' = [world EXCEPT !.left = @ - 1, !.tokens = IF t = 0 THEN @ ELSE t]
    /\ UNCHANGED <<status, inputs, dep, pod, cms, worker, seen, marking, queued, obs, pass>>

EditLink ==
    /\ Happens("link")
    /\ \E l \in Links \ {inputs.link} : inputs' = [inputs EXCEPT !.link = l]
    /\ UNCHANGED <<node, status, dep, pod, cms, worker, seen, marking, queued, obs, pass>>

EditProfile ==
    /\ Happens("profile")
    /\ \E s \in Scheduling \ {inputs.sched} : inputs' = [inputs EXCEPT !.sched = s]
    /\ UNCHANGED <<node, status, dep, pod, cms, worker, seen, marking, queued, obs, pass>>

\* Somebody scales the Deployment, deletes it, or deletes a ConfigMap it mounts.
\* Bound: not so that the cache is right again about a write it never showed, of
\* which the model, unlike a watch, would not tell.
Drift ==
    /\ Happens("drift")
    /\ \/ /\ dep # NoDep
          /\ \/ dep' = [dep EXCEPT !.up = ~@]
             \/ dep' = NoDep
          /\ dep' # seen.dep
          /\ UNCHANGED cms
       \/ /\ \/ \E p \in cms.plans : cms' = [cms EXCEPT !.plans = @ \ {p}]
             \/ \E p \in {q \in Plans : cms.revisions[q] # NoPlan} :
                   cms' = [cms EXCEPT !.revisions[p] = NoPlan]
          /\ cms' # seen.cms
          /\ UNCHANGED dep
    /\ UNCHANGED <<node, status, inputs, pod, worker, seen, marking, queued, obs, pass>>

LoseInput ==
    /\ Happens("input")
    /\ \E p \in cms.inputs : cms' = [cms EXCEPT !.inputs = @ \ {p}]
    /\ UNCHANGED <<node, status, inputs, dep, pod, worker, seen, marking, queued, obs, pass>>

PodFails ==
    /\ Happens("unready")
    /\ pod.ready /\ pod' = [pod EXCEPT !.ready = FALSE]
    /\ UNCHANGED <<node, status, inputs, dep, cms, worker, seen, marking, queued, obs, pass>>

\* An API call of the pass fails; the pass is retried.
PassFails ==
    /\ Happens("error")
    /\ pass.pc \notin {"idle", "settle"}
    /\ Retry
    /\ UNCHANGED <<node, status, inputs, dep, pod, cms, worker, seen, marking, obs>>

\* The last part of the sweep fails, after the first was done.
SweepFails ==
    /\ Happens("sweep")
    /\ pass.pc = "settle"
    /\ Retry
    /\ UNCHANGED <<node, status, inputs, dep, pod, cms, worker, seen, marking, obs>>

\* The manager restarts: its caches are listed anew, and every Node is queued.
Restart ==
    /\ Happens("crash")
    /\ pass' = IdlePass /\ obs' = InvalidObs /\ marking' = FALSE /\ queued' = TRUE
    /\ seen' = [node |-> node, status |-> status, inputs |-> inputs, dep |-> dep, pod |-> pod, cms |-> cms]
    /\ UNCHANGED <<node, status, inputs, dep, pod, cms, worker>>

Environment ==
    \/ EditSpec \/ Join \/ StopOrStart \/ Annotate \/ EditLink \/ EditProfile
    \/ Drift \/ LoseInput \/ PodFails \/ PassFails \/ SweepFails \/ Restart

-----------------------------------------------------------------------------

FirstLink == CHOOSE l \in LiveLinks : TRUE

Init ==
    /\ world \in Worlds
    /\ node = [gen |-> 1, spec |-> CHOOSE s \in Specs : TRUE, up |-> TRUE, restart |-> 0]
    /\ status = NoStatus
    /\ inputs = [link |-> FirstLink, sched |-> 0]
    /\ dep = NoDep /\ pod = NoPod /\ cms = NoConfigMaps
    /\ worker = [p \in Plans |-> "none"]
    /\ seen = [node |-> node, status |-> status, inputs |-> inputs, dep |-> dep, pod |-> pod, cms |-> cms]
    /\ marking = FALSE /\ queued = TRUE
    /\ obs = InvalidObs /\ pass = IdlePass

Next == PassStep \/ Events \/ Cluster \/ Environment

Spec == Init /\ [][Next]_vars

\* The worker takes queued requests and finishes passes, the watches deliver,
\* and the cluster does its work.
FairSpec ==
    /\ Spec
    /\ WF_vars(PassStep)
    /\ WF_vars(SyncNode) /\ WF_vars(SyncDep) /\ WF_vars(SyncPod) /\ WF_vars(SyncConfigMaps)
    /\ WF_vars(SyncInputs) /\ WF_vars(MarkPending)
    /\ WF_vars(PodCreated) /\ WF_vars(PodReady) /\ WF_vars(PodDeleted) /\ WF_vars(PodGone)
    /\ WF_vars(WorkerFinishes)

-----------------------------------------------------------------------------
(* Properties. *)

\* The objects, the caches, the observation and the pass keep their shapes.
TypeOK ==
    /\ node \in Node /\ status \in Status /\ inputs \in Inputs
    /\ dep \in Deployment /\ pod \in Pod /\ cms \in ConfigMaps
    /\ worker \in [Plans -> {"none", "running", "finished"}]
    /\ seen \in Seen /\ obs \in Observation /\ pass \in Pass
    /\ marking \in BOOLEAN /\ queued \in BOOLEAN
    /\ world \in World

Desired == [spec |-> node.spec, link |-> inputs.link]

Mounts(configMaps, plan) ==
    plan \in configMaps.plans /\ plan \in configMaps.inputs /\ configMaps.revisions[plan] # NoPlan

\* No garbage collection of a pass that read the current Deployment removes a
\* ConfigMap this Deployment mounts: neither the plan a retained Pod was started
\* with, nor its input, nor the revision it follows (direct.go, GarbageCollect of
\* the plan, revision and worker artifacts).
MountsKept ==
    [][(dep # NoDep /\ dep' = dep /\ pass.dep = dep /\ world' = world /\ Mounts(cms, dep.plan))
          => Mounts(cms', dep.plan)]_vars

\* A running Pod is replaced only for a change that cannot be applied to it: a
\* plan that differs in more than live Links, a restart token not used before, or
\* other scheduling.  In particular a change of live Links alone, and any retry,
\* crash or repeated pass, leaves the Pod running (directConnectivityRevision).
\* The pass must have read the current Deployment, and the ConfigMaps it mounts.
ReplacedForReason ==
    [][(dep.up /\ dep'.up /\ Template(dep') # Template(dep) /\ pass.dep = dep /\ pass.cold) =>
          \/ ~Live(dep.plan, dep'.plan)
          \/ dep'.token > dep.token
          \/ dep'.sched # dep.sched]_vars

\* A status that says PlanApplied for the generation the Node has now tells of
\* the spec of that generation, whatever the order in which edits, observations
\* and full passes wrote it, and a stopped Node is never Ready in it
\* (updateDirectStatuses, updateNodeStatus).
AppliedIsCurrent ==
    (status.applied /\ status.og = node.gen) =>
        /\ status.plan.spec = node.spec
        /\ status.ready = "Ready" => node.up

\* The reported generation never goes back: a pass that began before an edit does
\* not overwrite the status of a pass that began after it (updateNodeStatus).
ReportsForward == [][status'.og >= status.og]_vars

\* Deployment, ConfigMaps and status are what the Node and its inputs ask for,
\* and nothing of earlier plans is left.
Settled ==
    IF node.spec = Grouped
    THEN dep = NoDep /\ cms.plans = {} /\ cms.revisions = NoRevisions
    ELSE /\ dep # NoDep /\ Live(dep.plan, Desired)
         /\ Conforms(dep, [plan |-> dep.plan, token |-> node.restart, sched |-> inputs.sched, up |-> node.up])
         /\ cms.plans = {dep.plan} /\ cms.records = {Desired} /\ cms.inputs = {dep.plan, Desired}
         /\ cms.revisions = [NoRevisions EXCEPT ![dep.plan] = Desired]
         /\ status = [ready |-> IF node.up THEN "Ready" ELSE "NotReady", applied |-> TRUE, og |-> node.gen,
                      plan |-> Desired, restart |-> IF node.up THEN dep.token ELSE status.restart,
                      stopped |-> ~node.up]

\* The planner's record names an input that is gone; no pass recreates it.
InputLost == Desired \in cms.records \ cms.inputs

\* After the last edit, drift, failure or restart, the Deployment, its ConfigMaps
\* and the status become what is asked for and stay so, unless an input named by
\* a record was lost (reconcileDirect and the handlers that queue the Node).
Converges == <>[](Settled \/ InputLost)

=============================================================================
