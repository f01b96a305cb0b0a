-------------------------- MODULE StartupAdmission --------------------------
(***************************************************************************)
(* Startup in batches: the Topology controller's holds                     *)
(* (controllers/topology/rollout.go), the installation-wide admission      *)
(* (controllers/node/startupadmission.go) and the Node controller that     *)
(* creates no Pod for a gated Node (node/reconcile.go).                    *)
(*                                                                         *)
(* Nodes are numbered in the order of their names and creation times.  A   *)
(* group of Nodes that share a network namespace runs in one Pod and is    *)
(* named by its primary.  The three controllers read Nodes and Pods from   *)
(* the manager's caches and write Nodes under an optimistic lock.          *)
(***************************************************************************)
EXTENDS Naturals, FiniteSets

CONSTANTS
    NNodes,      \* bound: Nodes
    Primary,     \* Primary[n]: the primary of n's group
    MaxToggles,  \* bound: stops and starts of a group
    Worlds       \* the settings a behaviour may have

NodeIDs == 1..NNodes
Groups == {n \in NodeIDs : Primary[n] = n}
Members(g) == {n \in NodeIDs : Primary[n] = g}


\* nodes: the Nodes there will be; compiled: those of the Topology, the others
\* are on their own.  topoBatch, globalBatch: rollout.batchSize of the Topology
\* and of the Config, 0 for none.  toggled: the groups users stop and start, and
\* stops: whether "waiting" for their turn or "started".  restarts: how many
\* times the manager may still restart.
World == [nodes : SUBSET NodeIDs, compiled : SUBSET NodeIDs, topoBatch : Nat, globalBatch : Nat,
          toggled : SUBSET Groups, stops : SUBSET {"waiting", "started"}, restarts : Nat]

ASSUME GroupsAssumption ==
    /\ NNodes \in Nat /\ MaxToggles \in Nat
    /\ Primary \in [NodeIDs -> NodeIDs]
    /\ \A n \in NodeIDs : Primary[Primary[n]] = Primary[n]
ASSUME WorldsAssumption ==
    /\ Worlds \subseteq World
    /\ \A w \in Worlds : /\ w.compiled \subseteq w.nodes
                         /\ \A n \in NodeIDs : /\ n \in w.nodes <=> Primary[n] \in w.nodes
                                               /\ n \in w.compiled <=> Primary[n] \in w.compiled

VARIABLES
    node, pod,          \* the Nodes, and the Pod of each group
    cached, cachedPod,  \* both as the caches have them
    topo, glob,         \* the passes of the two controllers
    local,              \* startupAdmissions
    world               \* the settings, and the restarts still to come

vars == <<node, pod, cached, cachedPod, topo, glob, local, world>>

Compiled == world.compiled
TopoBatch == world.topoBatch
GlobalBatch == world.globalBatch
TopoGroups == Groups \cap Compiled

\* toggles stands for the resource version that stops and starts move on.
Node == [exists : BOOLEAN, hold : BOOLEAN, admitted : BOOLEAN, stopped : BOOLEAN,
         toggles : 0..MaxToggles]
NoNode == [exists |-> FALSE, hold |-> FALSE, admitted |-> FALSE, stopped |-> FALSE, toggles |-> 0]
Pods == {"none", "created", "ready"}

\* read: the Nodes as the pass has them; todo: groups still to write.
TopoPass == [pc : {"idle", "emit", "finish", "release"}, read : [NodeIDs -> Node], todo : SUBSET Groups]
IdleTopo == [pc |-> "idle", read |-> [n \in NodeIDs |-> NoNode], todo |-> {}]

\* assumed: Nodes taken for admitted from the local set; todo: groups still
\* to look at; writes: Nodes of the current group still to write.
GlobPass == [pc : {"idle", "sweep", "admit"}, read : [NodeIDs -> Node], pods : [Groups -> Pods],
             assumed : SUBSET NodeIDs, todo : SUBSET Groups, writes : SUBSET NodeIDs, pending : SUBSET Groups, blocked : BOOLEAN]
IdleGlob == [pc |-> "idle", read |-> [n \in NodeIDs |-> NoNode], pods |-> [g \in Groups |-> "none"],
             assumed |-> {}, todo |-> {}, writes |-> {}, pending |-> {}, blocked |-> FALSE]

TypeOK ==
    /\ node \in [NodeIDs -> Node] /\ cached \in [NodeIDs -> Node]
    /\ pod \in [Groups -> Pods] /\ cachedPod \in [Groups -> Pods]
    /\ local \subseteq NodeIDs
    /\ topo \in TopoPass /\ glob \in GlobPass
    /\ world \in World

Init ==
    /\ node = [n \in NodeIDs |-> NoNode] /\ cached = node
    /\ pod = [g \in Groups |-> "none"] /\ cachedPod = pod
    /\ local = {}
    /\ topo = IdleTopo /\ glob = IdleGlob /\ world \in Worlds

-----------------------------------------------------------------------------
(***************************************************************************)
(* A pass of the Topology controller.                                      *)
(***************************************************************************)

BeginTopology ==
    /\ topo.pc = "idle" /\ Compiled # {}
    /\ topo' = [IdleTopo EXCEPT !.pc = "emit", !.read = cached]
    /\ UNCHANGED <<node, pod, cached, cachedPod, glob, local, world>>

Missing == {n \in Compiled : ~topo.read[n].exists}

\* A new Node of a Topology with a batchSize is held.
NewNode == [NoNode EXCEPT !.exists = TRUE, !.hold = TopoBatch > 0]

\* reconcileNodes creates a Node the cache does not have; one
\* that exists by now is an error, which ends the pass.
EmitNode ==
    /\ topo.pc = "emit"
    /\ \E n \in Missing :
         \/ /\ ~node[n].exists
            /\ node' = [node EXCEPT ![n] = NewNode]
            /\ topo' = [topo EXCEPT !.read[n] = node'[n]]
         \/ /\ node[n].exists
            /\ topo' = IdleTopo /\ UNCHANGED node
    /\ UNCHANGED <<pod, cached, cachedPod, glob, local, world>>

Running(read) == {g \in TopoGroups : read[g].exists /\ ~read[g].stopped}
Released(read) == {g \in Running(read) : ~read[g].hold}

\* The complete inventory is visible in the cache.
Inventory(read) == \A n \in Compiled : read[n].exists

\* The groups whose remaining holds are removed before the barrier
Finish(read) == Released(read)

\* advanceStartupBatch up to its first write: it lists the Nodes again, and
\* the groups of which some Node is released are finished first.
Advance ==
    /\ topo.pc = "emit" /\ Missing = {}
    /\ topo' = IF /\ Inventory(cached)
                  /\ \E g \in Running(cached) : \E n \in Members(g) : cached[n].hold
               THEN [pc |-> "finish", read |-> cached, todo |-> Finish(cached)]
               ELSE IdleTopo
    /\ UNCHANGED <<node, pod, cached, cachedPod, glob, local, world>>

\* admittedSandboxesReady, for one group
SandboxReady(g) == cachedPod[g] = "ready"

\* Mutant: a batch is one group short of its size.
FirstShort(k, gs) == {g \in gs : Cardinality({h \in gs : h < g}) + 1 < k}

\* The first k groups of gs in the order of names and creation times
First(k, gs) == {g \in gs : Cardinality({h \in gs : h < g}) < k}

\* Between the two rounds of writes: the barrier, then the next batch.
Barrier ==
    LET pending == Running(topo.read) \ Released(topo.read)
    IN  /\ topo.pc = "finish" /\ topo.todo = {}
        /\ topo' = IF TopoBatch > 0 /\ \E g \in Released(topo.read) : ~SandboxReady(g)
                   THEN IdleTopo
                   ELSE [topo EXCEPT !.pc = "release",
                           !.todo = IF TopoBatch > 0 THEN First(TopoBatch, pending) ELSE pending]
        /\ UNCHANGED <<node, pod, cached, cachedPod, glob, local, world>>

\* releaseStartupGroup removes the holds of a group's Nodes in any order.
\* Groups are finished in any order and newly released in theirs.
ReleaseGroup(g) ==
    LET held == {n \in Members(g) : topo.read[n].hold}
    IN  /\ g \in topo.todo
        /\ topo.pc = "release" => \A h \in topo.todo : g <= h
        /\ \/ /\ held = {}
              /\ topo' = [topo EXCEPT !.todo = @ \ {g}] /\ UNCHANGED node
           \/ \E n \in held :
                \/ /\ node[n] = topo.read[n]
                   /\ node' = [node EXCEPT ![n].hold = FALSE]
                   /\ topo' = [topo EXCEPT !.read[n].hold = FALSE]
                \/ /\ node[n] # topo.read[n]
                   /\ topo' = IdleTopo /\ UNCHANGED node
        /\ UNCHANGED <<pod, cached, cachedPod, glob, local, world>>

EndTopology ==
    /\ topo.pc = "release" /\ topo.todo = {}
    /\ topo' = IdleTopo
    /\ UNCHANGED <<node, pod, cached, cachedPod, glob, local, world>>

-----------------------------------------------------------------------------
(***************************************************************************)
(* A pass of the installation-wide admission.                              *)
(***************************************************************************)

\* Mutant: the cache alone says who is admitted.
AssumeNone(written) == {}

\* observeStartupAdmissions: the Nodes this process admitted and the cache
\* still shows without their admission
Assumed(written) == {n \in written : cached[n].exists /\ ~cached[n].admitted}

BeginGlobal ==
    /\ glob.pc = "idle" /\ GlobalBatch > 0
    /\ local' = Assumed(local)
    /\ glob' = [IdleGlob EXCEPT !.pc = "sweep", !.read = cached, !.pods = cachedPod,
                  !.assumed = local', !.todo = {g \in Groups : cached[g].exists}]
    /\ UNCHANGED <<node, pod, cached, cachedPod, topo, world>>

Admitted(n) == glob.read[n].admitted \/ n \in glob.assumed

\* The group's Nodes with or without an admission
Those(g, admitted) == {n \in Members(g) : glob.read[n].exists /\ (Admitted(n) <=> admitted)}

\* The primary is written first, the others follow in the order of names.
IsFirst(n, writes) == \A m \in writes \ {n} : n \in Groups \/ (m \notin Groups /\ n < m)

Stopped(g) == glob.read[g].stopped

\* pendingStartupGroups looks at one group.
SweepGroup(g) ==
    /\ glob.pc = "sweep" /\ glob.writes = {} /\ g \in glob.todo
    /\ \/ /\ Stopped(g)
          /\ glob' = [glob EXCEPT !.todo = @ \ {g}, !.writes = Those(g, TRUE)]
       \/ /\ ~Stopped(g) /\ (Admitted(g) \/ glob.pods[g] # "none")
          /\ glob' = [glob EXCEPT !.todo = @ \ {g}, !.writes = Those(g, FALSE),
                                  !.blocked = @ \/ glob.pods[g] # "ready"]
       \/ /\ ~Stopped(g) /\ ~Admitted(g) /\ glob.pods[g] = "none"
          /\ glob' = [glob EXCEPT !.todo = @ \ {g},
                                  !.pending = IF glob.read[g].hold THEN @ ELSE @ \union {g}]
    /\ UNCHANGED <<node, pod, cached, cachedPod, topo, local, world>>

\* One Patch of admitStartupGroup, or of withdrawStartupGroup for a group
\* that is stopped; a conflict ends the pass.
WriteAdmission(n) ==
    LET admit == ~Stopped(Primary[n])
    IN  /\ n \in glob.writes /\ IsFirst(n, glob.writes)
        /\ \/ /\ node[n] = glob.read[n]
              /\ node' = [node EXCEPT ![n].admitted = admit]
              /\ local' = IF admit THEN local \union {n} ELSE local \ {n}
              /\ glob' = [glob EXCEPT !.read[n].admitted = admit, !.writes = @ \ {n}]
           \/ /\ node[n] # glob.read[n]
              /\ glob' = IdleGlob /\ UNCHANGED <<node, local>>
        /\ UNCHANGED <<pod, cached, cachedPod, topo, world>>

\* The pass ends when some admitted group has no ready sandbox; otherwise
\* the oldest pending groups are admitted.
ChooseBatch ==
    /\ glob.pc = "sweep" /\ glob.writes = {} /\ glob.todo = {}
    /\ glob' = IF glob.blocked \/ glob.pending = {} THEN IdleGlob
               ELSE [glob EXCEPT !.pc = "admit", !.todo = First(GlobalBatch, glob.pending)]
    /\ UNCHANGED <<node, pod, cached, cachedPod, topo, local, world>>

AdmitGroup(g) ==
    /\ glob.pc = "admit" /\ glob.writes = {}
    /\ g \in glob.todo /\ \A h \in glob.todo : g <= h
    /\ glob' = [glob EXCEPT !.todo = @ \ {g}, !.writes = Those(g, FALSE)]
    /\ UNCHANGED <<node, pod, cached, cachedPod, topo, local, world>>

EndGlobal ==
    /\ glob.pc = "admit" /\ glob.writes = {} /\ glob.todo = {}
    /\ glob' = IdleGlob
    /\ UNCHANGED <<node, pod, cached, cachedPod, topo, local, world>>

-----------------------------------------------------------------------------
(***************************************************************************)
(* The Node controller, the kubelet, the caches, users and restarts.       *)
(***************************************************************************)

\* startupGated
Gated(n) == ~n.stopped /\ (n.hold \/ (GlobalBatch > 0 /\ ~n.admitted))

\* The Node controller creates the Deployment of a group, or scales it to
\* zero when the primary is stopped.
CreatePod(g) ==
    /\ cached[g].exists /\ ~cached[g].stopped /\ ~Gated(cached[g])
    /\ pod[g] = "none"
    /\ pod' = [pod EXCEPT ![g] = "created"]
    /\ UNCHANGED <<node, cached, cachedPod, topo, glob, local, world>>

RemovePod(g) ==
    /\ cached[g].stopped /\ pod[g] # "none"
    /\ pod' = [pod EXCEPT ![g] = "none"]
    /\ UNCHANGED <<node, cached, cachedPod, topo, glob, local, world>>

SandboxComesUp(g) ==
    /\ pod[g] = "created"
    /\ pod' = [pod EXCEPT ![g] = "ready"]
    /\ UNCHANGED <<node, cached, cachedPod, topo, glob, local, world>>

\* A user creates a Node that belongs to no Topology.
CreateNode(n) ==
    /\ n \in world.nodes \ Compiled /\ ~node[n].exists
    /\ node' = [node EXCEPT ![n].exists = TRUE]
    /\ UNCHANGED <<pod, cached, cachedPod, topo, glob, local, world>>

SetRunState(g) ==
    /\ g \in world.toggled /\ node[g].exists /\ node[g].toggles < MaxToggles
    /\ ~node[g].stopped => (IF Gated(node[g]) THEN "waiting" ELSE "started") \in world.stops
    /\ node' = [node EXCEPT ![g].stopped = ~@, ![g].toggles = @ + 1]
    /\ UNCHANGED <<pod, cached, cachedPod, topo, glob, local, world>>

SyncNodes ==
    /\ cached # node /\ cached' = node
    /\ UNCHANGED <<node, pod, cachedPod, topo, glob, local, world>>

SyncPods ==
    /\ cachedPod # pod /\ cachedPod' = pod
    /\ UNCHANGED <<node, pod, cached, topo, glob, local, world>>

Restart ==
    /\ world.restarts > 0 /\ world' = [world EXCEPT !.restarts = @ - 1]
    /\ cached' = node /\ cachedPod' = pod
    /\ topo' = IdleTopo /\ glob' = IdleGlob /\ local' = {}
    /\ UNCHANGED <<node, pod>>

TopologyPass == BeginTopology \/ EmitNode \/ Advance \/ Barrier \/ EndTopology
                \/ \E g \in Groups : ReleaseGroup(g)
GlobalPass == BeginGlobal \/ ChooseBatch \/ EndGlobal
              \/ \E g \in Groups : SweepGroup(g) \/ AdmitGroup(g)
              \/ \E n \in NodeIDs : WriteAdmission(n)
Next ==
    \/ TopologyPass \/ GlobalPass
    \/ \E g \in Groups : CreatePod(g) \/ RemovePod(g) \/ SandboxComesUp(g) \/ SetRunState(g)
    \/ \E n \in NodeIDs : CreateNode(n)
    \/ SyncNodes \/ SyncPods \/ Restart

Spec == Init /\ [][Next]_vars

\* Both controllers requeue themselves every second while something waits,
\* watches deliver, kubelets bring sandboxes up and users create their Nodes.
Fairness ==
    /\ WF_vars(TopologyPass) /\ WF_vars(GlobalPass)
    /\ WF_vars(SyncNodes) /\ WF_vars(SyncPods)
    /\ \A g \in Groups : /\ WF_vars(CreatePod(g)) /\ WF_vars(RemovePod(g))
                         /\ WF_vars(SandboxComesUp(g))
    /\ \A n \in NodeIDs : WF_vars(CreateNode(n))

FairSpec == Spec /\ Fairness

-----------------------------------------------------------------------------
(***************************************************************************)
(* Properties                                                              *)
(***************************************************************************)

\* The running groups that await their sandbox
Booting == {g \in Groups : node[g].exists /\ ~node[g].stopped /\ pod[g] # "ready"}

\* Of a Topology whose Nodes nobody stops, no more released groups await their
\* sandbox than its batchSize, however far the cache of the pass that releases
\* them lags and wherever the manager restarts (advanceStartupBatch).
TopologyBatchLimit ==
    world.stops = {} /\ TopoBatch > 0 =>
        Cardinality({g \in Booting \cap Compiled : ~node[g].hold}) <= TopoBatch

\* In the installation, no more admitted groups await their sandbox than the
\* Config's batchSize, in whatever order admissions and Pods become visible,
\* as long as nobody stops a group that has started (reconcileStartupAdmission).
GlobalBatchLimit ==
    GlobalBatch > 0 /\ "started" \notin world.stops =>
        Cardinality({g \in Booting : node[g].admitted}) <= GlobalBatch

\* Both batch sizes are kept, also where a Topology's rollout and the admission
\* of the installation release the same groups.
BatchesAreLimited == TopologyBatchLimit /\ GlobalBatchLimit

\* Holds and admissions never wait for each other for ever: at last every
\* running group has its sandbox, and all its Nodes are released and admitted,
\* whoever was stopped and started in between.
EveryGroupStarts ==
    <>[](\A g \in Groups \cap world.nodes : ~node[g].stopped =>
        /\ pod[g] = "ready"
        /\ \A n \in Members(g) : ~node[n].hold /\ (GlobalBatch > 0 => node[n].admitted))

=============================================================================
