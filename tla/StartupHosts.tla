---------------------------- MODULE StartupHosts ----------------------------
(***************************************************************************)
(* Admission of booting workloads per Kubernetes host                      *)
(* (controllers/node/startuphost.go and the pass of startupadmission.go    *)
(* that calls it).                                                         *)
(*                                                                         *)
(* A gated Pod waits in its startup gate until the admission controller    *)
(* grants it by an annotation that names its UID.  Passes of the one       *)
(* controller read Pods, Nodes and Topologies from caches that lag and     *)
(* the limit from a Config manager with a watch of its own; grants are     *)
(* written one at a time.  The set reserved bridges the lag of a grant.    *)
(* Pods are numbered in the order of their creation timestamps.            *)
(***************************************************************************)
EXTENDS Naturals, FiniteSets

CONSTANTS
    NPods,       \* bound: Pods
    Hosts,       \* Kubernetes hosts
    NoHost,      \* not scheduled
    Gated,       \* the Pods with a startup gate
    Topologies,  \* Topologies
    NoTopology,  \* a Node on its own
    Owner,       \* Owner[p]: the Topology of the Pod's Node
    Worlds       \* the settings and faults a behaviour may have

PodIDs == 1..NPods
Owners == Topologies \cup {NoTopology}

FaultKinds == {"restart", "ambiguous", "relapse", "delete", "nodes", "config"}

\* pods: how many Pods are created.  stuck: those whose device never passes its
\* startup probe.  limit: maxConcurrentPerHost of the Config, 0 for none, and
\* limits: that of each Topology.  batched: the Config sets batchSize too.
\* kinds: the faults that happen, and left: how many more of them.
World == [pods : 0..NPods, stuck : SUBSET PodIDs, limit : Nat, limits : [Topologies -> Nat],
          batched : BOOLEAN, kinds : SUBSET FaultKinds, left : Nat]

ASSUME HostsAssumption ==
    NPods \in Nat /\ NoHost \notin Hosts /\ Gated \subseteq PodIDs
ASSUME OwnersAssumption ==
    NoTopology \notin Topologies /\ Owner \in [PodIDs -> Owners]
ASSUME WorldsAssumption == Worlds \subseteq World

VARIABLES
    pods,     \* the Pods
    cache,    \* the Pods as the controller's cache has them
    nodes,    \* the Pods whose Node is in the cache
    topos,    \* the Topologies in the cache
    config,   \* the limit: in the Config, with the Config manager, and its event
    reserved, \* startupHostAdmissions
    pass,     \* the pass under way
    queued,   \* the admission request is in the work queue
    world,    \* the settings, and the faults still to come
    lost      \* history: the answer to a grant was lost

vars == <<pods, cache, nodes, topos, config, reserved, pass, queued, world, lost>>

\* begun is history: the primary container has passed its startup probe once.
Pod == [exists : BOOLEAN, host : Hosts \cup {NoHost}, granted : BOOLEAN, started : BOOLEAN,
        begun : BOOLEAN, ended : BOOLEAN, deleting : BOOLEAN]
NoPod == [exists |-> FALSE, host |-> NoHost, granted |-> FALSE, started |-> FALSE,
          begun |-> FALSE, ended |-> FALSE, deleting |-> FALSE]

\* A pass: what it listed, the pending Pods still to look at, and its counts.
Pass == [active : BOOLEAN, seen : [PodIDs -> Pod], pending : SUBSET PodIDs,
         host : [Hosts -> Nat], topology : [Owners \X Hosts -> Nat], limit : {0, world.limit}]
NoPass == [active |-> FALSE, seen |-> [p \in PodIDs |-> NoPod], pending |-> {},
           host |-> [h \in Hosts |-> 0], topology |-> [k \in Owners \X Hosts |-> 0], limit |-> 0]

TypeOK ==
    /\ pods \in [PodIDs -> Pod] /\ cache \in [PodIDs -> Pod]
    /\ nodes \subseteq PodIDs /\ topos \subseteq Topologies
    /\ config \in [limit : {0, world.limit}, manager : {0, world.limit}, event : BOOLEAN]
    /\ reserved \subseteq PodIDs
    /\ pass \in Pass
    /\ queued \in BOOLEAN
    /\ world \in World /\ lost \in BOOLEAN

Init ==
    /\ world \in Worlds /\ lost = FALSE
    /\ pods = [p \in PodIDs |-> NoPod] /\ cache = pods
    /\ nodes = {} /\ topos = {}
    /\ config = [limit |-> world.limit, manager |-> world.limit, event |-> FALSE]
    /\ reserved = {} /\ pass = NoPass /\ queued = FALSE

Fault(f) == f \in world.kinds /\ world.left > 0 /\ world' = [world EXCEPT !.left = @ - 1]

-----------------------------------------------------------------------------
(***************************************************************************)
(* What a pass makes of the Pods it lists.                                 *)
(***************************************************************************)

\* The Pod sits in its gate, as far as the controller knows.
Waits(p, seen) == p \in Gated /\ ~seen[p].granted /\ p \notin reserved

Scheduled(seen) == {p \in PodIDs : seen[p].exists /\ seen[p].host # NoHost}

\* The scheduled Pods to grant whose owner, and its limit, are known.
Pending(seen) ==
    {p \in Scheduled(seen) : /\ Waits(p, seen) /\ ~seen[p].deleting
                             /\ p \in nodes /\ Owner[p] \in topos \cup {NoTopology}}

\* The Pods that take a slot of their host.
Counted(seen) == {p \in Scheduled(seen) : ~Waits(p, seen) /\ ~(seen[p].started \/ seen[p].ended)}

OnHost(ps, seen, h) == Cardinality({p \in ps : seen[p].host = h})

\* Mutant: a Pod whose Node is unknown is left out of its Topology's count.
OwnersKnownAlways(counted) == TRUE

\* Whether every counted Pod's Node, and so its Topology, is known.
OwnersKnown(counted) == counted \subseteq nodes

\* Mutant: no pass asks to run again.
RequeuesNever(seen) == FALSE

\* What a pass returns, beyond what it granted: whether it asks to run again.
\* Every batch group is taken to be admitted; one without a sandbox blocks.
Requeues(seen) ==
    ~world.batched \/ \E p \in PodIDs : seen[p].exists /\ ~seen[p].deleting /\ seen[p].host = NoHost

\* admitStartupHosts up to the grants.  A Pod that takes a slot but whose Node
\* is unknown ends the pass, with the reservations the loop came to dropped.
BeginPass ==
    LET seen == cache
        counted == Counted(seen)
        shown == {p \in reserved : seen[p].granted}
        gone == {p \in reserved : ~seen[p].exists}
    IN  /\ queued /\ ~pass.active
        /\ \/ /\ \A p \in Gated : ~seen[p].exists
              /\ UNCHANGED <<reserved, pass>>
              /\ queued' = Requeues(seen)
           \/ /\ \E p \in Gated : seen[p].exists
              /\ ~OwnersKnown(counted)
              /\ \E s \in SUBSET shown : reserved' = reserved \ s
              /\ queued' = Requeues(seen)
              /\ UNCHANGED pass
           \/ /\ \E p \in Gated : seen[p].exists
              /\ OwnersKnown(counted)
              /\ reserved' = reserved \ (shown \cup gone)
              /\ pass' = [active |-> TRUE, seen |-> seen, pending |-> Pending(seen),
                          host |-> [h \in Hosts |-> OnHost(counted, seen, h)],
                          topology |-> [k \in Owners \X Hosts |->
                              OnHost({p \in counted \cap nodes : Owner[p] = k[1]}, seen, k[2])],
                          limit |-> config.manager]
              /\ queued' = FALSE
        /\ UNCHANGED <<pods, cache, nodes, topos, config, world, lost>>

\* The counts with one more Pod booting.
Take(p) ==
    LET h == pass.seen[p].host
    IN  [pass EXCEPT !.host[h] = @ + 1, !.topology[<<Owner[p], h>>] = @ + 1]

\* Both limits leave room on the Pod's host.
HasSlot(p) ==
    LET h == pass.seen[p].host
        t == Owner[p]
    IN  /\ pass.limit > 0 => pass.host[h] < pass.limit
        /\ t # NoTopology => world.limits[t] = 0 \/ pass.topology[<<t, h>>] < world.limits[t]

\* The oldest pending Pod: skipped, granted, or refused by the API server, whose
\* optimistic lock wants the Pod the pass has read.  A refusal ends the pass,
\* and so does a lost answer to a grant that was made (fault "ambiguous").
Grant(p) ==
    LET grant == [pods EXCEPT ![p].granted = TRUE]
    IN  \/ /\ ~HasSlot(p)
           /\ pass' = [pass EXCEPT !.pending = @ \ {p}]
           /\ UNCHANGED <<pods, reserved, queued, world, lost>>
        \/ /\ HasSlot(p) /\ pods[p] = pass.seen[p]
           /\ pods' = grant
           /\ reserved' = reserved \cup {p}
           /\ pass' = [Take(p) EXCEPT !.pending = @ \ {p}]
           /\ UNCHANGED <<queued, world, lost>>
        \/ /\ HasSlot(p) /\ pods[p] # pass.seen[p]
           /\ pass' = NoPass /\ queued' = TRUE
           /\ UNCHANGED <<pods, reserved, world, lost>>
        \/ /\ HasSlot(p) /\ pods[p] = pass.seen[p] /\ Fault("ambiguous")
           /\ pods' = grant
           /\ pass' = NoPass /\ queued' = TRUE
           /\ lost' = TRUE /\ UNCHANGED reserved

GrantNext ==
    /\ pass.active
    /\ \E p \in pass.pending : (\A q \in pass.pending : p <= q) /\ Grant(p)
    /\ UNCHANGED <<cache, nodes, topos, config>>

EndPass ==
    /\ pass.active /\ pass.pending = {}
    /\ pass' = NoPass
    /\ queued' = (queued \/ Requeues(pass.seen))
    /\ UNCHANGED <<pods, cache, nodes, topos, config, reserved, world, lost>>

-----------------------------------------------------------------------------
(***************************************************************************)
(* The watches.  Every field of a Pod that changes here is one the event   *)
(* filter of the admission controller lets through.                        *)
(***************************************************************************)

SyncPods ==
    /\ cache # pods
    /\ \E p \in PodIDs : cache[p] # pods[p] /\ cache' = [cache EXCEPT ![p] = pods[p]]
    /\ queued' = TRUE
    /\ UNCHANGED <<pods, nodes, topos, config, reserved, pass, world, lost>>

SyncNode(p) ==
    /\ pods[p].exists /\ p \notin nodes
    /\ nodes' = nodes \cup {p} /\ queued' = TRUE
    /\ UNCHANGED <<pods, cache, topos, config, reserved, pass, world, lost>>

SyncTopology(t) ==
    /\ t \notin topos
    /\ topos' = topos \cup {t} /\ queued' = TRUE
    /\ UNCHANGED <<pods, cache, nodes, config, reserved, pass, world, lost>>

\* The Config manager's own watch delivers the Config.
ConfigToManager ==
    /\ config.manager # config.limit
    /\ config' = [config EXCEPT !.manager = config.limit]
    /\ UNCHANGED <<pods, cache, nodes, topos, reserved, pass, queued, world, lost>>

\* The admission controller's watch delivers the Config: only an event.
ConfigToController ==
    /\ config.event
    /\ config' = [config EXCEPT !.event = FALSE] /\ queued' = TRUE
    /\ UNCHANGED <<pods, cache, nodes, topos, reserved, pass, world, lost>>

-----------------------------------------------------------------------------
(***************************************************************************)
(* The cluster.                                                            *)
(***************************************************************************)

PodStep(p, pod) ==
    /\ pods' = [pods EXCEPT ![p] = pod]
    /\ UNCHANGED <<cache, nodes, topos, config, reserved, pass, queued, lost>>

CreatePod(p) ==
    /\ p <= world.pods /\ pods[p] = NoPod
    /\ \A q \in 1..(p - 1) : pods[q] # NoPod
    /\ PodStep(p, [NoPod EXCEPT !.exists = TRUE]) /\ UNCHANGED world

Schedule(p) ==
    /\ pods[p].exists /\ pods[p].host = NoHost
    /\ \E h \in Hosts : PodStep(p, [pods[p] EXCEPT !.host = h])
    /\ UNCHANGED world

\* The gate opens on a grant of this Pod, then the device boots.
Boot(p) ==
    /\ pods[p].exists /\ pods[p].host # NoHost /\ ~pods[p].started /\ ~pods[p].ended
    /\ p \notin world.stuck
    /\ p \in Gated => pods[p].granted
    /\ PodStep(p, [pods[p] EXCEPT !.started = TRUE, !.begun = TRUE])
    /\ UNCHANGED world

\* The container restarts inside its Pod, or the Pod fails for good.
Relapse(p) ==
    /\ pods[p].exists /\ pods[p].started /\ Fault("relapse")
    /\ \E ended \in BOOLEAN : PodStep(p, [pods[p] EXCEPT !.started = FALSE, !.ended = ended])

MarkDeleted(p) ==
    /\ pods[p].exists /\ ~pods[p].deleting /\ Fault("delete")
    /\ PodStep(p, [pods[p] EXCEPT !.deleting = TRUE])

\* A Pod that is gone leaves its host, and never comes back under its UID.
RemovePod(p) ==
    /\ pods[p].exists /\ pods[p].deleting
    /\ PodStep(p, [pods[p] EXCEPT !.exists = FALSE]) /\ UNCHANGED world

\* A Node is deleted before its Pod.
NodeGoes(p) ==
    /\ p \in nodes /\ Fault("nodes")
    /\ nodes' = nodes \ {p} /\ queued' = TRUE
    /\ UNCHANGED <<pods, cache, topos, config, reserved, pass, lost>>

\* The limit is lifted in the Config.
DisableLimit ==
    /\ config.limit # 0 /\ Fault("config")
    /\ config' = [config EXCEPT !.limit = 0, !.event = TRUE]
    /\ UNCHANGED <<pods, cache, nodes, topos, reserved, pass, queued, lost>>

\* Another manager process leads: its caches are listed afresh, its set is empty.
Restart ==
    /\ Fault("restart")
    /\ cache' = pods /\ reserved' = {} /\ pass' = NoPass /\ queued' = TRUE
    /\ config' = [config EXCEPT !.manager = config.limit, !.event = FALSE]
    /\ UNCHANGED <<pods, nodes, topos, lost>>

Next ==
    \/ BeginPass \/ GrantNext \/ EndPass
    \/ SyncPods \/ ConfigToManager \/ ConfigToController
    \/ \E t \in Topologies : SyncTopology(t)
    \/ \E p \in PodIDs : \/ SyncNode(p) \/ CreatePod(p) \/ Schedule(p) \/ Boot(p)
                         \/ Relapse(p) \/ MarkDeleted(p) \/ RemovePod(p) \/ NodeGoes(p)
    \/ DisableLimit \/ Restart

Spec == Init /\ [][Next]_vars

\* The controller runs what is queued, watches deliver, Pods are scheduled and
\* devices that are not stuck boot.
FairSpec ==
    /\ Spec
    /\ WF_vars(BeginPass \/ GrantNext \/ EndPass)
    /\ WF_vars(SyncPods) /\ WF_vars(ConfigToManager) /\ WF_vars(ConfigToController)
    /\ \A t \in Topologies : WF_vars(SyncTopology(t))
    /\ \A p \in PodIDs : /\ WF_vars(SyncNode(p)) /\ WF_vars(Schedule(p))
                         /\ WF_vars(Boot(p)) /\ WF_vars(RemovePod(p))

-----------------------------------------------------------------------------
(***************************************************************************)
(* What is promised.                                                       *)
(***************************************************************************)

\* The Pods of ps that were granted a slot of host h and have not booted once.
Booting(ps, h) ==
    {p \in ps \cap Gated : /\ pods[p].exists /\ pods[p].host = h
                           /\ pods[p].granted /\ ~pods[p].begun /\ ~pods[p].ended}

\* Unless the answer to a grant was lost, no host boots more granted Pods than
\* the Config's limit, whatever the lag of the Pod cache and across restarts of
\* the manager, which lose the reservations (startuphost.go, hostCount).
HostLimit ==
    ~lost /\ config.limit > 0 =>
        \A h \in Hosts : Cardinality(Booting(PodIDs, h)) <= config.limit

\* Nor more Pods of one Topology than its own limit, also while the Nodes that
\* say which Topology a Pod is of come and go (topologyCount).
TopologyLimit ==
    \A t \in Topologies, h \in Hosts :
        ~lost /\ world.limits[t] > 0 =>
            Cardinality(Booting({p \in PodIDs : Owner[p] = t}, h)) <= world.limits[t]

\* The two limits, of hosts and of Topologies, hold together, in whatever order
\* one controller takes and frees the slots of both (admitStartupHosts).
SlotsAreLimited == HostLimit /\ TopologyLimit

Granted == \A p \in Gated : pods[p].exists => pods[p].granted

\* Every gated Pod that stays is granted in the end, where devices do boot:
\* whatever frees a slot also wakes the controller up (startupAdmissionEvents,
\* the retries of the pass).
EveryoneBoots == <>[](world.stuck = {} => Granted)

\* "A stuck device retains its slot: fix or remove it, or explicitly disable
\* the limit to release the queue" (docs/guides/scaling-performance.md): the
\* short retry of a controller without a batch size makes it so.
DisablingReleases == <>[](config.limit = 0 /\ ~world.batched => Granted)

\* The queue drains in the end, behind devices that boot and, once the limit is
\* lifted, behind one that does not.
QueueDrains == EveryoneBoots /\ DisablingReleases

=============================================================================
