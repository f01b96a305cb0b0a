------------------------- MODULE StartupHostsProofs -------------------------
(***************************************************************************)
(* The limits on booting Pods hold for every number of Pods, hosts and     *)
(* Topologies, every limit, and caches that lag by any amount.             *)
(*                                                                         *)
(* A pass counts cached Pods, the limits are about the real ones.  Lags    *)
(* says what an old copy of a Pod still tells of it, Accounted that a      *)
(* granted Pod is known as such through the cache or the reservations; so  *)
(* whatever boots is counted when a pass begins, and PassCounts says that  *)
(* it stays so while the pass grants.                                      *)
(***************************************************************************)
EXTENDS StartupHosts, FiniteSetTheorems, TLAPS

\* What holds of a Pod read at two times, a before b.
Later(a, b) ==
    /\ a.host # NoHost => b.host = a.host /\ (~a.exists => ~b.exists)
    /\ a.begun => b.begun
    /\ a.ended => b.ended

Sane(pod) == pod.started => pod.begun /\ ~pod.ended

Lags ==
    \A p \in PodIDs :
        /\ Later(cache[p], pods[p]) /\ Sane(cache[p]) /\ Sane(pods[p])
        /\ pass.active => Later(pass.seen[p], cache[p])

\* The pass looks at Pods it has seen on a host.
PendingScheduled == pass.active => pass.pending \subseteq Scheduled(pass.seen)

Accounted ==
    ~lost => \A p \in Gated :
        pods[p].exists /\ pods[p].granted =>
            /\ pods[p].host # NoHost /\ cache[p].host = pods[p].host
            /\ cache[p].granted \/ p \in reserved

OfTopology(t) == {p \in PodIDs : Owner[p] = t}

PassCounts ==
    ~lost /\ pass.active => \A h \in Hosts :
        /\ Cardinality(Booting(PodIDs, h)) <= pass.host[h]
        /\ \A t \in Topologies : Cardinality(Booting(OfTopology(t), h)) <= pass.topology[<<t, h>>]

\* The limit only ever goes away, so a limit that is set is the one in use.
LimitInUse ==
    config.limit > 0 => config.manager = config.limit /\ (pass.active => pass.limit = config.limit)

Known == Lags /\ PendingScheduled /\ Accounted

SlotsInv == TypeOK /\ Known /\ PassCounts /\ LimitInUse /\ SlotsAreLimited

-----------------------------------------------------------------------------
LEMMA FaultKeepsSettings ==
    ASSUME world \in World, NEW f, Fault(f)
    PROVE  world' \in World /\ world'.limit = world.limit /\ world'.limits = world.limits
  BY DEF Fault, World

LEMMA SamePass ==
    ASSUME world'.limit = world.limit
    PROVE  Pass' = Pass
  BY Zenon DEF Pass

LEMMA NoPodType == NoPod \in Pod /\ Sane(NoPod) /\ NoPod.host = NoHost
  BY Zenon DEF NoPod, Pod, Sane

LEMMA NoPassType == NoPass \in Pass /\ ~NoPass.active
  BY NoPodType, Zenon DEF NoPass, Pass

LEMMA LaterIsOrder ==
    /\ \A a : Later(a, a)
    /\ \A a, b, c : Later(a, b) /\ Later(b, c) => Later(a, c)
  BY DEF Later

LEMMA FinitePods == IsFiniteSet(PodIDs)
  BY FS_Interval, HostsAssumption DEF PodIDs

LEMMA BootingFinite ==
    ASSUME NEW ps \in SUBSET PodIDs, NEW h
    PROVE  /\ IsFiniteSet(Booting(ps, h)) /\ Cardinality(Booting(ps, h)) \in Nat
           /\ IsFiniteSet(Booting(ps, h)') /\ Cardinality(Booting(ps, h)') \in Nat
  <1>1. Booting(ps, h) \subseteq PodIDs /\ Booting(ps, h)' \subseteq PodIDs
    BY Zenon DEF Booting
  <1>. QED
    BY <1>1, FinitePods, FS_Subset, FS_CardinalityType, Zenon

\* What boots on a host is counted there, by the cache and the reservations.
LEMMA BootingCounted ==
    ASSUME TypeOK, Lags, Accounted, ~lost, NEW ps \in SUBSET PodIDs, NEW h \in Hosts
    PROVE  Booting(ps, h) \subseteq {p \in Counted(cache) \cap ps : cache[p].host = h}
  <1> SUFFICES ASSUME NEW p \in Booting(ps, h)
               PROVE  p \in Counted(cache) /\ p \in ps /\ cache[p].host = h
    BY Zenon
  <1>1. /\ p \in PodIDs /\ p \in ps /\ p \in Gated /\ pods[p].exists /\ pods[p].host = h
        /\ pods[p].granted /\ ~pods[p].begun /\ ~pods[p].ended
    BY Zenon DEF Booting
  <1>2. h # NoHost
    BY HostsAssumption, Zenon
  <1>3. cache[p].host = h /\ (cache[p].granted \/ p \in reserved)
    BY <1>1, Zenon DEF Accounted
  <1>4. cache[p].exists /\ ~cache[p].started /\ ~cache[p].ended
    BY <1>1, <1>2, <1>3, Zenon DEF Lags, Later, Sane
  <1>. QED
    BY <1>1, <1>2, <1>3, <1>4, Zenon DEF Counted, Scheduled, Waits

-----------------------------------------------------------------------------
(***************************************************************************)
(* What a step leaves as it was.                                           *)
(***************************************************************************)

\* No Pod begins to boot: the limits hold on, and so do the counts of a pass
\* that goes on or has begun with enough counted.
Calm ==
    \A ps \in SUBSET PodIDs, h \in Hosts :
        ~lost' => ~lost /\ Booting(ps, h)' \subseteq Booting(ps, h)

LEMMA CalmCardinality ==
    ASSUME Calm, ~lost', NEW ps \in SUBSET PodIDs, NEW h \in Hosts
    PROVE  ~lost /\ Cardinality(Booting(ps, h)') <= Cardinality(Booting(ps, h))
  BY BootingFinite, FS_Subset, Zenon DEF Calm

LEMMA CalmKeepsLimits ==
    ASSUME SlotsInv, Calm, world'.limits = world.limits, config'.limit \in {0, config.limit}
    PROVE  SlotsAreLimited'
  <1>1. /\ \A h \in Hosts : Cardinality(Booting(PodIDs, h)) \in Nat /\ Cardinality(Booting(PodIDs, h)') \in Nat
        /\ config.limit \in Nat /\ world.limits \in [Topologies -> Nat]
    BY BootingFinite DEF SlotsInv, TypeOK, World
  <1>2. HostLimit'
    <2> SUFFICES ASSUME ~lost', config'.limit > 0, NEW h \in Hosts
                 PROVE  Cardinality(Booting(PodIDs, h)') <= config'.limit
      BY Zenon DEF HostLimit
    <2>1. ~lost /\ Cardinality(Booting(PodIDs, h)') <= Cardinality(Booting(PodIDs, h))
      BY CalmCardinality, Zenon
    <2>2. config'.limit = config.limit
      OBVIOUS
    <2>3. Cardinality(Booting(PodIDs, h)) <= config.limit
      BY <2>1, <2>2, Zenon DEF SlotsInv, SlotsAreLimited, HostLimit
    <2>. QED
      BY <1>1, <2>1, <2>2, <2>3
  <1>3. TopologyLimit'
    <2> SUFFICES ASSUME NEW t \in Topologies, NEW h \in Hosts, ~lost', world.limits[t] > 0
                 PROVE  Cardinality(Booting(OfTopology(t), h)') <= world.limits[t]
      BY Zenon DEF TopologyLimit, OfTopology
    <2>1. OfTopology(t) \subseteq PodIDs
      BY Zenon DEF OfTopology
    <2>2. ~lost /\ Cardinality(Booting(OfTopology(t), h)') <= Cardinality(Booting(OfTopology(t), h))
      BY <2>1, CalmCardinality, Zenon
    <2>3. Cardinality(Booting(OfTopology(t), h)) <= world.limits[t]
      BY <2>2, Zenon DEF SlotsInv, SlotsAreLimited, TopologyLimit, OfTopology
    <2>. QED
      BY <1>1, <2>1, <2>2, <2>3, BootingFinite
  <1>. QED
    BY <1>2, <1>3, Zenon DEF SlotsAreLimited

LEMMA CalmKeepsCounts ==
    ASSUME SlotsInv, Calm, pass'.active => pass.active /\ pass'.host = pass.host /\ pass'.topology = pass.topology
    PROVE  PassCounts'
  <1> SUFFICES ASSUME ~lost', pass'.active, NEW h \in Hosts
               PROVE  /\ Cardinality(Booting(PodIDs, h)') <= pass.host[h]
                      /\ \A t \in Topologies :
                            Cardinality(Booting(OfTopology(t), h)') <= pass.topology[<<t, h>>]
    BY Zenon DEF PassCounts, OfTopology
  <1>1. /\ pass.host \in [Hosts -> Nat] /\ pass.topology \in [Owners \X Hosts -> Nat]
    BY Zenon DEF SlotsInv, TypeOK, Pass
  <1>2. ~lost
    BY CalmCardinality, Zenon
  <1>3. Cardinality(Booting(PodIDs, h)') <= pass.host[h]
    BY <1>1, <1>2, CalmCardinality, BootingFinite DEF SlotsInv, PassCounts
  <1>4. ASSUME NEW t \in Topologies
        PROVE  Cardinality(Booting(OfTopology(t), h)') <= pass.topology[<<t, h>>]
    <2>1. OfTopology(t) \subseteq PodIDs /\ <<t, h>> \in Owners \X Hosts
      BY Zenon DEF OfTopology, Owners
    <2>2. Cardinality(Booting(OfTopology(t), h)) <= pass.topology[<<t, h>>]
      BY <1>2, Zenon DEF SlotsInv, PassCounts
    <2>3. Cardinality(Booting(OfTopology(t), h)') <= Cardinality(Booting(OfTopology(t), h))
      BY <2>1, CalmCardinality, Zenon
    <2>4. pass.topology[<<t, h>>] \in Nat
      BY <1>1, <2>1, Zenon
    <2>. QED
      BY <2>1, <2>2, <2>3, <2>4, BootingFinite
  <1>. QED
    BY <1>3, <1>4, Zenon

\* Steps that leave the Pods alone begin no boot.
LEMMA SamePodsCalm ==
    ASSUME pods' = pods, lost' = lost
    PROVE  Calm
  BY Zenon DEF Calm, Booting

-----------------------------------------------------------------------------
(***************************************************************************)
(* The steps of the cluster and of the watches.                            *)
(***************************************************************************)
LEMMA PodStepKeeps ==
    ASSUME SlotsInv, NEW p \in PodIDs, NEW pod \in Pod, PodStep(p, pod),
           Later(pods[p], pod), Sane(pod),
           pod.exists /\ pod.granted => pods[p].exists /\ pods[p].granted,
           world' \in World, world'.limit = world.limit, world'.limits = world.limits
    PROVE  SlotsInv'
  <1>1. /\ UNCHANGED <<cache, nodes, topos, config, reserved, pass, queued, lost>>
        /\ pods \in [PodIDs -> Pod]
        /\ pods'[p] = pod /\ \A q \in PodIDs \ {p} : pods'[q] = pods[q]
    BY Zenon DEF PodStep, SlotsInv, TypeOK
  <1>2. TypeOK'
    BY <1>1, SamePass, Zenon DEF PodStep, SlotsInv, TypeOK
  <1>3. Lags'
    BY <1>1, LaterIsOrder, Zenon DEF SlotsInv, Known, Lags
  <1>4. PendingScheduled'
    BY <1>1, Zenon DEF SlotsInv, Known, PendingScheduled, Scheduled
  <1>5. Accounted'
    <2> SUFFICES ASSUME ~lost, NEW q \in Gated, pods'[q].exists, pods'[q].granted
                 PROVE  /\ pods'[q].host # NoHost /\ cache[q].host = pods'[q].host
                        /\ cache[q].granted \/ q \in reserved
      BY <1>1, Zenon DEF Accounted
    <2>1. q \in PodIDs
      BY HostsAssumption, Zenon
    <2>2. pods[q].exists /\ pods[q].granted
      BY <1>1, <2>1, Zenon
    <2>3. /\ pods[q].host # NoHost /\ cache[q].host = pods[q].host
          /\ cache[q].granted \/ q \in reserved
      BY <2>2, Zenon DEF SlotsInv, Known, Accounted
    <2>4. pods'[q].host = pods[q].host
      BY <1>1, <2>1, <2>3, Zenon DEF Later
    <2>. QED
      BY <2>3, <2>4, Zenon
  <1>6. Calm
    <2> SUFFICES ASSUME NEW ps \in SUBSET PodIDs, NEW h \in Hosts, ~lost,
                        NEW q \in Booting(ps, h)'
                 PROVE  q \in Booting(ps, h)
      BY <1>1, Zenon DEF Calm
    <2>1. /\ q \in ps /\ q \in Gated /\ q \in PodIDs /\ pods'[q].exists /\ pods'[q].host = h
          /\ pods'[q].granted /\ ~pods'[q].begun /\ ~pods'[q].ended
      BY Zenon DEF Booting
    <2>2. pods[q].exists /\ pods[q].granted
      BY <1>1, <2>1, Zenon
    <2>3. pods[q].host # NoHost
      BY <2>1, <2>2, Zenon DEF SlotsInv, Known, Accounted
    <2>4. pods[q].host = h /\ ~pods[q].begun /\ ~pods[q].ended
      BY <1>1, <2>1, <2>3, Zenon DEF Later
    <2>. QED
      BY <2>1, <2>2, <2>4, Zenon DEF Booting
  <1>7. PassCounts'
    BY <1>1, <1>6, CalmKeepsCounts, Zenon
  <1>8. LimitInUse'
    BY <1>1, Zenon DEF SlotsInv, LimitInUse
  <1>9. SlotsAreLimited'
    BY <1>1, <1>6, CalmKeepsLimits, Zenon
  <1>. QED
    BY <1>2, <1>3, <1>4, <1>5, <1>7, <1>8, <1>9, Zenon DEF SlotsInv, Known

LEMMA ClusterKeeps ==
    ASSUME SlotsInv, NEW p \in PodIDs,
           CreatePod(p) \/ Schedule(p) \/ Boot(p) \/ Relapse(p) \/ MarkDeleted(p) \/ RemovePod(p)
    PROVE  SlotsInv'
  <1>1. pods[p] \in Pod /\ Sane(pods[p]) /\ world \in World
    BY Zenon DEF SlotsInv, TypeOK, Known, Lags
  <1>2. CASE CreatePod(p)
    <2> DEFINE pod == [NoPod EXCEPT !.exists = TRUE]
    <2>1. pod \in Pod /\ Sane(pod) /\ Later(NoPod, pod) /\ ~pod.granted
      BY Zenon DEF NoPod, Pod, Sane, Later
    <2>. QED
      BY <1>1, <1>2, <2>1, PodStepKeeps, Zenon DEF CreatePod
  <1>3. CASE Schedule(p)
    <2>1. PICK h \in Hosts : PodStep(p, [pods[p] EXCEPT !.host = h])
      BY <1>3, Zenon DEF Schedule
    <2> DEFINE pod == [pods[p] EXCEPT !.host = h]
    <2>2. /\ pod \in Pod /\ Sane(pod) /\ Later(pods[p], pod)
          /\ pod.granted = pods[p].granted /\ pod.exists = pods[p].exists
      BY <1>1, <1>3, Zenon DEF Schedule, Pod, Sane, Later
    <2>. QED
      BY <1>1, <1>3, <2>1, <2>2, PodStepKeeps, Zenon DEF Schedule
  <1>4. CASE Boot(p)
    <2> DEFINE pod == [pods[p] EXCEPT !.started = TRUE, !.begun = TRUE]
    <2>1. /\ pod \in Pod /\ Sane(pod) /\ Later(pods[p], pod)
          /\ pod.granted = pods[p].granted /\ pod.exists = pods[p].exists
      BY <1>1, <1>4, Zenon DEF Boot, Pod, Sane, Later
    <2>. QED
      BY <1>1, <1>4, <2>1, PodStepKeeps, Zenon DEF Boot
  <1>5. CASE Relapse(p)
    <2>1. PICK ended \in BOOLEAN : PodStep(p, [pods[p] EXCEPT !.started = FALSE, !.ended = ended])
      BY <1>5, Zenon DEF Relapse
    <2> DEFINE pod == [pods[p] EXCEPT !.started = FALSE, !.ended = ended]
    <2>2. ~pods[p].ended
      BY <1>1, <1>5, Zenon DEF Relapse, Sane
    <2>3. /\ pod \in Pod /\ Sane(pod) /\ Later(pods[p], pod)
          /\ pod.granted = pods[p].granted /\ pod.exists = pods[p].exists
      BY <1>1, <2>2, Zenon DEF Pod, Sane, Later
    <2>. QED
      BY <1>1, <1>5, <2>1, <2>3, PodStepKeeps, FaultKeepsSettings, Zenon DEF Relapse
  <1>6. CASE MarkDeleted(p)
    <2> DEFINE pod == [pods[p] EXCEPT !.deleting = TRUE]
    <2>1. /\ pod \in Pod /\ Sane(pod) /\ Later(pods[p], pod)
          /\ pod.granted = pods[p].granted /\ pod.exists = pods[p].exists
      BY <1>1, Zenon DEF Pod, Sane, Later
    <2>. QED
      BY <1>1, <1>6, <2>1, PodStepKeeps, FaultKeepsSettings, Zenon DEF MarkDeleted
  <1>7. CASE RemovePod(p)
    <2> DEFINE pod == [pods[p] EXCEPT !.exists = FALSE]
    <2>1. pod \in Pod /\ Sane(pod) /\ Later(pods[p], pod) /\ ~pod.exists
      BY <1>1, Zenon DEF Pod, Sane, Later
    <2>. QED
      BY <1>1, <1>7, <2>1, PodStepKeeps, Zenon DEF RemovePod
  <1>. QED
    BY <1>2, <1>3, <1>4, <1>5, <1>6, <1>7, Zenon

LEMMA SyncPodsKeeps ==
    ASSUME SlotsInv, SyncPods
    PROVE  SlotsInv'
  <1>1. PICK p \in PodIDs : cache' = [cache EXCEPT ![p] = pods[p]]
    BY Zenon DEF SyncPods
  <1>2. /\ UNCHANGED <<pods, nodes, topos, config, reserved, pass, world, lost>>
        /\ queued' = TRUE
        /\ cache \in [PodIDs -> Pod] /\ pods[p] \in Pod
        /\ cache'[p] = pods[p] /\ \A q \in PodIDs \ {p} : cache'[q] = cache[q]
    BY <1>1, Zenon DEF SyncPods, SlotsInv, TypeOK
  <1>3. TypeOK'
    BY <1>1, <1>2, SamePass, Zenon DEF SlotsInv, TypeOK
  <1>4. Lags'
    BY <1>2, LaterIsOrder, Zenon DEF SlotsInv, Known, Lags
  <1>5. PendingScheduled'
    BY <1>2, Zenon DEF SlotsInv, Known, PendingScheduled, Scheduled
  <1>6. Accounted'
    BY <1>2, HostsAssumption, Zenon DEF SlotsInv, Known, Accounted
  <1>7. PassCounts' /\ SlotsAreLimited'
    BY <1>2, SamePodsCalm, CalmKeepsCounts, CalmKeepsLimits, Zenon
  <1>8. LimitInUse'
    BY <1>2, Zenon DEF SlotsInv, LimitInUse
  <1>. QED
    BY <1>3, <1>4, <1>5, <1>6, <1>7, <1>8, Zenon DEF SlotsInv, Known

\* Nothing but the limit, or what is known of Nodes and Topologies, changes.
LEMMA SettingsKeep ==
    ASSUME SlotsInv, UNCHANGED <<pods, cache, reserved, pass, lost>>,
           nodes' \subseteq PodIDs, topos' \subseteq Topologies, queued' \in BOOLEAN,
           config' \in [limit : {0, world.limit}, manager : {0, world.limit}, event : BOOLEAN],
           \/ config'.limit = 0
           \/ config'.limit = config.limit /\ config'.manager \in {config.manager, config.limit},
           world' \in World, world'.limit = world.limit, world'.limits = world.limits
    PROVE  SlotsInv'
  <1>1. TypeOK'
    BY SamePass, Zenon DEF SlotsInv, TypeOK
  <1>2. Known'
    BY Zenon DEF SlotsInv, Known, Lags, PendingScheduled, Scheduled, Accounted
  <1>3. PassCounts' /\ SlotsAreLimited'
    BY SamePodsCalm, CalmKeepsCounts, CalmKeepsLimits, Zenon
  <1>4. LimitInUse'
    BY DEF SlotsInv, LimitInUse
  <1>. QED
    BY <1>1, <1>2, <1>3, <1>4, Zenon DEF SlotsInv

LEMMA WatchesKeep ==
    ASSUME SlotsInv,
           \/ ConfigToManager \/ ConfigToController \/ DisableLimit
           \/ \E t \in Topologies : SyncTopology(t)
           \/ \E p \in PodIDs : SyncNode(p) \/ NodeGoes(p)
           \/ UNCHANGED vars
    PROVE  SlotsInv'
  <1>1. /\ config \in [limit : {0, world.limit}, manager : {0, world.limit}, event : BOOLEAN]
        /\ nodes \subseteq PodIDs /\ topos \subseteq Topologies /\ queued \in BOOLEAN /\ world \in World
    BY Zenon DEF SlotsInv, TypeOK
  <1>2. CASE ConfigToManager
    BY <1>1, <1>2, SettingsKeep, Zenon DEF ConfigToManager
  <1>3. CASE ConfigToController
    BY <1>1, <1>3, SettingsKeep, Zenon DEF ConfigToController
  <1>4. CASE DisableLimit
    BY <1>1, <1>4, SettingsKeep, FaultKeepsSettings, Zenon DEF DisableLimit
  <1>5. CASE \E t \in Topologies : SyncTopology(t)
    BY <1>1, <1>5, SettingsKeep, Zenon DEF SyncTopology
  <1>6. CASE \E p \in PodIDs : SyncNode(p)
    BY <1>1, <1>6, SettingsKeep, Zenon DEF SyncNode
  <1>7. CASE \E p \in PodIDs : NodeGoes(p)
    BY <1>1, <1>7, SettingsKeep, FaultKeepsSettings, Zenon DEF NodeGoes
  <1>8. CASE UNCHANGED vars
    BY <1>1, <1>8, SettingsKeep, Zenon DEF vars
  <1>. QED
    BY <1>2, <1>3, <1>4, <1>5, <1>6, <1>7, <1>8, Zenon

LEMMA RestartKeeps ==
    ASSUME SlotsInv, Restart
    PROVE  SlotsInv'
  <1>1. /\ UNCHANGED <<pods, nodes, topos, lost>> /\ cache' = pods /\ reserved' = {} /\ queued' = TRUE
        /\ pass' = NoPass /\ ~pass'.active
        /\ config' = [config EXCEPT !.manager = config.limit, !.event = FALSE]
        /\ config \in [limit : {0, world.limit}, manager : {0, world.limit}, event : BOOLEAN]
        /\ world' \in World /\ world'.limit = world.limit /\ world'.limits = world.limits
    BY FaultKeepsSettings, NoPassType, Zenon DEF Restart, SlotsInv, TypeOK
  <1>2. TypeOK'
    BY <1>1, SamePass, NoPassType, Zenon DEF SlotsInv, TypeOK
  <1>3. Known'
    BY <1>1, LaterIsOrder, HostsAssumption, Zenon DEF SlotsInv, Known, Lags, PendingScheduled, Accounted
  <1>4. PassCounts' /\ SlotsAreLimited'
    BY <1>1, SamePodsCalm, CalmKeepsCounts, CalmKeepsLimits, Zenon
  <1>5. LimitInUse'
    BY <1>1, Zenon DEF LimitInUse
  <1>. QED
    BY <1>2, <1>3, <1>4, <1>5, Zenon DEF SlotsInv

-----------------------------------------------------------------------------
(***************************************************************************)
(* The steps of a pass.                                                    *)
(***************************************************************************)

\* The pass ends, or drops reservations that are no longer needed.
LEMMA QuietPass ==
    ASSUME SlotsInv, UNCHANGED <<pods, cache, nodes, topos, config, world, lost>>,
           queued' \in BOOLEAN, pass' \in {pass, NoPass}, reserved' \subseteq reserved,
           \A p \in reserved \ reserved' : cache[p].granted \/ ~cache[p].exists
    PROVE  SlotsInv'
  <1>1. TypeOK'
    BY NoPassType, SamePass, Zenon DEF SlotsInv, TypeOK
  <1>2. Lags' /\ PendingScheduled'
    BY NoPassType, Zenon DEF SlotsInv, Known, Lags, PendingScheduled, Scheduled
  <1>3. Accounted'
    <2> SUFFICES ASSUME ~lost, NEW p \in Gated, pods[p].exists, pods[p].granted
                 PROVE  /\ pods[p].host # NoHost /\ cache[p].host = pods[p].host
                        /\ cache[p].granted \/ p \in reserved'
      BY Zenon DEF Accounted
    <2>1. /\ pods[p].host # NoHost /\ cache[p].host = pods[p].host
          /\ cache[p].granted \/ p \in reserved
      BY Zenon DEF SlotsInv, Known, Accounted
    <2>2. cache[p].exists
      BY <2>1, HostsAssumption, Zenon DEF SlotsInv, Known, Lags, Later
    <2>. QED
      BY <2>1, <2>2, Zenon
  <1>4. PassCounts' /\ SlotsAreLimited'
    BY NoPassType, SamePodsCalm, CalmKeepsCounts, CalmKeepsLimits, Zenon
  <1>5. LimitInUse'
    BY NoPassType, Zenon DEF SlotsInv, LimitInUse
  <1>. QED
    BY <1>1, <1>2, <1>3, <1>4, <1>5, Zenon DEF SlotsInv, Known

LEMMA CountType ==
    ASSUME NEW ps \in SUBSET PodIDs, NEW seen, NEW h
    PROVE  OnHost(ps, seen, h) \in Nat
  <1>1. {p \in ps : seen[p].host = h} \subseteq PodIDs
    BY Zenon
  <1>. QED
    BY <1>1, FinitePods, FS_Subset, FS_CardinalityType, Zenon DEF OnHost

LEMMA BootingWithin ==
    ASSUME TypeOK, Lags, Accounted, ~lost, NEW ps \in SUBSET PodIDs, NEW h \in Hosts, NEW counted,
           counted \in SUBSET PodIDs, Counted(cache) \cap ps \subseteq counted
    PROVE  Cardinality(Booting(ps, h)) <= OnHost(counted, cache, h)
  <1>1. Booting(ps, h) \subseteq {p \in counted : cache[p].host = h}
    BY BootingCounted, Zenon
  <1>2. {p \in counted : cache[p].host = h} \subseteq PodIDs
    BY Zenon
  <1>. QED
    BY <1>1, <1>2, FinitePods, FS_Subset, Zenon DEF OnHost

LEMMA BeginPassKeeps ==
    ASSUME SlotsInv, BeginPass
    PROVE  SlotsInv'
  <1> DEFINE counted == Counted(cache)
             shown == {p \in reserved : cache[p].granted}
             gone == {p \in reserved : ~cache[p].exists}
             ofOwner(k) == {p \in counted \cap nodes : Owner[p] = k[1]}
  <1>0. /\ UNCHANGED <<pods, cache, nodes, topos, config, world, lost>>
        /\ Requeues(cache) \in BOOLEAN /\ queued \in BOOLEAN /\ ~pass.active
    BY Zenon DEF BeginPass, Requeues, SlotsInv, TypeOK
  <1>1. CASE UNCHANGED <<reserved, pass>> /\ queued' = Requeues(cache)
    BY <1>0, <1>1, QuietPass, Zenon
  <1>2. CASE /\ \E s \in SUBSET shown : reserved' = reserved \ s
             /\ queued' = Requeues(cache) /\ UNCHANGED pass
    BY <1>0, <1>2, QuietPass, Zenon
  <1>3. CASE /\ OwnersKnown(counted)
             /\ reserved' = reserved \ (shown \cup gone)
             /\ pass' = [active |-> TRUE, seen |-> cache, pending |-> Pending(cache),
                         host |-> [h \in Hosts |-> OnHost(counted, cache, h)],
                         topology |-> [k \in Owners \X Hosts |-> OnHost(ofOwner(k), cache, k[2])],
                         limit |-> config.manager]
             /\ queued' = FALSE
    <2>0. /\ pass'.active /\ pass'.seen = cache /\ pass'.pending = Pending(cache)
          /\ pass'.limit = config.manager
          /\ pass'.host = [h \in Hosts |-> OnHost(counted, cache, h)]
          /\ pass'.topology = [k \in Owners \X Hosts |-> OnHost(ofOwner(k), cache, k[2])]
      BY <1>3, Zenon
    <2>1. counted \in SUBSET PodIDs /\ \A k : ofOwner(k) \in SUBSET PodIDs
      BY Zenon DEF Counted, Scheduled
    <2>2. TypeOK'
      <3>1. Pending(cache) \subseteq PodIDs
        BY Zenon DEF Pending, Scheduled
      <3>2. /\ [h \in Hosts |-> OnHost(counted, cache, h)] \in [Hosts -> Nat]
            /\ [k \in Owners \X Hosts |-> OnHost(ofOwner(k), cache, k[2])] \in [Owners \X Hosts -> Nat]
        BY <2>1, CountType, Zenon
      <3>3. pass' \in Pass
        BY <1>3, <3>1, <3>2, Zenon DEF Pass, SlotsInv, TypeOK
      <3>. QED
        BY <1>0, <1>3, <3>3, SamePass, Zenon DEF SlotsInv, TypeOK
    <2>3. Lags' /\ PendingScheduled'
      BY <1>0, <2>0, LaterIsOrder, Zenon DEF SlotsInv, Known, Lags, PendingScheduled, Pending
    <2>4. Accounted' /\ SlotsAreLimited'
      <3>1. Accounted'
        <4> SUFFICES ASSUME ~lost, NEW p \in Gated, pods[p].exists, pods[p].granted
                     PROVE  /\ pods[p].host # NoHost /\ cache[p].host = pods[p].host
                            /\ cache[p].granted \/ p \in reserved'
          BY <1>0, Zenon DEF Accounted
        <4>1. /\ pods[p].host # NoHost /\ cache[p].host = pods[p].host
              /\ cache[p].granted \/ p \in reserved
          BY Zenon DEF SlotsInv, Known, Accounted
        <4>2. cache[p].exists
          BY <4>1, HostsAssumption, Zenon DEF SlotsInv, Known, Lags, Later
        <4>. QED
          BY <1>3, <4>1, <4>2, Zenon
      <3>. QED
        BY <1>0, <3>1, SamePodsCalm, CalmKeepsLimits, Zenon
    <2>5. PassCounts'
      <3> SUFFICES ASSUME ~lost, NEW h \in Hosts
                   PROVE  /\ Cardinality(Booting(PodIDs, h)) <= pass'.host[h]
                          /\ \A t \in Topologies :
                                Cardinality(Booting(OfTopology(t), h)) <= pass'.topology[<<t, h>>]
        BY <1>0, Zenon DEF PassCounts, Booting, OfTopology
      <3>1. Cardinality(Booting(PodIDs, h)) <= pass'.host[h]
        BY <2>0, <2>1, BootingWithin DEF SlotsInv, Known
      <3>2. ASSUME NEW t \in Topologies
            PROVE  Cardinality(Booting(OfTopology(t), h)) <= pass'.topology[<<t, h>>]
        <4>1. OfTopology(t) \subseteq PodIDs /\ <<t, h>> \in Owners \X Hosts
          BY Zenon DEF OfTopology, Owners
        <4>2. Counted(cache) \cap OfTopology(t) \subseteq ofOwner(<<t, h>>)
          BY <1>3, Zenon DEF OwnersKnown, OfTopology
        <4>. HIDE DEF ofOwner
        <4>3. \A k \in Owners \X Hosts : pass'.topology[k] = OnHost(ofOwner(k), cache, k[2])
          BY <2>0
        <4>4. <<t, h>>[2] = h
          BY Zenon
        <4>. QED
          BY <2>1, <4>1, <4>2, <4>3, <4>4, BootingWithin, Zenon DEF SlotsInv, Known
      <3>. QED
        BY <3>1, <3>2, Zenon
    <2>6. LimitInUse'
      BY <1>0, <2>0, Zenon DEF SlotsInv, LimitInUse
    <2>. QED
      BY <2>2, <2>3, <2>4, <2>5, <2>6, Zenon DEF SlotsInv, Known
  <1>. QED
    BY <1>1, <1>2, <1>3, Zenon DEF BeginPass

\* A grant makes at most the granted Pod boot, on the host the pass saw it on.
LEMMA GrantBoots ==
    ASSUME TypeOK, NEW p \in PodIDs, pods' = [pods EXCEPT ![p].granted = TRUE],
           NEW ps \in SUBSET PodIDs, NEW h \in Hosts
    PROVE  /\ Cardinality(Booting(ps, h)') <= Cardinality(Booting(ps, h)) + 1
           /\ p \notin ps \/ pods[p].host # h => Cardinality(Booting(ps, h)') <= Cardinality(Booting(ps, h))
  <1>1. /\ pods \in [PodIDs -> Pod] /\ \A q \in PodIDs \ {p} : pods'[q] = pods[q]
        /\ pods'[p].host = pods[p].host
    BY DEF TypeOK, Pod
  <1>2. Booting(ps, h)' \subseteq Booting(ps, h) \cup {p}
    BY <1>1, Zenon DEF Booting
  <1>3. p \notin ps \/ pods[p].host # h => Booting(ps, h)' \subseteq Booting(ps, h)
    BY <1>1, Zenon DEF Booting
  <1>4. /\ IsFiniteSet(Booting(ps, h) \cup {p})
        /\ Cardinality(Booting(ps, h) \cup {p}) <= Cardinality(Booting(ps, h)) + 1
    <2>1. IsFiniteSet(Booting(ps, h)) /\ Cardinality(Booting(ps, h)) \in Nat
      BY BootingFinite, Zenon
    <2>2. /\ IsFiniteSet(Booting(ps, h) \cup {p})
          /\ Cardinality(Booting(ps, h) \cup {p}) =
                IF p \in Booting(ps, h) THEN Cardinality(Booting(ps, h)) ELSE Cardinality(Booting(ps, h)) + 1
      BY <2>1, FS_AddElement, Zenon
    <2>. QED
      BY <2>1, <2>2
  <1>5. Cardinality(Booting(ps, h)') <= Cardinality(Booting(ps, h) \cup {p})
    BY <1>2, <1>4, FS_Subset, Zenon
  <1>6. Cardinality(Booting(ps, h) \cup {p}) \in Nat
    BY <1>4, FS_CardinalityType, Zenon
  <1>. QED
    BY <1>3, <1>4, <1>5, <1>6, BootingFinite, FS_Subset

\* The pass grants p, whose slot it has counted.
LEMMA GrantedKeeps ==
    ASSUME SlotsInv, pass.active, NEW p \in pass.pending, HasSlot(p), pods[p] = pass.seen[p],
           pods' = [pods EXCEPT ![p].granted = TRUE], reserved' = reserved \cup {p},
           pass' = [Take(p) EXCEPT !.pending = @ \ {p}],
           UNCHANGED <<queued, world, lost, cache, nodes, topos, config>>
    PROVE  SlotsInv'
  <1> DEFINE H == pass.seen[p].host
             T == Owner[p]
  <1>1. /\ p \in PodIDs /\ pods[p].exists /\ pods[p].host = H /\ H \in Hosts
        /\ T \in Owners /\ <<T, H>> \in Owners \X Hosts
    <2>1. p \in PodIDs /\ pass.seen[p].exists /\ H # NoHost
      BY Zenon DEF SlotsInv, Known, PendingScheduled, Scheduled
    <2>2. pods[p] \in Pod
      BY <2>1, Zenon DEF SlotsInv, TypeOK
    <2>3. H \in Hosts
      BY <2>1, <2>2, Zenon DEF Pod
    <2>4. T \in Owners
      BY <2>1, OwnersAssumption, Zenon
    <2>. QED
      BY <2>1, <2>3, <2>4, Zenon
  <1>2. /\ pods \in [PodIDs -> Pod] /\ pods' \in [PodIDs -> Pod]
        /\ \A q \in PodIDs \ {p} : pods'[q] = pods[q]
        /\ pods'[p] = [pods[p] EXCEPT !.granted = TRUE]
    <2>1. pods \in [PodIDs -> Pod]
      BY Zenon DEF SlotsInv, TypeOK
    <2>2. [pods[p] EXCEPT !.granted = TRUE] \in Pod
      BY <1>1, <2>1, Zenon DEF Pod
    <2>. QED
      BY <1>1, <2>1, <2>2, Zenon
  <1>3. /\ pass.host \in [Hosts -> Nat] /\ pass.topology \in [Owners \X Hosts -> Nat]
        /\ pass'.active /\ pass'.seen = pass.seen /\ pass'.limit = pass.limit
        /\ pass'.pending = pass.pending \ {p}
        /\ pass'.host = [pass.host EXCEPT ![H] = @ + 1]
        /\ pass'.topology = [pass.topology EXCEPT ![<<T, H>>] = @ + 1]
    BY Zenon DEF SlotsInv, TypeOK, Pass, Take
  <1>4. TypeOK'
    <2>1. pass \in Pass
      BY Zenon DEF SlotsInv, TypeOK
    <2>2. /\ [pass.host EXCEPT ![H] = @ + 1] \in [Hosts -> Nat]
          /\ [pass.topology EXCEPT ![<<T, H>>] = @ + 1] \in [Owners \X Hosts -> Nat]
      <3>. HIDE DEF H, T
      <3>1. pass.topology[<<T, H>>] \in Nat /\ pass.host[H] \in Nat
        BY <1>1, <1>3, Zenon
      <3>. QED
        BY <1>1, <1>3, <3>1
    <2>3. pass' = [pass EXCEPT !.host = [pass.host EXCEPT ![H] = @ + 1],
                               !.topology = [pass.topology EXCEPT ![<<T, H>>] = @ + 1],
                               !.pending = @ \ {p}]
      BY <2>1, Zenon DEF Take, Pass
    <2>4. pass' \in Pass
      <3> DEFINE nh == [pass.host EXCEPT ![H] = @ + 1]
                 nt == [pass.topology EXCEPT ![<<T, H>>] = @ + 1]
      <3>. HIDE DEF nh, nt
      <3>1. nh \in [Hosts -> Nat] /\ nt \in [Owners \X Hosts -> Nat]
        BY <2>2, Zenon DEF nh, nt
      <3>2. pass' = [pass EXCEPT !.host = nh, !.topology = nt, !.pending = @ \ {p}]
        BY <2>3, Zenon DEF nh, nt
      <3>. QED
        BY <2>1, <3>1, <3>2, Zenon DEF Pass
    <2>. QED
      BY <1>1, <1>2, <2>4, SamePass, Zenon DEF SlotsInv, TypeOK
  <1>5. pods'[p].host = H /\ Later(pods[p], pods'[p]) /\ Sane(pods'[p])
    BY <1>1, <1>2 DEF Pod, Later, Sane, SlotsInv, Known, Lags
  <1>6. Lags'
    BY <1>2, <1>3, <1>5, LaterIsOrder DEF SlotsInv, Known, Lags
  <1>7. PendingScheduled'
    BY <1>3, Zenon DEF SlotsInv, Known, PendingScheduled, Scheduled
  <1>8. Accounted'
    <2>1. cache[p].host = H /\ H # NoHost
      BY <1>1, HostsAssumption, Zenon DEF SlotsInv, Known, Lags, Later
    <2>. QED
      BY <1>2, <1>5, <2>1, HostsAssumption, Zenon DEF SlotsInv, Known, Accounted
  <1>9. LimitInUse'
    BY <1>3, Zenon DEF SlotsInv, LimitInUse
  <1>. HIDE DEF H, T
  <1>10. ASSUME ~lost, NEW h \in Hosts
         PROVE  /\ Cardinality(Booting(PodIDs, h)') <= pass'.host[h]
                /\ config.limit > 0 => Cardinality(Booting(PodIDs, h)') <= config.limit
    <2>1. /\ Cardinality(Booting(PodIDs, h)) <= pass.host[h]
          /\ config.limit > 0 => Cardinality(Booting(PodIDs, h)) <= config.limit /\ pass.limit = config.limit
      BY <1>10, Zenon DEF SlotsInv, PassCounts, SlotsAreLimited, HostLimit, LimitInUse
    <2>2. /\ Cardinality(Booting(PodIDs, h)) \in Nat /\ Cardinality(Booting(PodIDs, h)') \in Nat
          /\ pass.host[h] \in Nat /\ config.limit \in Nat /\ TypeOK
      BY <1>3, BootingFinite DEF SlotsInv, TypeOK, World
    <2>3. CASE h = H
      <3>1. Cardinality(Booting(PodIDs, h)') <= Cardinality(Booting(PodIDs, h)) + 1
        BY <1>1, <2>2, GrantBoots, Zenon
      <3>2. pass'.host[h] = pass.host[h] + 1 /\ (pass.limit > 0 => pass.host[h] < pass.limit)
        BY <1>1, <1>3, <2>3 DEF HasSlot, H
      <3>. QED
        BY <2>1, <2>2, <3>1, <3>2
    <2>4. CASE h # H
      <3>1. Cardinality(Booting(PodIDs, h)') <= Cardinality(Booting(PodIDs, h))
        BY <1>1, <2>2, <2>4, GrantBoots, Zenon
      <3>2. pass'.host[h] = pass.host[h]
        BY <1>3, <2>4
      <3>. QED
        BY <2>1, <2>2, <3>1, <3>2
    <2>. QED
      BY <2>3, <2>4, Zenon
  <1>11. ASSUME ~lost, NEW h \in Hosts, NEW t \in Topologies
         PROVE  /\ Cardinality(Booting(OfTopology(t), h)') <= pass'.topology[<<t, h>>]
                /\ world.limits[t] > 0 => Cardinality(Booting(OfTopology(t), h)') <= world.limits[t]
    <2>0. OfTopology(t) \subseteq PodIDs /\ <<t, h>> \in Owners \X Hosts /\ TypeOK
      BY Zenon DEF OfTopology, Owners, SlotsInv
    <2>1. /\ Cardinality(Booting(OfTopology(t), h)) <= pass.topology[<<t, h>>]
          /\ world.limits[t] > 0 => Cardinality(Booting(OfTopology(t), h)) <= world.limits[t]
      BY <1>11, Zenon DEF SlotsInv, PassCounts, SlotsAreLimited, TopologyLimit, OfTopology
    <2>2. /\ Cardinality(Booting(OfTopology(t), h)) \in Nat /\ Cardinality(Booting(OfTopology(t), h)') \in Nat
          /\ pass.topology[<<t, h>>] \in Nat /\ world.limits[t] \in Nat
      BY <1>3, <2>0, BootingFinite, Zenon DEF TypeOK, World
    <2>3. CASE h = H /\ t = T
      <3>1. Cardinality(Booting(OfTopology(t), h)') <= Cardinality(Booting(OfTopology(t), h)) + 1
        BY <1>1, <2>0, GrantBoots, Zenon
      <3>2. /\ pass'.topology[<<t, h>>] = pass.topology[<<t, h>>] + 1
            /\ world.limits[t] > 0 => pass.topology[<<t, h>>] < world.limits[t]
        BY <1>3, <2>0, <2>2, <2>3, OwnersAssumption DEF HasSlot, H, T
      <3>. QED
        BY <2>1, <2>2, <3>1, <3>2
    <2>4. CASE h # H \/ t # T
      <3>1. p \notin OfTopology(t) \/ pods[p].host # h
        BY <1>1, <2>4, Zenon DEF OfTopology, T
      <3>2. Cardinality(Booting(OfTopology(t), h)') <= Cardinality(Booting(OfTopology(t), h))
        BY <1>1, <2>0, <3>1, GrantBoots, Zenon
      <3>3. pass'.topology[<<t, h>>] = pass.topology[<<t, h>>]
        BY <1>3, <2>0, <2>4
      <3>. QED
        BY <2>1, <2>2, <3>2, <3>3
    <2>. QED
      BY <2>3, <2>4, Zenon
  <1>12. PassCounts'
    BY <1>10, <1>11, Zenon DEF PassCounts, OfTopology
  <1>13. SlotsAreLimited'
    BY <1>10, <1>11, Zenon DEF SlotsAreLimited, HostLimit, TopologyLimit, OfTopology
  <1>. QED
    BY <1>4, <1>6, <1>7, <1>8, <1>9, <1>12, <1>13, Zenon DEF SlotsInv, Known

LEMMA GrantNextKeeps ==
    ASSUME SlotsInv, GrantNext
    PROVE  SlotsInv'
  <1>1. PICK p \in pass.pending : Grant(p)
    BY Zenon DEF GrantNext
  <1>2. pass.active /\ UNCHANGED <<cache, nodes, topos, config>> /\ pass \in Pass /\ queued \in BOOLEAN
    BY Zenon DEF GrantNext, SlotsInv, TypeOK
  <1>3. CASE /\ ~HasSlot(p) /\ pass' = [pass EXCEPT !.pending = @ \ {p}]
             /\ UNCHANGED <<pods, reserved, queued, world, lost>>
    <2>1. /\ pass' \in Pass /\ pass'.active /\ pass'.seen = pass.seen /\ pass'.limit = pass.limit
          /\ pass'.host = pass.host /\ pass'.topology = pass.topology
          /\ pass'.pending \subseteq pass.pending
      BY <1>2, <1>3, Zenon DEF Pass
    <2>2. TypeOK'
      BY <1>2, <1>3, <2>1, SamePass, Zenon DEF SlotsInv, TypeOK
    <2>3. Known'
      BY <1>2, <1>3, <2>1, Zenon DEF SlotsInv, Known, Lags, PendingScheduled, Scheduled, Accounted
    <2>4. PassCounts' /\ SlotsAreLimited'
      BY <1>2, <1>3, <2>1, SamePodsCalm, CalmKeepsCounts, CalmKeepsLimits, Zenon
    <2>5. LimitInUse'
      BY <1>2, <1>3, <2>1, Zenon DEF SlotsInv, LimitInUse
    <2>. QED
      BY <2>2, <2>3, <2>4, <2>5, Zenon DEF SlotsInv
  <1>4. CASE /\ HasSlot(p) /\ pods[p] = pass.seen[p]
             /\ pods' = [pods EXCEPT ![p].granted = TRUE] /\ reserved' = reserved \cup {p}
             /\ pass' = [Take(p) EXCEPT !.pending = @ \ {p}]
             /\ UNCHANGED <<queued, world, lost>>
    BY <1>2, <1>4, GrantedKeeps, Zenon
  <1>5. CASE pass' = NoPass /\ queued' = TRUE /\ UNCHANGED <<pods, reserved, world, lost>>
    BY <1>2, <1>5, QuietPass, Zenon
  <1>6. CASE /\ Fault("ambiguous") /\ pods' = [pods EXCEPT ![p].granted = TRUE]
             /\ pods[p] = pass.seen[p]
             /\ pass' = NoPass /\ queued' = TRUE /\ lost' = TRUE /\ UNCHANGED reserved
    <2>1. /\ p \in PodIDs /\ pods \in [PodIDs -> Pod] /\ world \in World
      BY <1>2, Zenon DEF SlotsInv, TypeOK, Pass
    <2>2. /\ pods' \in [PodIDs -> Pod] /\ \A q \in PodIDs \ {p} : pods'[q] = pods[q]
          /\ Later(pods[p], pods'[p]) /\ Sane(pods'[p])
      BY <1>6, <2>1, ZenonT(40) DEF Pod, Later, Sane, SlotsInv, Known, Lags
    <2>3. TypeOK'
      BY <1>2, <1>6, <2>1, <2>2, SamePass, NoPassType, FaultKeepsSettings, Zenon DEF SlotsInv, TypeOK
    <2>4. Known'
      BY <1>2, <1>6, <2>2, NoPassType, LaterIsOrder, Zenon
         DEF SlotsInv, Known, Lags, PendingScheduled, Accounted
    <2>5. PassCounts' /\ SlotsAreLimited' /\ LimitInUse'
      BY <1>2, <1>6, NoPassType, Zenon
         DEF SlotsInv, PassCounts, SlotsAreLimited, HostLimit, TopologyLimit, LimitInUse
    <2>. QED
      BY <2>3, <2>4, <2>5, Zenon DEF SlotsInv
  <1>. QED
    BY <1>1, <1>3, <1>4, <1>5, <1>6, Zenon DEF Grant

LEMMA EndPassKeeps ==
    ASSUME SlotsInv, EndPass
    PROVE  SlotsInv'
  <1>1. queued' \in BOOLEAN
    BY Zenon DEF EndPass, Requeues, SlotsInv, TypeOK
  <1>. QED
    BY <1>1, QuietPass, Zenon DEF EndPass

-----------------------------------------------------------------------------
LEMMA InitSlots == Init => SlotsInv
  <1> SUFFICES ASSUME Init PROVE SlotsInv
    BY Zenon
  <1>1. /\ pods = [p \in PodIDs |-> NoPod] /\ cache = pods /\ world \in World
        /\ config = [limit |-> world.limit, manager |-> world.limit, event |-> FALSE]
        /\ pass = NoPass /\ ~pass.active
    BY WorldsAssumption, NoPassType, Zenon DEF Init
  <1>2. TypeOK
    <2>1. pods \in [PodIDs -> Pod] /\ cache \in [PodIDs -> Pod]
      BY <1>1, NoPodType, Zenon
    <2>2. config \in [limit : {0, world.limit}, manager : {0, world.limit}, event : BOOLEAN]
      BY <1>1, Zenon
    <2>3. /\ nodes \subseteq PodIDs /\ topos \subseteq Topologies /\ reserved \subseteq PodIDs
          /\ queued \in BOOLEAN /\ lost \in BOOLEAN
      BY Zenon DEF Init
    <2>. QED
      BY <1>1, <2>1, <2>2, <2>3, NoPassType, Zenon DEF TypeOK
  <1>3. Known
    BY <1>1, NoPodType, LaterIsOrder, HostsAssumption, Zenon
       DEF Known, Lags, PendingScheduled, Accounted, NoPod
  <1>4. \A ps \in SUBSET PodIDs, h \in Hosts : Cardinality(Booting(ps, h)) = 0
    <2>1. \A ps \in SUBSET PodIDs, h \in Hosts : Booting(ps, h) = {}
      BY <1>1, Zenon DEF Booting, NoPod
    <2>. QED
      BY <2>1, FS_EmptySet, Zenon
  <1>5. SlotsAreLimited
    <2>1. \A t \in Topologies : {p \in PodIDs : Owner[p] = t} \in SUBSET PodIDs
      BY Zenon
    <2>. QED
      BY <1>1, <1>4, <2>1 DEF SlotsAreLimited, HostLimit, TopologyLimit, World
  <1>6. PassCounts /\ LimitInUse
    BY <1>1, Zenon DEF PassCounts, LimitInUse
  <1>. QED
    BY <1>2, <1>3, <1>5, <1>6, Zenon DEF SlotsInv

\* No host boots more granted Pods than maxConcurrentPerHost allows, nor more of
\* one Topology than its own limit (admitStartupHosts,
\* controllers/node/startuphost.go), unless the answer to a grant was lost: for
\* any number of Pods, hosts and Topologies, any limits, however far the caches
\* lag, whichever Nodes come and go, and through restarts of the manager.
THEOREM StartupSlotsAreLimited == Spec => []SlotsAreLimited
  <1>1. SlotsInv /\ [Next]_vars => SlotsInv'
    BY BeginPassKeeps, GrantNextKeeps, EndPassKeeps, SyncPodsKeeps, WatchesKeep, ClusterKeeps,
       RestartKeeps, Zenon DEF Next
  <1>2. SlotsInv => SlotsAreLimited
    BY Zenon DEF SlotsInv
  <1>. QED
    BY InitSlots, <1>1, <1>2, PTL DEF Spec
=============================================================================
