----------------------- MODULE StartupAdmissionProofs -----------------------
(***************************************************************************)
(* Both batch sizes are kept, for every number of Nodes and groups, every  *)
(* batch size and every number of stops, starts and restarts.              *)
(*                                                                         *)
(* Each half counts slots: the groups that boot, and those that the        *)
(* running pass is about to let go.  A pass decides from old copies, so    *)
(* each half also says why a copy may be trusted.  The Topology's rollout  *)
(* lets groups go in their order: a group that the copy has not seen       *)
(* released is the first the pass would release again, and there the       *)
(* optimistic lock stops it.  The admission remembers what it has admitted *)
(* until the cache shows it.                                               *)
(***************************************************************************)
EXTENDS StartupAdmission, FiniteSetTheorems, TLAPS

-----------------------------------------------------------------------------
(* The rollout of a Topology with Nodes ns and groups gs *)

\* The groups that the Nodes nd show as released
Out(gs, nd) == {g \in gs : nd[g].exists /\ ~nd[g].hold}

\* What a copy shows as created and released is.
Follows(ns, copy, nd) ==
    \A n \in ns : copy[n].exists => nd[n].exists /\ (~copy[n].hold => ~nd[n].hold)

Unstopped(nd) == \A n \in NodeIDs : ~nd[n].stopped

PodsFollow(copy, pd) == \A g \in Groups : /\ copy[g] = "ready" => pd[g] = "ready"
                                          /\ copy[g] # "none" => pd[g] # "none"

\* Groups are released in their order.
InOrder(gs, nd) == \A g, h \in gs : h < g /\ g \in Out(gs, nd) => h \in Out(gs, nd)

\* A pass has read all Nodes before it releases any.  The groups that it
\* finishes are released, and those it releases come before all others.
TopoPassInv(ns, gs, t) ==
    /\ t.todo \subseteq gs
    /\ t.pc \in {"idle", "emit"} => t.todo = {}
    /\ t.pc \in {"finish", "release"} => \A n \in ns : t.read[n].exists
    /\ t.pc = "finish" => t.todo \subseteq Out(gs, t.read)
    /\ t.pc = "release" =>
         \A h \in gs \ t.todo : h \notin Out(gs, t.read) => \A g \in t.todo : g < h

\* Released groups that boot, and those that the pass is about to release
TopoSlots(gs, nd, pd, t) ==
    {g \in Out(gs, nd) : pd[g] # "ready"} \union
    {g \in t.todo : t.pc = "release" /\ g \notin Out(gs, nd)}

Rollout == world.stops = {} /\ TopoBatch > 0

RolloutInv ==
    /\ Unstopped(node) /\ Unstopped(cached) /\ Unstopped(topo.read)
    /\ Follows(Compiled, cached, node) /\ Follows(Compiled, topo.read, node)
    /\ PodsFollow(cachedPod, pod)
    /\ InOrder(TopoGroups, node) /\ TopoPassInv(Compiled, TopoGroups, topo)
    /\ Cardinality(TopoSlots(TopoGroups, node, pod, topo)) <= TopoBatch

-----------------------------------------------------------------------------
(* The admission of the installation *)

\* An admitted primary is there, released and running.
Sane(nd) == \A g \in Groups : nd[g].admitted => nd[g].exists /\ ~nd[g].stopped /\ ~nd[g].hold

\* A copy of a Node is older, or has its run state.
Older(a, b) ==
    a.exists => /\ b.exists /\ a.toggles <= b.toggles
                /\ a.toggles = b.toggles => a.stopped = b.stopped

AllOlder(copy, nd) == \A n \in NodeIDs : Older(copy[n], nd[n])

\* No admission of a primary is taken back.
StillAdmitted(copy, nd) == \A g \in Groups : copy[g].admitted => nd[g].admitted

\* Only admitted groups have Pods, and the cache shows their admission.
PodsAdmitted(pd, copy) == \A g \in Groups : pd[g] # "none" => copy[g].admitted

\* An admission that the cache does not show yet is remembered.
Remembered(nd, copy, loc) ==
    \A g \in Groups : nd[g].admitted =>
        /\ copy[g].exists /\ ~copy[g].stopped
        /\ copy[g].admitted \/ g \in loc

\* The groups whose admission a pass has chosen or begun to write
Deciding(t) == t.todo \union (t.writes \cap Groups)

\* A pass knows all admissions, and before it admits a group it has looked at
\* the Pods of all that are admitted.
GlobPassInv(nd, pd, t) ==
    /\ t.pc = "idle" => t.todo = {} /\ t.writes = {}
    /\ t.pc # "idle" => \A g \in Groups : nd[g].admitted =>
         ~t.read[g].stopped /\ (t.read[g].admitted \/ g \in t.assumed)
    /\ \A n \in t.writes : t.read[n].exists
    /\ \A g \in t.pending : ~t.read[g].hold
    /\ t.pc = "sweep" =>
         /\ \A g \in Groups : nd[g].admitted => g \in t.todo \/ t.blocked \/ pd[g] = "ready"
         /\ \A g \in t.writes \cap Groups : t.read[g].stopped
    /\ t.pc = "admit" => \A g \in Deciding(t) : ~t.read[g].hold

\* Admitted groups that boot, and those that the pass is about to admit
GlobSlots(nd, pd, t) ==
    {g \in Groups : nd[g].admitted /\ pd[g] # "ready"} \union
    {g \in Deciding(t) : t.pc = "admit" /\ ~nd[g].admitted}

Admission == GlobalBatch > 0 /\ ~("started" \in world.stops)

AdmissionInv ==
    /\ Sane(node) /\ Sane(cached) /\ Sane(glob.read)
    /\ AllOlder(cached, node) /\ AllOlder(glob.read, cached)
    /\ StillAdmitted(cached, node) /\ StillAdmitted(glob.read, node)
    /\ PodsFollow(cachedPod, pod) /\ PodsFollow(glob.pods, pod)
    /\ PodsAdmitted(pod, cached) /\ PodsAdmitted(glob.pods, glob.read)
    /\ Remembered(node, cached, local) /\ GlobPassInv(node, pod, glob)
    /\ Cardinality(GlobSlots(node, pod, glob)) <= GlobalBatch

BatchInv == TypeOK /\ (Rollout => RolloutInv) /\ (Admission => AdmissionInv)

-----------------------------------------------------------------------------
(* Types *)

LEMMA NodeIDFacts ==
    /\ NodeIDs \subseteq Nat /\ Groups \subseteq NodeIDs /\ IsFiniteSet(NodeIDs)
    /\ \A n \in NodeIDs : Primary[n] \in Groups
    /\ \A g \in Groups : Primary[g] = g /\ g \in Members(g) /\ Members(g) \subseteq NodeIDs
    /\ \A g \in Groups : \A n \in Members(g) : n \in Groups => n = g
  <1>1. NodeIDs \subseteq Nat /\ IsFiniteSet(NodeIDs)
    BY GroupsAssumption, FS_Interval DEF NodeIDs
  <1>2. Groups \subseteq NodeIDs
    BY Zenon DEF Groups
  <1>3. \A n \in NodeIDs : Primary[n] \in NodeIDs /\ Primary[Primary[n]] = Primary[n]
    BY GroupsAssumption, Zenon
  <1>. QED
    BY <1>1, <1>2, <1>3, Zenon DEF Groups, Members

LEMMA NodeFields ==
    ASSUME NEW x \in Node
    PROVE  /\ x.exists \in BOOLEAN /\ x.hold \in BOOLEAN /\ x.admitted \in BOOLEAN /\ x.stopped \in BOOLEAN
           /\ x.toggles \in Nat /\ x.toggles \in 0..MaxToggles
  <1>1. /\ x.exists \in BOOLEAN /\ x.hold \in BOOLEAN /\ x.admitted \in BOOLEAN /\ x.stopped \in BOOLEAN
    BY Zenon DEF Node
  <1>2. x.toggles \in 0..MaxToggles
    BY Zenon DEF Node
  <1>. QED
    BY <1>1, <1>2, GroupsAssumption

LEMMA Idles ==
    /\ NoNode \in Node /\ IdleTopo \in TopoPass /\ IdleGlob \in GlobPass
    /\ IdleTopo.pc = "idle" /\ IdleTopo.todo = {} /\ IdleTopo.read = [n \in NodeIDs |-> NoNode]
    /\ IdleGlob.pc = "idle" /\ IdleGlob.todo = {} /\ IdleGlob.writes = {} /\ IdleGlob.pending = {}
    /\ IdleGlob.read = [n \in NodeIDs |-> NoNode] /\ IdleGlob.pods = [g \in Groups |-> "none"]
    /\ ~NoNode.exists /\ ~NoNode.hold /\ ~NoNode.admitted /\ ~NoNode.stopped /\ NoNode.toggles = 0
  <1>1. 0 \in 0..MaxToggles
    BY GroupsAssumption
  <1>2. NoNode \in Node
    BY <1>1, Zenon DEF NoNode, Node
  <1>3. IdleTopo \in TopoPass
    BY <1>2, Zenon DEF IdleTopo, TopoPass
  <1>4. IdleGlob \in GlobPass
    BY <1>2, Zenon DEF IdleGlob, GlobPass, Pods
  <1>5. /\ IdleTopo.pc = "idle" /\ IdleTopo.todo = {} /\ IdleTopo.read = [n \in NodeIDs |-> NoNode]
        /\ IdleGlob.pc = "idle" /\ IdleGlob.todo = {} /\ IdleGlob.writes = {} /\ IdleGlob.pending = {}
        /\ IdleGlob.read = [n \in NodeIDs |-> NoNode] /\ IdleGlob.pods = [g \in Groups |-> "none"]
    BY Zenon DEF IdleTopo, IdleGlob
  <1>6. ~NoNode.exists /\ ~NoNode.hold /\ ~NoNode.admitted /\ ~NoNode.stopped /\ NoNode.toggles = 0
    BY Zenon DEF NoNode
  <1>. QED
    BY <1>2, <1>3, <1>4, <1>5, <1>6, Zenon

LEMMA TopoFields ==
    ASSUME NEW t \in TopoPass
    PROVE  /\ t.pc \in {"idle", "emit", "finish", "release"} /\ t.read \in [NodeIDs -> Node]
           /\ t.todo \subseteq Groups
  BY Zenon DEF TopoPass

LEMMA GlobFields ==
    ASSUME NEW t \in GlobPass
    PROVE  /\ t.pc \in {"idle", "sweep", "admit"} /\ t.read \in [NodeIDs -> Node]
           /\ t.pods \in [Groups -> Pods] /\ t.assumed \subseteq NodeIDs /\ t.todo \subseteq Groups
           /\ t.writes \subseteq NodeIDs /\ t.pending \subseteq Groups /\ t.blocked \in BOOLEAN
  BY Zenon DEF GlobPass

LEMMA WorldFields ==
    ASSUME NEW w \in World
    PROVE  /\ w.topoBatch \in Nat /\ w.globalBatch \in Nat /\ w.restarts \in Nat
           /\ w.compiled \subseteq NodeIDs /\ w.nodes \subseteq NodeIDs
  BY Zenon DEF World

\* A Node with one field changed
Releasing(x) == [x EXCEPT !.hold = FALSE]
Admitting(x, b) == [x EXCEPT !.admitted = b]
Toggled(x) == [x EXCEPT !.stopped = ~@, !.toggles = @ + 1]
Created(x) == [x EXCEPT !.exists = TRUE]

LEMMA ReleaseEdit ==
    ASSUME NEW x \in Node
    PROVE  /\ Releasing(x) \in Node /\ ~Releasing(x).hold /\ Releasing(x).exists = x.exists
           /\ Releasing(x).admitted = x.admitted /\ Releasing(x).stopped = x.stopped /\ Releasing(x).toggles = x.toggles
  BY Zenon DEF Releasing, Node

LEMMA CreateEdit ==
    ASSUME NEW x \in Node
    PROVE  /\ Created(x) \in Node /\ Created(x).exists /\ Created(x).hold = x.hold /\ Created(x).admitted = x.admitted
           /\ Created(x).stopped = x.stopped /\ Created(x).toggles = x.toggles
  BY Zenon DEF Created, Node

LEMMA AdmitEdit ==
    ASSUME NEW x \in Node, NEW b \in BOOLEAN
    PROVE  /\ Admitting(x, b) \in Node /\ Admitting(x, b).admitted = b /\ Admitting(x, b).exists = x.exists
           /\ Admitting(x, b).hold = x.hold /\ Admitting(x, b).stopped = x.stopped
           /\ Admitting(x, b).toggles = x.toggles
  BY Zenon DEF Admitting, Node

LEMMA EditsTyped ==
    ASSUME NEW nd \in [NodeIDs -> Node], NEW n \in NodeIDs
    PROVE  /\ [nd EXCEPT ![n] = Releasing(nd[n])] \in [NodeIDs -> Node]
           /\ [nd EXCEPT ![n] = Created(nd[n])] \in [NodeIDs -> Node]
           /\ \A b \in BOOLEAN : [nd EXCEPT ![n] = Admitting(nd[n], b)] \in [NodeIDs -> Node]
  <1>1. TRUE \in BOOLEAN /\ nd[n] \in Node
    BY Zenon
  <1>2. /\ Releasing(nd[n]) \in Node /\ Created(nd[n]) \in Node
        /\ \A b \in BOOLEAN : Admitting(nd[n], b) \in Node
    BY <1>1, ReleaseEdit, AdmitEdit, CreateEdit, Zenon
  <1>. QED
    BY <1>2, Zenon

LEMMA ToggleEdit ==
    ASSUME NEW x \in Node, x.toggles < MaxToggles
    PROVE  /\ Toggled(x) \in Node /\ Toggled(x).stopped = ~x.stopped /\ Toggled(x).toggles = x.toggles + 1
           /\ Toggled(x).exists = x.exists /\ Toggled(x).hold = x.hold /\ Toggled(x).admitted = x.admitted
  <1>1. x.toggles + 1 \in 0..MaxToggles
    BY NodeFields, GroupsAssumption
  <1>. QED
    BY <1>1, Zenon DEF Toggled, Node

LEMMA NewNodeFields ==
    ASSUME world \in World
    PROVE  /\ NewNode \in Node /\ NewNode.exists /\ ~NewNode.admitted /\ ~NewNode.stopped
           /\ NewNode.toggles = 0 /\ (TopoBatch > 0 => NewNode.hold)
  <1>1. NoNode \in Node
    BY Idles, Zenon
  <1>3. (TopoBatch > 0) \in BOOLEAN
    OBVIOUS
  <1>2. /\ NewNode \in Node /\ NewNode.exists /\ NewNode.admitted = NoNode.admitted
        /\ NewNode.stopped = NoNode.stopped /\ NewNode.toggles = NoNode.toggles
        /\ NewNode.hold = (TopoBatch > 0)
    BY <1>1, <1>3, Zenon DEF NewNode, Node
  <1>. QED
    BY <1>2, Idles, Zenon

-----------------------------------------------------------------------------
(* What the steps do *)

LEMMA TopoKeeps ==
    ASSUME TopologyPass
    PROVE  UNCHANGED <<pod, cached, cachedPod, glob, local, world>>
  <1>1. CASE BeginTopology \/ EmitNode \/ Advance
    BY <1>1, Zenon DEF BeginTopology, EmitNode, Advance
  <1>2. CASE Barrier \/ EndTopology \/ \E g \in Groups : ReleaseGroup(g)
    BY <1>2, Zenon DEF Barrier, EndTopology, ReleaseGroup
  <1>. QED
    BY <1>1, <1>2, Zenon DEF TopologyPass

LEMMA BeginForm ==
    ASSUME TypeOK, BeginTopology
    PROVE  /\ UNCHANGED node /\ topo' \in TopoPass
           /\ topo.pc = "idle" /\ topo'.pc = "emit" /\ topo'.read = cached /\ topo'.todo = {}
  <1>1. UNCHANGED node /\ topo.pc = "idle" /\ topo' = [IdleTopo EXCEPT !.pc = "emit", !.read = cached]
    BY Zenon DEF BeginTopology
  <1>2. cached \in [NodeIDs -> Node]
    BY Zenon DEF TypeOK
  <1>. QED
    BY <1>1, <1>2, Idles, Zenon DEF TopoPass

LEMMA EmitForm ==
    ASSUME TypeOK, EmitNode
    PROVE  /\ topo.pc = "emit" /\ topo' \in TopoPass
           /\ \/ UNCHANGED node /\ topo' = IdleTopo
              \/ \E n \in NodeIDs :
                   /\ n \in Compiled /\ ~node[n].exists
                   /\ node' = [node EXCEPT ![n] = NewNode]
                   /\ topo'.pc = "emit" /\ topo'.todo = topo.todo
                   /\ topo'.read = [topo.read EXCEPT ![n] = NewNode]
  <1>1. topo.pc = "emit"
    BY Zenon DEF EmitNode
  <1>2. PICK n \in Missing :
          \/ /\ ~node[n].exists
             /\ node' = [node EXCEPT ![n] = NewNode]
             /\ topo' = [topo EXCEPT !.read[n] = node'[n]]
          \/ topo' = IdleTopo /\ UNCHANGED node
    BY Zenon DEF EmitNode
  <1>3. n \in NodeIDs /\ n \in Compiled
    BY WorldFields, Zenon DEF Missing, Compiled, TypeOK
  <1>4. topo \in TopoPass /\ topo.read \in [NodeIDs -> Node] /\ node \in [NodeIDs -> Node] /\ NewNode \in Node
    BY TopoFields, NewNodeFields, Zenon DEF TypeOK
  <1>5. CASE topo' = IdleTopo /\ UNCHANGED node
    BY <1>1, <1>5, Idles, Zenon
  <1>6. CASE /\ ~node[n].exists
             /\ node' = [node EXCEPT ![n] = NewNode]
             /\ topo' = [topo EXCEPT !.read[n] = node'[n]]
    <2>1. node'[n] = NewNode
      BY <1>3, <1>4, <1>6, Zenon
    <2>2. topo' = [topo EXCEPT !.read = [topo.read EXCEPT ![n] = NewNode]]
      BY <1>6, <2>1, Zenon
    <2>3. [topo.read EXCEPT ![n] = NewNode] \in [NodeIDs -> Node]
      BY <1>3, <1>4, Zenon
    <2>4. /\ topo' \in TopoPass /\ topo'.pc = topo.pc /\ topo'.todo = topo.todo
          /\ topo'.read = [topo.read EXCEPT ![n] = NewNode]
      BY <1>4, <2>2, <2>3, Zenon DEF TopoPass
    <2>. QED
      BY <1>1, <1>3, <1>6, <2>4, Zenon
  <1>. QED
    BY <1>2, <1>5, <1>6, Zenon

LEMMA AdvanceForm ==
    ASSUME TypeOK, Advance
    PROVE  /\ UNCHANGED node /\ topo' \in TopoPass
           /\ \/ topo' = IdleTopo
              \/ /\ Inventory(cached)
                 /\ topo'.pc = "finish" /\ topo'.read = cached /\ topo'.todo = Released(cached)
  <1>1. /\ UNCHANGED node
        /\ \/ topo' = IdleTopo
           \/ Inventory(cached) /\ topo' = [pc |-> "finish", read |-> cached, todo |-> Released(cached)]
    BY Zenon DEF Advance, Finish
  <1>2. cached \in [NodeIDs -> Node] /\ Released(cached) \subseteq Groups
    BY Zenon DEF TypeOK, Released, Running, TopoGroups
  <1>3. CASE topo' = IdleTopo
    BY <1>1, <1>3, Idles, Zenon
  <1>4. CASE Inventory(cached) /\ topo' = [pc |-> "finish", read |-> cached, todo |-> Released(cached)]
    BY <1>1, <1>2, <1>4, Zenon DEF TopoPass
  <1>. QED
    BY <1>1, <1>3, <1>4, Zenon

LEMMA BarrierForm ==
    ASSUME TypeOK, Barrier
    PROVE  /\ UNCHANGED node /\ topo' \in TopoPass /\ topo.pc = "finish" /\ topo.todo = {}
           /\ \/ topo' = IdleTopo
              \/ /\ TopoBatch > 0 => /\ \A g \in Released(topo.read) : cachedPod[g] = "ready"
                                     /\ topo'.todo = First(TopoBatch, Running(topo.read) \ Released(topo.read))
                 /\ topo'.pc = "release" /\ topo'.read = topo.read
  <1>. DEFINE pending == Running(topo.read) \ Released(topo.read)
              todo == IF TopoBatch > 0 THEN First(TopoBatch, pending) ELSE pending
  <1>1. /\ UNCHANGED node /\ topo.pc = "finish" /\ topo.todo = {}
        /\ \/ topo' = IdleTopo
           \/ /\ TopoBatch > 0 => \A g \in Released(topo.read) : cachedPod[g] = "ready"
              /\ topo' = [topo EXCEPT !.pc = "release", !.todo = todo]
    BY Zenon DEF Barrier, SandboxReady
  <1>2. todo \subseteq Groups /\ topo \in TopoPass
    <2>1. pending \subseteq Groups
      BY Zenon DEF Running, TopoGroups
    <2>. QED
      BY <2>1, Zenon DEF First, TypeOK
  <1>3. CASE topo' = IdleTopo
    BY <1>1, <1>3, Idles, Zenon
  <1>4. CASE /\ TopoBatch > 0 => \A g \in Released(topo.read) : cachedPod[g] = "ready"
             /\ topo' = [topo EXCEPT !.pc = "release", !.todo = todo]
    <2>1. topo' \in TopoPass /\ topo'.pc = "release" /\ topo'.read = topo.read /\ topo'.todo = todo
      <3>. HIDE DEF todo
      <3>. QED
        BY <1>2, <1>4, Zenon DEF TopoPass
    <2>. QED
      BY <1>1, <1>4, <2>1, Zenon
  <1>. QED
    BY <1>1, <1>3, <1>4, Zenon

LEMMA ReleaseForm ==
    ASSUME TypeOK, NEW g \in Groups, ReleaseGroup(g)
    PROVE  /\ g \in topo.todo /\ topo' \in TopoPass
           /\ topo.pc = "release" => \A h \in topo.todo : g <= h
           /\ \/ UNCHANGED node /\ topo' = IdleTopo
              \/ /\ UNCHANGED node /\ ~topo.read[g].hold
                 /\ topo'.pc = topo.pc /\ topo'.read = topo.read /\ topo'.todo = topo.todo \ {g}
              \/ \E n \in NodeIDs :
                   /\ n \in Members(g) /\ topo.read[n].hold /\ node[n] = topo.read[n]
                   /\ node' = [node EXCEPT ![n] = Releasing(node[n])]
                   /\ topo'.pc = topo.pc /\ topo'.todo = topo.todo
                   /\ topo'.read = [topo.read EXCEPT ![n] = Releasing(topo.read[n])]
  <1>. DEFINE held == {n \in Members(g) : topo.read[n].hold}
  <1>1. g \in topo.todo /\ (topo.pc = "release" => \A h \in topo.todo : g <= h)
    BY Zenon DEF ReleaseGroup
  <1>2. \/ held = {} /\ topo' = [topo EXCEPT !.todo = @ \ {g}] /\ UNCHANGED node
        \/ \E n \in held : /\ node[n] = topo.read[n]
                           /\ node' = [node EXCEPT ![n].hold = FALSE]
                           /\ topo' = [topo EXCEPT !.read[n].hold = FALSE]
        \/ topo' = IdleTopo /\ UNCHANGED node
    BY Zenon DEF ReleaseGroup
  <1>3. topo \in TopoPass /\ topo.read \in [NodeIDs -> Node] /\ node \in [NodeIDs -> Node] /\ topo.todo \subseteq Groups
    BY TopoFields, Zenon DEF TypeOK
  <1>4. CASE topo' = IdleTopo /\ UNCHANGED node
    BY <1>1, <1>4, Idles, Zenon
  <1>5. CASE held = {} /\ topo' = [topo EXCEPT !.todo = @ \ {g}] /\ UNCHANGED node
    <2>1. ~topo.read[g].hold
      BY <1>5, NodeIDFacts, Zenon
    <2>2. topo' \in TopoPass /\ topo'.pc = topo.pc /\ topo'.read = topo.read /\ topo'.todo = topo.todo \ {g}
      BY <1>3, <1>5, Zenon DEF TopoPass
    <2>. QED
      BY <1>1, <1>5, <2>1, <2>2, Zenon
  <1>6. ASSUME NEW n \in held, node[n] = topo.read[n], node' = [node EXCEPT ![n].hold = FALSE],
               topo' = [topo EXCEPT !.read[n].hold = FALSE]
        PROVE  /\ n \in NodeIDs /\ n \in Members(g) /\ topo.read[n].hold /\ topo' \in TopoPass
               /\ node' = [node EXCEPT ![n] = Releasing(node[n])]
               /\ topo'.pc = topo.pc /\ topo'.todo = topo.todo
               /\ topo'.read = [topo.read EXCEPT ![n] = Releasing(topo.read[n])]
    <2>1. n \in NodeIDs /\ n \in Members(g) /\ topo.read[n].hold
      BY NodeIDFacts, Zenon
    <2>2. node' = [node EXCEPT ![n] = Releasing(node[n])]
      BY <1>6, Zenon DEF Releasing
    <2>3. topo' = [topo EXCEPT !.read = [topo.read EXCEPT ![n] = Releasing(topo.read[n])]]
      BY <1>6, Zenon DEF Releasing
    <2>4. [topo.read EXCEPT ![n] = Releasing(topo.read[n])] \in [NodeIDs -> Node]
      BY <1>3, <2>1, EditsTyped, Zenon
    <2>5. /\ topo' \in TopoPass /\ topo'.pc = topo.pc /\ topo'.todo = topo.todo
          /\ topo'.read = [topo.read EXCEPT ![n] = Releasing(topo.read[n])]
      BY <1>3, <2>3, <2>4, Zenon DEF TopoPass
    <2>. QED
      BY <2>1, <2>2, <2>5, Zenon
  <1>. QED
    BY <1>1, <1>2, <1>4, <1>5, <1>6, Zenon

LEMMA BeginGlobalForm ==
    ASSUME TypeOK, BeginGlobal
    PROVE  /\ UNCHANGED <<node, pod, cached, cachedPod, topo, world>>
           /\ glob.pc = "idle" /\ glob' \in GlobPass /\ local' = Assumed(local)
           /\ glob'.pc = "sweep" /\ glob'.read = cached /\ glob'.pods = cachedPod /\ glob'.assumed = Assumed(local)
           /\ glob'.todo = {g \in Groups : cached[g].exists}
           /\ glob'.writes = {} /\ glob'.pending = {}
  <1>. DEFINE todo == {g \in Groups : cached[g].exists}
  <1>1. /\ UNCHANGED <<node, pod, cached, cachedPod, topo, world>>
        /\ glob.pc = "idle" /\ local' = Assumed(local)
        /\ glob' = [IdleGlob EXCEPT !.pc = "sweep", !.read = cached, !.pods = cachedPod,
                      !.assumed = Assumed(local), !.todo = todo]
    BY Zenon DEF BeginGlobal
  <1>2. /\ cached \in [NodeIDs -> Node] /\ cachedPod \in [Groups -> Pods] /\ Assumed(local) \subseteq NodeIDs
        /\ todo \subseteq Groups
    BY Zenon DEF TypeOK, Assumed
  <1>. HIDE DEF todo
  <1>3. /\ glob' \in GlobPass
        /\ glob'.pc = "sweep" /\ glob'.read = cached /\ glob'.pods = cachedPod /\ glob'.assumed = Assumed(local)
        /\ glob'.todo = todo /\ glob'.writes = {} /\ glob'.pending = {}
    BY <1>1, <1>2, Idles, Zenon DEF GlobPass
  <1>. QED
    BY <1>1, <1>3, Zenon DEF todo

LEMMA SweepForm ==
    ASSUME TypeOK, NEW g \in Groups, SweepGroup(g)
    PROVE  /\ UNCHANGED <<node, pod, cached, cachedPod, topo, local, world>>
           /\ glob.pc = "sweep" /\ glob.writes = {} /\ g \in glob.todo /\ glob' \in GlobPass
           /\ glob'.pc = glob.pc /\ glob'.read = glob.read /\ glob'.pods = glob.pods
           /\ glob'.assumed = glob.assumed /\ glob'.todo = glob.todo \ {g}
           /\ \/ /\ glob.read[g].stopped /\ glob'.writes = Those(g, TRUE)
                 /\ glob'.pending = glob.pending /\ glob'.blocked = glob.blocked
              \/ /\ Admitted(g) \/ glob.pods[g] # "none"
                 /\ glob'.writes = Those(g, FALSE) /\ glob'.pending = glob.pending
                 /\ glob'.blocked <=> (glob.blocked \/ glob.pods[g] # "ready")
              \/ /\ ~Admitted(g) /\ glob'.writes = {} /\ glob'.blocked = glob.blocked
                 /\ glob'.pending = IF glob.read[g].hold THEN glob.pending ELSE glob.pending \union {g}
  <1>1. /\ UNCHANGED <<node, pod, cached, cachedPod, topo, local, world>>
        /\ glob.pc = "sweep" /\ glob.writes = {} /\ g \in glob.todo
    BY Zenon DEF SweepGroup
  <1>2. glob \in GlobPass /\ Those(g, TRUE) \subseteq NodeIDs /\ Those(g, FALSE) \subseteq NodeIDs
    BY NodeIDFacts, Zenon DEF TypeOK, Those
  <1>3. CASE /\ Stopped(g)
             /\ glob' = [glob EXCEPT !.todo = @ \ {g}, !.writes = Those(g, TRUE)]
    <2>1. /\ glob' \in GlobPass
          /\ glob'.pc = glob.pc /\ glob'.read = glob.read /\ glob'.pods = glob.pods
          /\ glob'.assumed = glob.assumed /\ glob'.todo = glob.todo \ {g}
          /\ glob'.writes = Those(g, TRUE)
          /\ glob'.pending = glob.pending /\ glob'.blocked = glob.blocked
      BY <1>2, <1>3, Zenon DEF GlobPass
    <2>. QED
      BY <1>1, <1>3, <2>1, Zenon DEF Stopped
  <1>4. CASE /\ Admitted(g) \/ glob.pods[g] # "none"
             /\ glob' = [glob EXCEPT !.todo = @ \ {g}, !.writes = Those(g, FALSE),
                                     !.blocked = @ \/ glob.pods[g] # "ready"]
    <2>. DEFINE b == (glob.blocked \/ glob.pods[g] # "ready")
    <2>1. b \in BOOLEAN /\ glob' = [glob EXCEPT !.todo = @ \ {g}, !.writes = Those(g, FALSE), !.blocked = b]
      BY <1>4
    <2>. HIDE DEF b
    <2>2. /\ glob' \in GlobPass
          /\ glob'.pc = glob.pc /\ glob'.read = glob.read /\ glob'.pods = glob.pods
          /\ glob'.assumed = glob.assumed /\ glob'.todo = glob.todo \ {g}
          /\ glob'.writes = Those(g, FALSE)
          /\ glob'.pending = glob.pending /\ glob'.blocked = b
      BY <1>2, <2>1, Zenon DEF GlobPass
    <2>. QED
      BY <1>1, <1>4, <2>2, Zenon DEF b
  <1>5. CASE /\ ~Admitted(g)
             /\ glob' = [glob EXCEPT !.todo = @ \ {g},
                                     !.pending = IF glob.read[g].hold THEN @ ELSE @ \union {g}]
    <2>. DEFINE p == IF glob.read[g].hold THEN glob.pending ELSE glob.pending \union {g}
    <2>1. p \subseteq Groups
      BY <1>2, GlobFields, Zenon
    <2>2. glob' = [glob EXCEPT !.todo = @ \ {g}, !.pending = p]
      BY <1>5
    <2>. HIDE DEF p
    <2>3. /\ glob' \in GlobPass
          /\ glob'.pc = glob.pc /\ glob'.read = glob.read /\ glob'.pods = glob.pods
          /\ glob'.assumed = glob.assumed /\ glob'.todo = glob.todo \ {g}
          /\ glob'.writes = glob.writes /\ glob'.pending = p /\ glob'.blocked = glob.blocked
      BY <1>2, <2>1, <2>2, Zenon DEF GlobPass
    <2>. QED
      BY <1>1, <1>5, <2>3, Zenon DEF p
  <1>. QED
    BY <1>3, <1>4, <1>5, Zenon DEF SweepGroup

\* One Patch, of a Node that nobody else has written since it was read
WriteForm(n, admit) ==
    /\ node[n] = glob.read[n] /\ node' = [node EXCEPT ![n] = Admitting(node[n], admit)]
    /\ local' = IF admit THEN local \union {n} ELSE local \ {n}
    /\ glob'.pc = glob.pc /\ glob'.pods = glob.pods /\ glob'.assumed = glob.assumed
    /\ glob'.todo = glob.todo /\ glob'.pending = glob.pending /\ glob'.blocked = glob.blocked
    /\ glob'.read = [glob.read EXCEPT ![n] = Admitting(glob.read[n], admit)]
    /\ glob'.writes = glob.writes \ {n}

LEMMA WriteAdmissionForm ==
    ASSUME TypeOK, NEW n \in NodeIDs, WriteAdmission(n)
    PROVE  /\ UNCHANGED <<pod, cached, cachedPod, topo, world>> /\ glob' \in GlobPass
           /\ n \in glob.writes
           /\ \/ glob' = IdleGlob /\ UNCHANGED <<node, local>>
              \/ glob.read[Primary[n]].stopped /\ WriteForm(n, FALSE)
              \/ ~glob.read[Primary[n]].stopped /\ WriteForm(n, TRUE)
  <1>1. UNCHANGED <<pod, cached, cachedPod, topo, world>> /\ n \in glob.writes
    BY Zenon DEF WriteAdmission
  <1>2. /\ glob \in GlobPass /\ glob.read \in [NodeIDs -> Node] /\ node \in [NodeIDs -> Node]
        /\ glob.writes \subseteq NodeIDs
    BY GlobFields, Zenon DEF TypeOK
  <1>3. CASE glob' = IdleGlob /\ UNCHANGED <<node, local>>
    BY <1>1, <1>3, Idles, Zenon
  <1>4. ASSUME NEW b \in BOOLEAN, node[n] = glob.read[n], node' = [node EXCEPT ![n].admitted = b],
               local' = IF b THEN local \union {n} ELSE local \ {n},
               glob' = [glob EXCEPT !.read[n].admitted = b, !.writes = @ \ {n}]
        PROVE  glob' \in GlobPass /\ WriteForm(n, b)
    <2>1. node' = [node EXCEPT ![n] = Admitting(node[n], b)]
      BY <1>4, Zenon DEF Admitting
    <2>. DEFINE read == [glob.read EXCEPT ![n] = Admitting(glob.read[n], b)]
    <2>2. glob' = [glob EXCEPT !.read = read, !.writes = @ \ {n}]
      BY <1>4, Zenon DEF Admitting
    <2>3. read \in [NodeIDs -> Node]
      BY <1>2, EditsTyped, Zenon
    <2>. HIDE DEF read
    <2>4. /\ glob' \in GlobPass
          /\ glob'.pc = glob.pc /\ glob'.pods = glob.pods /\ glob'.assumed = glob.assumed
          /\ glob'.todo = glob.todo /\ glob'.pending = glob.pending /\ glob'.blocked = glob.blocked
          /\ glob'.read = read /\ glob'.writes = glob.writes \ {n}
      BY <1>2, <2>2, <2>3, Zenon DEF GlobPass
    <2>. QED
      BY <1>4, <2>1, <2>4, Zenon DEF WriteForm, read
  <1>. DEFINE admit == ~Stopped(Primary[n])
  <1>5. \/ glob' = IdleGlob /\ UNCHANGED <<node, local>>
        \/ /\ node[n] = glob.read[n] /\ node' = [node EXCEPT ![n].admitted = admit]
           /\ local' = IF admit THEN local \union {n} ELSE local \ {n}
           /\ glob' = [glob EXCEPT !.read[n].admitted = admit, !.writes = @ \ {n}]
    BY Zenon DEF WriteAdmission
  <1>6. \/ glob.read[Primary[n]].stopped /\ admit = FALSE
        \/ ~glob.read[Primary[n]].stopped /\ admit = TRUE
    BY DEF Stopped
  <1>. HIDE DEF admit
  <1>. QED
    BY <1>1, <1>3, <1>4, <1>5, <1>6, Zenon

LEMMA ChooseForm ==
    ASSUME TypeOK, ChooseBatch \/ EndGlobal
    PROVE  /\ UNCHANGED <<node, pod, cached, cachedPod, topo, local, world>> /\ glob' \in GlobPass
           /\ \/ glob' = IdleGlob
              \/ /\ glob.pc = "sweep" /\ glob.writes = {} /\ glob.todo = {} /\ ~glob.blocked
                 /\ glob'.pc = "admit" /\ glob'.todo = First(GlobalBatch, glob.pending)
                 /\ glob'.read = glob.read /\ glob'.pods = glob.pods /\ glob'.assumed = glob.assumed
                 /\ glob'.writes = glob.writes /\ glob'.pending = glob.pending
  <1>1. glob \in GlobPass /\ First(GlobalBatch, glob.pending) \subseteq Groups
    BY GlobFields, Zenon DEF TypeOK, First
  <1>2. CASE EndGlobal
    BY <1>2, Idles, Zenon DEF EndGlobal
  <1>3. CASE ChooseBatch
    <2>1. /\ UNCHANGED <<node, pod, cached, cachedPod, topo, local, world>>
          /\ glob.pc = "sweep" /\ glob.writes = {} /\ glob.todo = {}
          /\ \/ glob' = IdleGlob
             \/ ~glob.blocked /\ glob' = [glob EXCEPT !.pc = "admit", !.todo = First(GlobalBatch, glob.pending)]
      BY <1>3, Zenon DEF ChooseBatch
    <2>2. CASE glob' = IdleGlob
      BY <2>1, <2>2, Idles, Zenon
    <2>3. CASE ~glob.blocked /\ glob' = [glob EXCEPT !.pc = "admit", !.todo = First(GlobalBatch, glob.pending)]
      <3>1. /\ glob' \in GlobPass
            /\ glob'.pc = "admit" /\ glob'.todo = First(GlobalBatch, glob.pending)
            /\ glob'.read = glob.read /\ glob'.pods = glob.pods /\ glob'.assumed = glob.assumed
            /\ glob'.writes = glob.writes /\ glob'.pending = glob.pending
        BY <1>1, <2>3, Zenon DEF GlobPass
      <3>. QED
        BY <2>1, <2>3, <3>1, Zenon
    <2>. QED
      BY <2>1, <2>2, <2>3, Zenon
  <1>. QED
    BY <1>2, <1>3, Zenon

LEMMA AdmitForm ==
    ASSUME TypeOK, NEW g \in Groups, AdmitGroup(g)
    PROVE  /\ UNCHANGED <<node, pod, cached, cachedPod, topo, local, world>> /\ glob' \in GlobPass
           /\ glob.pc = "admit" /\ glob.writes = {} /\ g \in glob.todo
           /\ glob'.pc = glob.pc /\ glob'.read = glob.read /\ glob'.pods = glob.pods
           /\ glob'.assumed = glob.assumed /\ glob'.pending = glob.pending
           /\ glob'.todo = glob.todo \ {g} /\ glob'.writes = Those(g, FALSE)
  <1>1. /\ UNCHANGED <<node, pod, cached, cachedPod, topo, local, world>>
        /\ glob.pc = "admit" /\ glob.writes = {} /\ g \in glob.todo
        /\ glob' = [glob EXCEPT !.todo = @ \ {g}, !.writes = Those(g, FALSE)]
    BY Zenon DEF AdmitGroup
  <1>2. glob \in GlobPass /\ Those(g, FALSE) \subseteq NodeIDs
    BY NodeIDFacts, Zenon DEF TypeOK, Those
  <1>3. /\ glob' \in GlobPass
        /\ glob'.pc = glob.pc /\ glob'.read = glob.read /\ glob'.pods = glob.pods
        /\ glob'.assumed = glob.assumed /\ glob'.pending = glob.pending
        /\ glob'.todo = glob.todo \ {g} /\ glob'.writes = Those(g, FALSE)
    BY <1>1, <1>2, Zenon DEF GlobPass
  <1>. QED
    BY <1>1, <1>3, Zenon

\* What goes on around the two controllers
LEMMA PodForm ==
    ASSUME NEW g \in Groups, CreatePod(g) \/ RemovePod(g) \/ SandboxComesUp(g)
    PROVE  /\ UNCHANGED <<node, cached, cachedPod, topo, glob, local, world>>
           /\ \/ /\ cached[g].exists /\ ~cached[g].stopped /\ ~Gated(cached[g]) /\ pod[g] = "none"
                 /\ pod' = [pod EXCEPT ![g] = "created"]
              \/ cached[g].stopped /\ pod[g] # "none" /\ pod' = [pod EXCEPT ![g] = "none"]
              \/ pod[g] = "created" /\ pod' = [pod EXCEPT ![g] = "ready"]
  BY Zenon DEF CreatePod, RemovePod, SandboxComesUp

LEMMA UserForm ==
    ASSUME TypeOK, (\E n \in NodeIDs : CreateNode(n)) \/ \E g \in Groups : SetRunState(g)
    PROVE  /\ UNCHANGED <<pod, cached, cachedPod, topo, glob, local, world>>
           /\ \/ \E n \in NodeIDs : /\ n \notin Compiled /\ ~node[n].exists
                                     /\ node' = [node EXCEPT ![n] = Created(node[n])]
              \/ \E g \in Groups :
                   /\ node[g].exists /\ node[g].toggles < MaxToggles
                   /\ node' = [node EXCEPT ![g] = Toggled(node[g])]
                   /\ ~node[g].stopped => (IF Gated(node[g]) THEN "waiting" ELSE "started") \in world.stops
  <1>1. ASSUME NEW n \in NodeIDs, CreateNode(n)
        PROVE  /\ UNCHANGED <<pod, cached, cachedPod, topo, glob, local, world>>
               /\ n \notin Compiled /\ ~node[n].exists
               /\ node' = [node EXCEPT ![n] = Created(node[n])]
    BY <1>1, Zenon DEF CreateNode, Created
  <1>2. ASSUME NEW g \in Groups, SetRunState(g)
        PROVE  /\ UNCHANGED <<pod, cached, cachedPod, topo, glob, local, world>>
               /\ node[g].exists /\ node[g].toggles < MaxToggles
               /\ node' = [node EXCEPT ![g] = Toggled(node[g])]
               /\ ~node[g].stopped => (IF Gated(node[g]) THEN "waiting" ELSE "started") \in world.stops
    <2>1. /\ UNCHANGED <<pod, cached, cachedPod, topo, glob, local, world>>
          /\ node[g].exists /\ node[g].toggles < MaxToggles
          /\ ~node[g].stopped => (IF Gated(node[g]) THEN "waiting" ELSE "started") \in world.stops
          /\ node' = [node EXCEPT ![g].stopped = ~@, ![g].toggles = @ + 1]
      BY <1>2, Zenon DEF SetRunState
    <2>2. node \in [NodeIDs -> Node] /\ g \in NodeIDs /\ node[g] \in Node
      BY NodeIDFacts, Zenon DEF TypeOK
    <2>3. node' = [node EXCEPT ![g] = Toggled(node[g])]
      BY <2>1, <2>2, Zenon DEF Toggled
    <2>. QED
      BY <2>1, <2>3, Zenon
  <1>. QED
    BY <1>1, <1>2, Zenon

LEMMA RestartForm ==
    ASSUME TypeOK, Restart
    PROVE  /\ UNCHANGED <<node, pod>> /\ cached' = node /\ cachedPod' = pod
           /\ topo' = IdleTopo /\ glob' = IdleGlob /\ local' = {}
           /\ world' \in World /\ world'.compiled = world.compiled /\ world'.topoBatch = world.topoBatch
           /\ world'.globalBatch = world.globalBatch /\ world'.stops = world.stops
  <1>1. /\ UNCHANGED <<node, pod>> /\ cached' = node /\ cachedPod' = pod
        /\ topo' = IdleTopo /\ glob' = IdleGlob /\ local' = {}
        /\ world.restarts > 0 /\ world' = [world EXCEPT !.restarts = @ - 1]
    BY Zenon DEF Restart
  <1>2. world \in World /\ world.restarts - 1 \in Nat
    BY <1>1, WorldFields DEF TypeOK
  <1>3. /\ world' \in World /\ world'.compiled = world.compiled /\ world'.topoBatch = world.topoBatch
        /\ world'.globalBatch = world.globalBatch /\ world'.stops = world.stops
    BY <1>1, <1>2, Zenon DEF World
  <1>. QED
    BY <1>1, <1>3, Zenon

LEMMA WorldKeeps ==
    ASSUME TypeOK, [Next]_vars
    PROVE  /\ world' \in World /\ world'.compiled = world.compiled /\ world'.topoBatch = world.topoBatch
           /\ world'.globalBatch = world.globalBatch /\ world'.stops = world.stops
  <1>1. CASE world' = world
    BY <1>1, Zenon DEF TypeOK
  <1>2. CASE TopologyPass
    BY <1>1, <1>2, TopoKeeps, Zenon
  <1>3. CASE GlobalPass
    <2>1. world' = world
      BY <1>3, Zenon DEF GlobalPass, BeginGlobal, ChooseBatch, EndGlobal, SweepGroup, AdmitGroup, WriteAdmission
    <2>. QED
      BY <1>1, <2>1, Zenon
  <1>4. CASE \E g \in Groups : CreatePod(g) \/ RemovePod(g) \/ SandboxComesUp(g)
    BY <1>1, <1>4, PodForm, Zenon
  <1>5. CASE (\E g \in Groups : SetRunState(g)) \/ \E n \in NodeIDs : CreateNode(n)
    BY <1>1, <1>5, UserForm, Zenon
  <1>6. CASE SyncNodes \/ SyncPods \/ UNCHANGED vars
    BY <1>1, <1>6, Zenon DEF SyncNodes, SyncPods, vars
  <1>7. CASE Restart
    BY <1>7, RestartForm, Zenon
  <1>. QED
    BY <1>2, <1>3, <1>4, <1>5, <1>6, <1>7, Zenon DEF Next

LEMMA TopoTyped ==
    ASSUME TypeOK, TopologyPass
    PROVE  TypeOK'
  <1>1. UNCHANGED <<pod, cached, cachedPod, glob, local, world>>
    BY TopoKeeps, Zenon
  <1>2. node \in [NodeIDs -> Node] /\ NewNode \in Node /\ IdleTopo \in TopoPass
    BY NewNodeFields, Idles, Zenon DEF TypeOK
  <1>3. CASE UNCHANGED node /\ topo' \in TopoPass
    BY <1>1, <1>3, Zenon DEF TypeOK
  <1>4. CASE EmitNode
    <2>1. topo' \in TopoPass /\ (UNCHANGED node \/ \E n \in NodeIDs : node' = [node EXCEPT ![n] = NewNode])
      BY <1>4, EmitForm, Zenon
    <2>2. node' \in [NodeIDs -> Node]
      BY <1>2, <2>1, Zenon
    <2>. QED
      BY <1>1, <2>1, <2>2, Zenon DEF TypeOK
  <1>5. ASSUME NEW g \in Groups, ReleaseGroup(g)
        PROVE  TypeOK'
    <2>1. topo' \in TopoPass /\ (UNCHANGED node \/ \E n \in NodeIDs : node' = [node EXCEPT ![n] = Releasing(node[n])])
      BY <1>5, ReleaseForm, Zenon
    <2>2. node' \in [NodeIDs -> Node]
      <3>1. \A n \in NodeIDs : [node EXCEPT ![n] = Releasing(node[n])] \in [NodeIDs -> Node]
        BY <1>2, EditsTyped
      <3>. QED
        BY <1>2, <2>1, <3>1, Zenon
    <2>. QED
      BY <1>1, <2>1, <2>2, Zenon DEF TypeOK
  <1>6. CASE EndTopology
    BY <1>2, <1>3, <1>6, Zenon DEF EndTopology
  <1>. QED
    BY <1>3, <1>4, <1>5, <1>6, BeginForm, AdvanceForm, BarrierForm, Zenon DEF TopologyPass

LEMMA GlobTyped ==
    ASSUME TypeOK, GlobalPass
    PROVE  TypeOK'
  <1>1. node \in [NodeIDs -> Node] /\ local \subseteq NodeIDs
    BY Zenon DEF TypeOK
  <1>2. CASE UNCHANGED <<node, pod, cached, cachedPod, topo, local, world>> /\ glob' \in GlobPass
    BY <1>2, Zenon DEF TypeOK
  <1>3. CASE BeginGlobal
    <2>1. local' \subseteq NodeIDs
      BY <1>1, <1>3, BeginGlobalForm, Zenon DEF Assumed
    <2>. QED
      BY <1>3, <2>1, BeginGlobalForm, Zenon DEF TypeOK
  <1>4. ASSUME NEW n \in NodeIDs, WriteAdmission(n)
        PROVE  TypeOK'
    <2>1. /\ UNCHANGED <<pod, cached, cachedPod, topo, world>> /\ glob' \in GlobPass
          /\ \/ UNCHANGED <<node, local>>
             \/ \E b \in BOOLEAN : WriteForm(n, b)
      BY <1>4, WriteAdmissionForm, Zenon
    <2>2. ASSUME NEW b \in BOOLEAN, WriteForm(n, b)
          PROVE  node' \in [NodeIDs -> Node] /\ local' \subseteq NodeIDs
      BY <1>1, <2>2, EditsTyped, Zenon DEF WriteForm
    <2>3. node' \in [NodeIDs -> Node] /\ local' \subseteq NodeIDs
      BY <1>1, <2>1, <2>2, Zenon
    <2>. QED
      BY <2>1, <2>3, Zenon DEF TypeOK
  <1>. QED
    BY <1>2, <1>3, <1>4, SweepForm, ChooseForm, AdmitForm, Zenon DEF GlobalPass

LEMMA NextTyped ==
    ASSUME TypeOK, [Next]_vars
    PROVE  TypeOK'
  <1>1. node \in [NodeIDs -> Node] /\ pod \in [Groups -> Pods] /\ IdleTopo \in TopoPass /\ IdleGlob \in GlobPass
    BY Idles, Zenon DEF TypeOK
  <1>2. ASSUME NEW g \in Groups, CreatePod(g) \/ RemovePod(g) \/ SandboxComesUp(g)
        PROVE  TypeOK'
    <2>1. pod' \in [Groups -> Pods]
      BY <1>1, <1>2, PodForm, Zenon DEF Pods
    <2>. QED
      BY <1>2, <2>1, PodForm, Zenon DEF TypeOK
  <1>3. CASE (\E g \in Groups : SetRunState(g)) \/ \E n \in NodeIDs : CreateNode(n)
    <2>1. node' \in [NodeIDs -> Node]
      <3>1. \/ \E n \in NodeIDs : node' = [node EXCEPT ![n] = Created(node[n])]
            \/ \E g \in Groups : /\ node[g].toggles < MaxToggles
                                  /\ node' = [node EXCEPT ![g] = Toggled(node[g])]
        BY <1>3, UserForm, Zenon
      <3>2. ASSUME NEW g \in Groups, node[g].toggles < MaxToggles
            PROVE  [node EXCEPT ![g] = Toggled(node[g])] \in [NodeIDs -> Node]
        <4>1. g \in NodeIDs /\ node[g] \in Node
          BY <1>1, NodeIDFacts, Zenon
        <4>2. Toggled(node[g]) \in Node
          BY <3>2, <4>1, ToggleEdit, Zenon
        <4>. QED
          BY <1>1, <4>1, <4>2, Zenon
      <3>3. \A n \in NodeIDs : [node EXCEPT ![n] = Created(node[n])] \in [NodeIDs -> Node]
        BY <1>1, EditsTyped
      <3>. QED
        BY <3>1, <3>2, <3>3, Zenon
    <2>. QED
      BY <1>3, <2>1, UserForm, Zenon DEF TypeOK
  <1>4. CASE SyncNodes \/ SyncPods \/ UNCHANGED vars
    BY <1>4, Zenon DEF SyncNodes, SyncPods, vars, TypeOK
  <1>5. CASE Restart
    BY <1>1, <1>5, RestartForm, Zenon DEF TypeOK
  <1>. QED
    BY <1>2, <1>3, <1>4, <1>5, TopoTyped, GlobTyped, Zenon DEF Next

-----------------------------------------------------------------------------
(* Counting *)

LEMMA FewerSlots ==
    ASSUME NEW S \in SUBSET NodeIDs, NEW T \in SUBSET S, NEW k \in Nat, Cardinality(S) <= k
    PROVE  Cardinality(T) <= k
  <1>1. IsFiniteSet(S)
    BY NodeIDFacts, FS_Subset, Zenon
  <1>2. IsFiniteSet(T) /\ Cardinality(T) <= Cardinality(S)
    BY <1>1, FS_Subset
  <1>3. Cardinality(T) \in Nat /\ Cardinality(S) \in Nat
    BY <1>1, <1>2, FS_CardinalityType
  <1>. QED
    BY <1>2, <1>3

\* A batch is an initial segment of at most k groups.
LEMMA FirstFacts ==
    ASSUME NEW gs \in SUBSET NodeIDs, NEW k \in Nat
    PROVE  /\ First(k, gs) \subseteq gs
           /\ \A x \in gs, y \in First(k, gs) : x < y => x \in First(k, gs)
           /\ Cardinality(First(k, gs)) <= k
  <1>. DEFINE Below(g) == {h \in gs : h < g}
  <1>1. \A g \in gs : g \in Nat
    BY NodeIDFacts, Zenon
  <1>2. \A g \in gs : IsFiniteSet(Below(g)) /\ Cardinality(Below(g)) \in Nat
    <2>. TAKE g \in gs
    <2>1. Below(g) \in SUBSET NodeIDs
      BY Zenon
    <2>. HIDE DEF Below
    <2>2. IsFiniteSet(Below(g))
      BY <2>1, NodeIDFacts, FS_Subset
    <2>. QED
      BY <2>2, FS_CardinalityType
  <1>3. \A x, y \in gs : x < y => Cardinality(Below(x)) < Cardinality(Below(y))
    <2>. SUFFICES ASSUME NEW x \in gs, NEW y \in gs, x < y
                  PROVE  Cardinality(Below(x)) < Cardinality(Below(y))
      OBVIOUS
    <2>1. Below(x) \cup {x} \in SUBSET Below(y) /\ x \notin Below(x)
      BY <1>1
    <2>. HIDE DEF Below
    <2>2. Cardinality(Below(x) \cup {x}) = Cardinality(Below(x)) + 1
      BY <1>2, <2>1, FS_AddElement, Zenon
    <2>3. Cardinality(Below(x) \cup {x}) <= Cardinality(Below(y))
      BY <1>2, <2>1, FS_Subset
    <2>. QED
      BY <1>2, <2>2, <2>3
  <1>4. First(k, gs) = {g \in gs : Cardinality(Below(g)) < k}
    BY DEF First
  <1>. HIDE DEF Below
  <1>5. First(k, gs) \subseteq gs
    BY <1>4, Zenon
  <1>6. \A x \in gs, y \in First(k, gs) : x < y => x \in First(k, gs)
    BY <1>2, <1>3, <1>4
  <1>7. Cardinality(First(k, gs)) <= k
    <2>. DEFINE rank == [g \in First(k, gs) |-> Cardinality(Below(g)) + 1]
    <2>1. \A g \in First(k, gs) : Cardinality(Below(g)) + 1 \in 1..k
      BY <1>2, <1>4, <1>5
    <2>2. rank \in [First(k, gs) -> 1..k]
      BY <2>1
    <2>3. \A x, y \in First(k, gs) : rank[x] = rank[y] => x = y
      <3>. SUFFICES ASSUME NEW x \in First(k, gs), NEW y \in First(k, gs),
                           Cardinality(Below(x)) + 1 = Cardinality(Below(y)) + 1
                    PROVE  x = y
        BY Zenon
      <3>1. x \in gs /\ y \in gs /\ x \in Nat /\ y \in Nat
        BY <1>1, <1>5, Zenon
      <3>2. Cardinality(Below(x)) \in Nat /\ Cardinality(Below(y)) \in Nat
        BY <1>2, <3>1, Zenon
      <3>3. (x < y => Cardinality(Below(x)) < Cardinality(Below(y))) /\ (y < x => Cardinality(Below(y)) < Cardinality(Below(x)))
        BY <1>3, <3>1, Zenon
      <3>. QED
        BY <3>1, <3>2, <3>3
    <2>. HIDE DEF rank
    <2>4. rank \in Injection(First(k, gs), 1..k)
      BY <2>2, <2>3, Zenon DEF Injection, IsInjective
    <2>5. IsFiniteSet(1..k) /\ Cardinality(1..k) = k
      BY FS_Interval
    <2>. QED
      BY <2>4, <2>5, FS_Injection
  <1>. QED
    BY <1>5, <1>6, <1>7, Zenon

-----------------------------------------------------------------------------
(* Steps of the rollout *)

\* Nodes a and b are released alike.
Alike(ns, a, b) == \A n \in ns : (a[n].exists <=> b[n].exists) /\ (a[n].hold <=> b[n].hold)

\* No Pod gets lost.
PodsGrow(a, b) == \A g \in Groups : (a[g] = "ready" => b[g] = "ready") /\ (a[g] # "none" => b[g] # "none")

LEMMA TopoFacts ==
    ASSUME TypeOK
    PROVE  /\ TopoGroups \subseteq Compiled /\ TopoGroups \subseteq Groups /\ TopoGroups \subseteq NodeIDs
           /\ Compiled \subseteq NodeIDs /\ TopoBatch \in Nat
           /\ \A pd : TopoSlots(TopoGroups, node, pd, topo) \subseteq Groups \union topo.todo
           /\ topo.todo \subseteq Groups /\ topo \in TopoPass
  <1>1. TopoGroups \subseteq Compiled /\ TopoGroups \subseteq Groups /\ TopoGroups \subseteq NodeIDs
    BY NodeIDFacts, Zenon DEF TopoGroups
  <1>2. Compiled \subseteq NodeIDs /\ TopoBatch \in Nat
    BY WorldFields, Zenon DEF TypeOK, Compiled, TopoBatch
  <1>3. \A pd : TopoSlots(TopoGroups, node, pd, topo) \subseteq Groups \union topo.todo
    BY <1>1, Zenon DEF TopoSlots, Out
  <1>4. topo.todo \subseteq Groups /\ topo \in TopoPass
    BY TopoFields, Zenon DEF TypeOK
  <1>. QED
    BY <1>1, <1>2, <1>3, <1>4, Zenon

LEMMA SettingsKeep ==
    ASSUME TypeOK, [Next]_vars
    PROVE  /\ Compiled' = Compiled /\ TopoGroups' = TopoGroups /\ TopoBatch' = TopoBatch
           /\ GlobalBatch' = GlobalBatch /\ (Rollout' <=> Rollout) /\ (Admission' <=> Admission)
  <1>1. /\ Compiled' = Compiled /\ TopoBatch' = TopoBatch /\ GlobalBatch' = GlobalBatch
        /\ world'.stops = world.stops
    BY WorldKeeps, Zenon DEF Compiled, TopoBatch, GlobalBatch
  <1>. QED
    BY <1>1, Zenon DEF TopoGroups, Rollout, Admission

LEMMA OutAlike ==
    ASSUME NEW ns, NEW gs \in SUBSET ns, NEW a, NEW b, Alike(ns, a, b)
    PROVE  Out(gs, a) = Out(gs, b)
  BY Zenon DEF Out, Alike

\* A step that releases and creates no Node of the Topology, and whose pass
\* goes on as it was or ends
LEMMA QuietRollout ==
    ASSUME TypeOK, RolloutInv, [Next]_vars,
           Alike(Compiled, node', node), Unstopped(node'), cached' \in {cached, node},
           topo' \in {topo, IdleTopo}, PodsGrow(pod, pod'), cachedPod' \in {cachedPod, pod}
    PROVE  RolloutInv'
  <1>. USE DEF RolloutInv
  <1>1. Compiled' = Compiled /\ TopoGroups' = TopoGroups /\ TopoBatch' = TopoBatch
    BY SettingsKeep, Zenon
  <1>2. Out(TopoGroups, node') = Out(TopoGroups, node)
    <2>1. TopoGroups \in SUBSET Compiled
      BY TopoFacts, Zenon
    <2>. QED
      BY <2>1, OutAlike, Zenon
  <1>3. Unstopped(cached') /\ Unstopped(topo'.read)
    <2>1. Unstopped(IdleTopo.read)
      BY Idles, Zenon DEF Unstopped
    <2>. QED
      BY <2>1, Zenon
  <1>4. Follows(Compiled, cached', node')
    BY Zenon DEF Follows, Alike
  <1>5. Follows(Compiled, topo'.read, node')
    <2>1. Follows(Compiled, IdleTopo.read, node')
      BY Idles, TopoFacts, Zenon DEF Follows
    <2>2. Follows(Compiled, topo.read, node')
      BY Zenon DEF Follows, Alike
    <2>. QED
      BY <2>1, <2>2, Zenon
  <1>6. PodsFollow(cachedPod', pod')
    BY Zenon DEF PodsFollow, PodsGrow
  <1>7. InOrder(TopoGroups, node')
    BY <1>2, Zenon DEF InOrder
  <1>8. TopoPassInv(Compiled, TopoGroups, topo')
    <2>1. TopoPassInv(Compiled, TopoGroups, IdleTopo)
      BY Idles DEF TopoPassInv
    <2>. QED
      BY <2>1, Zenon
  <1>9. TopoSlots(TopoGroups, node', pod', topo') \subseteq TopoSlots(TopoGroups, node, pod, topo)
    <2>1. topo' = topo \/ topo'.todo = {}
      BY Idles, Zenon
    <2>. QED
      BY <1>2, <2>1, TopoFacts, Zenon DEF TopoSlots, PodsGrow, Out
  <1>10. Cardinality(TopoSlots(TopoGroups, node', pod', topo')) <= TopoBatch
    <2>1. TopoSlots(TopoGroups, node, pod, topo) \subseteq NodeIDs
      BY TopoFacts, NodeIDFacts, Zenon
    <2>. QED
      BY <1>9, <2>1, TopoFacts, FewerSlots, Zenon
  <1>. QED
    BY <1>1, <1>3, <1>4, <1>5, <1>6, <1>7, <1>8, <1>10, Zenon

\* What is left to show of a step of the pass: the Nodes it writes and its own
\* state, since it touches neither Pods nor caches
LEMMA PassRollout ==
    ASSUME TypeOK, RolloutInv, TopologyPass,
           Unstopped(node'), Unstopped(topo'.read), Follows(Compiled, cached, node'),
           Follows(Compiled, topo'.read, node'), InOrder(TopoGroups, node'),
           TopoPassInv(Compiled, TopoGroups, topo'),
           Cardinality(TopoSlots(TopoGroups, node', pod, topo')) <= TopoBatch
    PROVE  RolloutInv'
  <1>1. UNCHANGED <<pod, cached, cachedPod, world>>
    BY TopoKeeps, Zenon
  <1>2. Compiled' = Compiled /\ TopoGroups' = TopoGroups /\ TopoBatch' = TopoBatch
    BY <1>1, Zenon DEF Compiled, TopoGroups, TopoBatch
  <1>. QED
    BY <1>1, <1>2, Zenon DEF RolloutInv

\* A pass that has released all it may see has no more than its slots.
LEMMA SlotsBound ==
    ASSUME TypeOK, RolloutInv, NEW nd, NEW t,
           TopoSlots(TopoGroups, nd, pod, t) \subseteq TopoSlots(TopoGroups, node, pod, topo)
    PROVE  Cardinality(TopoSlots(TopoGroups, nd, pod, t)) <= TopoBatch
  <1>1. TopoSlots(TopoGroups, node, pod, topo) \subseteq NodeIDs
    BY TopoFacts, NodeIDFacts, Zenon
  <1>2. Cardinality(TopoSlots(TopoGroups, node, pod, topo)) <= TopoBatch
    BY Zenon DEF RolloutInv
  <1>. QED
    BY <1>1, <1>2, TopoFacts, FewerSlots, Zenon

LEMMA BeginRollout ==
    ASSUME TypeOK, RolloutInv, BeginTopology
    PROVE  RolloutInv'
  <1>1. UNCHANGED node /\ topo'.pc = "emit" /\ topo'.read = cached /\ topo'.todo = {}
    BY BeginForm, Zenon
  <1>2. TopologyPass
    BY Zenon DEF TopologyPass
  <1>3. TopoPassInv(Compiled, TopoGroups, topo')
    BY <1>1 DEF TopoPassInv
  <1>4. TopoSlots(TopoGroups, node', pod, topo') \subseteq TopoSlots(TopoGroups, node, pod, topo)
    BY <1>1, Zenon DEF TopoSlots
  <1>5. Cardinality(TopoSlots(TopoGroups, node', pod, topo')) <= TopoBatch
    BY <1>4, SlotsBound, Zenon
  <1>. QED
    BY <1>1, <1>2, <1>3, <1>5, PassRollout, Zenon DEF RolloutInv

LEMMA EmitRollout ==
    ASSUME TypeOK, RolloutInv, Rollout, EmitNode, topo' # IdleTopo
    PROVE  RolloutInv'
  <1>. USE DEF RolloutInv
  <1>1. PICK n \in NodeIDs :
          /\ n \in Compiled /\ ~node[n].exists
          /\ node' = [node EXCEPT ![n] = NewNode]
          /\ topo'.pc = "emit" /\ topo'.todo = topo.todo
          /\ topo'.read = [topo.read EXCEPT ![n] = NewNode]
    BY EmitForm, Zenon
  <1>2. topo.todo = {} /\ topo.pc = "emit"
    BY EmitForm DEF TopoPassInv
  <1>3. NewNode.exists /\ ~NewNode.stopped /\ NewNode.hold
    BY NewNodeFields, Zenon DEF TypeOK, Rollout
  <1>4. node \in [NodeIDs -> Node] /\ topo.read \in [NodeIDs -> Node] /\ Compiled \subseteq NodeIDs
    BY TopoFields, TopoFacts, Zenon DEF TypeOK
  <1>5. /\ node'[n] = NewNode /\ topo'.read[n] = NewNode
        /\ \A m \in NodeIDs : m # n => node'[m] = node[m] /\ topo'.read[m] = topo.read[m]
    BY <1>1, <1>4, Zenon
  <1>6. Out(TopoGroups, node') = Out(TopoGroups, node)
    BY <1>1, <1>3, <1>5, TopoFacts, Zenon DEF Out
  <1>7. Unstopped(node') /\ Unstopped(topo'.read)
    BY <1>3, <1>5, Zenon DEF Unstopped
  <1>8. Follows(Compiled, cached, node')
    BY <1>1, <1>4, <1>5, Zenon DEF Follows
  <1>9. Follows(Compiled, topo'.read, node')
    BY <1>3, <1>4, <1>5, Zenon DEF Follows
  <1>10. InOrder(TopoGroups, node')
    BY <1>6, Zenon DEF InOrder
  <1>11. TopoPassInv(Compiled, TopoGroups, topo')
    BY <1>1, <1>2 DEF TopoPassInv
  <1>12. TopoSlots(TopoGroups, node', pod, topo') \subseteq TopoSlots(TopoGroups, node, pod, topo)
    BY <1>1, <1>2, <1>6, Zenon DEF TopoSlots
  <1>13. Cardinality(TopoSlots(TopoGroups, node', pod, topo')) <= TopoBatch
    BY <1>12, SlotsBound, Zenon
  <1>14. TopologyPass
    BY Zenon DEF TopologyPass
  <1>. QED
    BY <1>7, <1>8, <1>9, <1>10, <1>11, <1>13, <1>14, PassRollout, Zenon

LEMMA AdvanceRollout ==
    ASSUME TypeOK, RolloutInv, Advance, topo' # IdleTopo
    PROVE  RolloutInv'
  <1>1. /\ UNCHANGED node /\ Inventory(cached)
        /\ topo'.pc = "finish" /\ topo'.read = cached /\ topo'.todo = Released(cached)
    BY AdvanceForm, Zenon
  <1>2. Released(cached) \subseteq Out(TopoGroups, cached) /\ Released(cached) \subseteq TopoGroups
    BY Zenon DEF Released, Running, Out
  <1>3. TopoPassInv(Compiled, TopoGroups, topo')
    BY <1>1, <1>2 DEF TopoPassInv, Inventory
  <1>4. TopoSlots(TopoGroups, node', pod, topo') \subseteq TopoSlots(TopoGroups, node, pod, topo)
    <2>1. topo'.pc # "release"
      BY <1>1
    <2>. QED
      BY <1>1, <2>1, Zenon DEF TopoSlots
  <1>5. Cardinality(TopoSlots(TopoGroups, node', pod, topo')) <= TopoBatch
    BY <1>4, SlotsBound, Zenon
  <1>6. TopologyPass
    BY Zenon DEF TopologyPass
  <1>. QED
    BY <1>1, <1>3, <1>5, <1>6, PassRollout, Zenon DEF RolloutInv

\* The batch after the barrier: a group that the pass has not seen released is
\* within the batch, or the pass releases nothing at all.
LEMMA BarrierRollout ==
    ASSUME TypeOK, RolloutInv, Rollout, Barrier, topo' # IdleTopo
    PROVE  RolloutInv'
  <1>. USE DEF RolloutInv
  <1>. DEFINE seen == Out(TopoGroups, topo.read)
              pending == TopoGroups \ seen
              batch == First(TopoBatch, pending)
              out == Out(TopoGroups, node)
  <1>1. /\ UNCHANGED node /\ topo'.pc = "release" /\ topo'.read = topo.read
        /\ \A g \in Released(topo.read) : cachedPod[g] = "ready"
        /\ topo'.todo = First(TopoBatch, Running(topo.read) \ Released(topo.read))
    BY BarrierForm, Zenon DEF Rollout
  <1>2. \A n \in Compiled : topo.read[n].exists
    <2>1. topo.pc \in {"finish", "release"}
      BY BarrierForm
    <2>. QED
      BY <2>1, Zenon DEF TopoPassInv
  <1>3. Running(topo.read) = TopoGroups /\ Released(topo.read) = seen
    BY <1>2, TopoFacts, Zenon DEF Running, Released, Out, Unstopped
  <1>4. pending \in SUBSET NodeIDs /\ TopoBatch \in Nat /\ \A g \in TopoGroups : g \in Nat
    BY TopoFacts, NodeIDFacts, Zenon
  <1>5. /\ batch \subseteq pending /\ Cardinality(batch) <= TopoBatch
        /\ \A x \in pending, y \in batch : x < y => x \in batch
    <2>. HIDE DEF pending
    <2>. QED
      BY <1>4, FirstFacts, Zenon
  <1>6. topo'.todo = batch
    BY <1>1, <1>3, Zenon
  <1>. HIDE DEF batch
  <1>7. TopoPassInv(Compiled, TopoGroups, topo')
    <2>1. ASSUME NEW h \in TopoGroups \ batch, h \notin seen, NEW g \in batch
          PROVE  g < h
      <3>1. h \in pending /\ g \in TopoGroups
        BY <1>5, <2>1, Zenon
      <3>2. g \in Nat /\ h \in Nat /\ g # h /\ ~(h < g)
        BY <1>4, <1>5, <3>1, Zenon
      <3>. QED
        BY <3>2
    <2>2. batch \subseteq TopoGroups
      BY <1>5, Zenon
    <2>3. topo'.pc = "release" /\ topo'.pc # "finish" /\ ~(topo'.pc \in {"idle", "emit"})
      BY <1>1
    <2>. QED
      BY <1>1, <1>2, <1>6, <2>1, <2>2, <2>3, Zenon DEF TopoPassInv
  <1>8. \A g \in out : pod[g] # "ready" => g \in pending
    BY <1>1, <1>3, TopoFacts, Zenon DEF PodsFollow, Out
  <1>9. Cardinality(TopoSlots(TopoGroups, node', pod, topo')) <= TopoBatch
    <2>1. CASE batch \subseteq out
      <3>1. TopoSlots(TopoGroups, node', pod, topo') \subseteq TopoSlots(TopoGroups, node, pod, topo)
        BY <1>1, <1>6, <2>1, Zenon DEF TopoSlots
      <3>. QED
        BY <3>1, SlotsBound, Zenon
    <2>2. ASSUME NEW x \in batch, x \notin out
          PROVE  Cardinality(TopoSlots(TopoGroups, node', pod, topo')) <= TopoBatch
      <3>1. \A g \in out : pod[g] # "ready" => g \in batch
        <4>. SUFFICES ASSUME NEW g \in out, pod[g] # "ready"
                      PROVE  g \in batch
          BY Zenon
        <4>1. g \in pending /\ x \in TopoGroups /\ g \in TopoGroups
          BY <1>5, <1>8, Zenon
        <4>2. ~(x < g) /\ x # g
          BY <2>2, <4>1, Zenon DEF InOrder
        <4>3. g < x
          BY <1>4, <4>1, <4>2
        <4>. QED
          BY <1>5, <4>1, <4>3, Zenon
      <3>2. TopoSlots(TopoGroups, node', pod, topo') \subseteq batch
        BY <1>1, <1>6, <3>1, Zenon DEF TopoSlots
      <3>3. batch \in SUBSET NodeIDs
        BY <1>4, <1>5, Zenon
      <3>. QED
        BY <1>4, <1>5, <3>2, <3>3, FewerSlots, Zenon
    <2>. QED
      BY <2>1, <2>2, Zenon
  <1>10. TopologyPass
    BY Zenon DEF TopologyPass
  <1>. QED
    BY <1>1, <1>7, <1>9, <1>10, PassRollout, Zenon

LEMMA ReleaseRollout ==
    ASSUME TypeOK, RolloutInv, Rollout, NEW g \in Groups, ReleaseGroup(g), topo' # IdleTopo
    PROVE  RolloutInv'
  <1>. USE DEF RolloutInv
  <1>. DEFINE seen == Out(TopoGroups, topo.read)
              out == Out(TopoGroups, node)
  <1>1. /\ g \in topo.todo /\ g \in TopoGroups /\ g \in Compiled /\ g \in NodeIDs
        /\ topo.pc = "release" => \A h \in topo.todo : g <= h
    BY ReleaseForm, TopoFacts, Zenon DEF TopoPassInv
  <1>2. /\ topo.pc \in {"finish", "release"} /\ topo.todo \subseteq TopoGroups
        /\ \A n \in Compiled : topo.read[n].exists
        /\ topo.pc = "finish" => topo.todo \subseteq seen
        /\ topo.pc = "release" =>
             \A h \in TopoGroups \ topo.todo : h \notin seen => \A x \in topo.todo : x < h
    <2>1. topo.pc \in {"finish", "release"}
      BY <1>1, TopoFacts, TopoFields DEF TopoPassInv
    <2>. QED
      BY <2>1, Zenon DEF TopoPassInv
  <1>3. TopologyPass
    BY Zenon DEF TopologyPass
  <1>4. CASE /\ UNCHANGED node /\ ~topo.read[g].hold
             /\ topo'.pc = topo.pc /\ topo'.read = topo.read /\ topo'.todo = topo.todo \ {g}
    <2>1. g \in seen
      BY <1>1, <1>2, <1>4, Zenon DEF Out
    <2>2. TopoPassInv(Compiled, TopoGroups, topo')
      <3>1. ~(topo'.pc \in {"idle", "emit"})
        BY <1>2, <1>4
      <3>. QED
        BY <1>2, <1>4, <2>1, <3>1, Zenon DEF TopoPassInv
    <2>3. TopoSlots(TopoGroups, node', pod, topo') \subseteq TopoSlots(TopoGroups, node, pod, topo)
      BY <1>4, Zenon DEF TopoSlots
    <2>4. Cardinality(TopoSlots(TopoGroups, node', pod, topo')) <= TopoBatch
      BY <2>3, SlotsBound, Zenon
    <2>. QED
      BY <1>3, <1>4, <2>2, <2>4, PassRollout, Zenon
  <1>5. ASSUME NEW n \in NodeIDs, n \in Members(g), topo.read[n].hold, node[n] = topo.read[n],
               node' = [node EXCEPT ![n] = Releasing(node[n])],
               topo'.pc = topo.pc, topo'.todo = topo.todo,
               topo'.read = [topo.read EXCEPT ![n] = Releasing(topo.read[n])]
        PROVE  RolloutInv'
    <2>1. node \in [NodeIDs -> Node] /\ topo.read \in [NodeIDs -> Node] /\ TRUE \in BOOLEAN
      BY TopoFields, Zenon DEF TypeOK
    <2>2. /\ ~Releasing(node[n]).hold /\ Releasing(node[n]).exists = node[n].exists
          /\ Releasing(node[n]).stopped = node[n].stopped
      BY <2>1, ReleaseEdit, Zenon
    <2>3. /\ node'[n] = Releasing(node[n]) /\ topo'.read[n] = Releasing(node[n])
          /\ \A m \in NodeIDs : m # n => node'[m] = node[m] /\ topo'.read[m] = topo.read[m]
      BY <1>5, <2>1, Zenon
    <2>4. Unstopped(node') /\ Unstopped(topo'.read)
      BY <2>2, <2>3, Zenon DEF Unstopped
    <2>5. Follows(Compiled, cached, node') /\ Follows(Compiled, topo'.read, node')
      BY <2>2, <2>3, TopoFacts, Zenon DEF Follows
    <2>6. seen \subseteq Out(TopoGroups, topo'.read) /\ seen \subseteq out
      BY <1>5, <2>2, <2>3, TopoFacts, Zenon DEF Out, Follows
    <2>7. TopoPassInv(Compiled, TopoGroups, topo')
      <3>1. ~(topo'.pc \in {"idle", "emit"})
        BY <1>2, <1>5
      <3>2. \A m \in Compiled : topo'.read[m].exists
        BY <1>2, <1>5, <2>2, <2>3, TopoFacts, Zenon
      <3>. QED
        BY <1>2, <1>5, <2>6, <3>1, <3>2, Zenon DEF TopoPassInv
    <2>8. CASE n \notin Groups
      <3>1. Out(TopoGroups, node') = out
        BY <2>3, <2>8, TopoFacts, Zenon DEF Out
      <3>2. InOrder(TopoGroups, node')
        BY <3>1, Zenon DEF InOrder
      <3>3. TopoSlots(TopoGroups, node', pod, topo') \subseteq TopoSlots(TopoGroups, node, pod, topo)
        BY <1>5, <3>1, Zenon DEF TopoSlots
      <3>4. Cardinality(TopoSlots(TopoGroups, node', pod, topo')) <= TopoBatch
        BY <3>3, SlotsBound, Zenon
      <3>. QED
        BY <1>3, <2>4, <2>5, <2>7, <3>2, <3>4, PassRollout, Zenon
    <2>9. CASE n \in Groups
      <3>1. n = g
        BY <1>5, <2>9, NodeIDFacts, Zenon
      <3>2. g \notin seen /\ g \notin out
        BY <1>5, <3>1, Zenon DEF Out
      <3>3. topo.pc = "release"
        <4>1. topo.pc # "finish"
          BY <1>1, <1>2, <3>2, Zenon
        <4>. QED
          BY <1>2, <4>1
      <3>4. Out(TopoGroups, node') = out \union {g}
        <4>1. node'[g].exists /\ ~node'[g].hold
          BY <1>1, <1>2, <1>5, <2>2, <2>3, <3>1, ZenonT(40)
        <4>2. \A h \in TopoGroups : h # g => node'[h] = node[h]
          BY <2>3, <3>1, TopoFacts, Zenon
        <4>. QED
          BY <1>1, <4>1, <4>2, Zenon DEF Out
      <3>5. \A h \in TopoGroups : h < g => h \in out
        <4>. SUFFICES ASSUME NEW h \in TopoGroups, h < g
                      PROVE  h \in seen
          BY <2>6, Zenon
        <4>1. g \in Nat /\ h \in Nat
          BY <1>1, TopoFacts, NodeIDFacts, Zenon
        <4>2. ~(g <= h) /\ ~(g < h)
          BY <4>1
        <4>. QED
          BY <1>1, <1>2, <3>3, <4>2, Zenon
      <3>6. InOrder(TopoGroups, node')
        BY <3>4, <3>5, Zenon DEF InOrder
      <3>7. TopoSlots(TopoGroups, node', pod, topo') \subseteq TopoSlots(TopoGroups, node, pod, topo)
        BY <1>1, <1>5, <3>2, <3>3, <3>4, Zenon DEF TopoSlots
      <3>8. Cardinality(TopoSlots(TopoGroups, node', pod, topo')) <= TopoBatch
        BY <3>7, SlotsBound, Zenon
      <3>. QED
        BY <1>3, <2>4, <2>5, <2>7, <3>6, <3>8, PassRollout, Zenon
    <2>. QED
      BY <2>8, <2>9, Zenon
  <1>. QED
    BY <1>4, <1>5, ReleaseForm, Zenon

\* Every step of a behaviour of a Topology with a batchSize whose groups nobody stops
LEMMA RolloutStep ==
    ASSUME TypeOK, Rollout, RolloutInv, [Next]_vars
    PROVE  RolloutInv'
  <1>. DEFINE Quiet == /\ Alike(Compiled, node', node) /\ Unstopped(node') /\ cached' \in {cached, node}
                       /\ topo' \in {topo, IdleTopo} /\ PodsGrow(pod, pod') /\ cachedPod' \in {cachedPod, pod}
  <1>1. Quiet => RolloutInv'
    BY QuietRollout, Zenon
  <1>2. Alike(Compiled, node, node) /\ PodsGrow(pod, pod) /\ Unstopped(node) /\ Unstopped(cached)
    BY Zenon DEF Alike, PodsGrow, RolloutInv
  <1>3. CASE TopologyPass
    <2>1. CASE topo' = IdleTopo /\ UNCHANGED node
      BY <1>1, <1>2, <1>3, <2>1, TopoKeeps, Zenon
    <2>2. topo' = IdleTopo => UNCHANGED node
      <3>1. CASE BeginTopology \/ Advance \/ Barrier \/ EndTopology
        BY <3>1, Zenon DEF BeginTopology, Advance, Barrier, EndTopology
      <3>2. CASE EmitNode
        <4>1. topo'.pc = "emit" => topo' # IdleTopo
          BY Idles
        <4>. QED
          BY <3>2, <4>1, EmitForm, Zenon
      <3>3. ASSUME NEW g \in Groups, ReleaseGroup(g)
            PROVE  topo' = IdleTopo => UNCHANGED node
        <4>1. topo.todo # {} /\ IdleTopo.todo = {}
          BY <3>3, ReleaseForm, Idles, Zenon
        <4>. QED
          BY <3>3, <4>1, ReleaseForm, Zenon
      <3>. QED
        BY <1>3, <3>1, <3>2, <3>3, Zenon DEF TopologyPass
    <2>3. CASE EndTopology
      BY <2>1, <2>3, Zenon DEF EndTopology
    <2>. QED
      BY <1>3, <2>1, <2>2, <2>3, BeginRollout, EmitRollout, AdvanceRollout, BarrierRollout, ReleaseRollout,
         Zenon DEF TopologyPass
  <1>4. CASE GlobalPass
    <2>1. UNCHANGED <<pod, cached, cachedPod, topo>>
      BY <1>4, BeginGlobalForm, ChooseForm, SweepForm, AdmitForm, WriteAdmissionForm, Zenon DEF GlobalPass
    <2>2. UNCHANGED node \/ \E n \in NodeIDs, b \in BOOLEAN : node' = [node EXCEPT ![n] = Admitting(node[n], b)]
      BY <1>4, BeginGlobalForm, ChooseForm, SweepForm, AdmitForm, WriteAdmissionForm, Zenon DEF GlobalPass, WriteForm
    <2>3. ASSUME NEW n \in NodeIDs, NEW b \in BOOLEAN, node' = [node EXCEPT ![n] = Admitting(node[n], b)]
          PROVE  Alike(Compiled, node', node) /\ Unstopped(node')
      <3>1. node \in [NodeIDs -> Node] /\ Compiled \subseteq NodeIDs
        BY TopoFacts, Zenon DEF TypeOK
      <3>2. /\ Admitting(node[n], b).exists = node[n].exists /\ Admitting(node[n], b).hold = node[n].hold
            /\ Admitting(node[n], b).stopped = node[n].stopped
        BY <3>1, AdmitEdit
      <3>3. \A m \in NodeIDs : /\ node'[m].exists = node[m].exists /\ node'[m].hold = node[m].hold
                               /\ node'[m].stopped = node[m].stopped
        <4>1. node'[n] = Admitting(node[n], b) /\ \A m \in NodeIDs : m # n => node'[m] = node[m]
          BY <2>3, <3>1, Zenon
        <4>. QED
          BY <3>2, <4>1, Zenon
      <3>. QED
        BY <1>2, <3>1, <3>3, Zenon DEF Alike, Unstopped
    <2>. QED
      BY <1>1, <1>2, <2>1, <2>2, <2>3, Zenon
  <1>5. ASSUME NEW g \in Groups, CreatePod(g) \/ RemovePod(g) \/ SandboxComesUp(g)
        PROVE  RolloutInv'
    <2>1. ~cached[g].stopped
      BY <1>2, NodeIDFacts, Zenon DEF Unstopped
    <2>2. /\ UNCHANGED <<node, cached, cachedPod, topo>>
          /\ \/ pod[g] = "none" /\ pod' = [pod EXCEPT ![g] = "created"]
             \/ pod[g] = "created" /\ pod' = [pod EXCEPT ![g] = "ready"]
      BY <1>5, <2>1, PodForm, Zenon
    <2>3. PodsGrow(pod, pod')
      BY <2>2 DEF PodsGrow, TypeOK
    <2>. QED
      BY <1>1, <1>2, <2>2, <2>3, Zenon
  <1>6. CASE (\E g \in Groups : SetRunState(g)) \/ \E n \in NodeIDs : CreateNode(n)
    <2>1. /\ UNCHANGED <<pod, cached, cachedPod, topo>>
          /\ \E n \in NodeIDs : n \notin Compiled /\ node' = [node EXCEPT ![n] = Created(node[n])]
      BY <1>2, <1>6, UserForm, NodeIDFacts, Zenon DEF Rollout, Unstopped
    <2>2. PICK n \in NodeIDs : n \notin Compiled /\ node' = [node EXCEPT ![n] = Created(node[n])]
      BY <2>1, Zenon
    <2>3. node \in [NodeIDs -> Node] /\ TRUE \in BOOLEAN /\ Compiled \subseteq NodeIDs
      BY TopoFacts, Zenon DEF TypeOK
    <2>4. Created(node[n]).stopped = node[n].stopped
      BY <2>3, CreateEdit, Zenon
    <2>5. \A m \in NodeIDs : node'[m].stopped = node[m].stopped /\ (m # n => node'[m] = node[m])
      BY <2>2, <2>3, <2>4, Zenon
    <2>6. Alike(Compiled, node', node) /\ Unstopped(node')
      BY <1>2, <2>2, <2>3, <2>5, Zenon DEF Alike, Unstopped
    <2>. QED
      BY <1>1, <1>2, <2>1, <2>6, Zenon
  <1>7. CASE SyncNodes \/ SyncPods \/ UNCHANGED vars
    BY <1>1, <1>2, <1>7, Zenon DEF SyncNodes, SyncPods, vars
  <1>8. CASE Restart
    BY <1>1, <1>2, <1>8, RestartForm, Zenon
  <1>. QED
    BY <1>3, <1>4, <1>5, <1>6, <1>7, <1>8, Zenon DEF Next

-----------------------------------------------------------------------------
(* Steps of the admission *)

LEMMA OlderFacts ==
    /\ \A a \in Node : Older(a, a)
    /\ \A a, b, c \in Node : Older(a, b) /\ Older(b, c) => Older(a, c)
    /\ \A a, b \in Node : a.exists = b.exists /\ a.stopped = b.stopped /\ a.toggles = b.toggles => Older(a, b)
  <1>1. \A a \in Node : a.toggles \in Nat
    BY NodeFields
  <1>. QED
    BY <1>1 DEF Older

LEMMA AllOlderFacts ==
    /\ \A a \in [NodeIDs -> Node] : AllOlder(a, a)
    /\ \A a, b, c \in [NodeIDs -> Node] : AllOlder(a, b) /\ AllOlder(b, c) => AllOlder(a, c)
  <1>1. ASSUME NEW a \in [NodeIDs -> Node]
        PROVE  AllOlder(a, a)
    BY OlderFacts, Zenon DEF AllOlder
  <1>2. ASSUME NEW a \in [NodeIDs -> Node], NEW b \in [NodeIDs -> Node], NEW c \in [NodeIDs -> Node],
               AllOlder(a, b), AllOlder(b, c)
        PROVE  AllOlder(a, c)
    <2>1. ASSUME NEW n \in NodeIDs
          PROVE  Older(a[n], c[n])
      <3>1. a[n] \in Node /\ b[n] \in Node /\ c[n] \in Node /\ Older(a[n], b[n]) /\ Older(b[n], c[n])
        BY <1>2, Zenon DEF AllOlder
      <3>. QED
        BY <3>1, OlderFacts, Zenon
    <2>. QED
      BY <2>1, Zenon DEF AllOlder
  <1>. QED
    BY <1>1, <1>2, Zenon

\* What both halves of an admission step start from
LEMMA AdmissionFacts ==
    ASSUME TypeOK
    PROVE  /\ node \in [NodeIDs -> Node] /\ cached \in [NodeIDs -> Node] /\ glob.read \in [NodeIDs -> Node]
           /\ GlobalBatch \in Nat /\ glob \in GlobPass
           /\ GlobSlots(node, pod, glob) \subseteq NodeIDs
  <1>1. /\ node \in [NodeIDs -> Node] /\ cached \in [NodeIDs -> Node] /\ glob.read \in [NodeIDs -> Node]
        /\ GlobalBatch \in Nat /\ glob \in GlobPass
    BY GlobFields, WorldFields, Zenon DEF TypeOK, GlobalBatch
  <1>. QED
    BY <1>1, GlobFields, NodeIDFacts, Zenon DEF GlobSlots, Deciding

LEMMA AdmissionSlots ==
    ASSUME TypeOK, AdmissionInv, NEW nd, NEW pd, NEW t,
           GlobSlots(nd, pd, t) \subseteq GlobSlots(node, pod, glob)
    PROVE  Cardinality(GlobSlots(nd, pd, t)) <= GlobalBatch
  <1>1. Cardinality(GlobSlots(node, pod, glob)) <= GlobalBatch
    BY Zenon DEF AdmissionInv
  <1>. QED
    BY <1>1, AdmissionFacts, FewerSlots, Zenon

LEMMA IdleAdmission ==
    ASSUME NEW nd, NEW pd, NEW copy
    PROVE  /\ Sane(IdleGlob.read) /\ AllOlder(IdleGlob.read, copy) /\ StillAdmitted(IdleGlob.read, nd)
           /\ PodsFollow(IdleGlob.pods, pd) /\ PodsAdmitted(IdleGlob.pods, IdleGlob.read)
           /\ GlobPassInv(nd, pd, IdleGlob) /\ GlobSlots(nd, pd, IdleGlob) \subseteq GlobSlots(nd, pd, glob)
  <1>1. \A n \in NodeIDs : ~IdleGlob.read[n].exists /\ ~IdleGlob.read[n].admitted
    BY Idles, Zenon
  <1>2. \A g \in Groups : IdleGlob.pods[g] = "none" /\ IdleGlob.pods[g] # "ready"
    BY Idles
  <1>3. Sane(IdleGlob.read) /\ AllOlder(IdleGlob.read, copy) /\ StillAdmitted(IdleGlob.read, nd)
    BY <1>1, NodeIDFacts, Zenon DEF Sane, AllOlder, Older, StillAdmitted
  <1>4. PodsFollow(IdleGlob.pods, pd) /\ PodsAdmitted(IdleGlob.pods, IdleGlob.read)
    BY <1>2, Zenon DEF PodsFollow, PodsAdmitted
  <1>5. IdleGlob.pc = "idle" /\ IdleGlob.pc # "sweep" /\ IdleGlob.pc # "admit"
    BY Idles
  <1>6. GlobPassInv(nd, pd, IdleGlob) /\ GlobSlots(nd, pd, IdleGlob) \subseteq GlobSlots(nd, pd, glob)
    BY <1>5, Idles, Zenon DEF GlobPassInv, GlobSlots
  <1>. QED
    BY <1>3, <1>4, <1>6, Zenon

\* A step that admits no group and takes no admission back
LEMMA MildAdmission ==
    ASSUME TypeOK, TypeOK', AdmissionInv, [Next]_vars, UNCHANGED <<pod, cached, cachedPod, glob, local>>,
           Sane(node'), AllOlder(node, node'),
           \A g \in Groups : node'[g].admitted <=> node[g].admitted
    PROVE  AdmissionInv'
  <1>. USE DEF AdmissionInv
  <1>1. GlobalBatch' = GlobalBatch
    BY SettingsKeep, Zenon
  <1>2. AllOlder(cached, node')
    <2>1. node' \in [NodeIDs -> Node]
      BY Zenon DEF TypeOK
    <2>. QED
      BY <2>1, AdmissionFacts, AllOlderFacts, Zenon
  <1>3. StillAdmitted(cached, node') /\ StillAdmitted(glob.read, node') /\ Remembered(node', cached, local)
    BY Zenon DEF StillAdmitted, Remembered
  <1>4. GlobPassInv(node', pod, glob)
    BY Zenon DEF GlobPassInv
  <1>5. GlobSlots(node', pod, glob) \subseteq GlobSlots(node, pod, glob)
    BY AdmissionFacts, GlobFields, Zenon DEF GlobSlots, Deciding
  <1>6. Cardinality(GlobSlots(node', pod, glob)) <= GlobalBatch
    BY <1>5, AdmissionSlots, Zenon
  <1>. QED
    BY <1>1, <1>2, <1>3, <1>4, <1>6, Zenon

LEMMA TopologyAdmission ==
    ASSUME TypeOK, AdmissionInv, TopologyPass
    PROVE  AdmissionInv'
  <1>1. UNCHANGED <<pod, cached, cachedPod, glob, local>> /\ TypeOK' /\ [Next]_vars
    BY TopoKeeps, TopoTyped, Zenon DEF Next
  <1>2. Sane(node) /\ node \in [NodeIDs -> Node] /\ AllOlder(node, node)
    BY AdmissionFacts, AllOlderFacts, Zenon DEF AdmissionInv
  <1>3. CASE UNCHANGED node
    BY <1>1, <1>2, <1>3, MildAdmission, Zenon
  <1>4. CASE EmitNode
    <2>1. ASSUME NEW n \in NodeIDs, ~node[n].exists, node' = [node EXCEPT ![n] = NewNode]
          PROVE  AdmissionInv'
      <3>1. /\ NewNode \in Node /\ ~NewNode.admitted
            /\ node'[n] = NewNode /\ \A m \in NodeIDs : m # n => node'[m] = node[m]
        BY <1>2, <2>1, NewNodeFields, Zenon DEF TypeOK
      <3>2. Sane(node')
        BY <1>2, <3>1, NodeIDFacts, Zenon DEF Sane
      <3>3. AllOlder(node, node')
        BY <1>2, <2>1, <3>1, Zenon DEF AllOlder, Older
      <3>4. \A g \in Groups : node'[g].admitted <=> node[g].admitted
        BY <1>2, <2>1, <3>1, NodeIDFacts, Zenon DEF Sane
      <3>. QED
        BY <1>1, <3>2, <3>3, <3>4, MildAdmission, Zenon
    <2>. QED
      BY <1>3, <1>4, <2>1, EmitForm, Zenon
  <1>5. ASSUME NEW n \in NodeIDs, node' = [node EXCEPT ![n] = Releasing(node[n])]
        PROVE  AdmissionInv'
    <2>1. TRUE \in BOOLEAN /\ node[n] \in Node
      BY <1>2, Zenon
    <2>2. /\ Releasing(node[n]) \in Node /\ ~Releasing(node[n]).hold
          /\ Releasing(node[n]).exists = node[n].exists /\ Releasing(node[n]).admitted = node[n].admitted
          /\ Releasing(node[n]).stopped = node[n].stopped /\ Releasing(node[n]).toggles = node[n].toggles
      BY <2>1, ReleaseEdit, Zenon
    <2>3. node'[n] = Releasing(node[n]) /\ \A m \in NodeIDs : m # n => node'[m] = node[m]
      BY <1>2, <1>5, Zenon
    <2>4. Sane(node') /\ \A g \in Groups : node'[g].admitted <=> node[g].admitted
      BY <1>2, <2>2, <2>3, NodeIDFacts, ZenonT(40) DEF Sane
    <2>5. AllOlder(node, node')
      <3>1. Older(node[n], Releasing(node[n]))
        BY <2>1, <2>2, OlderFacts, Zenon
      <3>. QED
        BY <1>2, <2>3, <3>1, Zenon DEF AllOlder
    <2>. QED
      BY <1>1, <2>4, <2>5, MildAdmission, Zenon
  <1>6. CASE \E g \in Groups : ReleaseGroup(g)
    BY <1>3, <1>5, <1>6, ReleaseForm, Zenon
  <1>7. CASE BeginTopology \/ Advance \/ Barrier \/ EndTopology
    BY <1>3, <1>7, Zenon DEF BeginTopology, Advance, Barrier, EndTopology
  <1>. QED
    BY <1>4, <1>6, <1>7, Zenon DEF TopologyPass

\* Users create Nodes, and stop and start groups that wait for their turn.
LEMMA UserAdmission ==
    ASSUME TypeOK, Admission, AdmissionInv,
           (\E n \in NodeIDs : CreateNode(n)) \/ \E g \in Groups : SetRunState(g)
    PROVE  AdmissionInv'
  <1>1. UNCHANGED <<pod, cached, cachedPod, glob, local>> /\ TypeOK' /\ [Next]_vars
    BY UserForm, NextTyped, Zenon DEF Next
  <1>2. Sane(node) /\ node \in [NodeIDs -> Node] /\ AllOlder(node, node)
    BY AdmissionFacts, AllOlderFacts, Zenon DEF AdmissionInv
  <1>3. ASSUME NEW n \in NodeIDs, ~node[n].exists, node' = [node EXCEPT ![n] = Created(node[n])]
        PROVE  AdmissionInv'
    <2>1. TRUE \in BOOLEAN /\ node[n] \in Node
      BY <1>2, Zenon
    <2>2. /\ node'[n].admitted = node[n].admitted
          /\ \A m \in NodeIDs : m # n => node'[m] = node[m]
      <3>1. Created(node[n]).admitted = node[n].admitted
        BY <2>1, CreateEdit, Zenon
      <3>. QED
        BY <1>2, <1>3, <3>1, Zenon
    <2>3. Sane(node') /\ \A g \in Groups : node'[g].admitted <=> node[g].admitted
      BY <1>2, <1>3, <2>2, NodeIDFacts, Zenon DEF Sane
    <2>4. AllOlder(node, node')
      BY <1>2, <1>3, <2>2, Zenon DEF AllOlder, Older
    <2>. QED
      BY <1>1, <2>3, <2>4, MildAdmission, Zenon
  <1>4. ASSUME NEW g \in Groups, node[g].exists, node[g].toggles < MaxToggles,
               node' = [node EXCEPT ![g] = Toggled(node[g])],
               ~node[g].stopped => (IF Gated(node[g]) THEN "waiting" ELSE "started") \in world.stops
        PROVE  AdmissionInv'
    <2>1. ~node[g].admitted
      <3>1. node[g].admitted => ~node[g].stopped /\ ~Gated(node[g])
        BY <1>2, Zenon DEF Sane, Gated
      <3>. QED
        BY <1>4, <3>1, Zenon DEF Admission
    <2>2. node[g] \in Node /\ g \in NodeIDs
      BY <1>2, NodeIDFacts, Zenon
    <2>3. /\ Toggled(node[g]).toggles = node[g].toggles + 1
          /\ Toggled(node[g]).exists = node[g].exists /\ Toggled(node[g]).admitted = node[g].admitted
      BY <1>4, <2>2, ToggleEdit, Zenon
    <2>4. node'[g] = Toggled(node[g]) /\ \A m \in NodeIDs : m # g => node'[m] = node[m]
      BY <1>2, <1>4, <2>2, Zenon
    <2>5. Sane(node') /\ \A h \in Groups : node'[h].admitted <=> node[h].admitted
      BY <1>2, <2>1, <2>3, <2>4, NodeIDFacts, Zenon DEF Sane
    <2>6. AllOlder(node, node')
      <3>1. Older(node[g], Toggled(node[g]))
        BY <1>4, <2>2, <2>3, NodeFields DEF Older
      <3>. QED
        BY <1>2, <2>4, <3>1, Zenon DEF AllOlder
    <2>. QED
      BY <1>1, <2>5, <2>6, MildAdmission, Zenon
  <1>. QED
    BY <1>3, <1>4, UserForm, Zenon

\* Only an admitted group gets a Pod, and none loses it.
LEMMA PodAdmission ==
    ASSUME TypeOK, Admission, AdmissionInv,
           NEW x \in Groups, CreatePod(x) \/ RemovePod(x) \/ SandboxComesUp(x)
    PROVE  AdmissionInv'
  <1>. USE DEF AdmissionInv
  <1>1. /\ UNCHANGED <<node, cached, cachedPod, glob, local, world>>
        /\ \/ pod[x] = "none" /\ cached[x].admitted /\ pod' = [pod EXCEPT ![x] = "created"]
           \/ pod[x] = "created" /\ pod' = [pod EXCEPT ![x] = "ready"]
    BY PodForm, Zenon DEF Gated, Sane, PodsAdmitted, Admission
  <1>2. PodsGrow(pod, pod') /\ \A g \in Groups : pod'[g] # "none" => pod[g] # "none" \/ cached[g].admitted
    BY <1>1 DEF PodsGrow, TypeOK
  <1>3. GlobalBatch' = GlobalBatch
    BY <1>1, Zenon DEF GlobalBatch
  <1>4. PodsFollow(cachedPod, pod') /\ PodsFollow(glob.pods, pod') /\ PodsAdmitted(pod', cached)
    BY <1>2, Zenon DEF PodsFollow, PodsGrow, PodsAdmitted
  <1>5. GlobPassInv(node, pod', glob) /\ GlobSlots(node, pod', glob) \subseteq GlobSlots(node, pod, glob)
    BY <1>2, Zenon DEF GlobPassInv, GlobSlots, PodsGrow
  <1>6. Cardinality(GlobSlots(node, pod', glob)) <= GlobalBatch
    BY <1>5, AdmissionSlots, Zenon
  <1>. QED
    BY <1>1, <1>3, <1>4, <1>5, <1>6, Zenon

\* The caches catch up, or the manager starts anew with all it reads up to date.
LEMMA CacheAdmission ==
    ASSUME TypeOK, AdmissionInv, SyncNodes \/ SyncPods \/ Restart \/ UNCHANGED vars
    PROVE  AdmissionInv'
  <1>. USE DEF AdmissionInv
  <1>1. GlobalBatch' = GlobalBatch
    <2>1. [Next]_vars
      BY Zenon DEF Next
    <2>. QED
      BY <2>1, SettingsKeep, Zenon
  <1>2. /\ AllOlder(node, node) /\ StillAdmitted(node, node) /\ PodsFollow(pod, pod)
        /\ AllOlder(glob.read, node)
    BY AdmissionFacts, AllOlderFacts, Zenon DEF StillAdmitted, PodsFollow
  <1>3. PodsAdmitted(pod, node)
    BY Zenon DEF PodsAdmitted, StillAdmitted
  <1>4. \A loc : Remembered(node, node, loc)
    BY Zenon DEF Remembered, Sane
  <1>5. CASE SyncNodes
    <2>1. cached' = node /\ UNCHANGED <<node, pod, cachedPod, glob, local>>
      BY <1>5, Zenon DEF SyncNodes
    <2>. QED
      BY <1>1, <1>2, <1>3, <1>4, <2>1, Zenon
  <1>6. CASE SyncPods
    <2>1. cachedPod' = pod /\ UNCHANGED <<node, pod, cached, glob, local>>
      BY <1>6, Zenon DEF SyncPods
    <2>. QED
      BY <1>1, <1>2, <2>1, Zenon
  <1>7. CASE Restart
    <2>1. UNCHANGED <<node, pod>> /\ cached' = node /\ cachedPod' = pod /\ glob' = IdleGlob
      BY <1>7, RestartForm, Zenon
    <2>2. Remembered(node', cached', local')
      BY <1>4, <2>1, Zenon
    <2>3. Cardinality(GlobSlots(node, pod, IdleGlob)) <= GlobalBatch
      BY IdleAdmission, AdmissionSlots, Zenon
    <2>. QED
      BY <1>1, <1>2, <1>3, <2>1, <2>2, <2>3, IdleAdmission, Zenon
  <1>8. CASE UNCHANGED vars
    BY <1>1, <1>8, Zenon DEF vars
  <1>. QED
    BY <1>5, <1>6, <1>7, <1>8, Zenon

\* What is left to show of a step of the pass that writes no Node
LEMMA PassAdmission ==
    ASSUME TypeOK, AdmissionInv, UNCHANGED <<node, pod, cached, cachedPod, world>>,
           Remembered(node, cached, local'),
           Sane(glob'.read), AllOlder(glob'.read, cached), StillAdmitted(glob'.read, node),
           PodsFollow(glob'.pods, pod), PodsAdmitted(glob'.pods, glob'.read),
           GlobPassInv(node, pod, glob'), Cardinality(GlobSlots(node, pod, glob')) <= GlobalBatch
    PROVE  AdmissionInv'
  <1>1. GlobalBatch' = GlobalBatch
    BY Zenon DEF GlobalBatch
  <1>. QED
    BY <1>1, Zenon DEF AdmissionInv

LEMMA EndAdmission ==
    ASSUME TypeOK, AdmissionInv, UNCHANGED <<node, pod, cached, cachedPod, local, world>>, glob' = IdleGlob
    PROVE  AdmissionInv'
  <1>1. Cardinality(GlobSlots(node, pod, IdleGlob)) <= GlobalBatch
    BY IdleAdmission, AdmissionSlots, Zenon
  <1>. QED
    BY <1>1, IdleAdmission, PassAdmission, Zenon DEF AdmissionInv

\* A pass begins with all admissions: those the cache shows and those remembered.
LEMMA BeginAdmission ==
    ASSUME TypeOK, AdmissionInv, BeginGlobal
    PROVE  AdmissionInv'
  <1>. USE DEF AdmissionInv
  <1>1. /\ UNCHANGED <<node, pod, cached, cachedPod, topo, world>>
        /\ local' = Assumed(local)
        /\ glob'.pc = "sweep" /\ glob'.read = cached /\ glob'.pods = cachedPod /\ glob'.assumed = Assumed(local)
        /\ glob'.todo = {g \in Groups : cached[g].exists}
        /\ glob'.writes = {} /\ glob'.pending = {}
    BY BeginGlobalForm, Zenon
  <1>2. Remembered(node, cached, Assumed(local))
    BY Zenon DEF Remembered, Assumed
  <1>3. AllOlder(cached, cached) /\ PodsAdmitted(cachedPod, cached)
    BY AdmissionFacts, AllOlderFacts, Zenon DEF PodsAdmitted, PodsFollow
  <1>4. glob'.pc # "idle" /\ glob'.pc # "admit"
    BY <1>1
  <1>5. GlobPassInv(node, pod, glob')
    BY <1>1, <1>2, <1>4, Zenon DEF GlobPassInv, Remembered
  <1>6. GlobSlots(node, pod, glob') \subseteq GlobSlots(node, pod, glob)
    BY <1>4, Zenon DEF GlobSlots
  <1>7. Cardinality(GlobSlots(node, pod, glob')) <= GlobalBatch
    BY <1>6, AdmissionSlots, Zenon
  <1>. QED
    BY <1>1, <1>2, <1>3, <1>5, <1>7, PassAdmission, Zenon

\* The Nodes of a group that are to be written
LEMMA ThoseFacts ==
    ASSUME TypeOK, NEW g \in Groups, NEW b \in BOOLEAN
    PROVE  /\ \A n \in Those(g, b) : glob.read[n].exists
           /\ \A h \in Those(g, b) \cap Groups : h = g /\ (Admitted(g) <=> b)
  BY NodeIDFacts, Zenon DEF Those

LEMMA SweepAdmission ==
    ASSUME TypeOK, AdmissionInv, NEW g \in Groups, SweepGroup(g)
    PROVE  AdmissionInv'
  <1>. USE DEF AdmissionInv
  <1>1. /\ UNCHANGED <<node, pod, cached, cachedPod, topo, local, world>>
        /\ glob.pc = "sweep" /\ glob'.pc = glob.pc /\ glob'.read = glob.read /\ glob'.pods = glob.pods
        /\ glob'.assumed = glob.assumed /\ glob'.todo = glob.todo \ {g}
    BY SweepForm, Zenon
  <1>2. /\ \A h \in Groups : node[h].admitted =>
             /\ ~glob.read[h].stopped /\ Admitted(h)
             /\ h \in glob.todo \/ glob.blocked \/ pod[h] = "ready"
        /\ \A h \in glob.pending : ~glob.read[h].hold
        /\ glob.pods[g] # "none" => Admitted(g)
        /\ glob.pods[g] = "ready" => pod[g] = "ready"
        /\ glob.pc # "idle" /\ glob.pc # "admit"
    BY <1>1 DEF GlobPassInv, Admitted, PodsAdmitted, PodsFollow
  <1>3. /\ \A n \in glob'.writes : glob.read[n].exists
        /\ \A h \in glob'.writes \cap Groups : glob.read[h].stopped
        /\ \A h \in glob'.pending : ~glob.read[h].hold
        /\ node[g].admitted => glob'.blocked \/ pod[g] = "ready"
        /\ glob.blocked => glob'.blocked
    <2>1. TRUE \in BOOLEAN /\ FALSE \in BOOLEAN
      BY Zenon
    <2>2. /\ \A n \in Those(g, TRUE) \union Those(g, FALSE) : glob.read[n].exists
          /\ \A h \in Those(g, TRUE) \cap Groups : h = g
          /\ \A h \in Those(g, FALSE) \cap Groups : h = g /\ ~Admitted(g)
      BY <2>1, ThoseFacts, Zenon
    <2>3. CASE /\ glob.read[g].stopped /\ glob'.writes = Those(g, TRUE)
               /\ glob'.pending = glob.pending /\ glob'.blocked = glob.blocked
      BY <1>2, <2>2, <2>3, Zenon
    <2>4. CASE /\ Admitted(g) \/ glob.pods[g] # "none"
               /\ glob'.writes = Those(g, FALSE) /\ glob'.pending = glob.pending
               /\ glob'.blocked <=> (glob.blocked \/ glob.pods[g] # "ready")
      BY <1>2, <2>2, <2>4, Zenon
    <2>5. CASE /\ ~Admitted(g) /\ glob'.writes = {} /\ glob'.blocked = glob.blocked
               /\ glob'.pending = IF glob.read[g].hold THEN glob.pending ELSE glob.pending \union {g}
      BY <1>2, <2>5, Zenon
    <2>. QED
      BY <2>3, <2>4, <2>5, SweepForm, Zenon
  <1>4. GlobPassInv(node, pod, glob')
    BY <1>1, <1>2, <1>3, Zenon DEF GlobPassInv, Admitted
  <1>5. GlobSlots(node, pod, glob') \subseteq GlobSlots(node, pod, glob)
    BY <1>1, <1>2, Zenon DEF GlobSlots
  <1>6. Cardinality(GlobSlots(node, pod, glob')) <= GlobalBatch
    BY <1>5, AdmissionSlots, Zenon
  <1>. QED
    BY <1>1, <1>4, <1>6, PassAdmission, Zenon

\* A batch is chosen only when no admitted group boots.
LEMMA ChooseAdmission ==
    ASSUME TypeOK, AdmissionInv, ChooseBatch \/ EndGlobal
    PROVE  AdmissionInv'
  <1>. USE DEF AdmissionInv
  <1>1. CASE glob' = IdleGlob
    BY <1>1, ChooseForm, EndAdmission, Zenon
  <1>2. CASE /\ glob.pc = "sweep" /\ glob.writes = {} /\ glob.todo = {} /\ ~glob.blocked
             /\ glob'.pc = "admit" /\ glob'.todo = First(GlobalBatch, glob.pending)
             /\ glob'.read = glob.read /\ glob'.pods = glob.pods /\ glob'.assumed = glob.assumed
             /\ glob'.writes = glob.writes /\ glob'.pending = glob.pending
    <2>. DEFINE batch == First(GlobalBatch, glob.pending)
    <2>1. glob.pending \in SUBSET NodeIDs /\ GlobalBatch \in Nat
      BY AdmissionFacts, GlobFields, NodeIDFacts, Zenon
    <2>2. batch \subseteq glob.pending /\ Cardinality(batch) <= GlobalBatch
      BY <2>1, FirstFacts, Zenon
    <2>. HIDE DEF batch
    <2>3. /\ glob.pc # "idle" /\ glob'.pc # "idle" /\ glob'.pc # "sweep"
          /\ glob'.todo = batch /\ Deciding(glob') = batch
      BY <1>2 DEF batch, Deciding
    <2>4. \A g \in Groups : node[g].admitted => pod[g] = "ready"
      BY <1>2, Zenon DEF GlobPassInv
    <2>5. GlobPassInv(node, pod, glob')
      BY <1>2, <2>2, <2>3, Zenon DEF GlobPassInv
    <2>6. GlobSlots(node, pod, glob') \subseteq batch
      BY <2>3, <2>4, Zenon DEF GlobSlots
    <2>7. batch \in SUBSET NodeIDs
      BY <2>1, <2>2, Zenon
    <2>8. Cardinality(GlobSlots(node, pod, glob')) <= GlobalBatch
      BY <2>1, <2>2, <2>6, <2>7, FewerSlots, Zenon
    <2>. QED
      BY <1>2, <2>5, <2>8, ChooseForm, PassAdmission, Zenon
  <1>. QED
    BY <1>1, <1>2, ChooseForm, Zenon

LEMMA AdmitAdmission ==
    ASSUME TypeOK, AdmissionInv, NEW g \in Groups, AdmitGroup(g)
    PROVE  AdmissionInv'
  <1>. USE DEF AdmissionInv
  <1>1. /\ UNCHANGED <<node, pod, cached, cachedPod, topo, local, world>>
        /\ glob.pc = "admit" /\ g \in glob.todo
        /\ glob'.pc = glob.pc /\ glob'.read = glob.read /\ glob'.pods = glob.pods
        /\ glob'.assumed = glob.assumed /\ glob'.pending = glob.pending
        /\ glob'.todo = glob.todo \ {g} /\ glob'.writes = Those(g, FALSE)
    BY AdmitForm, Zenon
  <1>2. glob.pc # "idle" /\ glob.pc # "sweep" /\ FALSE \in BOOLEAN
    BY <1>1
  <1>3. (\A n \in Those(g, FALSE) : glob.read[n].exists) /\ \A h \in Those(g, FALSE) \cap Groups : h = g
    BY <1>2, ThoseFacts, Zenon
  <1>4. Deciding(glob') \subseteq Deciding(glob)
    BY <1>1, <1>3, Zenon DEF Deciding
  <1>5. GlobPassInv(node, pod, glob')
    BY <1>1, <1>2, <1>3, <1>4, Zenon DEF GlobPassInv
  <1>6. GlobSlots(node, pod, glob') \subseteq GlobSlots(node, pod, glob)
    BY <1>1, <1>4, Zenon DEF GlobSlots
  <1>7. Cardinality(GlobSlots(node, pod, glob')) <= GlobalBatch
    BY <1>6, AdmissionSlots, Zenon
  <1>. QED
    BY <1>1, <1>5, <1>7, PassAdmission, Zenon

\* A Patch of a primary admits a group that the pass has decided on.  The Node
\* is as the pass read it, and so is the cached one in between.
LEMMA WriteAdmits ==
    ASSUME TypeOK, AdmissionInv, NEW n \in NodeIDs, NEW b \in BOOLEAN, WriteForm(n, b),
           n \in glob.writes, UNCHANGED <<pod, cached, cachedPod, topo, world>>, TypeOK',
           b = ~glob.read[Primary[n]].stopped
    PROVE  AdmissionInv'
  <1>. USE DEF AdmissionInv
  <1>. DEFINE grant == n \in Groups /\ b
  <1>1. /\ node \in [NodeIDs -> Node] /\ cached \in [NodeIDs -> Node] /\ glob.read \in [NodeIDs -> Node]
        /\ node' \in [NodeIDs -> Node] /\ glob'.read \in [NodeIDs -> Node]
        /\ node[n] \in Node /\ cached[n] \in Node /\ node[n] = glob.read[n]
    BY AdmissionFacts, GlobFields, Zenon DEF TypeOK, WriteForm
  <1>2. /\ Admitting(node[n], b).admitted = b /\ Admitting(node[n], b).exists = node[n].exists
        /\ Admitting(node[n], b).hold = node[n].hold /\ Admitting(node[n], b).stopped = node[n].stopped
        /\ Admitting(node[n], b).toggles = node[n].toggles
    BY <1>1, AdmitEdit, Zenon
  <1>3. /\ node'[n] = Admitting(node[n], b) /\ glob'.read[n] = Admitting(node[n], b)
        /\ \A m \in NodeIDs : m # n => node'[m] = node[m] /\ glob'.read[m] = glob.read[m]
    BY <1>1, ZenonT(40) DEF WriteForm
  <1>4. \A m \in NodeIDs :
          /\ node'[m].exists = node[m].exists /\ node'[m].hold = node[m].hold
          /\ node'[m].stopped = node[m].stopped /\ node'[m].toggles = node[m].toggles
          /\ glob'.read[m].exists = glob.read[m].exists /\ glob'.read[m].hold = glob.read[m].hold
          /\ glob'.read[m].stopped = glob.read[m].stopped /\ glob'.read[m].toggles = glob.read[m].toggles
    BY <1>1, <1>2, <1>3, Zenon
  <1>5. grant => /\ glob.pc = "admit" /\ n \in Deciding(glob)
                 /\ glob.read[n].exists /\ ~glob.read[n].hold /\ ~glob.read[n].stopped
    <2>. SUFFICES ASSUME n \in Groups, b
                  PROVE  /\ glob.pc = "admit" /\ n \in Deciding(glob)
                         /\ glob.read[n].exists /\ ~glob.read[n].hold /\ ~glob.read[n].stopped
      BY Zenon
    <2>1. ~glob.read[n].stopped /\ glob.read[n].exists /\ n \in Deciding(glob)
      BY NodeIDFacts, Zenon DEF GlobPassInv, Deciding
    <2>2. glob.pc # "sweep" /\ glob.pc # "idle"
      BY <2>1, Zenon DEF GlobPassInv
    <2>3. glob.pc = "admit"
      BY <2>2, AdmissionFacts, GlobFields
    <2>. QED
      BY <2>1, <2>3, Zenon DEF GlobPassInv
  <1>6. \A g \in Groups : /\ node'[g].admitted <=> node[g].admitted \/ (grant /\ g = n)
                          /\ glob'.read[g].admitted <=> glob.read[g].admitted \/ (grant /\ g = n)
    <2>1. ASSUME n \in Groups, ~b
          PROVE  ~node[n].admitted /\ ~glob.read[n].admitted
      BY <1>1, <2>1, NodeIDFacts, Zenon DEF Sane
    <2>2. \A g \in Groups : g # n => node'[g].admitted = node[g].admitted /\ glob'.read[g].admitted = glob.read[g].admitted
      BY <1>3, NodeIDFacts, Zenon
    <2>3. node'[n].admitted = b /\ glob'.read[n].admitted = b
      BY <1>2, <1>3, Zenon
    <2>. QED
      BY <2>1, <2>2, <2>3, Zenon
  <1>7. Sane(node') /\ Sane(glob'.read)
    <2>1. \A g \in Groups : /\ node'[g].exists = node[g].exists /\ node'[g].hold = node[g].hold
                            /\ node'[g].stopped = node[g].stopped
                            /\ glob'.read[g].exists = glob.read[g].exists /\ glob'.read[g].hold = glob.read[g].hold
                            /\ glob'.read[g].stopped = glob.read[g].stopped
      BY <1>4, NodeIDFacts, Zenon
    <2>2. grant => node[n].exists /\ ~node[n].hold /\ ~node[n].stopped
      BY <1>1, <1>5, Zenon
    <2>. HIDE DEF grant
    <2>3. ASSUME NEW g \in Groups
          PROVE  /\ node'[g].admitted => node'[g].exists /\ ~node'[g].stopped /\ ~node'[g].hold
                 /\ glob'.read[g].admitted => glob'.read[g].exists /\ ~glob'.read[g].stopped /\ ~glob'.read[g].hold
      <3>1. CASE grant /\ g = n
        BY <1>5, <2>1, <2>2, <3>1, Zenon
      <3>2. CASE ~(grant /\ g = n)
        <4>1. (node'[g].admitted <=> node[g].admitted) /\ (glob'.read[g].admitted <=> glob.read[g].admitted)
          BY <1>6, <3>2, Zenon
        <4>. QED
          BY <2>1, <4>1, Zenon DEF Sane
      <3>. QED
        BY <3>1, <3>2, Zenon
    <2>. QED
      BY <2>3, Zenon DEF Sane
  <1>8. AllOlder(cached, node') /\ AllOlder(glob'.read, cached)
    <2>1. AllOlder(node, node') /\ AllOlder(glob'.read, glob.read)
      <3>1. ASSUME NEW m \in NodeIDs
            PROVE  Older(node[m], node'[m]) /\ Older(glob'.read[m], glob.read[m])
        <4>1. node[m] \in Node /\ node'[m] \in Node /\ glob.read[m] \in Node /\ glob'.read[m] \in Node
          BY <1>1, Zenon
        <4>2. /\ node[m].exists = node'[m].exists /\ node[m].stopped = node'[m].stopped
              /\ node[m].toggles = node'[m].toggles
              /\ glob'.read[m].exists = glob.read[m].exists /\ glob'.read[m].stopped = glob.read[m].stopped
              /\ glob'.read[m].toggles = glob.read[m].toggles
          BY <1>4, Zenon
        <4>3. \A a, c \in Node : a.exists = c.exists /\ a.stopped = c.stopped /\ a.toggles = c.toggles => Older(a, c)
          BY OlderFacts, Zenon
        <4>4. Older(node[m], node'[m])
          BY <4>1, <4>2, <4>3, Zenon
        <4>5. Older(glob'.read[m], glob.read[m])
          BY <4>1, <4>2, <4>3, Zenon
        <4>. QED
          BY <4>4, <4>5
      <3>. QED
        BY <3>1, Zenon DEF AllOlder
    <2>. QED
      BY <1>1, <2>1, AllOlderFacts, Zenon
  <1>9. StillAdmitted(cached, node') /\ StillAdmitted(glob'.read, node') /\ PodsAdmitted(glob.pods, glob'.read)
    BY <1>6, Zenon DEF StillAdmitted, PodsAdmitted
  <1>10. \A g \in Groups : g \in local /\ node'[g].admitted => g \in local'
    BY <1>2, <1>3, Zenon DEF WriteForm
  <1>11. grant => cached[n].exists /\ ~cached[n].stopped /\ n \in local'
    <2>1. Older(glob.read[n], cached[n]) /\ Older(cached[n], node[n])
      BY Zenon DEF AllOlder
    <2>2. node[n].toggles \in Nat /\ cached[n].toggles \in Nat
      BY <1>1, NodeFields, Zenon
    <2>3. glob.read[n].exists => cached[n].exists /\ cached[n].stopped = glob.read[n].stopped
      BY <1>1, <2>1, <2>2 DEF Older
    <2>. QED
      BY <1>5, <2>3, Zenon DEF WriteForm
  <1>12. Remembered(node', cached, local')
    BY <1>6, <1>10, <1>11, Zenon DEF Remembered
  <1>13. /\ glob'.pc = glob.pc /\ glob'.pods = glob.pods /\ glob'.assumed = glob.assumed
         /\ glob'.todo = glob.todo /\ glob'.pending = glob.pending /\ glob'.blocked = glob.blocked
         /\ glob'.writes \subseteq glob.writes /\ Deciding(glob') \subseteq Deciding(glob)
    BY Zenon DEF WriteForm, Deciding
  <1>. HIDE DEF grant
  <1>14. GlobPassInv(node', pod, glob')
    <2>1. /\ glob.writes \subseteq NodeIDs /\ glob.pending \subseteq NodeIDs /\ Deciding(glob) \subseteq NodeIDs
          /\ Groups \subseteq NodeIDs
      BY AdmissionFacts, GlobFields, NodeIDFacts, Zenon DEF Deciding
    <2>2. glob'.pc = "idle" => glob'.todo = {} /\ glob'.writes = {}
      BY <1>13, Zenon DEF GlobPassInv
    <2>3. glob'.pc # "idle" => \A g \in Groups : node'[g].admitted =>
            ~glob'.read[g].stopped /\ (glob'.read[g].admitted \/ g \in glob'.assumed)
      <3>. SUFFICES ASSUME glob.pc # "idle", NEW g \in Groups, node'[g].admitted
                    PROVE  ~glob.read[g].stopped /\ (glob'.read[g].admitted \/ g \in glob.assumed)
        BY <1>4, <1>13, <2>1, Zenon
      <3>1. CASE grant /\ g = n
        BY <1>5, <1>6, <3>1, Zenon DEF grant
      <3>2. CASE node[g].admitted
        BY <1>6, <3>2, Zenon DEF GlobPassInv
      <3>. QED
        BY <1>6, <3>1, <3>2, Zenon
    <2>4. (\A m \in glob'.writes : glob'.read[m].exists) /\ \A g \in glob'.pending : ~glob'.read[g].hold
      BY <1>4, <1>13, <2>1, Zenon DEF GlobPassInv
    <2>5. glob'.pc = "sweep" =>
            /\ \A g \in Groups : node'[g].admitted => g \in glob'.todo \/ glob'.blocked \/ pod[g] = "ready"
            /\ \A g \in glob'.writes \cap Groups : glob'.read[g].stopped
      <3>1. glob'.pc = "sweep" => glob.pc = "sweep" /\ ~grant
        BY <1>5, <1>13 DEF grant
      <3>. QED
        BY <1>4, <1>6, <1>13, <2>1, <3>1, Zenon DEF GlobPassInv
    <2>6. glob'.pc = "admit" => \A g \in Deciding(glob') : ~glob'.read[g].hold
      BY <1>4, <1>13, <2>1, Zenon DEF GlobPassInv
    <2>. QED
      BY <2>2, <2>3, <2>4, <2>5, <2>6, Zenon DEF GlobPassInv
  <1>15. GlobSlots(node', pod, glob') \subseteq GlobSlots(node, pod, glob)
    <2>1. Deciding(glob) \subseteq Groups
      BY AdmissionFacts, GlobFields, Zenon DEF Deciding
    <2>. QED
      BY <1>5, <1>6, <1>13, <2>1, Zenon DEF GlobSlots, grant
  <1>16. Cardinality(GlobSlots(node', pod, glob')) <= GlobalBatch
    BY <1>15, AdmissionSlots, Zenon
  <1>17. GlobalBatch' = GlobalBatch
    BY Zenon DEF GlobalBatch
  <1>. QED
    BY <1>7, <1>8, <1>9, <1>12, <1>13, <1>14, <1>16, <1>17, Zenon

LEMMA AdmissionStep ==
    ASSUME TypeOK, Admission, AdmissionInv, [Next]_vars
    PROVE  AdmissionInv'
  <1>1. ASSUME NEW n \in NodeIDs, WriteAdmission(n)
        PROVE  AdmissionInv'
    <2>1. CASE glob' = IdleGlob /\ UNCHANGED <<node, local>>
      BY <1>1, <2>1, WriteAdmissionForm, EndAdmission, Zenon
    <2>2. CASE glob.read[Primary[n]].stopped /\ WriteForm(n, FALSE)
      <3>1. FALSE \in BOOLEAN /\ FALSE = ~glob.read[Primary[n]].stopped
        BY <2>2
      <3>. QED
        BY <1>1, <2>2, <3>1, WriteAdmissionForm, NextTyped, WriteAdmits, Zenon
    <2>3. CASE ~glob.read[Primary[n]].stopped /\ WriteForm(n, TRUE)
      <3>1. TRUE \in BOOLEAN /\ TRUE = ~glob.read[Primary[n]].stopped
        BY <2>3
      <3>. QED
        BY <1>1, <2>3, <3>1, WriteAdmissionForm, NextTyped, WriteAdmits, Zenon
    <2>. QED
      BY <1>1, <2>1, <2>2, <2>3, WriteAdmissionForm, Zenon
  <1>2. CASE GlobalPass
    BY <1>1, <1>2, BeginAdmission, ChooseAdmission, SweepAdmission, AdmitAdmission, Zenon DEF GlobalPass
  <1>. QED
    BY <1>2, TopologyAdmission, PodAdmission, UserAdmission, CacheAdmission, Zenon DEF Next

-----------------------------------------------------------------------------
(* The theorems *)

\* Before anything is created there are no slots.
LEMMA InitBatch ==
    ASSUME Init
    PROVE  BatchInv
  <1>1. /\ node = [n \in NodeIDs |-> NoNode] /\ cached = node
        /\ pod = [g \in Groups |-> "none"] /\ cachedPod = pod
        /\ local = {} /\ topo = IdleTopo /\ glob = IdleGlob /\ world \in World
    BY WorldsAssumption, Zenon DEF Init
  <1>2. TypeOK
    BY <1>1, Idles, Zenon DEF TypeOK, Pods
  <1>3. \A n \in NodeIDs : node[n] = NoNode
    BY <1>1, Zenon
  <1>4. Cardinality({}) = 0
    BY FS_EmptySet
  <1>5. RolloutInv
    <2>1. Unstopped(node) /\ Unstopped(cached) /\ Unstopped(topo.read)
      BY <1>1, <1>3, Idles, Zenon DEF Unstopped
    <2>2. Follows(Compiled, cached, node) /\ Follows(Compiled, topo.read, node) /\ PodsFollow(cachedPod, pod)
      BY <1>1, <1>2, Idles, TopoFacts, Zenon DEF Follows, PodsFollow
    <2>3. Out(TopoGroups, node) = {}
      BY <1>2, <1>3, Idles, TopoFacts, ZenonT(40) DEF Out
    <2>4. InOrder(TopoGroups, node)
      BY <2>3, Zenon DEF InOrder
    <2>5. TopoPassInv(Compiled, TopoGroups, topo)
      BY <1>1, Idles DEF TopoPassInv
    <2>6. TopoSlots(TopoGroups, node, pod, topo) = {}
      BY <1>1, <2>3, Idles, Zenon DEF TopoSlots
    <2>7. Cardinality(TopoSlots(TopoGroups, node, pod, topo)) <= TopoBatch
      BY <1>2, <1>4, <2>6, TopoFacts
    <2>. QED
      BY <2>1, <2>2, <2>4, <2>5, <2>7, Zenon DEF RolloutInv
  <1>6. AdmissionInv
    <2>1. \A g \in Groups : ~node[g].admitted /\ pod[g] = "none"
      BY <1>1, <1>3, Idles, NodeIDFacts, Zenon
    <2>2. /\ Sane(node) /\ StillAdmitted(node, node) /\ PodsFollow(pod, pod) /\ PodsAdmitted(pod, node)
          /\ Remembered(node, node, local)
      BY <2>1, Zenon DEF Sane, StillAdmitted, PodsFollow, PodsAdmitted, Remembered
    <2>3. AllOlder(node, node)
      BY <1>2, AdmissionFacts, AllOlderFacts, Zenon
    <2>4. GlobSlots(node, pod, glob) = {}
      BY <1>1, <2>1, Idles, Zenon DEF GlobSlots, Deciding
    <2>5. Cardinality(GlobSlots(node, pod, glob)) <= GlobalBatch
      BY <1>2, <1>4, <2>4, AdmissionFacts
    <2>. QED
      BY <1>1, <2>2, <2>3, <2>5, IdleAdmission, Zenon DEF AdmissionInv
  <1>. QED
    BY <1>2, <1>5, <1>6, Zenon DEF BatchInv

LEMMA NextBatch ==
    ASSUME BatchInv, [Next]_vars
    PROVE  BatchInv'
  <1>1. TypeOK /\ TypeOK'
    BY NextTyped, Zenon DEF BatchInv
  <1>2. (Rollout' <=> Rollout) /\ (Admission' <=> Admission)
    BY <1>1, SettingsKeep, Zenon
  <1>3. (Rollout => RolloutInv') /\ (Admission => AdmissionInv')
    BY <1>1, RolloutStep, AdmissionStep, Zenon DEF BatchInv
  <1>. QED
    BY <1>1, <1>2, <1>3, Zenon DEF BatchInv

\* Groups that boot have a slot.
LEMMA BatchBounds ==
    ASSUME BatchInv
    PROVE  BatchesAreLimited
  <1>1. TypeOK
    BY Zenon DEF BatchInv
  <1>2. ASSUME Rollout
        PROVE  Cardinality({g \in Booting \cap Compiled : ~node[g].hold}) <= TopoBatch
    <2>. DEFINE booting == {g \in Booting \cap Compiled : ~node[g].hold}
    <2>1. booting \subseteq TopoSlots(TopoGroups, node, pod, topo)
      BY Zenon DEF Booting, TopoSlots, Out, TopoGroups
    <2>2. RolloutInv
      BY <1>2, Zenon DEF BatchInv
    <2>3. TopoSlots(TopoGroups, node, pod, topo) \in SUBSET NodeIDs /\ TopoBatch \in Nat
      BY <1>1, TopoFacts, NodeIDFacts, Zenon
    <2>. HIDE DEF booting
    <2>4. Cardinality(booting) <= TopoBatch
      BY <2>1, <2>2, <2>3, FewerSlots, Zenon DEF RolloutInv
    <2>. QED
      BY <2>4, Zenon DEF booting
  <1>3. ASSUME Admission
        PROVE  Cardinality({g \in Booting : node[g].admitted}) <= GlobalBatch
    <2>. DEFINE booting == {g \in Booting : node[g].admitted}
    <2>1. booting \subseteq GlobSlots(node, pod, glob)
      BY Zenon DEF Booting, GlobSlots
    <2>2. AdmissionInv
      BY <1>3, Zenon DEF BatchInv
    <2>3. GlobSlots(node, pod, glob) \in SUBSET NodeIDs /\ GlobalBatch \in Nat
      BY <1>1, AdmissionFacts, Zenon
    <2>. HIDE DEF booting
    <2>4. Cardinality(booting) <= GlobalBatch
      BY <2>1, <2>2, <2>3, FewerSlots, Zenon DEF AdmissionInv
    <2>. QED
      BY <2>4, Zenon DEF booting
  <1>. QED
    BY <1>2, <1>3, Zenon DEF BatchesAreLimited, TopologyBatchLimit, GlobalBatchLimit, Rollout, Admission

\* The Nodes, their Pods, both caches and the two passes of
\* startupadmission.go and rollout.go keep their types.
THEOREM TypeCorrect == Spec => []TypeOK
  <1>1. Init => TypeOK
    BY InitBatch, Zenon DEF BatchInv
  <1>2. TypeOK /\ [Next]_vars => TypeOK'
    BY NextTyped, Zenon
  <1>. QED
    BY <1>1, <1>2, PTL DEF Spec

\* For every number of groups, batch size, stop and restart, and however far the
\* caches lag: the released groups that boot stay within the Topology's
\* batchSize (advanceStartupBatch) and the admitted ones within the
\* installation's (reconcileStartupAdmission).
THEOREM BatchesKeepTheirSize == Spec => []BatchesAreLimited
  <1>1. Init => BatchInv
    BY InitBatch, Zenon
  <1>2. BatchInv /\ [Next]_vars => BatchInv'
    BY NextBatch, Zenon
  <1>3. BatchInv => BatchesAreLimited
    BY BatchBounds, Zenon
  <1>. QED
    BY <1>1, <1>2, <1>3, PTL DEF Spec

=============================================================================
