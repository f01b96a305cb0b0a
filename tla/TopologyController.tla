------------------------- MODULE TopologyController -------------------------
(***************************************************************************)
(* The Topology controller (controllers/topology/reconcile.go and          *)
(* status.go): it compiles a Topology into NodeProfiles, Links and Nodes,  *)
(* keeps them as compiled and sums their readiness up in the Topology's    *)
(* status.  Every kind has its own watch and cache; a pass reads one cache *)
(* after the other and writes one object at a time.                        *)
(*                                                                         *)
(* What a generation of the Topology compiles to is a constant.  Holds and *)
(* batches are the subject of StartupAdmission.                            *)
(***************************************************************************)
EXTENDS Naturals, Sequences, FiniteSets

CONSTANTS
    Profiles, Links, Nodes, \* names of children
    Specs, NoSpec,
    MaxGen,     \* bound: generations of the Topology
    MaxChanges, \* bound: changes
    Worlds      \* the settings a behaviour may have

Children == Profiles \union Links \union Nodes
Kind == [profile |-> Profiles, link |-> Links, node |-> Nodes]
ChangeKinds == {"edit", "drift", "delete", "foreign", "free", "ready", "unready"}

\* compiled[g][c]: the spec of child c in generation g, or NoSpec.  broken: the
\* generations that do not compile.  kinds, left: what happens around the
\* controller, and how often.
World == [compiled : UNION {[1..n -> [Children -> Specs \union {NoSpec}]] : n \in 1..MaxGen},
          broken : SUBSET (1..MaxGen), kinds : SUBSET ChangeKinds, left : 0..MaxChanges]

\* A kind has names of its own.
ASSUME ChildrenAssumption ==
    /\ IsFiniteSet(Children)
    /\ Profiles \cap Links = {} /\ Nodes \cap (Profiles \union Links) = {}
    /\ Specs # {} /\ NoSpec \notin Specs
ASSUME WorldsAssumption ==
    /\ MaxGen \in Nat /\ MaxChanges \in Nat
    /\ Worlds \subseteq World

VARIABLES
    top,      \* the Topology: its generation and status
    obj,      \* the children's names: who made the object, its identity, spec and readiness
    seenTop, seen, \* both in the caches
    events,   \* the kinds of which a change of desired state is on its way to the cache
    pass,     \* the running pass
    observation, \* the generation of the cached observation, 0 for none
    window,   \* whether a status write is less than topologyProgressInterval ago
    changes,  \* how often the world changed
    world     \* what the Topology compiles to, and what happens to it

vars == <<top, obj, seenTop, seen, events, pass, observation, window, changes, world>>

Compiled == world.compiled
Broken == world.broken
Desired(g) == {c \in Children : Compiled[g][c] # NoSpec}

NoObject == [owner |-> "nobody", uid |-> 0, spec |-> NoSpec, ready |-> FALSE]
Object == [owner : {"nobody", "topology", "user"}, uid : 0..MaxChanges,
           spec : Specs \union {NoSpec}, ready : BOOLEAN]
Status == [observed : 0..MaxGen, count : 0..Cardinality(Nodes), ready : BOOLEAN,
           error : BOOLEAN, state : {"none", "deploying", "running", "degraded"}]
NoStatus == [observed |-> 0, count |-> 0, ready |-> FALSE, error |-> FALSE, state |-> "none"]
Topology == [gen : 1..MaxGen, status : Status]

\* read: the Topology; list: the current kind as it was listed; todo: names
\* of that kind still to handle; intact: no event has invalidated the
\* observation since the pass began.
Pass == [pc : {"idle", "conflicts", "profile", "link", "node", "status"}, read : Topology,
         list : [Children -> Object], todo : SUBSET Children, error : BOOLEAN, intact : BOOLEAN]

Idle == [pc |-> "idle", read |-> [gen |-> 1, status |-> NoStatus],
         list |-> [c \in Children |-> NoObject], todo |-> {}, error |-> FALSE, intact |-> FALSE]

TypeOK ==
    /\ top \in Topology /\ seenTop \in Topology
    /\ obj \in [Children -> Object] /\ seen \in [Children -> Object]
    /\ events \subseteq DOMAIN Kind
    /\ pass \in Pass /\ observation \in 0..MaxGen
    /\ window \in BOOLEAN /\ changes \in 0..MaxChanges
    /\ world \in World

Init ==
    /\ top = [gen |-> 1, status |-> NoStatus] /\ seenTop = top
    /\ obj = [c \in Children |-> NoObject] /\ seen = obj /\ events = {}
    /\ pass = Idle /\ observation = 0 /\ window = FALSE /\ changes = 0
    /\ world \in Worlds

cluster == <<top, obj, seenTop, seen, events, changes, world>>

-----------------------------------------------------------------------------
(***************************************************************************)
(* A pass                                                                  *)
(***************************************************************************)

\* A pass that finds its observation valid skips to the status; a Topology
\* that does not compile ends it.
BeginPass ==
    /\ pass.pc = "idle"
    /\ \/ /\ observation = seenTop.gen
          /\ pass' = [Idle EXCEPT !.pc = "status", !.read = seenTop, !.intact = TRUE]
       \/ /\ observation # seenTop.gen /\ seenTop.gen \notin Broken
          /\ pass' = [Idle EXCEPT !.pc = "conflicts", !.read = seenTop, !.intact = TRUE]
       \/ /\ observation # seenTop.gen /\ seenTop.gen \in Broken
          /\ UNCHANGED pass
    /\ UNCHANGED <<cluster, observation, window>>

\* Mutant: Nodes go out before the Links that wire them.
OrderNodesEarly == <<"profile", "node", "link">>

Order == <<"profile", "link", "node">>

\* Each kind is listed when its turn comes.
ListKind(p, kind) == [p EXCEPT !.pc = kind, !.list = seen, !.todo = Kind[kind]]

\* findChildResourceConflicts asks the API server, not the cache, whether a
\* desired name is taken.
CheckConflicts ==
    LET taken == \E c \in Desired(pass.read.gen) : obj[c].owner = "user"
    IN  /\ pass.pc = "conflicts"
        /\ \/ taken /\ pass' = [pass EXCEPT !.pc = "status", !.error = TRUE]
           \/ ~taken /\ pass' = ListKind(pass, Order[1])
        /\ UNCHANGED <<cluster, observation, window>>

\* Mutant: anything of that name is an object to update or to prune.
GeneratedByName(o) == o.owner # "nobody"

\* generatedForTopology: by its owner reference or its labels, here one mark.
Generated(o) == o.owner = "topology"

\* DesiredStateChanged leaves status out.
DesiredStateChanged(old, new) == [old EXCEPT !.ready = FALSE] # [new EXCEPT !.ready = FALSE]

\* Writes of generated objects reach the controller's cache as events.
Emits ==
    events' = events \union
        {k \in DOMAIN Kind : \E c \in Kind[k] : /\ Generated(obj[c]) \/ Generated(obj'[c])
                                               /\ DesiredStateChanged(obj[c], obj'[c])}

\* reconcileEmitted for one name: create what is missing, update what has
\* drifted, and once the compiled names are done prune the others.  Updates
\* are locked, deletions go by name; an error ends the pass.
ReconcileChild(c) ==
    LET want == Compiled[pass.read.gen][c]
        have == IF Generated(pass.list[c]) THEN pass.list[c].spec ELSE NoSpec
        fresh == [owner |-> "topology", uid |-> changes, spec |-> want, ready |-> FALSE]
        done == [pass EXCEPT !.todo = @ \ {c}]
    IN  /\ c \in pass.todo
        /\ want = NoSpec => pass.todo \cap Desired(pass.read.gen) = {}
        /\ \/ /\ have = want
              /\ pass' = done /\ UNCHANGED obj
           \/ /\ have = NoSpec /\ want # NoSpec
              /\ \/ obj[c] = NoObject /\ obj' = [obj EXCEPT ![c] = fresh] /\ pass' = done
                 \/ obj[c] # NoObject /\ pass' = Idle /\ UNCHANGED obj
           \/ /\ have # NoSpec /\ want \notin {NoSpec, have}
              /\ \/ obj[c] = pass.list[c] /\ obj' = [obj EXCEPT ![c].spec = want] /\ pass' = done
                 \/ obj[c] # pass.list[c] /\ pass' = Idle /\ UNCHANGED obj
           \/ /\ have # NoSpec /\ want = NoSpec
              /\ obj' = [obj EXCEPT ![c] = NoObject] /\ pass' = done
        /\ Emits /\ UNCHANGED <<top, seenTop, seen, changes, world, observation, window>>

\* Mutant: the observation is stored whatever happened since Load.
StoreAlways(p) == p.read.gen

\* ObservationCache.Store: an invalidation since Load makes it void.
Store(p) == IF p.intact THEN p.read.gen ELSE observation

\* The current kind is done; the next one is listed, or the observation is
\* stored.
EndKind ==
    /\ pass.todo = {}
    /\ \E i \in 1..3 :
         /\ pass.pc = Order[i]
         /\ \/ i < 3 /\ pass' = ListKind(pass, Order[i + 1]) /\ UNCHANGED observation
            \/ i = 3 /\ pass' = [pass EXCEPT !.pc = "status"] /\ observation' = Store(pass)
    /\ UNCHANGED <<cluster, window>>

ReadyNodes == {c \in Nodes : Generated(seen[c]) /\ seen[c].ready}

\* resolveTopologyState
State(ready, before) ==
    IF ready THEN "running"
    ELSE IF before \in {"running", "degraded"} THEN "degraded" ELSE "deploying"

\* The status the pass wants to report
DesiredStatus ==
    LET nodes == Desired(pass.read.gen) \cap Nodes
        count == Cardinality(ReadyNodes)
        ready == ~pass.error /\ nodes # {} /\ count = Cardinality(nodes)
    IN  [observed |-> pass.read.gen, count |-> count, ready |-> ready, error |-> pass.error,
         state |-> State(ready, pass.read.status.state)]

\* Mutant: progress never makes a write of its own.
SkipsProgress(status) == [pass.read.status EXCEPT !.count = status.count] = status

\* Nothing new, or progress within the window of the last write
SkipsWrite(status) ==
    \/ pass.read.status = status
    \/ window /\ [pass.read.status EXCEPT !.count = status.count] = status

\* updateTopologyStatus: a conflict is retried with what the API server has,
\* unless the generation moved on.
WriteStatus ==
    LET writes == ~SkipsWrite(DesiredStatus) /\ top.gen = pass.read.gen
    IN  /\ pass.pc = "status"
        /\ top' = IF writes THEN [top EXCEPT !.status = DesiredStatus] ELSE top
        /\ window' = (window \/ writes)
        /\ pass' = Idle
        /\ UNCHANGED <<obj, seenTop, seen, events, observation, changes, world>>

-----------------------------------------------------------------------------
(***************************************************************************)
(* Watches, timers and the world                                           *)
(***************************************************************************)

Invalidate(changed) ==
    /\ observation' = IF changed THEN 0 ELSE observation
    /\ pass' = [pass EXCEPT !.intact = @ /\ ~changed]

\* An event of a change of desired state invalidates the observation, one
\* of a change of status does not.
SyncKind(k) ==
    /\ k \in events \/ \E c \in Kind[k] : seen[c] # obj[c]
    /\ seen' = [c \in Children |-> IF c \in Kind[k] THEN obj[c] ELSE seen[c]]
    /\ Invalidate(k \in events) /\ events' = events \ {k}
    /\ UNCHANGED <<top, seenTop, obj, window, changes, world>>

SyncTopology ==
    /\ seenTop # top /\ seenTop' = top
    /\ Invalidate(seenTop.gen # top.gen)
    /\ UNCHANGED <<top, obj, seen, events, window, changes, world>>

\* An observation is valid for five minutes.
Expire ==
    /\ observation # 0 /\ observation' = 0
    /\ UNCHANGED <<cluster, pass, window>>

WindowEnds ==
    /\ window /\ window' = FALSE
    /\ UNCHANGED <<cluster, pass, observation>>

EditTopology ==
    /\ top.gen < Len(Compiled)
    /\ top' = [top EXCEPT !.gen = @ + 1] /\ UNCHANGED obj

\* Users edit, delete and occupy children; the Node controller
\* reports readiness.
Becomes(c, o) == obj' = [obj EXCEPT ![c] = o] /\ UNCHANGED top

ChangeChild(c) ==
    LET foreign == [owner |-> "user", uid |-> changes, spec |-> CHOOSE s \in Specs : TRUE, ready |-> FALSE]
    IN  \/ /\ "drift" \in world.kinds /\ Generated(obj[c])
           /\ \E s \in Specs \ {obj[c].spec} : Becomes(c, [obj[c] EXCEPT !.spec = s])
        \/ "delete" \in world.kinds /\ Generated(obj[c]) /\ Becomes(c, NoObject)
        \/ "foreign" \in world.kinds /\ obj[c] = NoObject /\ Becomes(c, foreign)
        \/ "free" \in world.kinds /\ obj[c].owner = "user" /\ Becomes(c, NoObject)
        \/ /\ (IF obj[c].ready THEN "unready" ELSE "ready") \in world.kinds
           /\ c \in Nodes /\ Generated(obj[c]) /\ Becomes(c, [obj[c] EXCEPT !.ready = ~@])

Change ==
    /\ changes < world.left /\ changes' = changes + 1
    /\ ("edit" \in world.kinds /\ EditTopology) \/ \E c \in Children : ChangeChild(c)
    /\ Emits /\ UNCHANGED <<seenTop, seen, pass, observation, window, world>>

RunPass == BeginPass \/ CheckConflicts \/ EndKind \/ WriteStatus \/ \E c \in Children : ReconcileChild(c)

Next == RunPass \/ SyncTopology \/ (\E k \in DOMAIN Kind : SyncKind(k)) \/ Expire \/ WindowEnds \/ Change

Spec == Init /\ [][Next]_vars

\* The controller requeues every Topology, watches deliver and timers fire;
\* that an observation expires is not counted on.
Fairness == /\ WF_vars(RunPass) /\ WF_vars(SyncTopology) /\ WF_vars(WindowEnds)
            /\ \A k \in DOMAIN Kind : WF_vars(SyncKind(k))

FairSpec == Spec /\ Fairness

-----------------------------------------------------------------------------
(***************************************************************************)
(* Properties                                                              *)
(***************************************************************************)

Taken == \E c \in Desired(top.gen) : obj[c].owner = "user"

\* The controller never changes or removes an object it did not make and whose
\* name its Topology wants (generatedForTopology, findChildResourceConflicts,
\* reconcileEmitted); other names it prunes without a second look.
UserObjectsKept ==
    [][\A c \in Desired(pass.read.gen) :
         obj[c].owner = "user" /\ changes' = changes => obj'[c] = obj[c]]_vars

\* An edit takes a child back to what it was before an earlier edit.
Reverts ==
    \E g1, g2, g3 \in DOMAIN Compiled : g1 < g2 /\ g2 < g3 /\ \E c \in Children :
        Compiled[g1][c] = Compiled[g3][c] /\ Compiled[g2][c] # Compiled[g3][c]

\* Where users touch nothing but the Topology, and take no edit back, a Node is
\* created only when every NodeProfile and Link of the same generation is in
\* place, however old the caches that the pass lists are (the order of Reconcile).
\* A child that is edited back looks right in a cache that has missed both edits.
WiringFirst ==
    [][world.kinds \subseteq {"edit", "ready", "unready"} /\ ~Reverts =>
         \A n \in Nodes : ~Generated(obj[n]) /\ Generated(obj'[n]) =>
           \A c \in Desired(pass.read.gen) \ Nodes : obj[c].spec = Compiled[pass.read.gen][c]]_vars

\* At last the children are what a Topology compiles to and nothing more,
\* unless a desired name is taken, whatever users did to them: no drift
\* waits for the observation to expire (ObservationCache).
ChildrenFollow ==
    <>[](top.gen \in Broken \/ Taken \/ \A c \in Children :
            IF c \in Desired(top.gen)
            THEN Generated(obj[c]) /\ obj[c].spec = Compiled[top.gen][c]
            ELSE ~Generated(obj[c]))

\* At last the status is that of the current generation, if it compiles: its
\* count of ready Nodes, whether that is all of them, and the name conflict if
\* there is one (updateTopologyStatus and its coalescing window).
StatusFollows ==
    <>[](top.gen \in Broken \/
         /\ top.status.observed = top.gen
         /\ top.status.error = Taken
         /\ top.status.count = Cardinality({c \in Nodes : Generated(obj[c]) /\ obj[c].ready})
         /\ top.status.ready <=>
              ~Taken /\ \A c \in Desired(top.gen) \cap Nodes : obj[c].ready)

=============================================================================
