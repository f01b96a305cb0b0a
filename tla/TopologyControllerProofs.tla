---------------------- MODULE TopologyControllerProofs ----------------------
(***************************************************************************)
(* What a pass of the Topology controller may write, for every number of   *)
(* children, generations and changes, however far each cache lags.         *)
(*                                                                         *)
(* A pass takes a kind as done when the list it made of it says so, and    *)
(* that list may be old.  History says how old: what was listed, what the  *)
(* cache has and what is there come from three generations in this order,  *)
(* none newer than the one the pass goes by.  If no edit goes back to an   *)
(* earlier spec, a child that looks right in the list then is right, and   *)
(* InPlace says that all children the pass is done with are.               *)
(***************************************************************************)
EXTENDS TopologyController, FiniteSetTheorems, TLAPS

\* A pass reads a generation the cache has, and the cache one that there was.
Generations ==
    /\ pass.read.gen <= seenTop.gen /\ seenTop.gen <= top.gen /\ top.gen <= Len(Compiled)

TypeInv == TypeOK /\ Generations

\* The names still to handle are of the kind whose turn it is.
TodoOfKind == /\ pass.todo # {} => pass.pc \in DOMAIN Kind
              /\ pass.pc \in DOMAIN Kind => pass.todo \subseteq Kind[pass.pc]

\* Users touch nothing but the Topology.
Untouched == world.kinds \subseteq {"edit", "ready", "unready"}

\* An object of the Topology, or none
Ours(o) == IF Generated(o) THEN o.spec # NoSpec ELSE o = NoObject

\* The spec that w compiles child c to in generation g; before the first
\* there is none.
At(w, c, g) == IF g = 0 THEN NoSpec ELSE w[g][c]

\* A pass listed spec l of child c, the cache has s and the API server o: they
\* are of three generations up to m, in this order.
Aged(w, c, l, s, o, m) ==
    \E i, j, k \in 0..m : /\ i <= j /\ j <= k
                          /\ l = At(w, c, i) /\ s = At(w, c, j) /\ o = At(w, c, k)

\* The newest generation of which something may have been written
Newest == IF pass.pc = "idle" THEN seenTop.gen ELSE pass.read.gen

History ==
    \A c \in Children : /\ Ours(obj[c]) /\ Ours(seen[c]) /\ Ours(pass.list[c])
                        /\ Aged(Compiled, c, pass.list[c].spec, seen[c].spec, obj[c].spec, Newest)

\* The children the pass is done with
Handled ==
    (IF pass.pc \in {"link", "node"} THEN Profiles ELSE {}) \union
    (IF pass.pc = "node" THEN Links ELSE {}) \union
    (IF pass.pc \in DOMAIN Kind THEN Kind[pass.pc] \ pass.todo ELSE {})

InPlace == \A c \in Handled \cap Desired(pass.read.gen) : obj[c].spec = Compiled[pass.read.gen][c]

ChildrenInv ==
    /\ TypeInv /\ TodoOfKind
    /\ Untouched => History
    /\ Untouched /\ ~Reverts => InPlace

-----------------------------------------------------------------------------
(* Types *)

LEMMA WorldFacts ==
    ASSUME NEW w \in World
    PROVE  /\ Len(w.compiled) \in 1..MaxGen /\ DOMAIN w.compiled = 1..Len(w.compiled)
           /\ \A g \in 1..Len(w.compiled) : w.compiled[g] \in [Children -> Specs \union {NoSpec}]
           /\ w.left \in 0..MaxChanges
  <1>1. PICK n \in 1..MaxGen : w.compiled \in [1..n -> [Children -> Specs \union {NoSpec}]]
    BY Zenon DEF World
  <1>2. n \in Nat
    BY WorldsAssumption
  <1>3. Len(w.compiled) = n /\ DOMAIN w.compiled = 1..n
    BY <1>1, <1>2
  <1>4. w.left \in 0..MaxChanges
    BY Zenon DEF World
  <1>. QED
    BY <1>1, <1>3, <1>4

LEMMA Shapes ==
    ASSUME NEW w \in World
    PROVE  /\ NoStatus \in Status /\ [gen |-> 1, status |-> NoStatus] \in Topology
           /\ NoObject \in Object /\ Idle \in Pass
  <1>1. MaxGen \in Nat /\ 1 \in 1..MaxGen /\ 0 \in 0..MaxGen /\ 0 \in 0..MaxChanges
    BY WorldFacts, WorldsAssumption
  <1>2. Cardinality(Nodes) \in Nat
    <2>1. Nodes \in SUBSET Children
      BY DEF Children
    <2>. QED
      BY <2>1, FS_Subset, FS_CardinalityType, ChildrenAssumption
  <1>3. 0 \in 0..Cardinality(Nodes)
    BY <1>2
  <1>4. NoStatus \in Status
    BY <1>1, <1>3, Zenon DEF NoStatus, Status
  <1>5. [gen |-> 1, status |-> NoStatus] \in Topology
    BY <1>1, <1>4, Zenon DEF Topology
  <1>6. NoObject \in Object
    BY <1>1, Zenon DEF NoObject, Object
  <1>7. Idle \in Pass
    BY <1>5, <1>6, Zenon DEF Idle, Pass
  <1>. QED
    BY <1>4, <1>5, <1>6, <1>7, Zenon

LEMMA Typed ==
    ASSUME TypeOK
    PROVE  /\ top.gen \in Nat /\ seenTop.gen \in Nat /\ pass.read.gen \in Nat
           /\ top.gen \in 1..MaxGen /\ seenTop.gen \in 1..MaxGen /\ pass.read.gen \in 1..MaxGen
           /\ pass.read \in Topology /\ pass.list \in [Children -> Object] /\ pass.todo \in SUBSET Children
           /\ pass.error \in BOOLEAN /\ pass.intact \in BOOLEAN
           /\ Len(Compiled) \in Nat
  <1>1. top.gen \in 1..MaxGen /\ seenTop.gen \in 1..MaxGen
    BY Zenon DEF TypeOK, Topology
  <1>2. /\ pass.read \in Topology /\ pass.list \in [Children -> Object] /\ pass.todo \in SUBSET Children
        /\ pass.error \in BOOLEAN /\ pass.intact \in BOOLEAN
    BY Zenon DEF TypeOK, Pass
  <1>3. pass.read.gen \in 1..MaxGen
    BY <1>2, Zenon DEF Topology
  <1>4. 1..MaxGen \subseteq Nat
    BY WorldsAssumption
  <1>5. Len(Compiled) \in Nat
    BY WorldFacts, <1>4, Zenon DEF TypeOK, Compiled
  <1>. QED
    BY <1>1, <1>2, <1>3, <1>4, <1>5, Zenon

LEMMA StatusTyped ==
    ASSUME TypeOK
    PROVE  DesiredStatus \in Status
  <1>1. pass.read.gen \in 0..MaxGen /\ pass.error \in BOOLEAN
    BY Typed
  <1>2. ReadyNodes \in SUBSET Nodes /\ Nodes \in SUBSET Children
    BY DEF ReadyNodes, Children
  <1>3. /\ IsFiniteSet(Nodes) /\ IsFiniteSet(ReadyNodes) /\ Cardinality(ReadyNodes) <= Cardinality(Nodes)
    BY <1>2, FS_Subset, ChildrenAssumption
  <1>4. Cardinality(ReadyNodes) \in 0..Cardinality(Nodes)
    BY <1>3, FS_CardinalityType
  <1>5. ASSUME NEW r \in BOOLEAN, NEW b
        PROVE  State(r, b) \in {"none", "deploying", "running", "degraded"}
    BY DEF State
  <1>6. DesiredStatus.ready \in BOOLEAN /\ DesiredStatus.state = State(DesiredStatus.ready, pass.read.status.state)
    BY Zenon DEF DesiredStatus
  <1>7. /\ DesiredStatus = [observed |-> DesiredStatus.observed, count |-> DesiredStatus.count,
           ready |-> DesiredStatus.ready, error |-> DesiredStatus.error, state |-> DesiredStatus.state]
        /\ DesiredStatus.observed = pass.read.gen /\ DesiredStatus.count = Cardinality(ReadyNodes)
        /\ DesiredStatus.error = pass.error
    BY Zenon DEF DesiredStatus
  <1>. QED
    BY <1>1, <1>4, <1>5, <1>6, <1>7, Zenon DEF Status

LEMMA ListTyped ==
    ASSUME NEW p \in Pass, NEW k \in DOMAIN Kind, seen \in [Children -> Object]
    PROVE  ListKind(p, k) \in Pass
  <1>1. Kind[k] \in SUBSET Children /\ k \in {"profile", "link", "node"}
    BY DEF Kind, Children
  <1>. QED
    BY <1>1, Zenon DEF ListKind, Pass

\* What the pass that writes child c puts in its place
Written(c, o) ==
    \/ o = NoObject
    \/ o = [owner |-> "topology", uid |-> changes, spec |-> Compiled[pass.read.gen][c], ready |-> FALSE]
    \/ o = [obj[c] EXCEPT !.spec = Compiled[pass.read.gen][c]]

LEMMA ReconcileForm ==
    ASSUME NEW c \in Children, ReconcileChild(c)
    PROVE  /\ c \in pass.todo
           /\ UNCHANGED <<top, seenTop, seen, changes, world, observation, window>>
           /\ pass' \in {Idle, [pass EXCEPT !.todo = @ \ {c}]}
           /\ obj' = obj \/ \E o : Written(c, o) /\ obj' = [obj EXCEPT ![c] = o]
  <1>1. /\ c \in pass.todo
        /\ UNCHANGED <<top, seenTop, seen, changes, world, observation, window>>
    BY Zenon DEF ReconcileChild
  <1>2. pass' \in {Idle, [pass EXCEPT !.todo = @ \ {c}]}
    BY Zenon DEF ReconcileChild
  <1>3. obj' = obj \/ \E o : Written(c, o) /\ obj' = [obj EXCEPT ![c] = o]
    BY Zenon DEF ReconcileChild, Written
  <1>. QED
    BY <1>1, <1>2, <1>3, Zenon

LEMMA WantTyped ==
    ASSUME TypeInv, NEW c \in Children
    PROVE  Compiled[pass.read.gen][c] \in Specs \union {NoSpec}
  <1>1. pass.read.gen \in 1..Len(Compiled)
    BY Typed DEF TypeInv, Generations
  <1>2. world \in World
    BY DEF TypeInv, TypeOK
  <1>3. \A g \in 1..Len(Compiled) : Compiled[g] \in [Children -> Specs \union {NoSpec}]
    BY <1>2, WorldFacts, Zenon DEF Compiled
  <1>. QED
    BY <1>1, <1>3, Zenon

LEMMA ReconcileTyped ==
    ASSUME TypeInv, NEW c \in Children, ReconcileChild(c)
    PROVE  TypeInv'
  <1>1. /\ UNCHANGED <<top, seenTop, seen, changes, world, observation, window>>
        /\ pass' \in {Idle, [pass EXCEPT !.todo = @ \ {c}]}
        /\ obj' = obj \/ \E o : Written(c, o) /\ obj' = [obj EXCEPT ![c] = o]
    BY ReconcileForm, Zenon
  <1>2. events' \subseteq DOMAIN Kind
    <2>1. Emits /\ events \subseteq DOMAIN Kind
      BY Zenon DEF ReconcileChild, TypeInv, TypeOK
    <2>. QED
      BY <2>1, Zenon DEF Emits
  <1>3. pass' \in Pass /\ pass'.read.gen <= seenTop.gen
    <2>1. CASE pass' = Idle
      <3>1. Idle \in Pass
        BY Shapes, Zenon DEF TypeInv, TypeOK
      <3>2. Idle.read.gen = 1
        BY Zenon DEF Idle
      <3>. QED
        BY <2>1, <3>1, <3>2, Typed DEF TypeInv
    <2>2. CASE pass' = [pass EXCEPT !.todo = @ \ {c}]
      <3>1. pass \in Pass
        BY DEF TypeInv, TypeOK
      <3>2. pass' \in Pass /\ pass'.read = pass.read
        BY <2>2, <3>1, Zenon DEF Pass
      <3>. QED
        BY <3>2 DEF TypeInv, Generations
    <2>. QED
      BY <1>1, <2>1, <2>2, Zenon
  <1>4. ASSUME NEW o, Written(c, o)
        PROVE  o \in Object
    <2>1. Compiled[pass.read.gen][c] \in Specs \union {NoSpec} /\ NoObject \in Object
      BY WantTyped, Shapes, Zenon DEF TypeInv, TypeOK
    <2>2. obj[c] \in Object /\ changes \in 0..MaxChanges
      BY Zenon DEF TypeInv, TypeOK
    <2>3. [owner |-> "topology", uid |-> changes, spec |-> Compiled[pass.read.gen][c], ready |-> FALSE] \in Object
      BY <2>1, <2>2, Zenon DEF Object
    <2>4. [obj[c] EXCEPT !.spec = Compiled[pass.read.gen][c]] \in Object
      BY <2>1, <2>2, Zenon DEF Object
    <2>. QED
      BY <1>4, <2>1, <2>3, <2>4, Zenon DEF Written
  <1>5. obj' \in [Children -> Object]
    BY <1>1, <1>4, Zenon DEF TypeInv, TypeOK
  <1>. QED
    BY <1>1, <1>2, <1>3, <1>5, Zenon DEF TypeInv, TypeOK, Generations, Compiled

LEMMA PassTyped ==
    ASSUME TypeInv, BeginPass \/ CheckConflicts \/ EndKind \/ WriteStatus
    PROVE  TypeInv'
  <1>. USE DEF TypeInv
  <1>1. /\ Idle \in Pass /\ Idle.read.gen = 1 /\ seen \in [Children -> Object]
        /\ pass \in Pass /\ seenTop \in Topology
    <2>1. Idle.read.gen = 1
      BY Zenon DEF Idle
    <2>. QED
      BY <2>1, Shapes, Zenon DEF TypeOK
  <1>2. pass.read.gen \in 0..MaxGen /\ 1 <= seenTop.gen /\ seenTop.gen <= seenTop.gen
    BY Typed
  <1>3. ASSUME NEW i \in 1..3
        PROVE  Order[i] \in DOMAIN Kind
    BY DEF Order, Kind
  <1>4. CASE BeginPass
    <2>1. pass' \in Pass /\ (pass' = pass \/ pass'.read = seenTop)
      BY <1>1, <1>4, Zenon DEF BeginPass, Pass
    <2>2. pass'.read.gen <= seenTop.gen
      BY <1>2, <2>1, Zenon DEF Generations
    <2>. QED
      BY <1>4, <2>1, <2>2, Zenon DEF BeginPass, TypeOK, Generations, cluster, Compiled
  <1>5. CASE CheckConflicts
    <2>1. ListKind(pass, Order[1]) \in Pass
      BY <1>1, <1>3, ListTyped
    <2>2. pass' \in Pass /\ pass'.read = pass.read
      BY <1>1, <1>5, <2>1, Zenon DEF CheckConflicts, Pass, ListKind
    <2>. QED
      BY <1>5, <2>2, Zenon DEF CheckConflicts, TypeOK, Generations, cluster, Compiled
  <1>6. CASE EndKind
    <2>1. ASSUME NEW i \in 1..3, i < 3
          PROVE  ListKind(pass, Order[i + 1]) \in Pass /\ ListKind(pass, Order[i + 1]).read = pass.read
      <3>1. i + 1 \in 1..3
        BY <2>1
      <3>2. ListKind(pass, Order[i + 1]) \in Pass
        BY <1>1, <1>3, <3>1, ListTyped, Zenon
      <3>. QED
        BY <1>1, <3>2, Zenon DEF ListKind, Pass
    <2>2. [pass EXCEPT !.pc = "status"] \in Pass /\ [pass EXCEPT !.pc = "status"].read = pass.read
      BY <1>1, Zenon DEF Pass
    <2>3. pass' \in Pass /\ pass'.read = pass.read
      BY <1>6, <2>1, <2>2, Zenon DEF EndKind
    <2>4. observation' \in 0..MaxGen
      BY <1>2, <1>6, Zenon DEF EndKind, Store, TypeOK
    <2>. QED
      BY <1>6, <2>3, <2>4, Zenon DEF EndKind, TypeOK, Generations, cluster, Compiled
  <1>7. CASE WriteStatus
    <2>1. pass' = Idle /\ (top' = top \/ top' = [top EXCEPT !.status = DesiredStatus])
          /\ UNCHANGED <<obj, seenTop, seen, events, observation, changes, world>>
      BY <1>7, Zenon DEF WriteStatus
    <2>2. window' \in BOOLEAN
      BY <1>7, Zenon DEF WriteStatus, TypeOK
    <2>3. top' \in Topology /\ top'.gen = top.gen
      BY <2>1, StatusTyped, Zenon DEF TypeOK, Topology
    <2>4. pass'.read.gen <= seenTop'.gen
      BY <1>1, <1>2, <2>1, Zenon
    <2>. QED
      BY <1>1, <2>1, <2>2, <2>3, <2>4, Zenon DEF TypeOK, Generations, Compiled
  <1>. QED
    BY <1>4, <1>5, <1>6, <1>7, Zenon

LEMMA ChangeForm ==
    ASSUME TypeInv, Change
    PROVE  /\ UNCHANGED <<seenTop, seen, pass, observation, window, world>>
           /\ \/ top.gen < Len(Compiled) /\ top' = [top EXCEPT !.gen = @ + 1] /\ UNCHANGED obj
              \/ UNCHANGED top /\ \E c \in Children, o \in Object :
                    /\ obj' = [obj EXCEPT ![c] = o]
                    /\ world.kinds \subseteq {"edit", "ready", "unready"} =>
                         Generated(obj[c]) /\ o = [obj[c] EXCEPT !.ready = ~@]
  <1>. USE DEF TypeInv
  <1>1. UNCHANGED <<seenTop, seen, pass, observation, window, world>>
    BY Zenon DEF Change
  <1>2. CASE EditTopology
    BY <1>1, <1>2, Zenon DEF EditTopology
  <1>3. ASSUME NEW c \in Children, ChangeChild(c)
        PROVE  UNCHANGED top /\ \E o \in Object :
                    /\ obj' = [obj EXCEPT ![c] = o]
                    /\ world.kinds \subseteq {"edit", "ready", "unready"} =>
                         Generated(obj[c]) /\ o = [obj[c] EXCEPT !.ready = ~@]
    <2>1. obj[c] \in Object /\ NoObject \in Object /\ changes \in 0..MaxChanges
      BY Shapes, Zenon DEF TypeOK
    <2>2. (CHOOSE s \in Specs : TRUE) \in Specs
      BY ChildrenAssumption, Zenon
    <2>3. [owner |-> "user", uid |-> changes, spec |-> CHOOSE s \in Specs : TRUE, ready |-> FALSE] \in Object
      BY <2>1, <2>2, Zenon DEF Object
    <2>4. \A s \in Specs : [obj[c] EXCEPT !.spec = s] \in Object
      BY <2>1, Zenon DEF Object
    <2>5. [obj[c] EXCEPT !.ready = ~@] \in Object
      BY <2>1, Zenon DEF Object
    <2>6. /\ ~("drift" \in {"edit", "ready", "unready"}) /\ ~("delete" \in {"edit", "ready", "unready"})
          /\ ~("foreign" \in {"edit", "ready", "unready"}) /\ ~("free" \in {"edit", "ready", "unready"})
      BY Zenon
    <2>. QED
      BY <1>3, <2>1, <2>3, <2>4, <2>5, <2>6, Zenon DEF ChangeChild, Becomes
  <1>4. EditTopology \/ \E c \in Children : ChangeChild(c)
    BY Zenon DEF Change
  <1>. QED
    BY <1>1, <1>2, <1>3, <1>4, Zenon

LEMMA WorldTyped ==
    ASSUME TypeInv, SyncTopology \/ (\E k \in DOMAIN Kind : SyncKind(k)) \/ Expire \/ WindowEnds \/ Change
    PROVE  TypeInv'
  <1>. USE DEF TypeInv
  <1>1. ASSUME observation' \in {0, observation}, NEW b \in BOOLEAN, pass' = [pass EXCEPT !.intact = b]
        PROVE  observation' \in 0..MaxGen /\ pass' \in Pass /\ pass'.read = pass.read
    <2>1. 0 \in 0..MaxGen
      BY WorldsAssumption
    <2>2. pass \in Pass /\ observation \in 0..MaxGen
      BY DEF TypeOK
    <2>. QED
      BY <1>1, <2>1, <2>2, Zenon DEF Pass
  <1>2. CASE SyncTopology
    <2>1. observation' \in 0..MaxGen /\ pass' \in Pass /\ pass'.read = pass.read
      <3>1. observation' \in {0, observation} /\ \E b \in BOOLEAN : pass' = [pass EXCEPT !.intact = b]
        BY <1>2, Zenon DEF SyncTopology, Invalidate
      <3>. QED
        BY <1>1, <3>1, Zenon
    <2>2. seenTop' = top /\ UNCHANGED <<top, obj, seen, events, window, changes, world>>
      BY <1>2, Zenon DEF SyncTopology
    <2>3. pass.read.gen <= top.gen /\ top.gen <= top.gen
      BY Typed DEF Generations
    <2>. QED
      BY <2>1, <2>2, <2>3, Zenon DEF TypeOK, Generations, Compiled
  <1>3. ASSUME NEW k \in DOMAIN Kind, SyncKind(k)
        PROVE  TypeInv'
    <2>1. observation' \in 0..MaxGen /\ pass' \in Pass /\ pass'.read = pass.read
      <3>1. observation' \in {0, observation} /\ \E b \in BOOLEAN : pass' = [pass EXCEPT !.intact = b]
        BY <1>3, Zenon DEF SyncKind, Invalidate
      <3>. QED
        BY <1>1, <3>1, Zenon
    <2>2. /\ UNCHANGED <<top, seenTop, obj, window, changes, world>> /\ events' \subseteq events
          /\ seen' = [c \in Children |-> IF c \in Kind[k] THEN obj[c] ELSE seen[c]]
      BY <1>3, Zenon DEF SyncKind
    <2>3. seen' \in [Children -> Object]
      BY <2>2, Zenon DEF TypeOK
    <2>. QED
      BY <2>1, <2>2, <2>3, Zenon DEF TypeOK, Generations, Compiled
  <1>4. CASE Expire
    <2>1. 0 \in 0..MaxGen
      BY WorldsAssumption
    <2>. QED
      BY <1>4, <2>1, Zenon DEF Expire, cluster, TypeOK, Generations, Compiled
  <1>5. CASE WindowEnds
    BY <1>5, Zenon DEF WindowEnds, cluster, TypeOK, Generations, Compiled
  <1>6. CASE Change
    <2>1. /\ UNCHANGED <<seenTop, seen, pass, observation, window, world>>
          /\ \/ top.gen < Len(Compiled) /\ top' = [top EXCEPT !.gen = @ + 1] /\ UNCHANGED obj
             \/ UNCHANGED top /\ \E c \in Children, o \in Object : obj' = [obj EXCEPT ![c] = o]
      BY <1>6, ChangeForm, Zenon
    <2>2. changes' \in 0..MaxChanges
      <3>1. changes < world.left /\ changes' = changes + 1
        BY <1>6, Zenon DEF Change
      <3>2. world.left \in 0..MaxChanges /\ changes \in 0..MaxChanges
        BY WorldFacts, Zenon DEF TypeOK
      <3>. QED
        BY <3>1, <3>2, WorldsAssumption
    <2>3. events' \subseteq DOMAIN Kind
      <3>1. Emits /\ events \subseteq DOMAIN Kind
        BY <1>6, Zenon DEF Change, TypeOK
      <3>. QED
        BY <3>1, Zenon DEF Emits
    <2>4. obj' \in [Children -> Object]
      BY <2>1, Zenon DEF TypeOK
    <2>5. top' \in Topology /\ top'.gen <= Len(Compiled) /\ seenTop.gen <= top'.gen
      <3>1. CASE UNCHANGED top
        BY <3>1, Zenon DEF TypeOK, Generations
      <3>2. CASE top.gen < Len(Compiled) /\ top' = [top EXCEPT !.gen = @ + 1]
        <4>1. top.gen + 1 \in 1..MaxGen /\ top.gen + 1 <= Len(Compiled) /\ seenTop.gen <= top.gen + 1
          <5>1. Len(Compiled) \in 1..MaxGen
            BY WorldFacts, Zenon DEF TypeOK, Compiled
          <5>2. /\ top.gen < Len(Compiled) /\ seenTop.gen <= top.gen
                /\ top.gen \in Nat /\ seenTop.gen \in Nat
            BY <3>2, Typed, Zenon DEF Generations
          <5>. QED
            BY <5>1, <5>2, WorldsAssumption
        <4>2. top \in Topology
          BY DEF TypeOK
        <4>3. top' \in Topology /\ top'.gen = top.gen + 1
          BY <3>2, <4>1, <4>2, Zenon DEF Topology
        <4>. QED
          BY <4>1, <4>3, Zenon
      <3>. QED
        BY <2>1, <3>1, <3>2, Zenon
    <2>. QED
      BY <2>1, <2>2, <2>3, <2>4, <2>5, Zenon DEF TypeOK, Generations, Compiled
  <1>. QED
    BY <1>2, <1>3, <1>4, <1>5, <1>6, Zenon

LEMMA InitTyped ==
    ASSUME Init
    PROVE  TypeInv
  <1>1. world \in World
    BY WorldsAssumption, Zenon DEF Init
  <1>2. top \in Topology /\ seenTop \in Topology /\ pass \in Pass
    BY <1>1, Shapes, Zenon DEF Init
  <1>3. obj \in [Children -> Object] /\ seen \in [Children -> Object]
    BY <1>1, Shapes, Zenon DEF Init
  <1>4. top.gen = 1 /\ seenTop.gen = 1 /\ pass.read.gen = 1
    BY Zenon DEF Init, Idle
  <1>5. Len(Compiled) \in 1..MaxGen /\ 0 \in 0..MaxGen /\ 0 \in 0..MaxChanges
    BY <1>1, WorldFacts, WorldsAssumption DEF Compiled
  <1>6. Generations
    BY <1>4, <1>5, WorldsAssumption DEF Generations
  <1>7. events = {} /\ observation = 0 /\ window = FALSE /\ changes = 0
    BY Zenon DEF Init
  <1>. QED
    BY <1>1, <1>2, <1>3, <1>5, <1>6, <1>7, Zenon DEF TypeInv, TypeOK

LEMMA NextTyped ==
    ASSUME TypeInv, [Next]_vars
    PROVE  TypeInv'
  <1>1. CASE RunPass
    BY <1>1, ReconcileTyped, PassTyped, Zenon DEF RunPass
  <1>2. CASE UNCHANGED vars
    BY <1>2, Zenon DEF vars, TypeInv, TypeOK, Generations, Compiled
  <1>. QED
    BY <1>1, <1>2, WorldTyped, Zenon DEF Next

\* Every record the controller writes has its type, and no pass goes by a
\* generation that the Topology does not have (Reconcile).
THEOREM TypeCorrect == Spec => []TypeOK
  <1>1. Spec => []TypeInv
    BY InitTyped, NextTyped, PTL DEF Spec
  <1>. QED
    BY <1>1, PTL DEF TypeInv

-----------------------------------------------------------------------------
(* Objects of users *)

\* The controller never changes or removes an object of a user whose name its
\* Topology wants: what it updates is what it listed as its own, what it creates
\* was not there, and it prunes only names that are not wanted (reconcileEmitted).
THEOREM UserObjectsAreKept == Spec => UserObjectsKept
  <1>1. ASSUME TypeInv, [Next]_vars
        PROVE  [\A c \in Desired(pass.read.gen) :
                  obj[c].owner = "user" /\ changes' = changes => obj'[c] = obj[c]]_vars
    <2>. SUFFICES ASSUME NEW c \in Desired(pass.read.gen), obj[c].owner = "user", changes' = changes
                  PROVE  obj'[c] = obj[c]
      BY Zenon
    <2>1. c \in Children /\ Compiled[pass.read.gen][c] # NoSpec
      BY Zenon DEF Desired
    <2>2. obj[c] # NoObject /\ ~Generated(obj[c])
      BY DEF NoObject, Generated
    <2>3. ASSUME NEW d \in Children, ReconcileChild(d)
          PROVE  obj'[c] = obj[c]
      <3>1. CASE c # d
        <4>1. obj' = obj \/ \E o : obj' = [obj EXCEPT ![d] = o]
          BY <2>3, ReconcileForm, Zenon
        <4>2. obj \in [Children -> Object]
          BY <1>1, Zenon DEF TypeInv, TypeOK
        <4>. QED
          BY <2>1, <3>1, <4>1, <4>2, Zenon
      <3>2. CASE c = d
        BY <2>1, <2>2, <2>3, <3>2, Zenon DEF ReconcileChild
      <3>. QED
        BY <3>1, <3>2, Zenon
    <2>4. CASE Change
      <3>1. changes' = changes + 1
        BY <2>4, Zenon DEF Change
      <3>2. changes \in Nat
        BY <1>1, WorldsAssumption DEF TypeInv, TypeOK
      <3>. QED
        BY <3>1, <3>2
    <2>5. CASE obj' = obj
      BY <2>5, Zenon
    <2>6. obj' = obj \/ Change \/ \E d \in Children : ReconcileChild(d)
      <3>1. CASE BeginPass \/ CheckConflicts \/ EndKind
        BY <3>1, Zenon DEF BeginPass, CheckConflicts, EndKind, cluster
      <3>2. CASE WriteStatus \/ SyncTopology \/ (\E k \in DOMAIN Kind : SyncKind(k))
        BY <3>2, Zenon DEF WriteStatus, SyncTopology, SyncKind
      <3>3. CASE Expire \/ WindowEnds \/ UNCHANGED vars
        BY <3>3, Zenon DEF Expire, WindowEnds, cluster, vars
      <3>. QED
        BY <1>1, <3>1, <3>2, <3>3, Zenon DEF Next, RunPass
    <2>. QED
      BY <2>3, <2>4, <2>5, <2>6, Zenon
  <1>. QED
    BY <1>1, InitTyped, NextTyped, PTL DEF Spec, UserObjectsKept

-----------------------------------------------------------------------------
(* The age of what is listed, cached and there *)

\* Listing, a delivery to the cache and a write of the newest generation keep
\* the order of the three.
LEMMA AgedMoves ==
    ASSUME NEW w, NEW c, NEW l, NEW s, NEW o, NEW m \in Nat, Aged(w, c, l, s, o, m)
    PROVE  /\ Aged(w, c, NoSpec, s, o, m) /\ Aged(w, c, s, s, o, m) /\ Aged(w, c, l, o, o, m)
           /\ Aged(w, c, l, s, At(w, c, m), m)
           /\ \A n \in Nat : m <= n => Aged(w, c, l, s, o, n)
  <1>1. PICK i, j, k \in 0..m : i <= j /\ j <= k /\ l = At(w, c, i) /\ s = At(w, c, j) /\ o = At(w, c, k)
    BY Zenon DEF Aged
  <1>2. /\ 0 \in 0..m /\ m \in 0..m /\ 0 <= j /\ j <= j /\ k <= k /\ j <= m /\ i <= k
        /\ \A n \in Nat : m <= n => i \in 0..n /\ j \in 0..n /\ k \in 0..n
    BY <1>1
  <1>3. NoSpec = At(w, c, 0)
    BY DEF At
  <1>4. Aged(w, c, NoSpec, s, o, m)
    BY <1>1, <1>2, <1>3, Zenon DEF Aged
  <1>5. Aged(w, c, s, s, o, m) /\ Aged(w, c, l, o, o, m)
    BY <1>1, <1>2, Zenon DEF Aged
  <1>6. Aged(w, c, l, s, At(w, c, m), m)
    BY <1>1, <1>2, Zenon DEF Aged
  <1>7. \A n \in Nat : m <= n => Aged(w, c, l, s, o, n)
    BY <1>1, <1>2, Zenon DEF Aged
  <1>. QED
    BY <1>4, <1>5, <1>6, <1>7, Zenon

\* What a cache shows as it is in the generation that is read is so, unless
\* some edit took it back to what it was.
LEMMA NoWayBack ==
    ASSUME NEW c \in Children, NEW l, NEW s, NEW o, NEW m \in 1..Len(Compiled), world \in World,
           Aged(Compiled, c, l, s, o, m), l = Compiled[m][c], l # NoSpec, ~Reverts
    PROVE  o = Compiled[m][c]
  <1>1. PICK i, j, k \in 0..m : i <= j /\ j <= k /\ l = At(Compiled, c, i) /\ s = At(Compiled, c, j) /\ o = At(Compiled, c, k)
    BY Zenon DEF Aged
  <1>2. Len(Compiled) \in Nat /\ DOMAIN Compiled = 1..Len(Compiled)
    BY WorldFacts, WorldsAssumption DEF Compiled
  <1>3. i # 0
    BY <1>1 DEF At
  <1>4. i \in 1..m /\ k \in 1..m /\ i \in DOMAIN Compiled /\ k \in DOMAIN Compiled /\ m \in DOMAIN Compiled /\ k # 0
        /\ (k = i \/ k = m \/ (i < k /\ k < m))
    BY <1>1, <1>2, <1>3
  <1>5. l = Compiled[i][c] /\ o = Compiled[k][c]
    BY <1>1, <1>3, <1>4, Zenon DEF At
  <1>6. ASSUME i < k, k < m, Compiled[k][c] # Compiled[m][c]
        PROVE  Reverts
    <2>1. Compiled[i][c] = Compiled[m][c]
      BY <1>5, Zenon
    <2>. QED
      BY <1>4, <1>6, <2>1, Zenon DEF Reverts
  <1>. QED
    BY <1>4, <1>5, <1>6, Zenon

-----------------------------------------------------------------------------
(* The kind whose turn it is *)

LEMMA KindFacts ==
    /\ DOMAIN Kind = {"profile", "link", "node"} /\ {Order[i] : i \in 1..3} = DOMAIN Kind
    /\ Order[1] = "profile" /\ Order[2] = "link" /\ Order[3] = "node"
    /\ Kind["profile"] = Profiles /\ Kind["link"] = Links /\ Kind["node"] = Nodes
    /\ \A pc : pc \in {"idle", "conflicts", "status"} => ~(pc \in DOMAIN Kind)
  <1>1. DOMAIN Kind = {"profile", "link", "node"}
    BY DEF Kind
  <1>2. Order[1] = "profile" /\ Order[2] = "link" /\ Order[3] = "node"
    BY DEF Order
  <1>3. Kind["profile"] = Profiles /\ Kind["link"] = Links /\ Kind["node"] = Nodes
    BY DEF Kind
  <1>4. {Order[i] : i \in 1..3} = {Order[1], Order[2], Order[3]}
    OBVIOUS
  <1>5. \A pc : pc \in {"idle", "conflicts", "status"} => ~(pc \in {"profile", "link", "node"})
    OBVIOUS
  <1>. QED
    BY <1>1, <1>2, <1>3, <1>4, <1>5, Zenon

\* Where the pass is after the end of a kind
LEMMA EndKindForm ==
    ASSUME EndKind
    PROVE  /\ pass.todo = {} /\ UNCHANGED <<cluster, window>>
           /\ \/ pass.pc = "profile" /\ pass' = ListKind(pass, "link")
              \/ pass.pc = "link" /\ pass' = ListKind(pass, "node")
              \/ pass.pc = "node" /\ pass' = [pass EXCEPT !.pc = "status"]
  <1>1. PICK i \in 1..3 : /\ pass.pc = Order[i]
                          /\ \/ i < 3 /\ pass' = ListKind(pass, Order[i + 1])
                             \/ i = 3 /\ pass' = [pass EXCEPT !.pc = "status"]
    BY Zenon DEF EndKind
  <1>2. (i = 1 /\ i + 1 = 2) \/ (i = 2 /\ i + 1 = 3) \/ (i = 3 /\ ~(i < 3))
    BY <1>1
  <1>3. pass.todo = {} /\ UNCHANGED <<cluster, window>>
    BY Zenon DEF EndKind
  <1>. QED
    BY <1>1, <1>2, <1>3, KindFacts, Zenon

\* What a step does to the pass: it begins, lists a kind, is done with a child,
\* goes on to the status, ends, or keeps its place.
LEMMA PassForm ==
    ASSUME TypeInv, [Next]_vars
    PROVE  \/ /\ pass.pc = "idle" /\ pass'.pc \in {"conflicts", "status"} /\ pass'.todo = {}
              /\ pass'.read = seenTop /\ pass'.list = [c \in Children |-> NoObject]
              /\ UNCHANGED <<obj, seen, seenTop, world>>
           \/ /\ pass.pc # "idle" /\ pass'.todo = pass.todo /\ pass'.list = pass.list
              /\ pass'.read = pass.read /\ pass'.pc = "status" /\ pass.pc \in {"conflicts", "node"}
              /\ pass.todo = {} \/ pass.pc = "conflicts"
              /\ UNCHANGED <<obj, seen, seenTop, world>>
           \/ \E k \in DOMAIN Kind :
                /\ pass.pc = (IF k = "profile" THEN "conflicts" ELSE IF k = "link" THEN "profile" ELSE "link")
                /\ pass.todo = {} \/ pass.pc = "conflicts"
                /\ pass'.pc = k /\ pass'.todo = Kind[k] /\ pass'.list = seen /\ pass'.read = pass.read
                /\ UNCHANGED <<obj, seen, seenTop, world>>
           \/ \E c \in Children : ReconcileChild(c)
           \/ pass' = Idle /\ UNCHANGED <<obj, seen, seenTop, world>>
           \/ /\ pass'.pc = pass.pc /\ pass'.todo = pass.todo /\ pass'.list = pass.list
              /\ pass'.read = pass.read /\ UNCHANGED world
              /\ \/ UNCHANGED <<obj, seenTop>> /\ \A c \in Children : seen'[c] \in {seen[c], obj[c]}
                 \/ UNCHANGED <<obj, seen>> /\ seenTop' = top
                 \/ Change
  <1>1. pass \in Pass /\ seenTop \in Topology /\ seen \in [Children -> Object]
    BY Zenon DEF TypeInv, TypeOK
  <1>2. CASE BeginPass
    <2>1. CASE UNCHANGED pass
      BY <1>2, <2>1, Zenon DEF BeginPass, cluster
    <2>2. ASSUME NEW pc \in {"conflicts", "status"},
                 pass' = [Idle EXCEPT !.pc = pc, !.read = seenTop, !.intact = TRUE]
          PROVE  /\ pass'.pc = pc /\ pass'.todo = {}
                 /\ pass'.read = seenTop /\ pass'.list = [c \in Children |-> NoObject]
      BY <2>2, Zenon DEF Idle
    <2>. QED
      BY <1>2, <2>1, <2>2, Zenon DEF BeginPass, cluster
  <1>3. CASE CheckConflicts
    <2>1. /\ pass.pc = "conflicts" /\ UNCHANGED <<obj, seen, seenTop, world>>
          /\ pass' \in {[pass EXCEPT !.pc = "status", !.error = TRUE], ListKind(pass, "profile")}
      BY <1>3, KindFacts, Zenon DEF CheckConflicts, cluster
    <2>2. ~("conflicts" = "idle")
      OBVIOUS
    <2>3. CASE pass' = [pass EXCEPT !.pc = "status", !.error = TRUE]
      <3>1. /\ pass'.todo = pass.todo /\ pass'.list = pass.list
            /\ pass'.read = pass.read /\ pass'.pc = "status"
        BY <1>1, <2>3, Zenon DEF Pass
      <3>. QED
        BY <2>1, <2>2, <3>1, Zenon
    <2>4. CASE pass' = ListKind(pass, "profile")
      <3>1. /\ pass'.pc = "profile" /\ pass'.todo = Kind["profile"] /\ pass'.list = seen
            /\ pass'.read = pass.read
        BY <1>1, <2>4, Zenon DEF Pass, ListKind
      <3>. QED
        BY <2>1, <3>1, KindFacts, Zenon
    <2>. QED
      BY <2>1, <2>3, <2>4, Zenon
  <1>4. CASE EndKind
    <2>1. /\ UNCHANGED <<obj, seen, seenTop, world>> /\ pass.todo = {}
          /\ \/ pass.pc = "profile" /\ pass' = ListKind(pass, "link")
             \/ pass.pc = "link" /\ pass' = ListKind(pass, "node")
             \/ pass.pc = "node" /\ pass' = [pass EXCEPT !.pc = "status"]
      BY <1>4, EndKindForm, Zenon DEF cluster
    <2>2. ASSUME NEW k \in {"link", "node"}, pass' = ListKind(pass, k)
          PROVE  pass'.pc = k /\ pass'.todo = Kind[k] /\ pass'.list = seen /\ pass'.read = pass.read
      BY <1>1, <2>2, Zenon DEF Pass, ListKind
    <2>3. ~("node" = "idle") /\ ~("link" = "profile") /\ ~("node" = "profile") /\ ~("node" = "link")
      OBVIOUS
    <2>4. CASE pass.pc = "node" /\ pass' = [pass EXCEPT !.pc = "status"]
      <3>1. /\ pass'.todo = pass.todo /\ pass'.list = pass.list
            /\ pass'.read = pass.read /\ pass'.pc = "status"
        BY <1>1, <2>4, Zenon DEF Pass
      <3>. QED
        BY <2>1, <2>3, <2>4, <3>1, Zenon
    <2>5. CASE pass.pc = "profile" /\ pass' = ListKind(pass, "link")
      <3>1. pass'.pc = "link" /\ pass'.todo = Kind["link"] /\ pass'.list = seen /\ pass'.read = pass.read
        BY <2>2, <2>5, Zenon
      <3>. QED
        BY <2>1, <2>3, <2>5, <3>1, KindFacts, Zenon
    <2>6. CASE pass.pc = "link" /\ pass' = ListKind(pass, "node")
      <3>1. pass'.pc = "node" /\ pass'.todo = Kind["node"] /\ pass'.list = seen /\ pass'.read = pass.read
        BY <2>2, <2>6, Zenon
      <3>. QED
        BY <2>1, <2>3, <2>6, <3>1, KindFacts, Zenon
    <2>. QED
      BY <2>1, <2>4, <2>5, <2>6, Zenon
  <1>5. CASE WriteStatus
    BY <1>5, Zenon DEF WriteStatus
  <1>6. ASSUME NEW b, pass' = [pass EXCEPT !.intact = b]
        PROVE  /\ pass'.pc = pass.pc /\ pass'.todo = pass.todo /\ pass'.list = pass.list
               /\ pass'.read = pass.read
    BY <1>1, <1>6, Zenon DEF Pass
  <1>7. CASE SyncTopology
    <2>1. \E b : pass' = [pass EXCEPT !.intact = b]
      BY <1>7, Zenon DEF SyncTopology, Invalidate
    <2>. QED
      BY <1>6, <1>7, <2>1, Zenon DEF SyncTopology
  <1>8. ASSUME NEW k \in DOMAIN Kind, SyncKind(k)
        PROVE  /\ pass'.pc = pass.pc /\ pass'.todo = pass.todo /\ pass'.list = pass.list
               /\ pass'.read = pass.read /\ UNCHANGED <<obj, seenTop, world>>
               /\ \A c \in Children : seen'[c] \in {seen[c], obj[c]}
    <2>1. \E b : pass' = [pass EXCEPT !.intact = b]
      BY <1>8, Zenon DEF SyncKind, Invalidate
    <2>2. UNCHANGED <<obj, seenTop, world>> /\ \A c \in Children : seen'[c] \in {seen[c], obj[c]}
      BY <1>8, Zenon DEF SyncKind
    <2>. QED
      BY <1>6, <2>1, <2>2, Zenon
  <1>9. CASE Expire \/ WindowEnds \/ UNCHANGED vars
    BY <1>9, Zenon DEF Expire, WindowEnds, cluster, vars
  <1>10. CASE Change
    BY <1>10, Zenon DEF Change
  <1>. QED
    BY <1>2, <1>3, <1>4, <1>5, <1>7, <1>8, <1>9, <1>10, Zenon DEF Next, RunPass

LEMMA IdleFields ==
    /\ Idle.pc = "idle" /\ Idle.todo = {} /\ Idle.list = [c \in Children |-> NoObject] /\ Idle.read.gen = 1
    /\ ~("idle" \in DOMAIN Kind)
  <1>1. /\ Idle.pc = "idle" /\ Idle.todo = {} /\ Idle.list = [c \in Children |-> NoObject]
        /\ Idle.read.gen = 1
    BY Zenon DEF Idle
  <1>. QED
    BY <1>1, KindFacts, Zenon

\* After a child, the pass has one name less to handle, or it ended.
LEMMA ReconcilePass ==
    ASSUME TypeInv, NEW c \in Children, ReconcileChild(c), pass' # Idle
    PROVE  /\ pass'.pc = pass.pc /\ pass'.read = pass.read /\ pass'.list = pass.list
           /\ pass'.todo = pass.todo \ {c}
  <1>1. pass' = [pass EXCEPT !.todo = @ \ {c}] /\ pass \in Pass
    BY ReconcileForm, Zenon DEF TypeInv, TypeOK
  <1>. QED
    BY <1>1, Zenon DEF Pass

LEMMA TodoStep ==
    ASSUME TypeInv, TodoOfKind, [Next]_vars
    PROVE  TodoOfKind'
  <1>. USE DEF TodoOfKind
  <1>1. CASE pass' = Idle
    BY <1>1, IdleFields, Zenon
  <1>2. ASSUME NEW c \in Children, ReconcileChild(c)
        PROVE  TodoOfKind'
    BY <1>1, <1>2, ReconcilePass, Zenon
  <1>3. CASE pass'.pc = pass.pc /\ pass'.todo = pass.todo
    BY <1>3, Zenon
  <1>4. CASE pass'.pc \in {"conflicts", "status"} /\ pass'.todo = {}
    BY <1>4, KindFacts, Zenon
  <1>5. CASE pass'.pc = "status" /\ pass'.todo = pass.todo /\ (pass.todo = {} \/ pass.pc = "conflicts")
    BY <1>5, KindFacts, Zenon
  <1>6. CASE \E k \in DOMAIN Kind : pass'.pc = k /\ pass'.todo = Kind[k]
    BY <1>6, Zenon
  <1>. QED
    BY <1>1, <1>2, <1>3, <1>4, <1>5, <1>6, PassForm, Zenon

LEMMA NothingIsOurs == NoObject.spec = NoSpec /\ Ours(NoObject) /\ ~Generated(NoObject)
  <1>1. NoObject.spec = NoSpec /\ NoObject.owner = "nobody"
    BY Zenon DEF NoObject
  <1>2. ~Generated(NoObject)
    BY <1>1 DEF Generated
  <1>. QED
    BY <1>1, <1>2, Zenon DEF Ours

\* The new object of a child is one of the Topology, with the spec that the
\* pass wants, or none.
LEMMA ReconcileOurs ==
    ASSUME TypeInv, History, NEW c \in Children, ReconcileChild(c), obj' # obj
    PROVE  /\ Ours(obj'[c]) /\ obj'[c].spec = Compiled[pass.read.gen][c]
           /\ \A d \in Children : d # c => obj'[d] = obj[d]
           /\ pass' = [pass EXCEPT !.todo = @ \ {c}]
  <1>. DEFINE want == Compiled[pass.read.gen][c]
              have == IF Generated(pass.list[c]) THEN pass.list[c].spec ELSE NoSpec
              fresh == [owner |-> "topology", uid |-> changes, spec |-> want, ready |-> FALSE]
  <1>1. obj \in [Children -> Object] /\ obj[c] \in Object
    BY ReconcileForm, Zenon DEF TypeInv, TypeOK
  <1>2. /\ pass' = [pass EXCEPT !.todo = @ \ {c}]
        /\ \/ want # NoSpec /\ obj' = [obj EXCEPT ![c] = fresh]
           \/ have # NoSpec /\ want # NoSpec /\ obj[c] = pass.list[c] /\ obj' = [obj EXCEPT ![c].spec = want]
           \/ want = NoSpec /\ obj' = [obj EXCEPT ![c] = NoObject]
    BY Zenon DEF ReconcileChild
  <1>3. \A d \in Children : d # c => obj'[d] = obj[d]
    BY <1>1, <1>2, Zenon
  <1>4. CASE want # NoSpec /\ obj' = [obj EXCEPT ![c] = fresh]
    <2>1. obj'[c] = fresh
      BY <1>1, <1>4, Zenon
    <2>2. fresh.owner = "topology" /\ fresh.spec = want
      BY Zenon
    <2>. QED
      BY <1>2, <1>3, <1>4, <2>1, <2>2, Zenon DEF Ours, Generated
  <1>5. CASE /\ have # NoSpec /\ want # NoSpec /\ obj[c] = pass.list[c]
             /\ obj' = [obj EXCEPT ![c].spec = want]
    <2>1. obj'[c] = [obj[c] EXCEPT !.spec = want] /\ obj[c].owner = "topology"
      BY <1>1, <1>5, Zenon DEF Generated
    <2>2. obj'[c].owner = "topology" /\ obj'[c].spec = want
      BY <1>1, <2>1, Zenon DEF Object
    <2>. QED
      BY <1>2, <1>3, <1>5, <2>2, Zenon DEF Ours, Generated
  <1>6. CASE want = NoSpec /\ obj' = [obj EXCEPT ![c] = NoObject]
    <2>1. obj'[c] = NoObject
      BY <1>1, <1>6, Zenon
    <2>2. NoObject.spec = NoSpec /\ Ours(NoObject)
      BY NothingIsOurs, Zenon
    <2>. QED
      BY <1>2, <1>3, <1>6, <2>1, <2>2, Zenon
  <1>. QED
    BY <1>2, <1>4, <1>5, <1>6, Zenon

LEMMA WorldStays ==
    ASSUME [Next]_vars
    PROVE  UNCHANGED world
  <1>1. CASE RunPass
    <2>1. CASE BeginPass \/ CheckConflicts \/ EndKind \/ WriteStatus
      BY <2>1, Zenon DEF BeginPass, CheckConflicts, EndKind, WriteStatus, cluster
    <2>. QED
      BY <1>1, <2>1, ReconcileForm, Zenon DEF RunPass
  <1>2. CASE SyncTopology \/ (\E k \in DOMAIN Kind : SyncKind(k)) \/ Change
    BY <1>2, Zenon DEF SyncTopology, SyncKind, Change
  <1>3. CASE Expire \/ WindowEnds \/ UNCHANGED vars
    BY <1>3, Zenon DEF Expire, WindowEnds, cluster, vars
  <1>. QED
    BY <1>1, <1>2, <1>3, Zenon DEF Next

LEMMA HistoryStep ==
    ASSUME ChildrenInv, Untouched, [Next]_vars
    PROVE  History'
  <1>1. TypeInv /\ TodoOfKind /\ History
    BY Zenon DEF ChildrenInv
  <1>2. TypeInv' /\ seenTop'.gen \in Nat /\ seenTop.gen \in Nat /\ seenTop.gen <= top.gen
    BY <1>1, NextTyped, Typed DEF TypeInv, TypeOK, Topology, Generations
  <1>3. Newest \in Nat /\ Newest <= seenTop.gen
    <2>1. Newest \in {seenTop.gen, pass.read.gen}
      BY DEF Newest
    <2>. QED
      BY <1>1, <2>1, Typed DEF TypeInv, Generations
  <1>4. Compiled' = Compiled
    BY WorldStays, Zenon DEF Compiled
  <1>. SUFFICES ASSUME NEW c \in Children
                PROVE  /\ Ours(obj'[c]) /\ Ours(seen'[c]) /\ Ours(pass'.list[c])
                       /\ Aged(Compiled, c, pass'.list[c].spec, seen'[c].spec, obj'[c].spec, Newest')
    BY <1>4, Zenon DEF History
  <1>5. /\ Ours(obj[c]) /\ Ours(seen[c]) /\ Ours(pass.list[c])
        /\ Aged(Compiled, c, pass.list[c].spec, seen[c].spec, obj[c].spec, Newest)
    BY <1>1, Zenon DEF History
  <1>6. /\ Aged(Compiled, c, NoSpec, seen[c].spec, obj[c].spec, Newest)
        /\ Aged(Compiled, c, seen[c].spec, seen[c].spec, obj[c].spec, Newest)
        /\ Aged(Compiled, c, pass.list[c].spec, obj[c].spec, obj[c].spec, Newest)
        /\ Aged(Compiled, c, pass.list[c].spec, seen[c].spec, At(Compiled, c, Newest), Newest)
    BY <1>3, <1>5, AgedMoves, Zenon
  <1>7. \A n \in Nat : Newest <= n =>
           /\ Aged(Compiled, c, pass.list[c].spec, seen[c].spec, obj[c].spec, n)
           /\ Aged(Compiled, c, NoSpec, seen[c].spec, obj[c].spec, n)
    BY <1>3, <1>5, <1>6, AgedMoves, Zenon
  <1>8. NoObject.spec = NoSpec /\ Ours(NoObject)
    BY NothingIsOurs, Zenon
  <1>9. CASE pass' = Idle /\ UNCHANGED <<obj, seen, seenTop>>
    <2>1. pass'.list[c] = NoObject /\ Newest' = seenTop.gen
      BY <1>9, IdleFields, Zenon DEF Newest
    <2>. QED
      BY <1>2, <1>3, <1>5, <1>7, <1>8, <1>9, <2>1, Zenon
  <1>10. ASSUME NEW d \in Children, ReconcileChild(d)
         PROVE  /\ Ours(obj'[c]) /\ Ours(seen'[c]) /\ Ours(pass'.list[c])
                /\ Aged(Compiled, c, pass'.list[c].spec, seen'[c].spec, obj'[c].spec, Newest')
    <2>1. UNCHANGED <<seen, seenTop>> /\ d \in pass.todo
      BY <1>10, ReconcileForm, Zenon
    <2>2. pass.pc # "idle" /\ Newest = pass.read.gen
      BY <1>1, <2>1, IdleFields, Zenon DEF TodoOfKind, Newest
    <2>3. pass' # Idle => pass'.list = pass.list /\ Newest' = Newest
      BY <1>1, <1>10, <2>2, ReconcilePass, Zenon DEF Newest
    <2>4. CASE obj' = obj
      BY <1>5, <1>9, <2>1, <2>3, <2>4, Zenon
    <2>5. CASE obj' # obj
      <3>1. /\ Ours(obj'[d]) /\ obj'[d].spec = Compiled[pass.read.gen][d]
            /\ c # d => obj'[c] = obj[c]
            /\ pass' = [pass EXCEPT !.todo = @ \ {d}]
        BY <1>1, <1>10, <2>5, ReconcileOurs, Zenon
      <3>2. pass'.list = pass.list /\ Newest' = Newest
        <4>1. pass \in Pass
          BY <1>1, Zenon DEF TypeInv, TypeOK
        <4>2. pass'.list = pass.list /\ pass'.pc = pass.pc /\ pass'.read = pass.read
          BY <3>1, <4>1, Zenon DEF Pass
        <4>. QED
          BY <2>1, <4>2, Zenon DEF Newest
      <3>3. At(Compiled, d, Newest) = Compiled[pass.read.gen][d]
        <4>1. pass.read.gen # 0
          BY <1>1, Typed DEF TypeInv
        <4>. QED
          BY <2>2, <4>1, Zenon DEF At
      <3>. QED
        BY <1>5, <1>6, <2>1, <3>1, <3>2, <3>3, Zenon
    <2>. QED
      BY <2>4, <2>5, Zenon
  <1>11. CASE /\ pass.pc = "idle" /\ pass'.pc \in {"conflicts", "status"}
              /\ pass'.read = seenTop /\ pass'.list = [x \in Children |-> NoObject]
              /\ UNCHANGED <<obj, seen, seenTop>>
    <2>1. pass'.list[c] = NoObject /\ pass'.pc # "idle"
      BY <1>11
    <2>2. Newest' = Newest
      BY <1>11, <2>1, Zenon DEF Newest
    <2>. QED
      BY <1>5, <1>6, <1>8, <1>11, <2>1, <2>2, Zenon
  <1>12. CASE /\ pass.pc # "idle" /\ pass'.pc # "idle" /\ pass'.read = pass.read
              /\ pass'.list \in {pass.list, seen} /\ UNCHANGED <<obj, seen, seenTop>>
    <2>1. Newest' = Newest
      BY <1>12, Zenon DEF Newest
    <2>. QED
      BY <1>5, <1>6, <1>12, <2>1, Zenon
  <1>13. CASE /\ pass'.pc = pass.pc /\ pass'.list = pass.list /\ pass'.read = pass.read
              /\ UNCHANGED <<obj, seenTop>> /\ seen'[c] \in {seen[c], obj[c]}
    <2>1. Newest' = Newest
      BY <1>13, Zenon DEF Newest
    <2>. QED
      BY <1>5, <1>6, <1>13, <2>1, Zenon
  <1>14. CASE /\ pass'.pc = pass.pc /\ pass'.list = pass.list /\ pass'.read = pass.read
              /\ UNCHANGED <<obj, seen>> /\ seenTop' = top
    <2>1. Newest' = Newest \/ (Newest = seenTop.gen /\ Newest' = seenTop'.gen)
      BY <1>14, Zenon DEF Newest
    <2>2. Newest' \in Nat /\ Newest <= Newest'
      BY <1>2, <1>3, <1>14, <2>1
    <2>. QED
      BY <1>5, <1>7, <1>14, <2>2, Zenon
  <1>15. CASE Change
    <2>1. /\ UNCHANGED <<seenTop, seen, pass>>
          /\ obj' = obj \/ \E d \in Children : /\ Generated(obj[d])
                                               /\ obj' = [obj EXCEPT ![d] = [obj[d] EXCEPT !.ready = ~@]]
      BY <1>1, <1>15, ChangeForm, Zenon DEF Untouched
    <2>2. Newest' = Newest
      BY <2>1, Zenon DEF Newest
    <2>3. obj \in [Children -> Object] /\ obj[c] \in Object
      BY <1>1, Zenon DEF TypeInv, TypeOK
    <2>4. obj'[c] = obj[c] \/ (Generated(obj[c]) /\ obj'[c] = [obj[c] EXCEPT !.ready = ~@])
      BY <2>1, <2>3, Zenon
    <2>5. obj'[c].spec = obj[c].spec /\ Ours(obj'[c])
      <3>1. CASE Generated(obj[c]) /\ obj'[c] = [obj[c] EXCEPT !.ready = ~@]
        <4>1. obj'[c].spec = obj[c].spec /\ obj'[c].owner = obj[c].owner
          BY <2>3, <3>1, Zenon DEF Object
        <4>. QED
          BY <1>5, <3>1, <4>1, Zenon DEF Ours, Generated
      <3>. QED
        BY <1>5, <2>4, <3>1, Zenon
    <2>. QED
      BY <1>5, <2>1, <2>2, <2>5, Zenon
  <1>16. /\ \A k \in DOMAIN Kind : k # "idle"
         /\ ~("conflicts" = "idle") /\ ~("profile" = "idle") /\ ~("link" = "idle") /\ ~("status" = "idle")
    BY IdleFields
  <1>. QED
    BY <1>1, <1>9, <1>10, <1>11, <1>12, <1>13, <1>14, <1>15, <1>16, PassForm, Zenon

-----------------------------------------------------------------------------
(* Kind after kind *)

LEMMA InPlaceStep ==
    ASSUME ChildrenInv, Untouched, ~Reverts, [Next]_vars
    PROVE  InPlace'
  <1>1. TypeInv /\ TodoOfKind /\ History /\ InPlace
    BY Zenon DEF ChildrenInv
  <1>2. UNCHANGED world /\ Compiled' = Compiled
    BY WorldStays, Zenon DEF Compiled
  <1>3. ASSUME NEW g
        PROVE  Desired(g)' = Desired(g)
    BY <1>2, Zenon DEF Desired
  <1>. SUFFICES ASSUME NEW c, c \in Handled', c \in Desired(pass'.read.gen)
                PROVE  obj'[c].spec = Compiled[pass'.read.gen][c]
    BY <1>2, <1>3, Zenon DEF InPlace, Desired
  <1>4. c \in Children /\ Compiled[pass'.read.gen][c] # NoSpec
    BY Zenon DEF Desired
  <1>5. CASE ~(pass'.pc \in DOMAIN Kind)
    <2>1. ~(pass'.pc \in {"link", "node"}) /\ pass'.pc # "node"
      BY <1>5, KindFacts, Zenon
    <2>. QED
      BY <1>5, <2>1, Zenon DEF Handled
  <1>6. ASSUME pass'.pc = pass.pc, pass'.todo = pass.todo, pass'.read = pass.read,
               obj'[c].spec = obj[c].spec
        PROVE  obj'[c].spec = Compiled[pass'.read.gen][c]
    <2>1. c \in Handled
      BY <1>6, Zenon DEF Handled
    <2>. QED
      BY <1>1, <1>6, <2>1, Zenon DEF InPlace
  <1>7. ASSUME NEW d \in Children, ReconcileChild(d)
        PROVE  obj'[c].spec = Compiled[pass'.read.gen][c]
    <2>1. CASE pass' = Idle
      BY <1>5, <2>1, IdleFields, Zenon
    <2>2. CASE pass' # Idle
      <3>1. /\ pass'.pc = pass.pc /\ pass'.read = pass.read /\ pass'.list = pass.list
            /\ pass'.todo = pass.todo \ {d}
        BY <1>1, <1>7, <2>2, ReconcilePass, Zenon
      <3>2. CASE c # d
        <4>1. obj'[c] = obj[c]
          BY <1>1, <1>4, <1>7, <3>2, ReconcileOurs, Zenon
        <4>2. c \in Handled
          BY <3>1, <3>2, Zenon DEF Handled
        <4>. QED
          BY <1>1, <3>1, <4>1, <4>2, Zenon DEF InPlace
      <3>3. CASE c = d /\ obj' # obj
        BY <1>1, <1>7, <3>1, <3>3, ReconcileOurs, Zenon
      <3>4. CASE c = d /\ obj' = obj
        <4>. DEFINE want == Compiled[pass.read.gen][c]
                    fresh == [owner |-> "topology", uid |-> changes, spec |-> want, ready |-> FALSE]
        <4>1. \/ Generated(pass.list[c]) /\ pass.list[c].spec = want
              \/ obj' = [obj EXCEPT ![c] = fresh]
              \/ obj' = [obj EXCEPT ![c].spec = want]
          BY <1>4, <1>7, <2>2, <3>1, <3>4, Zenon DEF ReconcileChild
        <4>6. obj \in [Children -> Object] /\ obj[c] \in Object /\ fresh.spec = want
          BY <1>1, <1>4, Zenon DEF TypeInv, TypeOK
        <4>7. CASE obj' = [obj EXCEPT ![c] = fresh]
          BY <1>4, <3>1, <4>6, <4>7, Zenon
        <4>8. CASE obj' = [obj EXCEPT ![c].spec = want]
          <5>1. obj'[c] = [obj[c] EXCEPT !.spec = want]
            BY <1>4, <4>6, <4>8, Zenon
          <5>2. obj'[c].spec = want
            BY <4>6, <5>1, Zenon DEF Object
          <5>. QED
            BY <3>1, <5>2, Zenon
        <4>2. pass.read.gen \in 1..Len(Compiled) /\ world \in World
          BY <1>1, Typed DEF TypeInv, TypeOK, Generations
        <4>3. pass.pc # "idle" /\ Newest = pass.read.gen
          <5>1. d \in pass.todo
            BY <1>7, ReconcileForm, Zenon
          <5>. QED
            BY <1>1, <5>1, IdleFields, Zenon DEF TodoOfKind, Newest
        <4>4. Aged(Compiled, c, pass.list[c].spec, seen[c].spec, obj[c].spec, pass.read.gen)
          BY <1>1, <1>4, <4>3, Zenon DEF History
        <4>5. CASE Generated(pass.list[c]) /\ pass.list[c].spec = want
          <5>1. obj[c].spec = want
            BY <1>4, <3>1, <4>2, <4>4, <4>5, NoWayBack, Zenon
          <5>. QED
            BY <3>1, <3>4, <5>1, Zenon
        <4>. QED
          BY <4>1, <4>5, <4>7, <4>8, Zenon
      <3>. QED
        BY <3>2, <3>3, <3>4, Zenon
    <2>. QED
      BY <2>1, <2>2, Zenon
  <1>8. ASSUME NEW k \in DOMAIN Kind, pass.todo = {} \/ pass.pc = "conflicts",
               pass.pc = (IF k = "profile" THEN "conflicts" ELSE IF k = "link" THEN "profile" ELSE "link"),
               pass'.pc = k, pass'.todo = Kind[k], pass'.read = pass.read, obj' = obj
        PROVE  obj'[c].spec = Compiled[pass'.read.gen][c]
    <2>1. ~(c \in Kind[k] \ pass'.todo)
      BY <1>8, Zenon
    <2>2. CASE k = "profile"
      BY <1>8, <2>1, <2>2, KindFacts DEF Handled
    <2>3. CASE k = "link"
      <3>1. pass.pc = "profile" /\ pass.todo = {} /\ c \in Profiles
        BY <1>8, <2>1, <2>3, KindFacts DEF Handled
      <3>2. c \in Handled
        BY <3>1, KindFacts, Zenon DEF Handled
      <3>. QED
        BY <1>1, <1>8, <3>2, Zenon DEF InPlace
    <2>4. CASE k = "node"
      <3>1. pass.pc = "link" /\ pass.todo = {} /\ c \in Profiles \union Links
        BY <1>8, <2>1, <2>4, KindFacts DEF Handled
      <3>2. c \in Handled
        BY <3>1, KindFacts, Zenon DEF Handled
      <3>. QED
        BY <1>1, <1>8, <3>2, Zenon DEF InPlace
    <2>. QED
      BY <2>2, <2>3, <2>4, KindFacts, Zenon
  <1>9. CASE Change
    <2>1. /\ UNCHANGED pass
          /\ obj' = obj \/ \E d \in Children : obj' = [obj EXCEPT ![d] = [obj[d] EXCEPT !.ready = ~@]]
      BY <1>1, <1>9, ChangeForm, Zenon DEF Untouched
    <2>2. obj \in [Children -> Object] /\ obj[c] \in Object
      BY <1>1, <1>4, Zenon DEF TypeInv, TypeOK
    <2>3. obj'[c] = obj[c] \/ obj'[c] = [obj[c] EXCEPT !.ready = ~@]
      BY <1>4, <2>1, <2>2, Zenon
    <2>4. obj'[c].spec = obj[c].spec
      BY <2>2, <2>3, Zenon DEF Object
    <2>. QED
      BY <1>6, <2>1, <2>4, Zenon
  <1>10. CASE pass' = Idle \/ pass'.pc \in {"conflicts", "status"}
    BY <1>5, <1>10, IdleFields, KindFacts, Zenon
  <1>. QED
    BY <1>1, <1>6, <1>7, <1>8, <1>9, <1>10, PassForm, Zenon

LEMMA ChildrenStep ==
    ASSUME ChildrenInv, [Next]_vars
    PROVE  ChildrenInv'
  <1>1. TypeInv' /\ TodoOfKind'
    BY NextTyped, TodoStep, Zenon DEF ChildrenInv
  <1>2. (Untouched' => Untouched) /\ (Reverts => Reverts')
    <2>1. world' = world /\ Compiled' = Compiled
      BY WorldStays, Zenon DEF Compiled
    <2>2. Reverts => Reverts'
      BY <2>1 DEF Reverts
    <2>. QED
      BY <2>1, <2>2, Zenon DEF Untouched
  <1>. QED
    BY <1>1, <1>2, HistoryStep, InPlaceStep, Zenon DEF ChildrenInv

LEMMA ChildrenInit ==
    ASSUME Init
    PROVE  ChildrenInv
  <1>1. TypeInv /\ pass = Idle /\ obj = [c \in Children |-> NoObject] /\ seen = obj
    BY InitTyped, Zenon DEF Init
  <1>2. TodoOfKind
    BY <1>1, IdleFields, Zenon DEF TodoOfKind
  <1>3. ASSUME NEW c \in Children
        PROVE  /\ Ours(obj[c]) /\ Ours(seen[c]) /\ Ours(pass.list[c])
               /\ Aged(Compiled, c, pass.list[c].spec, seen[c].spec, obj[c].spec, Newest)
    <2>1. obj[c] = NoObject /\ seen[c] = NoObject /\ pass.list[c] = NoObject
      BY <1>1, IdleFields, Zenon
    <2>2. Newest = seenTop.gen
      BY <1>1, IdleFields, Zenon DEF Newest
    <2>3. 0 \in 0..Newest /\ 0 <= 0
      BY <1>1, <2>2, Typed DEF TypeInv
    <2>4. NoSpec = At(Compiled, c, 0)
      BY DEF At
    <2>5. Aged(Compiled, c, NoSpec, NoSpec, NoSpec, Newest)
      BY <2>3, <2>4, Zenon DEF Aged
    <2>. QED
      BY <2>1, <2>5, NothingIsOurs, Zenon
  <1>4. InPlace
    <2>1. Handled = {}
      BY <1>1, IdleFields, KindFacts DEF Handled
    <2>. QED
      BY <2>1, Zenon DEF InPlace
  <1>. QED
    BY <1>1, <1>2, <1>3, <1>4, Zenon DEF ChildrenInv, History

\* Where users touch nothing but the Topology and take no edit back, a Node is
\* created only when the NodeProfiles and Links of its generation are in place,
\* however old the caches are that a pass lists (the order of Reconcile).
THEOREM NodesComeLast == Spec => WiringFirst
  <1>1. ASSUME ChildrenInv, [Next]_vars
        PROVE  [world.kinds \subseteq {"edit", "ready", "unready"} /\ ~Reverts =>
                  \A n \in Nodes : ~Generated(obj[n]) /\ Generated(obj'[n]) =>
                    \A c \in Desired(pass.read.gen) \ Nodes :
                       obj[c].spec = Compiled[pass.read.gen][c]]_vars
    <2>. SUFFICES ASSUME Untouched, ~Reverts, NEW n \in Nodes, ~Generated(obj[n]), Generated(obj'[n]),
                         NEW c \in Desired(pass.read.gen) \ Nodes
                  PROVE  obj[c].spec = Compiled[pass.read.gen][c]
      BY Zenon DEF Untouched
    <2>1. TypeInv /\ TodoOfKind /\ InPlace /\ History /\ n \in Children
      BY <1>1, Zenon DEF ChildrenInv, Children
    <2>2. ASSUME NEW d \in Children, ReconcileChild(d)
          PROVE  obj[c].spec = Compiled[pass.read.gen][c]
      <3>1. d = n /\ d \in pass.todo
        BY <2>1, <2>2, ReconcileForm, ReconcileOurs, Zenon
      <3>2. pass.pc \in DOMAIN Kind /\ n \in Kind[pass.pc]
        BY <2>1, <3>1, Zenon DEF TodoOfKind
      <3>3. pass.pc = "node"
        BY <3>2, KindFacts, ChildrenAssumption, Zenon
      <3>4. c \in Profiles \union Links
        BY Zenon DEF Desired, Children
      <3>5. c \in Handled
        BY <3>3, <3>4, Zenon DEF Handled
      <3>. QED
        BY <2>1, <3>5, Zenon DEF InPlace
    <2>3. CASE Change
      <3>1. obj' = obj \/ \E d \in Children : /\ Generated(obj[d])
                                             /\ obj' = [obj EXCEPT ![d] = [obj[d] EXCEPT !.ready = ~@]]
        BY <2>1, <2>3, ChangeForm, Zenon DEF Untouched
      <3>2. obj \in [Children -> Object]
        BY <2>1, Zenon DEF TypeInv, TypeOK
      <3>3. obj'[n] = obj[n]
        BY <2>1, <3>1, <3>2, Zenon
      <3>. QED
        BY <3>3, Zenon
    <2>4. CASE obj' = obj
      BY <2>4, Zenon
    <2>. QED
      BY <1>1, <2>1, <2>2, <2>3, <2>4, PassForm, Zenon
  <1>. QED
    BY <1>1, ChildrenInit, ChildrenStep, PTL DEF Spec, WiringFirst

=============================================================================
