------------------------- MODULE ControlPlaneProofs -------------------------
(***************************************************************************)
(* What overlapping managers do to state they share, for any number of     *)
(* them: to the Links (LinkController), and to the Config (Manager).       *)
(***************************************************************************)
EXTENDS LinkController, Manager, WellFoundedInduction, TLAPS

-----------------------------------------------------------------------------
(***************************************************************************)
(* The link controller, for every number of Links, Nodes and overlapping   *)
(* managers: no two Links share a wire id, a Link is deleted only when its *)
(* Node is gone now, says Accepted only when it is bound, and keeps its id.*)
(*                                                                         *)
(* That a deletion is due: it is decided from two lists, and goes by the   *)
(* version of one of them.  Fresh says what that stands for; AllListed says*)
(* why a Node list that is older than the deletion does no harm: a Node    *)
(* made since the list was taken has a UID no binding of the list knows.   *)
(*                                                                         *)
(* A pass reallocates an id that is out of range or that a smaller-named   *)
(* Link holds too.  Ranged and the uniqueness of the snapshot's ids rule   *)
(* both out, and Fresh says that the id the pass keeps is the Link's.      *)
(***************************************************************************)

\* Every non-empty set of naturals has a lowest element, and Lowest is it.
LEMMA LowestIsMinimum ==
    ASSUME NEW S \in SUBSET Nat, S # {}
    PROVE  Lowest(S) \in S /\ \A y \in S : Lowest(S) <= y
  <1>1. PICK x \in S : \A y \in S : ~(<<y, x>> \in OpToRel(<, Nat))
    BY NatLessThanWellFounded, WFMin, Zenon
  <1>2. \A y \in S : (y < x) => <<y, x>> \in OpToRel(<, Nat)
    BY Zenon DEF OpToRel
  <1>3. \A y \in S : ~(y < x)
    BY <1>1, <1>2, Zenon
  <1>4. \A y \in S : x <= y
    BY <1>3
  <1>. QED
    BY <1>4, Zenon DEF Lowest

\* The link an endpoint conflict names is another link, with a smaller name.
LEMMA ConflictType ==
    ASSUME NEW ls \in [LinkNames -> Link], NEW ns, NEW l \in LinkNames
    PROVE  Conflict(ls, ns, l) \in LinkNames \cup {0}
  <1> DEFINE specs == [k \in DOMAIN ls |-> ls[k].spec]
             cands == {k \in Present(ls) : EndpointsResolve(ls[k].spec, ns)}
             owners == EndpointOwners(specs, cands, l - 1)
  <1>1. owners \subseteq LinkNames
    BY NLinksAssumption DEF EndpointOwners, LinkNames
  <1>2. \A e : OwnerOf(specs, owners, e) \in LinkNames \cup {0}
    BY <1>1, Zenon DEF OwnerOf
  <1>. QED
    BY <1>2, Zenon DEF Conflict, ConflictingLink

LEMMA NoLinkType == NoLink \in Link /\ NoLink.status = EmptyStatus /\ IdlePass \in Pass
  <1>1. AnySpec \in Specs
    BY SpecsAssumption, Zenon DEF AnySpec
  <1>2. EmptyStatus \in Status
    BY MaxWireIDAssumption DEF EmptyStatus, Status, WireIDs, Binding, Condition, Reasons, NoDetail
  <1>3. NoLink \in Link
    BY <1>1, <1>2, Zenon DEF NoLink, Link
  <1>4. NoLink.status = EmptyStatus
    BY Zenon DEF NoLink
  <1>5. NoNodeObject \in Node
    BY Zenon DEF NoNodeObject, Node
  <1>. QED
    BY <1>3, <1>4, <1>5 DEF IdlePass, Pass

LEMMA BoundType ==
    ASSUME NEW link \in Link, NEW ns \in [NodeNames -> Node]
    PROVE  ResolvedEndpoints(link, ns) \in Binding
  <1>1. link.spec \in Specs /\ link.status.bound \in Binding
    BY Zenon DEF Link, Status
  <1>2. /\ link.spec.a.node \in NodeNames \cup {Host}
        /\ link.spec.b.node \in NodeNames \cup {Host}
    BY <1>1, SpecsAssumption, Zenon
  <1>3. \A n \in NodeNames \cup {Host} : UIDOf(ns, n) \in Nat
    BY Zenon DEF UIDOf, Node
  <1>. QED
    BY <1>1, <1>2, <1>3, Zenon DEF ResolvedEndpoints, Binding

LEMMA ConditionType ==
    ASSUME NEW p \in Pass, NEW l \in LinkNames
    PROVE  DesiredCondition(p, l) \in Condition
  <1> DEFINE spec == p.links[l].spec
             conflict == Conflict(p.links, p.nodes, l)
  <1>1. spec \in Specs /\ p.links \in [LinkNames -> Link] /\ p.nodes \in [NodeNames -> Node]
    BY Zenon DEF Pass, Link
  <1>2. /\ spec.a.node \in NodeNames \cup {Host}
        /\ spec.b.node \in NodeNames \cup {Host}
    BY <1>1, SpecsAssumption, Zenon
  <1>3. conflict \in LinkNames \cup {0}
    BY <1>1, ConflictType, Zenon
  <1>4. ~EndpointsResolve(spec, p.nodes) => MissingNode(spec, p.nodes) \in NodeNames
    BY <1>2 DEF EndpointsResolve, MissingNode, NodeEndpoints, Endpoints
  <1>. HIDE DEF spec, conflict
  <1>. QED
    BY <1>3, <1>4, Zenon DEF DesiredCondition, Condition, Reasons, NoDetail, spec, conflict

\* An allocation that is not exhausted takes an id in range, not below the scan
\* position, that no other Link of the snapshot holds.
LEMMA AllocatedID ==
    ASSUME ceiling \in WireIDs, NEW p \in Pass, NEW l \in LinkNames, FreeIDs(p.links, l, p.next) # {}
    PROVE  LET id == Lowest(FreeIDs(p.links, l, p.next)) IN
           /\ id \in 1..ceiling /\ p.next <= id
           /\ WireOwners(p.links, id) \subseteq {l}
           /\ \A low \in p.next..(id - 1) : ~(WireOwners(p.links, low) \subseteq {l})
  <1> DEFINE free == FreeIDs(p.links, l, p.next)
  <1>1. p.next \in Nat \ {0}
    BY Zenon DEF Pass
  <1>2. free \in SUBSET Nat /\ \A id \in free : id \in p.next..ceiling
    BY <1>1, MaxWireIDAssumption DEF FreeIDs, WireIDs
  <1>3. Lowest(free) \in free /\ \A y \in free : Lowest(free) <= y
    BY <1>2, LowestIsMinimum, Zenon
  <1>4. Lowest(free) \in 1..ceiling /\ p.next <= Lowest(free)
    BY <1>1, <1>2, <1>3, MaxWireIDAssumption DEF WireIDs
  <1>5. \A low \in p.next..(Lowest(free) - 1) : ~(WireOwners(p.links, low) \subseteq {l})
    <2> SUFFICES ASSUME NEW low \in p.next..(Lowest(free) - 1), WireOwners(p.links, low) \subseteq {l}
                 PROVE  FALSE
      BY Zenon
    <2>1. low \in p.next..ceiling /\ low < Lowest(free)
      BY <1>1, <1>4, MaxWireIDAssumption DEF WireIDs
    <2>2. low \in free
      BY <2>1, Zenon DEF FreeIDs
    <2>. QED
      BY <1>3, <1>4, <2>1, <2>2
  <1>. QED
    BY <1>3, <1>4, <1>5, Zenon DEF FreeIDs

LEMMA DesiredStatusType ==
    ASSUME ceiling \in WireIDs, NEW p \in Pass, NEW l \in LinkNames, ~Exhausted(p, l)
    PROVE  /\ DesiredStatus(p, l) \in Status
           /\ ScanPosition(p, l) \in Nat \ {0}
  <1>1. p.links[l] \in Link /\ p.nodes \in [NodeNames -> Node] /\ p.next \in Nat \ {0}
    BY Zenon DEF Pass
  <1>2. p.links[l].status.wireID \in WireIDs
    BY <1>1, Zenon DEF Link, Status
  <1>3. 0 \in WireIDs /\ 1..ceiling \subseteq WireIDs
    BY MaxWireIDAssumption DEF WireIDs
  <1>4. DesiredCondition(p, l).reason = "Accepted" /\ Allocates(p, l)
           => Lowest(FreeIDs(p.links, l, p.next)) \in 1..ceiling
    BY AllocatedID, Zenon DEF Exhausted
  <1>5. DesiredCondition(p, l).reason = "Accepted" => DesiredWireID(p, l) \in WireIDs
    BY <1>2, <1>3, <1>4, Zenon DEF DesiredWireID, Allocates
  <1>6. ScanPosition(p, l) \in Nat \ {0}
    BY <1>1, <1>4, MaxWireIDAssumption DEF ScanPosition, WireIDs
  <1>7. DesiredStatus(p, l) \in Status
    BY <1>1, <1>3, <1>5, BoundType, ConditionType, Zenon DEF DesiredStatus, Status
  <1>. QED
    BY <1>6, <1>7, Zenon

LEMMA ReleasedType ==
    ASSUME NEW ls, NEW previous \in Nat, NEW next \in Nat \ {0}
    PROVE  Released(ls, previous, next) \in Nat \ {0}
  BY Zenon DEF Released

LEMMA AdvanceType ==
    ASSUME TypeOK, NEW s \in Slots, NEW l \in LinkNames, NEW status \in Status,
           NEW next \in Nat \ {0}, Advance(s, l, status, next)
    PROVE  pass' \in [Slots -> Pass]
  <1> DEFINE ls == [pass[s].links EXCEPT ![l].status = status]
             released == Released(ls, pass[s].links[l].status.wireID, next)
  <1>1. pass[s] \in Pass /\ pass \in [Slots -> Pass]
    BY Zenon DEF TypeOK
  <1>2. pass[s].links[l] \in Link /\ pass[s].links \in [LinkNames -> Link]
    BY <1>1, Zenon DEF Pass
  <1>3. ls \in [LinkNames -> Link]
    BY <1>2, Zenon DEF Link
  <1>4. pass[s].links[l].status.wireID \in Nat
    BY <1>2, MaxWireIDAssumption DEF Link, Status, WireIDs
  <1>5. released \in Nat \ {0}
    BY <1>4, ReleasedType, Zenon
  <1>6. l + 1 \in Nat \ {0}
    BY NLinksAssumption DEF LinkNames
  <1>7. pass' = [pass EXCEPT ![s].at = l + 1, ![s].links = ls, ![s].next = released]
    BY Zenon DEF Advance
  <1>. HIDE DEF ls, released
  <1>. QED
    BY <1>1, <1>3, <1>5, <1>6, <1>7, Zenon DEF Pass

\* The Link a pass is visiting, and what its snapshot says of it.
LEMMA VisitingType ==
    ASSUME TypeOK, NEW s \in Slots, Visiting(s)
    PROVE  /\ pass[s] \in Pass
           /\ pass[s].at \in LinkNames
           /\ pass[s].links[pass[s].at] \in Link
           /\ pass[s].links[pass[s].at].status \in Status
           /\ pass[s].next \in Nat \ {0}
  <1>1. pass[s] \in Pass
    BY Zenon DEF TypeOK
  <1>2. pass[s].at \in LinkNames
    BY <1>1, NLinksAssumption DEF Visiting, LinkNames, Pass
  <1>. QED
    BY <1>1, <1>2, Zenon DEF Pass, Link

LEMMA AbortType ==
    ASSUME TypeOK, NEW s \in Slots, Abort(s)
    PROVE  /\ pass' \in [Slots -> Pass] /\ queued' \in BOOLEAN
           /\ links' \in [LinkNames -> Link] /\ version' \in [LinkNames -> Nat]
  BY NoLinkType, Zenon DEF TypeOK, Abort

LEMMA PassStepType ==
    ASSUME TypeOK, NEW s \in Slots, PassStep(s)
    PROVE  TypeOK'
  <1>1. CASE StartPass(s)
    <2>1. [IdlePass EXCEPT !.phase = "nodes", !.links = links, !.version = version] \in Pass
      BY NoLinkType, Zenon DEF Pass, TypeOK
    <2>. QED
      BY <1>1, <2>1, Zenon DEF StartPass, TypeOK
  <1>2. CASE ListNodes(s)
    <2>1. pass[s] \in Pass /\ nodes \in [NodeNames -> Node]
      BY Zenon DEF TypeOK
    <2>2. [pass[s] EXCEPT !.phase = "links", !.nodes = nodes] \in Pass
      BY <2>1, Zenon DEF Pass
    <2>3. pass' = [pass EXCEPT ![s] = [pass[s] EXCEPT !.phase = "links", !.nodes = nodes]]
      BY <1>2, Zenon DEF ListNodes, TypeOK
    <2>4. pass' \in [Slots -> Pass]
      BY <2>2, <2>3, Zenon DEF TypeOK
    <2>. QED
      BY <1>2, <2>4, Zenon DEF ListNodes, TypeOK
  <1>3. CASE SkipLink(s)
    <2>1. pass' \in [Slots -> Pass]
      BY <1>3, VisitingType, AdvanceType, Zenon DEF SkipLink
    <2>. QED
      BY <1>3, <2>1, Zenon DEF SkipLink, TypeOK
  <1>4. CASE DeleteLink(s)
    <2> DEFINE l == pass[s].at
    <2>1. /\ l \in LinkNames
          /\ pass[s].links[l].status \in Status
          /\ pass[s].next \in Nat \ {0}
      BY <1>4, VisitingType, Zenon DEF DeleteLink
    <2>2. Advance(s, l, pass[s].links[l].status, pass[s].next) => pass' \in [Slots -> Pass]
      BY <2>1, AdvanceType, Zenon
    <2>3. pass' \in [Slots -> Pass]
      BY <1>4, <2>2, AbortType, Zenon DEF DeleteLink
    <2>4. links' \in [LinkNames -> Link] /\ version' \in [LinkNames -> Nat] /\ queued' \in BOOLEAN
      <3>1. CASE Abort(s)
        BY <3>1, AbortType, Zenon
      <3>2. CASE UNCHANGED <<links, version, queued>>
        BY <3>2, Zenon DEF TypeOK
      <3>3. CASE /\ links' = [links EXCEPT ![l] = NoLink]
                 /\ version' = [version EXCEPT ![l] = @ + 1]
                 /\ queued' = TRUE
        BY <2>1, <3>3, NoLinkType DEF TypeOK
      <3>. QED
        BY <1>4, <3>1, <3>2, <3>3, Zenon DEF DeleteLink
    <2>. QED
      BY <1>4, <2>3, <2>4, Zenon DEF DeleteLink, TypeOK
  <1>5. CASE WriteLinkStatus(s)
    <2> DEFINE l == pass[s].at
               desired == DesiredStatus(pass[s], l)
    <2>1. l \in LinkNames /\ pass[s] \in Pass
      BY <1>5, VisitingType, Zenon DEF WriteLinkStatus
    <2>2. ~Exhausted(pass[s], l) => desired \in Status /\ ScanPosition(pass[s], l) \in Nat \ {0}
      BY <2>1, DesiredStatusType, Zenon DEF TypeOK
    <2>. HIDE DEF desired
    <2>3. /\ pass' \in [Slots -> Pass]
          /\ links' \in [LinkNames -> Link] /\ version' \in [LinkNames -> Nat] /\ queued' \in BOOLEAN
      <3>1. CASE Abort(s)
        BY <3>1, AbortType, Zenon
      <3>2. CASE ~Exhausted(pass[s], l) /\ Advance(s, l, desired, ScanPosition(pass[s], l))
                 /\ UNCHANGED <<links, version, queued>>
        BY <2>1, <2>2, <3>2, AdvanceType, Zenon DEF TypeOK
      <3>3. CASE /\ ~Exhausted(pass[s], l) /\ Advance(s, l, desired, ScanPosition(pass[s], l))
                 /\ links' = [links EXCEPT ![l].status = desired]
                 /\ version' = [version EXCEPT ![l] = @ + 1]
                 /\ queued' = TRUE
        <4>1. links' \in [LinkNames -> Link]
          BY <2>1, <2>2, <3>3, Zenon DEF TypeOK, Link
        <4>2. pass' \in [Slots -> Pass]
          BY <2>1, <2>2, <3>3, AdvanceType, Zenon
        <4>. QED
          BY <2>1, <3>3, <4>1, <4>2 DEF TypeOK
      <3>. QED
        BY <1>5, <3>1, <3>2, <3>3, Zenon DEF WriteLinkStatus, desired
    <2>. QED
      BY <1>5, <2>3, Zenon DEF WriteLinkStatus, TypeOK
  <1>6. CASE FinishPass(s)
    BY <1>6, NoLinkType, Zenon DEF FinishPass, TypeOK
  <1>. QED
    BY <1>1, <1>2, <1>3, <1>4, <1>5, <1>6, Zenon DEF PassStep

LEMMA UserStepType ==
    ASSUME TypeOK, UserStep
    PROVE  env' \in 0..MaxEnv /\ queued' \in BOOLEAN /\ ceiling' \in WireIDs
  BY MaxEnvAssumption DEF TypeOK, UserStep

LEMMA PutLinkType ==
    ASSUME TypeOK, NEW l \in LinkNames, NEW link \in Link, UserStep, PutLink(l, link)
    PROVE  TypeOK'
  <1>1. env' \in 0..MaxEnv /\ queued' \in BOOLEAN /\ ceiling' \in WireIDs
    BY UserStepType, Zenon
  <1>2. links' \in [LinkNames -> Link] /\ version' \in [LinkNames -> Nat]
    BY DEF TypeOK, PutLink
  <1>. QED
    BY <1>1, <1>2, Zenon DEF TypeOK, PutLink

LEMMA UserNextType ==
    ASSUME TypeOK, UserNext
    PROVE  TypeOK'
  <1>1. ASSUME NEW l \in LinkNames, CreateLink(l) PROVE TypeOK'
    <2>1. \A spec \in Specs : NewLink(spec) \in Link
      BY NoLinkType, Zenon DEF NewLink, Link
    <2>. QED
      BY <1>1, <2>1, PutLinkType, Zenon DEF CreateLink
  <1>2. ASSUME NEW l \in LinkNames, EditLink(l) PROVE TypeOK'
    <2>1. links[l] \in Link
      BY Zenon DEF TypeOK
    <2>2. PICK spec \in Specs :
             PutLink(l, [links[l] EXCEPT !.spec = spec, !.status.cond.observed = FALSE])
      BY <1>2, Zenon DEF EditLink
    <2>3. [links[l] EXCEPT !.spec = spec, !.status.cond.observed = FALSE] \in Link
      BY <2>1, Zenon DEF Link, Status, Condition
    <2>. QED
      BY <1>2, <2>2, <2>3, PutLinkType, Zenon DEF EditLink
  <1>3. ASSUME NEW l \in LinkNames, MarkDeleting(l) PROVE TypeOK'
    <2>1. [links[l] EXCEPT !.deleting = TRUE] \in Link
      BY Zenon DEF TypeOK, Link
    <2>. QED
      BY <1>3, <2>1, PutLinkType, Zenon DEF MarkDeleting
  <1>4. ASSUME NEW l \in LinkNames, RemoveLink(l) PROVE TypeOK'
    BY <1>4, NoLinkType, PutLinkType, Zenon DEF RemoveLink
  <1>5. ASSUME NEW l \in LinkNames, ToggleIgnore(l) PROVE TypeOK'
    <2>1. [links[l] EXCEPT !.ignore = ~@] \in Link
      BY Zenon DEF TypeOK, Link
    <2>. QED
      BY <1>5, <2>1, PutLinkType, Zenon DEF ToggleIgnore
  <1>6. ASSUME NEW l \in LinkNames, TamperStatus(l) PROVE TypeOK'
    <2>1. env' \in 0..MaxEnv /\ queued' \in BOOLEAN /\ ceiling' \in WireIDs
      BY <1>6, UserStepType, Zenon DEF TamperStatus
    <2>2. PICK id \in WireIDs : links' = [links EXCEPT ![l].status.wireID = id]
      BY <1>6, Zenon DEF TamperStatus
    <2>3. links' \in [LinkNames -> Link] /\ version' \in [LinkNames -> Nat]
      BY <1>6, <2>2 DEF TamperStatus, TypeOK, Link, Status
    <2>. QED
      BY <1>6, <2>1, <2>3, Zenon DEF TamperStatus, TypeOK
  <1>7. ASSUME NEW n \in NodeNames, CreateNode(n) \/ DeleteNode(n) \/ SetNetworkMode(n) PROVE TypeOK'
    <2>1. env' \in 0..MaxEnv /\ queued' \in BOOLEAN /\ ceiling' \in WireIDs
      BY <1>7, UserStepType, Zenon DEF CreateNode, DeleteNode, SetNetworkMode
    <2>2. nodes' \in [NodeNames -> Node] /\ nextUID' \in Nat \ {0}
      BY <1>7 DEF TypeOK, Node, NoNodeObject, CreateNode, DeleteNode, SetNetworkMode
    <2>. QED
      BY <1>7, <2>1, <2>2, Zenon DEF TypeOK, CreateNode, DeleteNode, SetNetworkMode
  <1>8. ASSUME NEW s \in Slots, PassFails(s) \/ Failover(s) PROVE TypeOK'
    <2>1. env' \in 0..MaxEnv /\ queued' \in BOOLEAN /\ ceiling' \in WireIDs
      BY <1>8, UserStepType, Zenon DEF PassFails, Failover
    <2>. QED
      BY <1>8, <2>1, NoLinkType, Zenon DEF TypeOK, PassFails, Failover
  <1>. QED
    BY <1>1, <1>2, <1>3, <1>4, <1>5, <1>6, <1>7, <1>8, Zenon DEF UserNext

\* The objects the controller and the users leave in the API server, and what a
\* pass carries from one Link to the next, always have their types: in
\* particular every allocated id is within the ceiling.
THEOREM TypeCorrect == Spec => []TypeOK
  <1>1. Init => TypeOK
    <2> SUFFICES ASSUME Init PROVE TypeOK
      BY Zenon
    <2>1. nodes \in [NodeNames -> Node]
      BY Zenon DEF Init, Node, NoNodeObject
    <2>2. links \in [LinkNames -> Link] /\ version \in [LinkNames -> Nat]
      BY NoLinkType, Zenon DEF Init
    <2>3. pass \in [Slots -> Pass]
      BY NoLinkType, Zenon DEF Init
    <2>4. /\ env = 0 /\ nextUID = 2 /\ queued \in BOOLEAN /\ leader \in Slots
          /\ clean \in BOOLEAN /\ ceiling \in WireIDs
      BY Zenon DEF Init
    <2>. QED
      BY <2>1, <2>2, <2>3, <2>4, MaxEnvAssumption DEF TypeOK
  <1>2. TypeOK /\ [Next]_vars => TypeOK'
    <2> SUFFICES ASSUME TypeOK, [Next]_vars PROVE TypeOK'
      BY Zenon
    <2>1. CASE UNCHANGED vars
      BY <2>1, Zenon DEF vars, TypeOK
    <2>. QED
      BY <2>1, PassStepType, UserNextType, Zenon DEF Next
  <1>. QED
    BY <1>1, <1>2, PTL DEF Spec

-----------------------------------------------------------------------------
(***************************************************************************)
(* Wire ids are unique.  The inductive invariant adds                      *)
(* SnapshotAccountsForIDs: a pass allocates against its snapshot, and only *)
(* through it does the allocation say anything about the live Links.       *)
(***************************************************************************)
IDOf(ls, l) == ls[l].status.wireID

UniqueIDs(ls) == \A k, l \in LinkNames : k # l /\ IDOf(ls, k) # 0 => IDOf(ls, k) # IDOf(ls, l)

CoveredBy(live, ls) == \A l \in LinkNames : IDOf(live, l) \in {0, IDOf(ls, l)}

\* An id that a pass gives to l is nobody else's in its snapshot.
LEMMA DesiredIDUnowned ==
    ASSUME ceiling \in WireIDs, NEW p \in Pass, NEW l \in LinkNames, ~Exhausted(p, l),
           UniqueIDs(p.links)
    PROVE  LET id == DesiredStatus(p, l).wireID IN
           id # 0 => \A k \in LinkNames \ {l} : IDOf(p.links, k) # id
  <1> DEFINE id == DesiredStatus(p, l).wireID
             accepted == DesiredCondition(p, l).reason = "Accepted"
  <1> SUFFICES ASSUME id # 0, NEW k \in LinkNames \ {l}
               PROVE  IDOf(p.links, k) # id
    BY Zenon
  <1>1. accepted /\ id = DesiredWireID(p, l) /\ NeedsWire(p.links[l], p.nodes)
    BY Zenon DEF DesiredStatus, DesiredWireID
  <1>2. CASE KeepsID(p.links, l)
    BY <1>1, <1>2, Zenon DEF DesiredWireID, UniqueIDs, IDOf
  <1>3. CASE ~KeepsID(p.links, l)
    <2>1. id = Lowest(FreeIDs(p.links, l, p.next))
      BY <1>1, <1>3, Zenon DEF DesiredWireID
    <2>2. WireOwners(p.links, id) \subseteq {l}
      BY <1>1, <1>3, <2>1, AllocatedID, Zenon DEF Exhausted, Allocates
    <2>. QED
      BY <2>2, Zenon DEF WireOwners, IDOf, Pass
  <1>. QED
    BY <1>2, <1>3, Zenon

LEMMA NoLinkID == NoLink.status.wireID = 0
  BY Zenon DEF NoLink, EmptyStatus

\* Giving l the id of a status that nobody else holds keeps ids unique.
LEMMA UniqueAfterWrite ==
    ASSUME NEW ls \in [LinkNames -> Link], NEW l \in LinkNames, NEW status,
           UniqueIDs(ls),
           status.wireID # 0 => \A k \in LinkNames \ {l} : IDOf(ls, k) # status.wireID
    PROVE  UniqueIDs([ls EXCEPT ![l].status = status])
  <1> DEFINE new == [ls EXCEPT ![l].status = status]
  <1>1. \A k \in LinkNames : IDOf(new, k) = IF k = l THEN status.wireID ELSE IDOf(ls, k)
    BY Zenon DEF IDOf, Link
  <1>. HIDE DEF new
  <1>2. UniqueIDs(new)
    BY <1>1, Zenon DEF UniqueIDs
  <1>. QED
    BY <1>2, Zenon DEF new

\* A live set of ids covered by a snapshot without duplicates has none either.
LEMMA CoveredUnique ==
    ASSUME NEW live, NEW ls, UniqueIDs(ls), CoveredBy(live, ls)
    PROVE  UniqueIDs(live)
  BY Zenon DEF UniqueIDs, CoveredBy

\* What WireIDsUnique and SnapshotAccountsForIDs promise of a clean history.
Unique == UniqueIDs(links)
Accounted ==
    \A s \in Slots : pass[s].phase # "idle" =>
        CoveredBy(links, pass[s].links) /\ UniqueIDs(pass[s].links)

LEMMA InvariantWords ==
    /\ WireIDsUnique <=> (clean => Unique)
    /\ SnapshotAccountsForIDs <=> (clean => Accounted)
  BY Zenon DEF WireIDsUnique, SnapshotAccountsForIDs, Unique, Accounted, UniqueIDs, CoveredBy, IDOf

UniqueInv == TypeOK /\ Unique /\ Accounted

\* Only the leader is in a pass.
LeaderAlone == \A s \in Slots \ {leader} : pass[s].phase = "idle"

\* What Advance leaves in the slot that took the step.
LEMMA AdvanceEffect ==
    ASSUME TypeOK, NEW s \in Slots, NEW l \in LinkNames, NEW status \in Status, NEW next,
           Advance(s, l, status, next)
    PROVE  /\ pass'[s].phase = pass[s].phase
           /\ pass'[s].links = [pass[s].links EXCEPT ![l].status = status]
           /\ \A t \in Slots \ {s} : pass'[t] = pass[t]
  BY Zenon DEF TypeOK, Advance, Pass

\* Rewriting a status by itself changes no id.
LEMMA SameStatus ==
    ASSUME NEW ls \in [LinkNames -> Link], NEW l \in LinkNames
    PROVE  \A k \in LinkNames : IDOf([ls EXCEPT ![l].status = ls[l].status], k) = IDOf(ls, k)
  BY Zenon DEF IDOf, Link

\* A pass that goes on without writing an id.
LEMMA QuietAdvance ==
    ASSUME UniqueInv, NEW s \in Slots, \A t \in Slots \ {s} : pass[t].phase = "idle", pass[s].phase # "idle",
           NEW l \in LinkNames, NEW next,
           Advance(s, l, pass[s].links[l].status, next),
           \A k \in LinkNames : IDOf(links', k) \in {0, IDOf(links, k)}
    PROVE  Unique' /\ Accounted'
  <1>1. pass[s].links \in [LinkNames -> Link] /\ pass[s].links[l].status \in Status
    BY Zenon DEF UniqueInv, TypeOK, Pass, Link
  <1>2. \A k \in LinkNames : IDOf(pass'[s].links, k) = IDOf(pass[s].links, k)
    <2>1. pass'[s].links = [pass[s].links EXCEPT ![l].status = pass[s].links[l].status]
      BY <1>1, AdvanceEffect DEF UniqueInv
    <2>. QED
      BY <1>1, <2>1, SameStatus
  <1>3. CoveredBy(links, pass[s].links) /\ UniqueIDs(pass[s].links) /\ UniqueIDs(links)
    BY Zenon DEF UniqueInv, Unique, Accounted
  <1>4. CoveredBy(links', pass'[s].links) /\ UniqueIDs(pass'[s].links)
    BY <1>2, <1>3, Zenon DEF CoveredBy, UniqueIDs
  <1>5. UniqueIDs(links')
    BY <1>4, CoveredUnique, Zenon
  <1>6. \A t \in Slots \ {s} : pass'[t].phase = "idle"
    BY <1>1, AdvanceEffect, Zenon DEF UniqueInv
  <1>. QED
    BY <1>4, <1>5, <1>6, Zenon DEF Unique, Accounted

\* A step that leaves the pass alone, or idle, and gives no Link an id.
LEMMA QuietStep ==
    ASSUME UniqueInv,
           \A s \in Slots : pass'[s] = pass[s] \/ pass'[s].phase = "idle",
           \A k \in LinkNames : IDOf(links', k) \in {0, IDOf(links, k)}
    PROVE  Unique' /\ Accounted'
  <1>1. UniqueIDs(links)
    BY Zenon DEF UniqueInv, Unique, Accounted
  <1>2. UniqueIDs(links')
    BY <1>1, Zenon DEF UniqueIDs
  <1>3. \A s \in Slots : pass'[s].phase # "idle" =>
           CoveredBy(links', pass'[s].links) /\ UniqueIDs(pass'[s].links)
    <2> SUFFICES ASSUME NEW s \in Slots, pass'[s].phase # "idle"
                 PROVE  CoveredBy(links', pass'[s].links) /\ UniqueIDs(pass'[s].links)
      BY Zenon
    <2>1. pass'[s] = pass[s]
      BY Zenon
    <2>2. CoveredBy(links, pass[s].links) /\ UniqueIDs(pass[s].links)
      BY <2>1, Zenon DEF UniqueInv, Unique, Accounted
    <2>. QED
      BY <2>1, <2>2, Zenon DEF CoveredBy
  <1>. QED
    BY <1>2, <1>3, Zenon DEF Unique, Accounted

LEMMA WriteKeepsUnique ==
    ASSUME UniqueInv, NEW s \in Slots, \A t \in Slots \ {s} : pass[t].phase = "idle", WriteLinkStatus(s)
    PROVE  Unique' /\ Accounted'
  <1> DEFINE l == pass[s].at
             p == pass[s]
             desired == DesiredStatus(p, l)
  <1>1. /\ p \in Pass /\ l \in LinkNames /\ p.phase # "idle"
        /\ p.links \in [LinkNames -> Link] /\ links \in [LinkNames -> Link]
    BY VisitingType, Zenon DEF UniqueInv, WriteLinkStatus, Visiting, Pass, TypeOK
  <1>2. CASE Abort(s)
    <2>1. links' = links /\ \A t \in Slots : pass'[t] = pass[t] \/ pass'[t].phase = "idle"
      BY <1>2, Zenon DEF Abort, IdlePass, UniqueInv, TypeOK
    <2>. QED
      BY <2>1, QuietStep, Zenon
  <1>3. CASE desired = p.links[l].status /\ Advance(s, l, desired, ScanPosition(p, l)) /\ links' = links
    BY <1>1, <1>3, QuietAdvance, Zenon
  <1>4. CASE /\ ~Exhausted(p, l)
             /\ links' = [links EXCEPT ![l].status = desired]
             /\ Advance(s, l, desired, ScanPosition(p, l))
    <2>1. CoveredBy(links, p.links) /\ UniqueIDs(p.links)
      BY <1>1, Zenon DEF UniqueInv, Unique, Accounted
    <2>2. desired \in Status
      BY <1>1, <1>4, DesiredStatusType, Zenon DEF UniqueInv, TypeOK
    <2>3. desired.wireID # 0 => \A k \in LinkNames \ {l} : IDOf(p.links, k) # desired.wireID
      BY <1>1, <1>4, <2>1, DesiredIDUnowned, Zenon DEF UniqueInv, TypeOK
    <2>. HIDE DEF desired
    <2>4. pass'[s].links = [p.links EXCEPT ![l].status = desired]
      BY <1>1, <1>4, <2>2, AdvanceEffect DEF UniqueInv
    <2>5. UniqueIDs(pass'[s].links)
      BY <1>1, <2>1, <2>3, <2>4, UniqueAfterWrite
    <2>6. CoveredBy(links', pass'[s].links)
      <3> SUFFICES ASSUME NEW k \in LinkNames
                   PROVE  links'[k].status.wireID \in {0, pass'[s].links[k].status.wireID}
        BY Zenon DEF CoveredBy, IDOf
      <3>1. links[k].status.wireID \in {0, p.links[k].status.wireID}
        BY <2>1, Zenon DEF CoveredBy, IDOf
      <3>2. CASE k = l
        <4>1. links'[k].status = desired
          BY <1>1, <1>4, <3>2, Zenon DEF Link
        <4>2. pass'[s].links[k].status = desired
          BY <1>1, <2>4, <3>2 DEF Link
        <4>. QED
          BY <4>1, <4>2, Zenon
      <3>3. CASE k # l
        <4>1. links'[k] = links[k]
          BY <1>1, <1>4, <3>3, Zenon
        <4>2. pass'[s].links[k] = p.links[k]
          BY <1>1, <2>4, <3>3, Zenon
        <4>. QED
          BY <3>1, <4>1, <4>2, Zenon
      <3>. QED
        BY <3>2, <3>3, Zenon
    <2>7. UniqueIDs(links')
      BY <2>5, <2>6, CoveredUnique, Zenon
    <2>8. \A t \in Slots \ {s} : pass'[t].phase = "idle"
      BY <1>1, <1>4, <2>2, AdvanceEffect, Zenon DEF UniqueInv
    <2>. QED
      BY <2>5, <2>6, <2>7, <2>8, Zenon DEF Unique, Accounted
  <1>. QED
    BY <1>2, <1>3, <1>4, Zenon DEF WriteLinkStatus

LEMMA PassStepKeepsUnique ==
    ASSUME UniqueInv, NEW s \in Slots, \A t \in Slots \ {s} : pass[t].phase = "idle", PassStep(s)
    PROVE  Unique' /\ Accounted'
  <1>1. CASE StartPass(s)
    <2>1. CASE Present(links) = {}
      BY <1>1, <2>1, QuietStep, Zenon DEF StartPass
    <2>2. CASE Present(links) # {}
      <3>1. /\ pass'[s].links = links /\ links' = links
            /\ \A t \in Slots \ {s} : pass'[t].phase = "idle"
        BY <1>1, <2>2, Zenon DEF StartPass, UniqueInv, TypeOK, IdlePass
      <3>2. UniqueIDs(links)
        BY Zenon DEF UniqueInv, Unique, Accounted
      <3>3. CoveredBy(links', pass'[s].links) /\ UniqueIDs(pass'[s].links)
        BY <3>1, <3>2, Zenon DEF CoveredBy
      <3>. QED
        BY <3>1, <3>2, <3>3, Zenon DEF Unique, Accounted
    <2>. QED
      BY <2>1, <2>2, Zenon
  <1>2. CASE ListNodes(s)
    <2>1. /\ pass'[s].links = pass[s].links /\ pass[s].phase # "idle" /\ links' = links
          /\ \A t \in Slots \ {s} : pass'[t].phase = "idle"
      BY <1>2, Zenon DEF ListNodes, UniqueInv, TypeOK, Pass
    <2>. QED
      BY <2>1 DEF UniqueInv, Unique, Accounted, UniqueIDs, CoveredBy
  <1>3. CASE SkipLink(s)
    <2>1. pass[s].at \in LinkNames /\ pass[s].phase # "idle" /\ links' = links
      BY <1>3, VisitingType, Zenon DEF SkipLink, Visiting, UniqueInv
    <2>. QED
      BY <1>3, <2>1, QuietAdvance, Zenon DEF SkipLink
  <1>4. CASE DeleteLink(s)
    <2> DEFINE l == pass[s].at
    <2>1. l \in LinkNames /\ pass[s].phase # "idle" /\ links \in [LinkNames -> Link]
      BY <1>4, VisitingType, Zenon DEF DeleteLink, Visiting, UniqueInv, TypeOK
    <2>2. CASE Abort(s)
      <3>1. links' = links /\ \A t \in Slots : pass'[t] = pass[t] \/ pass'[t].phase = "idle"
        BY <2>2, Zenon DEF Abort, IdlePass, UniqueInv, TypeOK
      <3>. QED
        BY <3>1, QuietStep, Zenon
    <2>3. CASE /\ Advance(s, l, pass[s].links[l].status, pass[s].next)
               /\ links' = links \/ links' = [links EXCEPT ![l] = NoLink]
      <3>1. \A k \in LinkNames : IDOf(links', k) \in {0, IDOf(links, k)}
        BY <2>1, <2>3, NoLinkID, Zenon DEF IDOf
      <3>. QED
        BY <2>1, <2>3, <3>1, QuietAdvance, Zenon
    <2>. QED
      BY <1>4, <2>2, <2>3, Zenon DEF DeleteLink
  <1>5. CASE WriteLinkStatus(s)
    BY <1>5, WriteKeepsUnique, Zenon
  <1>6. CASE FinishPass(s)
    <2>1. links' = links /\ \A t \in Slots : pass'[t] = pass[t] \/ pass'[t].phase = "idle"
      BY <1>6, Zenon DEF FinishPass, IdlePass, UniqueInv, TypeOK
    <2>. QED
      BY <2>1, QuietStep, Zenon
  <1>. QED
    BY <1>1, <1>2, <1>3, <1>4, <1>5, <1>6, Zenon DEF PassStep

LEMMA PutKeepsUnique ==
    ASSUME UniqueInv, NEW l \in LinkNames, NEW link, PutLink(l, link),
           link.status.wireID \in {0, IDOf(links, l)}
    PROVE  Unique' /\ Accounted'
  <1>1. \A k \in LinkNames : IDOf(links', k) \in {0, IDOf(links, k)}
    BY Zenon DEF PutLink, UniqueInv, TypeOK, IDOf
  <1>. QED
    BY <1>1, QuietStep, Zenon DEF PutLink

LEMMA UserNextKeepsUnique ==
    ASSUME UniqueInv, UserNext, clean'
    PROVE  Unique' /\ Accounted'
  <1>1. ASSUME NEW l \in LinkNames, CreateLink(l)
        PROVE  Unique' /\ Accounted'
    <2>1. \A spec : NewLink(spec).status.wireID = 0
      BY Zenon DEF NewLink, NoLink, EmptyStatus
    <2>. QED
      BY <1>1, <2>1, PutKeepsUnique, Zenon DEF CreateLink
  <1>2. ASSUME NEW l \in LinkNames, EditLink(l)
        PROVE  Unique' /\ Accounted'
    <2>1. PICK spec \in Specs :
             PutLink(l, [links[l] EXCEPT !.spec = spec, !.status.cond.observed = FALSE])
      BY <1>2, Zenon DEF EditLink
    <2>2. [links[l] EXCEPT !.spec = spec, !.status.cond.observed = FALSE].status.wireID = IDOf(links, l)
      BY Zenon DEF UniqueInv, TypeOK, Link, Status, IDOf
    <2>. QED
      BY <2>1, <2>2, PutKeepsUnique, Zenon
  <1>3. ASSUME NEW l \in LinkNames, MarkDeleting(l) \/ RemoveLink(l) \/ ToggleIgnore(l)
        PROVE  Unique' /\ Accounted'
    <2>1. /\ [links[l] EXCEPT !.deleting = TRUE].status.wireID = IDOf(links, l)
          /\ [links[l] EXCEPT !.ignore = ~@].status.wireID = IDOf(links, l)
      BY Zenon DEF UniqueInv, TypeOK, Link, IDOf
    <2>. QED
      BY <1>3, <2>1, NoLinkID, PutKeepsUnique, Zenon DEF MarkDeleting, RemoveLink, ToggleIgnore
  <1>4. ASSUME NEW n \in NodeNames, CreateNode(n) \/ DeleteNode(n) \/ SetNetworkMode(n)
        PROVE  Unique' /\ Accounted'
    <2>1. pass' = pass /\ links' = links
      BY <1>4, Zenon DEF CreateNode, DeleteNode, SetNetworkMode
    <2>. QED
      BY <2>1, QuietStep, Zenon
  <1>5. ASSUME NEW s \in Slots, PassFails(s) \/ Failover(s)
        PROVE  Unique' /\ Accounted'
    <2>1. links' = links
      BY <1>5, Zenon DEF PassFails, Failover
    <2>2. pass' = pass \/ pass' = [pass EXCEPT ![s] = IdlePass]
      BY <1>5, Zenon DEF PassFails, Failover
    <2>3. \A t \in Slots : pass'[t] = pass[t] \/ pass'[t].phase = "idle"
      BY <2>2 DEF IdlePass, UniqueInv, TypeOK
    <2>. QED
      BY <2>1, <2>3, QuietStep, Zenon
  <1>6. ASSUME NEW l \in LinkNames, TamperStatus(l) PROVE FALSE
    BY <1>6, Zenon DEF TamperStatus
  <1>. QED
    BY <1>1, <1>2, <1>3, <1>4, <1>5, <1>6, Zenon DEF UserNext

\* Only the leader starts a pass, and a pass that takes a step is under way.
LEMMA PassStepActor ==
    ASSUME NEW s \in Slots, PassStep(s)
    PROVE  s = leader \/ pass[s].phase # "idle"
  <1>1. s = leader \/ pass[s].phase = "nodes" \/ pass[s].phase = "links"
    BY Zenon DEF PassStep, StartPass, ListNodes, SkipLink, DeleteLink, WriteLinkStatus,
                 FinishPass, Visiting
  <1>. QED
    BY <1>1, Zenon

\* While the history is clean, the leader's passes are the only ones.
LEMMA CleanKeepsLeaderAlone ==
    ASSUME TypeOK, LeaderAlone, Next, clean'
    PROVE  clean /\ LeaderAlone'
  <1>1. ASSUME NEW s \in Slots, PassStep(s) PROVE clean /\ LeaderAlone'
    <2>1. clean' = clean /\ leader' = leader
      BY <1>1, Zenon
      DEF PassStep, StartPass, ListNodes, SkipLink, DeleteLink, WriteLinkStatus, FinishPass
    <2>2. s = leader
      BY <1>1, PassStepActor, Zenon DEF LeaderAlone
    <2>3. \A t \in Slots \ {s} : pass'[t] = pass[t]
      <3>1. pass \in [Slots -> Pass]
        BY Zenon DEF TypeOK
      <3>2. CASE StartPass(s)
        BY <3>1, <3>2, Zenon DEF StartPass
      <3>3. CASE ListNodes(s)
        BY <3>1, <3>3, Zenon DEF ListNodes
      <3>4. CASE SkipLink(s)
        BY <3>1, <3>4, Zenon DEF SkipLink, Advance
      <3>5. CASE DeleteLink(s)
        BY <3>1, <3>5, Zenon DEF DeleteLink, Advance, Abort
      <3>6. CASE WriteLinkStatus(s)
        BY <3>1, <3>6, Zenon DEF WriteLinkStatus, Advance, Abort
      <3>7. CASE FinishPass(s)
        BY <3>1, <3>7, Zenon DEF FinishPass
      <3>. QED
        BY <1>1, <3>2, <3>3, <3>4, <3>5, <3>6, <3>7, Zenon DEF PassStep
    <2>. QED
      BY <2>1, <2>2, <2>3, Zenon DEF LeaderAlone
  <1>2. ASSUME NEW l \in LinkNames,
               \/ CreateLink(l) \/ EditLink(l) \/ MarkDeleting(l) \/ RemoveLink(l) \/ ToggleIgnore(l)
        PROVE  clean /\ LeaderAlone'
    <2>1. clean' = clean /\ leader' = leader /\ pass' = pass
      BY <1>2, Zenon DEF CreateLink, EditLink, MarkDeleting, RemoveLink, ToggleIgnore, PutLink
    <2>. QED
      BY <2>1, Zenon DEF LeaderAlone
  <1>3. ASSUME NEW l \in LinkNames, TamperStatus(l) PROVE clean /\ LeaderAlone'
    BY <1>3, Zenon DEF TamperStatus
  <1>4. ASSUME NEW n \in NodeNames, CreateNode(n) \/ DeleteNode(n) \/ SetNetworkMode(n)
        PROVE  clean /\ LeaderAlone'
    <2>1. clean' = clean /\ leader' = leader /\ pass' = pass
      BY <1>4, Zenon DEF CreateNode, DeleteNode, SetNetworkMode
    <2>. QED
      BY <2>1, Zenon DEF LeaderAlone
  <1>5. ASSUME NEW s \in Slots, PassFails(s) PROVE clean /\ LeaderAlone'
    <2>1. clean' = clean /\ leader' = leader
      BY <1>5, Zenon DEF PassFails
    <2>2. \A t \in Slots : pass'[t] = pass[t] \/ pass'[t].phase = "idle"
      BY <1>5, Zenon DEF PassFails, TypeOK, IdlePass
    <2>. QED
      BY <2>1, <2>2, Zenon DEF LeaderAlone
  <1>6. ASSUME NEW s \in Slots, Failover(s) PROVE clean /\ LeaderAlone'
    <2>1. clean /\ pass[leader].phase = "idle" /\ leader' = s /\ pass' = pass
      BY <1>6, Zenon DEF Failover
    <2>. QED
      BY <2>1, Zenon DEF LeaderAlone
  <1>. QED
    BY <1>1, <1>2, <1>3, <1>4, <1>5, <1>6, Zenon DEF Next, UserNext

CleanInv == clean => Unique /\ Accounted /\ LeaderAlone

LEMMA CleanInvariant == Spec => []CleanInv
  <1>1. Init => CleanInv
    <2> SUFFICES ASSUME Init PROVE Unique /\ Accounted /\ LeaderAlone
      BY Zenon DEF CleanInv
    <2>1. \A l \in LinkNames : links[l].status.wireID = 0
      BY NoLinkID, Zenon DEF Init
    <2>2. \A s \in Slots : pass[s].phase = "idle"
      BY Zenon DEF Init, IdlePass
    <2>. QED
      BY <2>1, <2>2, Zenon DEF Unique, UniqueIDs, IDOf, Accounted, LeaderAlone
  <1>2. TypeOK /\ CleanInv /\ [Next]_vars => CleanInv'
    <2> SUFFICES ASSUME TypeOK, CleanInv, [Next]_vars, clean'
                 PROVE  Unique' /\ Accounted' /\ LeaderAlone'
      BY Zenon DEF CleanInv
    <2>1. CASE UNCHANGED vars
      <3>1. links' = links /\ pass' = pass /\ leader' = leader /\ clean' = clean
        BY <2>1, Zenon DEF vars
      <3>2. Unique /\ Accounted /\ LeaderAlone
        BY <3>1, Zenon DEF CleanInv
      <3>. QED
        BY <3>1, <3>2, Zenon DEF Unique, UniqueIDs, Accounted, LeaderAlone
    <2>2. CASE Next
      <3>1. LeaderAlone => clean /\ LeaderAlone'
        BY <2>2, CleanKeepsLeaderAlone, Zenon
      <3>2. clean
        BY <2>2, <3>1, Zenon DEF Next, UserNext, PassStep, StartPass, ListNodes, SkipLink,
           DeleteLink, WriteLinkStatus, FinishPass, CreateLink, EditLink, MarkDeleting,
           RemoveLink, ToggleIgnore, PutLink, TamperStatus, CreateNode, DeleteNode,
           SetNetworkMode, PassFails, Failover
      <3>3. UniqueInv /\ LeaderAlone /\ LeaderAlone'
        BY <3>1, <3>2, Zenon DEF UniqueInv, CleanInv
      <3>4. ASSUME NEW s \in Slots, PassStep(s) PROVE Unique' /\ Accounted'
        <4>1. \A t \in Slots \ {s} : pass[t].phase = "idle"
          BY <3>3, <3>4, PassStepActor, Zenon DEF LeaderAlone
        <4>. QED
          BY <3>3, <3>4, <4>1, PassStepKeepsUnique, Zenon
      <3>5. CASE UserNext
        BY <3>3, <3>5, UserNextKeepsUnique, Zenon
      <3>. QED
        BY <2>2, <3>3, <3>4, <3>5, Zenon DEF Next
    <2>. QED
      BY <2>1, <2>2, Zenon
  <1>. QED
    BY <1>1, <1>2, TypeCorrect, PTL DEF Spec

\* As long as no two managers' passes overlapped and nobody but the controller
\* wrote a wire id, no two Links hold the same id (wireReservations,
\* controllers/link/allocate.go): for any number of Links, Nodes and managers,
\* any id ceiling, and users who change Links and Nodes between any two steps
\* of a pass.
THEOREM WireIDsStayUnique == Spec => []WireIDsUnique
  <1>1. CleanInv => WireIDsUnique
    BY InvariantWords, Zenon DEF CleanInv
  <1>. QED
    BY <1>1, CleanInvariant, PTL

-----------------------------------------------------------------------------
(* Deletions and acceptance *)

\* A Link that still has the resourceVersion a pass listed is as it was listed.
FreshAt(t, k) ==
    /\ pass[t].version[k] <= version[k]
    /\ pass[t].version[k] = version[k] => pass[t].links[k] = links[k]

Fresh == \A t \in Slots, k \in LinkNames : pass[t].phase # "idle" => FreshAt(t, k)

\* UIDs are given once: every UID a Link is bound to, and every Node's, is old.
OldBinding(b, next) == b.uidA < next /\ b.uidB < next

Old(link) == OldBinding(link.status.bound, nextUID)

AllOld ==
    /\ \A k \in LinkNames : Old(links[k])
    /\ \A t \in Slots, k \in LinkNames : Old(pass[t].links[k])
    /\ \A n \in NodeNames : nodes[n].uid < nextUID
    /\ \A t \in Slots, n \in NodeNames : pass[t].nodes[n].uid < nextUID

\* A Node that a listed Link is bound to and that lives now was listed, too.
Listed(now, list, n, uid) == uid # 0 /\ UIDOf(now, n) = uid => UIDOf(list, n) = uid

ListedEnds(now, list, b) == Listed(now, list, b.a, b.uidA) /\ Listed(now, list, b.b, b.uidB)

AllListed ==
    \A t \in Slots, k \in LinkNames :
        pass[t].phase = "links" => ListedEnds(nodes, pass[t].nodes, pass[t].links[k].status.bound)

OrphanInv == TypeOK /\ Fresh /\ AllOld /\ AllListed

-----------------------------------------------------------------------------
LEMMA NewLinkOld ==
    ASSUME nextUID \in Nat \ {0}
    PROVE  /\ Old(NoLink)
           /\ \A spec : Old(NewLink(spec))
           /\ \A k \in LinkNames : IdlePass.links[k] = NoLink
           /\ \A n \in NodeNames : IdlePass.nodes[n].uid = 0
           /\ IdlePass.phase = "idle"
  <1>1. NoLink.status.bound = Unbound /\ \A spec : NewLink(spec).status.bound = Unbound
    BY Zenon DEF NoLink, NewLink, EmptyStatus
  <1>2. OldBinding(Unbound, nextUID)
    BY DEF OldBinding, Unbound
  <1>. QED
    BY <1>1, <1>2, Zenon DEF Old, IdlePass, NoNodeObject

\* Resolving keeps a binding, takes it from the Node list, or leaves it open.
LEMMA ResolvedFrom ==
    ASSUME NEW link \in Link, NEW ns \in [NodeNames -> Node]
    PROVE  LET b == ResolvedEndpoints(link, ns) IN
           \/ b = link.status.bound
           \/ b.uidA = 0 /\ b.uidB = 0
           \/ /\ b.a \in NodeNames \cup {Host} /\ b.uidA = UIDOf(ns, b.a)
              /\ b.b \in NodeNames \cup {Host} /\ b.uidB = UIDOf(ns, b.b)
  <1>1. /\ link.spec.a.node \in NodeNames \cup {Host}
        /\ link.spec.b.node \in NodeNames \cup {Host}
    BY SpecsAssumption, Zenon DEF Link
  <1>. QED
    BY <1>1, Zenon DEF ResolvedEndpoints, Unbound

\* A status whose binding is such a one goes into a snapshot.
LEMMA WrittenBinding ==
    ASSUME OrphanInv, NEW s \in Slots, pass[s].phase = "links", NEW l \in LinkNames, NEW b,
           b = pass[s].links[l].status.bound \/ b = ResolvedEndpoints(pass[s].links[l], pass[s].nodes)
    PROVE  OldBinding(b, nextUID) /\ ListedEnds(nodes, pass[s].nodes, b)
  <1>1. /\ pass[s].links[l] \in Link /\ pass[s].nodes \in [NodeNames -> Node]
        /\ nextUID \in Nat \ {0}
    BY Zenon DEF OrphanInv, TypeOK, Pass
  <1>2. CASE b = pass[s].links[l].status.bound
    BY <1>2, Zenon DEF OrphanInv, AllOld, Old, AllListed
  <1>3. CASE b.uidA = 0 /\ b.uidB = 0
    BY <1>1, <1>3 DEF OldBinding, ListedEnds, Listed
  <1>4. CASE /\ b.a \in NodeNames \cup {Host} /\ b.uidA = UIDOf(pass[s].nodes, b.a)
             /\ b.b \in NodeNames \cup {Host} /\ b.uidB = UIDOf(pass[s].nodes, b.b)
    <2>1. \A n \in NodeNames \cup {Host} : UIDOf(pass[s].nodes, n) < nextUID
      BY <1>1 DEF OrphanInv, AllOld, UIDOf
    <2>. QED
      BY <1>4, <2>1, Zenon DEF OldBinding, ListedEnds, Listed
  <1>. QED
    BY <1>1, <1>2, <1>3, <1>4, ResolvedFrom, Zenon

\* A pass goes on to the next Link, with or without a write of this one.
LEMMA AdvanceKeeps ==
    ASSUME OrphanInv, NEW s \in Slots, pass[s].phase = "links", NEW l \in LinkNames,
           NEW status \in Status, NEW next, Advance(s, l, status, next),
           \/ status.bound = pass[s].links[l].status.bound
           \/ status.bound = ResolvedEndpoints(pass[s].links[l], pass[s].nodes),
           \/ links' = links /\ version' = version /\ status = pass[s].links[l].status
           \/ /\ version' = [version EXCEPT ![l] = @ + 1]
              /\ \/ links' = [links EXCEPT ![l] = NoLink]
                 \/ links' = [links EXCEPT ![l].status = status],
           UNCHANGED <<nodes, nextUID>>
    PROVE  Fresh' /\ AllOld' /\ AllListed'
  <1>1. /\ links \in [LinkNames -> Link] /\ version \in [LinkNames -> Nat]
        /\ pass \in [Slots -> Pass] /\ nextUID \in Nat \ {0}
        /\ pass[s].links \in [LinkNames -> Link]
        /\ \A t \in Slots : pass[t].version \in [LinkNames -> Nat]
    BY Zenon DEF OrphanInv, TypeOK, Pass
  <1>2. /\ pass'[s].phase = pass[s].phase /\ pass'[s].version = pass[s].version
        /\ pass'[s].nodes = pass[s].nodes
        /\ pass'[s].links = [pass[s].links EXCEPT ![l].status = status]
        /\ \A t \in Slots \ {s} : pass'[t] = pass[t]
    BY <1>1 DEF Advance, Pass
  <1>3. /\ \A k \in LinkNames \ {l} : pass'[s].links[k] = pass[s].links[k]
        /\ pass'[s].links[l].status = status
        /\ status = pass[s].links[l].status => pass'[s].links[l] = pass[s].links[l]
    BY <1>1, <1>2 DEF Link
  <1>4. OldBinding(status.bound, nextUID) /\ ListedEnds(nodes, pass[s].nodes, status.bound)
    BY WrittenBinding, Zenon
  <1>5. Fresh'
    <2> SUFFICES ASSUME NEW t \in Slots, NEW k \in LinkNames, pass'[t].phase # "idle"
                 PROVE  FreshAt(t, k)'
      BY Zenon DEF Fresh
    <2>1. FreshAt(t, k) /\ pass'[t].version = pass[t].version
      BY <1>2, Zenon DEF OrphanInv, Fresh
    <2>2. pass[t].version[k] \in Nat /\ version[k] \in Nat
      BY <1>1, Zenon
    <2>3. CASE k # l
      BY <1>1, <1>2, <1>3, <2>1, <2>3 DEF FreshAt
    <2>4. CASE k = l /\ version' = [version EXCEPT ![l] = @ + 1]
      BY <1>1, <2>1, <2>2, <2>4 DEF FreshAt
    <2>5. CASE k = l /\ links' = links /\ version' = version /\ status = pass[s].links[l].status
      BY <1>2, <1>3, <2>1, <2>5, Zenon DEF FreshAt
    <2>. QED
      BY <2>3, <2>4, <2>5, Zenon
  <1>6. AllOld'
    <2>1. \A k \in LinkNames : Old(links[k])'
      <3>1. Old(NoLink)
        BY <1>1, NewLinkOld, Zenon
      <3>2. \A k \in LinkNames \ {l} : links'[k] = links[k]
        BY <1>1, Zenon
      <3>3. links'[l] = links[l] \/ links'[l] = NoLink \/ links'[l].status = status
        BY <1>1, Zenon DEF Link
      <3>. QED
        BY <3>1, <3>2, <3>3, <1>4, Zenon DEF OrphanInv, AllOld, Old
    <2>2. \A t \in Slots, k \in LinkNames : Old(pass[t].links[k])'
      BY <1>2, <1>3, <1>4, ZenonT(40) DEF OrphanInv, AllOld, Old
    <2>3. \A t \in Slots : pass'[t].nodes = pass[t].nodes
      BY <1>2, Zenon
    <2>. QED
      BY <2>1, <2>2, <2>3, Zenon DEF OrphanInv, AllOld
  <1>7. AllListed'
    BY <1>2, <1>3, <1>4, ZenonT(40) DEF OrphanInv, AllListed
  <1>. QED
    BY <1>5, <1>6, <1>7, Zenon

\* Some passes end and the others, the Links and the Nodes stay.
LEMMA EndKeeps ==
    ASSUME OrphanInv, \A t \in Slots : pass'[t] = pass[t] \/ pass'[t] = IdlePass,
           UNCHANGED <<links, version, nodes, nextUID>>
    PROVE  Fresh' /\ AllOld' /\ AllListed'
  <1>1. nextUID \in Nat \ {0}
    BY Zenon DEF OrphanInv, TypeOK
  <1>2. Fresh'
    BY <1>1, NewLinkOld, Zenon DEF OrphanInv, Fresh, FreshAt
  <1>3. AllOld'
    BY <1>1, NewLinkOld DEF OrphanInv, AllOld, Old
  <1>4. AllListed'
    BY <1>1, NewLinkOld, Zenon DEF OrphanInv, AllListed
  <1>. QED
    BY <1>2, <1>3, <1>4, Zenon

LEMMA PassStepKeepsOrphanInv ==
    ASSUME OrphanInv, NEW s \in Slots, PassStep(s)
    PROVE  Fresh' /\ AllOld' /\ AllListed'
  <1>0. /\ pass \in [Slots -> Pass] /\ nextUID \in Nat \ {0} /\ TypeOK
        /\ version \in [LinkNames -> Nat]
    BY Zenon DEF OrphanInv, TypeOK
  <1>1. CASE StartPass(s)
    <2>1. CASE Present(links) = {}
      BY <1>1, <2>1, EndKeeps, Zenon DEF StartPass
    <2>2. CASE Present(links) # {}
      <3>1. /\ pass'[s].phase = "nodes" /\ pass'[s].links = links /\ pass'[s].version = version
            /\ pass'[s].nodes = IdlePass.nodes
            /\ \A t \in Slots \ {s} : pass'[t] = pass[t]
            /\ UNCHANGED <<links, version, nodes, nextUID>>
        BY <1>0, <1>1, <2>2, Zenon DEF StartPass, IdlePass
      <3>2. Fresh'
        BY <1>0, <3>1 DEF OrphanInv, Fresh, FreshAt
      <3>3. AllOld'
        BY <1>0, <3>1, NewLinkOld DEF OrphanInv, AllOld, Old
      <3>4. AllListed'
        BY <3>1, Zenon DEF OrphanInv, AllListed
      <3>. QED
        BY <3>2, <3>3, <3>4, Zenon
    <2>. QED
      BY <2>1, <2>2, Zenon
  <1>2. CASE ListNodes(s)
    <2>1. /\ pass[s].phase = "nodes" /\ pass'[s].phase = "links"
          /\ pass'[s].links = pass[s].links /\ pass'[s].version = pass[s].version
          /\ pass'[s].nodes = nodes
          /\ \A t \in Slots \ {s} : pass'[t] = pass[t]
          /\ UNCHANGED <<links, version, nodes, nextUID>>
      BY <1>0, <1>2, Zenon DEF ListNodes, Pass
    <2>2. Fresh'
      BY <2>1 DEF OrphanInv, Fresh, FreshAt
    <2>3. AllOld'
      BY <2>1, Zenon DEF OrphanInv, AllOld, Old
    <2>4. AllListed'
      BY <2>1, ZenonT(40) DEF OrphanInv, AllListed, ListedEnds, Listed
    <2>. QED
      BY <2>2, <2>3, <2>4, Zenon
  <1> DEFINE l == pass[s].at
  <1>3. Visiting(s) => /\ l \in LinkNames /\ pass[s].phase = "links"
                       /\ pass[s].links[l] \in Link /\ pass[s].links[l].status \in Status
    BY <1>0, VisitingType, Zenon DEF Visiting, Pass, Link
  <1>4. CASE SkipLink(s)
    BY <1>3, <1>4, AdvanceKeeps, Zenon DEF SkipLink
  <1>5. ASSUME Abort(s), UNCHANGED <<nodes, nextUID>>
        PROVE  Fresh' /\ AllOld' /\ AllListed'
    BY <1>0, <1>5, EndKeeps, Zenon DEF Abort
  <1>6. CASE DeleteLink(s)
    <2>1. CASE Abort(s)
      BY <1>5, <1>6, <2>1, Zenon DEF DeleteLink
    <2>2. CASE /\ Advance(s, l, pass[s].links[l].status, pass[s].next)
               /\ \/ links' = links /\ version' = version
                  \/ /\ links' = [links EXCEPT ![l] = NoLink]
                     /\ version' = [version EXCEPT ![l] = @ + 1]
      <3>1. Visiting(s) /\ UNCHANGED <<nodes, nextUID>>
        BY <1>6, Zenon DEF DeleteLink
      <3>. QED
        BY <1>3, <2>2, <3>1, AdvanceKeeps, Zenon
    <2>. QED
      BY <1>6, <2>1, <2>2, Zenon DEF DeleteLink
  <1>7. CASE WriteLinkStatus(s)
    <2> DEFINE desired == DesiredStatus(pass[s], l)
    <2>1. CASE Abort(s)
      BY <1>5, <1>7, <2>1, Zenon DEF WriteLinkStatus
    <2>2. CASE /\ ~Exhausted(pass[s], l)
               /\ Advance(s, l, desired, ScanPosition(pass[s], l))
               /\ \/ links' = links /\ version' = version /\ desired = pass[s].links[l].status
                  \/ /\ links' = [links EXCEPT ![l].status = desired]
                     /\ version' = [version EXCEPT ![l] = @ + 1]
      <3>1. Visiting(s) /\ UNCHANGED <<nodes, nextUID>>
        BY <1>7, Zenon DEF WriteLinkStatus
      <3>2. desired \in Status
        BY <1>0, <1>3, <2>2, <3>1, DesiredStatusType, Zenon DEF TypeOK
      <3>3. desired.bound = ResolvedEndpoints(pass[s].links[l], pass[s].nodes)
        BY Zenon DEF DesiredStatus
      <3>. HIDE DEF desired
      <3>. QED
        BY <1>3, <2>2, <3>1, <3>2, <3>3, AdvanceKeeps, Zenon
    <2>. QED
      BY <1>7, <2>1, <2>2, Zenon DEF WriteLinkStatus
  <1>8. CASE FinishPass(s)
    BY <1>0, <1>8, EndKeeps, Zenon DEF FinishPass
  <1>. QED
    BY <1>1, <1>2, <1>4, <1>6, <1>7, <1>8, Zenon DEF PassStep

\* A user writes a Link, bound to nothing or as it was.
LEMMA PutKeeps ==
    ASSUME OrphanInv, NEW l \in LinkNames, NEW link,
           links' = [links EXCEPT ![l] = link], version' = [version EXCEPT ![l] = @ + 1],
           Old(link), UNCHANGED <<nodes, nextUID, pass>>
    PROVE  Fresh' /\ AllOld' /\ AllListed'
  <1>1. /\ links \in [LinkNames -> Link] /\ version \in [LinkNames -> Nat]
        /\ \A t \in Slots : pass[t].version \in [LinkNames -> Nat]
    BY Zenon DEF OrphanInv, TypeOK, Pass
  <1>2. Fresh'
    BY <1>1 DEF OrphanInv, Fresh, FreshAt
  <1>3. AllOld'
    BY <1>1, Zenon DEF OrphanInv, AllOld, Old
  <1>4. AllListed'
    BY Zenon DEF OrphanInv, AllListed
  <1>. QED
    BY <1>2, <1>3, <1>4, Zenon

LEMMA UserNextKeepsOrphanInv ==
    ASSUME OrphanInv, UserNext
    PROVE  Fresh' /\ AllOld' /\ AllListed'
  <1>0. /\ links \in [LinkNames -> Link] /\ pass \in [Slots -> Pass] /\ nextUID \in Nat \ {0}
        /\ nodes \in [NodeNames -> Node] /\ TypeOK
        /\ \A k \in LinkNames : Old(links[k])
    BY Zenon DEF OrphanInv, TypeOK, AllOld
  <1>1. ASSUME NEW l \in LinkNames, CreateLink(l) \/ RemoveLink(l)
        PROVE  Fresh' /\ AllOld' /\ AllListed'
    BY <1>0, <1>1, NewLinkOld, PutKeeps, Zenon DEF CreateLink, RemoveLink, PutLink
  <1>2. ASSUME NEW l \in LinkNames, EditLink(l) \/ MarkDeleting(l) \/ ToggleIgnore(l) \/ TamperStatus(l)
        PROVE  Fresh' /\ AllOld' /\ AllListed'
    <2>1. links[l] \in Link
      BY <1>0, Zenon
    <2>2. PICK link : /\ links' = [links EXCEPT ![l] = link] /\ link.status.bound = links[l].status.bound
                      /\ version' = [version EXCEPT ![l] = @ + 1]
                      /\ UNCHANGED <<nodes, nextUID, pass>>
      <3>1. CASE EditLink(l)
        BY <2>1, <3>1, Zenon DEF EditLink, PutLink, Link, Status
      <3>2. CASE MarkDeleting(l) \/ ToggleIgnore(l)
        BY <2>1, <3>2, Zenon DEF MarkDeleting, ToggleIgnore, PutLink, Link
      <3>3. CASE TamperStatus(l)
        <4>1. PICK id : links' = [links EXCEPT ![l].status.wireID = id]
          BY <3>3, Zenon DEF TamperStatus
        <4>2. /\ links' = [links EXCEPT ![l] = [links[l] EXCEPT !.status.wireID = id]]
              /\ [links[l] EXCEPT !.status.wireID = id].status.bound = links[l].status.bound
          BY <1>0, <2>1, <4>1, Zenon DEF Link, Status
        <4>. QED
          BY <3>3, <4>2, Zenon DEF TamperStatus
      <3>. QED
        BY <1>2, <3>1, <3>2, <3>3, Zenon
    <2>3. Old(link)
      BY <1>0, <2>2, Zenon DEF Old
    <2>. QED
      BY <2>2, <2>3, PutKeeps, Zenon
  <1>3. ASSUME NEW n \in NodeNames, CreateNode(n) \/ DeleteNode(n) \/ SetNetworkMode(n)
        PROVE  Fresh' /\ AllOld' /\ AllListed'
    <2>1. /\ UNCHANGED <<links, version, pass>>
          /\ nextUID' \in Nat /\ nextUID <= nextUID'
          /\ \A k \in NodeNames : \/ nodes'[k].uid = nodes[k].uid
                                  \/ nodes'[k].uid = 0
                                  \/ nodes'[k].uid = nextUID /\ nextUID' = nextUID + 1
      BY <1>0, <1>3 DEF CreateNode, DeleteNode, SetNetworkMode, NoNodeObject, Node
    <2>2. Fresh'
      BY <2>1, Zenon DEF OrphanInv, Fresh, FreshAt
    <2>3. \A t \in Slots, k \in LinkNames : pass[t].links[k].status.bound \in Binding
      BY <1>0 DEF Pass, Link, Status
    <2>4. \A b \in Binding : b.uidA \in Nat /\ b.uidB \in Nat
      BY DEF Binding, Unbound
    <2>5. \A k \in LinkNames : links[k].status.bound \in Binding
      BY <1>0, Zenon DEF Link, Status
    <2>6. \A k \in NodeNames : nodes[k].uid \in Nat /\ \A t \in Slots : pass[t].nodes[k].uid \in Nat
      BY <1>0 DEF Node, Pass
    <2>7. AllOld'
      <3>1. nextUID \in Nat
        BY <1>0, Zenon
      <3>2. \A i \in Nat : i < nextUID => i < nextUID'
        BY <2>1, <3>1
      <3>3. \A b \in Binding : OldBinding(b, nextUID) => OldBinding(b, nextUID')
        BY <2>4, <3>2, Zenon DEF OldBinding
      <3>4. \A n1 \in NodeNames : nodes'[n1].uid < nextUID'
        <4> SUFFICES ASSUME NEW n1 \in NodeNames PROVE nodes'[n1].uid < nextUID'
          BY Zenon
        <4>1. nodes[n1].uid < nextUID /\ nodes[n1].uid \in Nat
          BY <2>6, Zenon DEF OrphanInv, AllOld
        <4>2. CASE nodes'[n1].uid = nodes[n1].uid
          BY <3>2, <4>1, <4>2, Zenon
        <4>3. CASE nodes'[n1].uid # nodes[n1].uid
          BY <2>1, <3>1, <4>1, <4>3
        <4>. QED
          BY <4>2, <4>3, Zenon
      <3>. QED
        BY <2>1, <2>3, <2>5, <2>6, <3>2, <3>3, <3>4, Zenon DEF OrphanInv, AllOld, Old
    <2>8. AllListed'
      <3> SUFFICES ASSUME NEW t \in Slots, NEW k \in LinkNames, pass[t].phase = "links"
                   PROVE  ListedEnds(nodes', pass[t].nodes, pass[t].links[k].status.bound)
        BY <2>1, Zenon DEF AllListed
      <3> DEFINE b == pass[t].links[k].status.bound
      <3>1. b \in Binding /\ ListedEnds(nodes, pass[t].nodes, b) /\ b.uidA < nextUID /\ b.uidB < nextUID
        BY <2>3, Zenon DEF OrphanInv, AllListed, AllOld, Old, OldBinding
      <3>. HIDE DEF b
      <3>2. \/ b.a \in NodeNames \cup {Host} /\ b.b \in NodeNames \cup {Host}
            \/ b.uidA = 0 /\ b.uidB = 0
        BY <3>1 DEF Binding, Unbound
      <3>3. \A e \in NodeNames \cup {Host} :
              \A uid \in Nat : uid # 0 /\ uid < nextUID /\ UIDOf(nodes', e) = uid => UIDOf(nodes, e) = uid
        BY <1>0, <2>1 DEF UIDOf
      <3>4. ListedEnds(nodes', pass[t].nodes, b)
        BY <2>1, <2>4, <3>1, <3>2, <3>3, Zenon DEF ListedEnds, Listed
      <3>. QED
        BY <2>1, <3>4, Zenon DEF b
    <2>. QED
      BY <2>2, <2>7, <2>8, Zenon
  <1>4. ASSUME NEW s \in Slots, PassFails(s) \/ Failover(s)
        PROVE  Fresh' /\ AllOld' /\ AllListed'
    BY <1>0, <1>4, EndKeeps, Zenon DEF PassFails, Failover
  <1>. QED
    BY <1>1, <1>2, <1>3, <1>4, Zenon DEF UserNext

LEMMA OrphanInvariant == Spec => []OrphanInv
  <1>1. Init => Fresh /\ AllOld /\ AllListed
    <2> SUFFICES ASSUME Init PROVE Fresh /\ AllOld /\ AllListed
      BY Zenon
    <2>1. /\ \A t \in Slots : pass[t] = IdlePass
          /\ \A k \in LinkNames : links[k] = NoLink
          /\ nextUID = 2 /\ \A n \in NodeNames : nodes[n].uid < 2
      BY DEF Init, NoNodeObject
    <2>. QED
      BY <2>1, NewLinkOld DEF Fresh, AllOld, AllListed
  <1>2. OrphanInv /\ [Next]_vars /\ TypeOK' => (Fresh /\ AllOld /\ AllListed)'
    <2>1. ASSUME OrphanInv, UNCHANGED vars PROVE (Fresh /\ AllOld /\ AllListed)'
      BY <2>1, EndKeeps, Zenon DEF vars
    <2>. QED
      BY <2>1, PassStepKeepsOrphanInv, UserNextKeepsOrphanInv, Zenon DEF Next
  <1>. QED
    BY <1>1, <1>2, TypeCorrect, PTL DEF Spec, OrphanInv

-----------------------------------------------------------------------------
\* The binding of the deleted Link, and the Node it names, are judged as they
\* are at the deletion, not as the pass listed them.
LEMMA DeletedIsOrphaned ==
    ASSUME OrphanInv, NEW s \in Slots, DeleteLink(s),
           version[pass[s].at] = pass[s].version[pass[s].at]
    PROVE  BindingOrphaned(links[pass[s].at], nodes)
  <1> DEFINE l == pass[s].at
             b == links[l].status.bound
  <1>1. l \in LinkNames /\ pass[s].phase = "links"
    BY VisitingType, Zenon DEF DeleteLink, Visiting, OrphanInv
  <1>2. links[l] = pass[s].links[l]
    BY <1>1, Zenon DEF OrphanInv, Fresh, FreshAt
  <1>3. BindingOrphaned(links[l], pass[s].nodes)
    BY <1>2, Zenon DEF DeleteLink
  <1>4. ListedEnds(nodes, pass[s].nodes, b)
    BY <1>1, <1>2, Zenon DEF OrphanInv, AllListed
  <1>. HIDE DEF l
  <1>5. BindingMatchesSpec(links[l])
    BY <1>3, Zenon DEF BindingOrphaned
  <1>6. \/ b.uidA # UIDOf(pass[s].nodes, b.a)
        \/ b.uidB # UIDOf(pass[s].nodes, b.b)
    BY <1>3, Zenon DEF BindingOrphaned
  <1>7. (b.a = Host \/ b.uidA # 0) /\ (b.b = Host \/ b.uidB # 0)
    BY <1>5, Zenon DEF BindingMatchesSpec
  <1>8. \/ b.uidA # UIDOf(nodes, b.a)
        \/ b.uidB # UIDOf(nodes, b.b)
    BY <1>4, <1>6, <1>7, Zenon DEF ListedEnds, Listed, UIDOf
  <1>9. BindingOrphaned(links[l], nodes)
    BY <1>5, <1>8, Zenon DEF BindingOrphaned
  <1>. QED
    BY <1>9, Zenon DEF l

\* The controller deletes a Link only when it is bound to a Node that is gone
\* at that moment (reconcileLink, controllers/link/reconcile.go): for any number
\* of Links, Nodes and managers, whatever users do after the Links and the Nodes
\* were listed.
THEOREM DeletesAreJustified == Spec => DeletesOnlyOrphans
  <1> DEFINE Justified == \A l \in LinkNames :
          links[l].exists /\ ~links'[l].exists /\ env' = env => BindingOrphaned(links[l], nodes)
  <1>1. OrphanInv /\ [Next]_vars => [Justified]_vars
    <2> SUFFICES ASSUME OrphanInv, Next, NEW l \in LinkNames,
                        links[l].exists, ~links'[l].exists, env' = env
                 PROVE  BindingOrphaned(links[l], nodes)
      BY Zenon
    <2>1. ~UserNext
      <3>1. env \in Nat
        BY MaxEnvAssumption DEF OrphanInv, TypeOK
      <3>2. UserNext => env' = env + 1
        BY Zenon DEF UserNext, CreateLink, EditLink, MarkDeleting, RemoveLink, ToggleIgnore, TamperStatus,
               CreateNode, DeleteNode, SetNetworkMode, PassFails, Failover, UserStep
      <3>. QED
        BY <3>1, <3>2
    <2>2. PICK s \in Slots : PassStep(s)
      BY <2>1, Zenon DEF Next
    <2>3. links \in [LinkNames -> Link]
      BY Zenon DEF OrphanInv, TypeOK
    <2>4. links' # links
      BY Zenon
    <2>5. CASE WriteLinkStatus(s)
      <3>1. PICK k, status : links' = [links EXCEPT ![k].status = status]
        BY <2>4, <2>5 DEF WriteLinkStatus, Abort
      <3>. QED
        BY <2>3, <3>1, Zenon DEF Link
    <2>6. CASE DeleteLink(s)
      <3>1. /\ version[pass[s].at] = pass[s].version[pass[s].at]
            /\ links' = [links EXCEPT ![pass[s].at] = NoLink]
        BY <2>4, <2>6, Zenon DEF DeleteLink, Abort
      <3>2. l = pass[s].at
        BY <2>3, <3>1, Zenon
      <3>. QED
        BY <2>6, <3>1, <3>2, DeletedIsOrphaned, Zenon
    <2>. QED
      BY <2>2, <2>4, <2>5, <2>6, Zenon DEF PassStep, StartPass, ListNodes, SkipLink, FinishPass
  <1>. QED
    BY <1>1, OrphanInvariant, PTL DEF Spec, DeletesOnlyOrphans
-----------------------------------------------------------------------------
\* AcceptedIsBound, said of one Link.
BoundIfAccepted(link) ==
    link.exists /\ link.status.cond.reason = "Accepted" /\ link.status.cond.observed =>
        ValidateLink(link.spec) /\ BindingMatchesSpec(link)

LEMMA AcceptedWords == AcceptedIsBound <=> \A l \in LinkNames : BoundIfAccepted(links[l])
  BY Zenon DEF AcceptedIsBound, BoundIfAccepted

\* Resolving the endpoints of a Link whose Nodes were all listed binds it to them.
LEMMA ResolvedMatches ==
    ASSUME NEW link \in Link, NEW ns \in [NodeNames -> Node], EndpointsResolve(link.spec, ns),
           NEW written \in Link, written.spec = link.spec,
           written.status.bound = ResolvedEndpoints(link, ns)
    PROVE  BindingMatchesSpec(written)
  <1>1. CASE BindingMatchesSpec(link)
    BY <1>1, Zenon DEF ResolvedEndpoints, BindingMatchesSpec
  <1>2. CASE ~BindingMatchesSpec(link)
    <2> DEFINE a == link.spec.a
               b == link.spec.b
    <2>1. a.node \in NodeNames \cup {Host} /\ b.node \in NodeNames \cup {Host}
      BY SpecsAssumption, Zenon DEF Link
    <2>2. written.status.bound = [a |-> a.node, b |-> b.node,
                                  uidA |-> UIDOf(ns, a.node), uidB |-> UIDOf(ns, b.node)]
      BY <1>2, Zenon DEF ResolvedEndpoints
    <2>3. \A e \in {a, b} : e.node # Host => UIDOf(ns, e.node) # 0
      BY Zenon DEF EndpointsResolve, NodeEndpoints, Endpoints, Existing, UIDOf
    <2>4. written.status.bound # Unbound
      BY <2>1, <2>2, ReservedNames DEF Unbound
    <2>. QED
      BY <2>2, <2>3, <2>4 DEF BindingMatchesSpec
  <1>. QED
    BY <1>1, <1>2, Zenon

\* The status a pass computes says Accepted only of a valid Link, all of whose
\* Nodes were listed.
LEMMA DesiredIsBound ==
    ASSUME NEW p \in Pass, NEW l \in LinkNames, NEW written \in Link,
           written.spec = p.links[l].spec, written.status = DesiredStatus(p, l)
    PROVE  BoundIfAccepted(written)
  <1> SUFFICES ASSUME DesiredCondition(p, l).reason = "Accepted"
               PROVE  ValidateLink(written.spec) /\ BindingMatchesSpec(written)
    BY DEF BoundIfAccepted, DesiredStatus
  <1>1. p.links[l] \in Link /\ p.nodes \in [NodeNames -> Node]
    BY Zenon DEF Pass
  <1>2. ValidateLink(p.links[l].spec) /\ EndpointsResolve(p.links[l].spec, p.nodes)
    BY Zenon DEF DesiredCondition
  <1>3. written.status.bound = ResolvedEndpoints(p.links[l], p.nodes)
    BY DEF DesiredStatus
  <1>. QED
    BY <1>1, <1>2, <1>3, ResolvedMatches, Zenon

LEMMA PassStepKeepsAccepted ==
    ASSUME OrphanInv, AcceptedIsBound, NEW s \in Slots, PassStep(s)
    PROVE  AcceptedIsBound'
  <1> DEFINE l == pass[s].at
             desired == DesiredStatus(pass[s], l)
  <1>0. links \in [LinkNames -> Link] /\ pass[s] \in Pass /\ TypeOK
    BY Zenon DEF OrphanInv, TypeOK
  <1>1. CASE links' = links
    BY <1>1, Zenon DEF AcceptedIsBound, BindingMatchesSpec
  <1>2. CASE links' = [links EXCEPT ![l] = NoLink]
    <2>1. ~NoLink.exists
      BY Zenon DEF NoLink
    <2>2. \A k \in LinkNames : links'[k] = links[k] \/ links'[k] = NoLink
      BY <1>0, <1>2, Zenon
    <2>. QED
      BY <2>1, <2>2, AcceptedWords, Zenon DEF AcceptedIsBound, BoundIfAccepted
  <1>3. CASE /\ Visiting(s) /\ ~Exhausted(pass[s], l) /\ version[l] = pass[s].version[l]
             /\ links' = [links EXCEPT ![l].status = desired]
    <2>1. l \in LinkNames /\ pass[s].phase = "links"
      BY <1>0, <1>3, VisitingType, Zenon DEF Visiting
    <2>2. links[l] = pass[s].links[l]
      BY <1>3, <2>1, Zenon DEF OrphanInv, Fresh, FreshAt
    <2>3. desired \in Status
      BY <1>0, <1>3, <2>1, DesiredStatusType, Zenon DEF TypeOK
    <2>. HIDE DEF desired
    <2>4. /\ links'[l] \in Link /\ links'[l].spec = links[l].spec /\ links'[l].status = desired
          /\ \A k \in LinkNames \ {l} : links'[k] = links[k]
      BY <1>0, <1>3, <2>1, <2>3, Zenon DEF Link
    <2>5. BoundIfAccepted(links'[l])
      BY <1>0, <2>1, <2>2, <2>4, DesiredIsBound, Zenon DEF desired
    <2>6. \A k \in LinkNames : BoundIfAccepted(links'[k])
      BY <2>4, <2>5, AcceptedWords, Zenon
    <2>. QED
      BY <2>6, Zenon DEF AcceptedIsBound, BoundIfAccepted
  <1>. QED
    BY <1>1, <1>2, <1>3, Zenon DEF PassStep, StartPass, ListNodes, SkipLink, DeleteLink, WriteLinkStatus,
                            FinishPass, Abort

\* Users create Links without a status; an edit makes the condition one of an
\* older generation, and every other write leaves spec and binding alone.
LEMMA UserNextKeepsAccepted ==
    ASSUME TypeOK, AcceptedIsBound, UserNext
    PROVE  AcceptedIsBound'
  <1>0. links \in [LinkNames -> Link]
    BY Zenon DEF TypeOK
  <1>1. CASE links' = links
    BY <1>1, Zenon DEF AcceptedIsBound, BindingMatchesSpec
  <1>2. ASSUME NEW l \in LinkNames, NEW link, links' = [links EXCEPT ![l] = link],
               BoundIfAccepted(link)
        PROVE  AcceptedIsBound'
    <2>1. \A k \in LinkNames : BoundIfAccepted(links'[k])
      BY <1>0, <1>2, AcceptedWords, Zenon
    <2>. QED
      BY <2>1, Zenon DEF AcceptedIsBound, BoundIfAccepted
  <1>3. ASSUME NEW l \in LinkNames, CreateLink(l) \/ RemoveLink(l)
        PROVE  AcceptedIsBound'
    <2>1. BoundIfAccepted(NoLink) /\ \A spec : BoundIfAccepted(NewLink(spec))
      BY Zenon DEF BoundIfAccepted, NewLink, NoLink, EmptyStatus
    <2>. QED
      BY <1>2, <1>3, <2>1, Zenon DEF CreateLink, RemoveLink, PutLink
  <1>4. ASSUME NEW l \in LinkNames, EditLink(l) PROVE AcceptedIsBound'
    <2>1. PICK spec : links' = [links EXCEPT ![l] = [links[l] EXCEPT !.spec = spec,
                                                       !.status.cond.observed = FALSE]]
      BY <1>4, Zenon DEF EditLink, PutLink
    <2>2. ~[links[l] EXCEPT !.spec = spec, !.status.cond.observed = FALSE].status.cond.observed
      BY <1>0 DEF Link, Status, Condition
    <2>. QED
      BY <1>2, <2>1, <2>2, Zenon DEF BoundIfAccepted
  <1>5. ASSUME NEW l \in LinkNames, MarkDeleting(l) \/ ToggleIgnore(l) \/ TamperStatus(l)
        PROVE  AcceptedIsBound'
    <2>1. links[l] \in Link /\ BoundIfAccepted(links[l])
      BY <1>0, AcceptedWords, Zenon
    <2>2. PICK link : /\ links' = [links EXCEPT ![l] = link] /\ link.exists = links[l].exists
                      /\ link.spec = links[l].spec /\ link.status.cond = links[l].status.cond
                      /\ link.status.bound = links[l].status.bound
      <3>1. CASE MarkDeleting(l) \/ ToggleIgnore(l)
        BY <2>1, <3>1, Zenon DEF MarkDeleting, ToggleIgnore, PutLink, Link
      <3>2. CASE TamperStatus(l)
        <4>1. PICK id : links' = [links EXCEPT ![l].status.wireID = id]
          BY <3>2, Zenon DEF TamperStatus
        <4>. DEFINE link == [links[l] EXCEPT !.status.wireID = id]
        <4>2. /\ links' = [links EXCEPT ![l] = link] /\ link.exists = links[l].exists
              /\ link.spec = links[l].spec /\ link.status.cond = links[l].status.cond
              /\ link.status.bound = links[l].status.bound
          BY <1>0, <2>1, <4>1, Zenon DEF Link, Status
        <4>. QED
          BY <4>2, Zenon
      <3>. QED
        BY <1>5, <3>1, <3>2, Zenon
    <2>3. BoundIfAccepted(link)
      BY <2>1, <2>2, Zenon DEF BoundIfAccepted, BindingMatchesSpec
    <2>. QED
      BY <1>2, <2>2, <2>3, Zenon
  <1>6. ASSUME NEW n \in NodeNames, CreateNode(n) \/ DeleteNode(n) \/ SetNetworkMode(n)
        PROVE  AcceptedIsBound'
    BY <1>1, <1>6, Zenon DEF CreateNode, DeleteNode, SetNetworkMode
  <1>7. ASSUME NEW s \in Slots, PassFails(s) \/ Failover(s)
        PROVE  AcceptedIsBound'
    BY <1>1, <1>7, Zenon DEF PassFails, Failover
  <1>. QED
    BY <1>3, <1>4, <1>5, <1>6, <1>7, Zenon DEF UserNext

\* A Link that says Accepted for its generation is valid and bound to the Nodes
\* it names (reconcileLink and resolveLinkEndpoints,
\* controllers/link/reconcile.go): for any number of Links, Nodes and managers, whatever
\* users edit while a pass holds an older list of the Links.
THEOREM AcceptedLinksAreBound == Spec => []AcceptedIsBound
  <1>1. Init => AcceptedIsBound
    <2>1. ~NoLink.exists
      BY Zenon DEF NoLink
    <2>. QED
      BY <2>1, Zenon DEF Init, AcceptedIsBound
  <1>2. OrphanInv /\ AcceptedIsBound /\ [Next]_vars => AcceptedIsBound'
    <2>1. ASSUME AcceptedIsBound, UNCHANGED vars PROVE AcceptedIsBound'
      BY <2>1, Zenon DEF vars, AcceptedIsBound, BindingMatchesSpec
    <2>2. OrphanInv => TypeOK
      BY Zenon DEF OrphanInv
    <2>. QED
      BY <2>1, <2>2, PassStepKeepsAccepted, UserNextKeepsAccepted, Zenon DEF Next
  <1>. QED
    BY <1>1, <1>2, OrphanInvariant, PTL DEF Spec

-----------------------------------------------------------------------------
(* Wire ids *)

InRange(ls) == \A k \in LinkNames : IDOf(ls, k) \in 0..ceiling

Ranged == InRange(links) /\ \A t \in Slots : InRange(pass[t].links)

RangedInv == clean => Ranged

\* The id a pass settles on is none, the Link's own, or a free one.
LEMMA DesiredIDRange ==
    ASSUME ceiling \in WireIDs, NEW p \in Pass, NEW l \in LinkNames, ~Exhausted(p, l)
    PROVE  DesiredStatus(p, l).wireID \in 0..ceiling
  <1>1. DesiredCondition(p, l).reason = "Accepted" /\ Allocates(p, l)
           => Lowest(FreeIDs(p.links, l, p.next)) \in 1..ceiling
    BY AllocatedID, Zenon DEF Exhausted
  <1>2. 0 \in 0..ceiling /\ 1..ceiling \subseteq 0..ceiling
    BY MaxWireIDAssumption DEF WireIDs
  <1>. QED
    BY <1>1, <1>2, Zenon DEF DesiredStatus, DesiredWireID, Allocates, KeepsID

LEMMA DesiredIDKept ==
    ASSUME NEW p \in Pass, NEW l \in LinkNames, UniqueIDs(p.links), IDOf(p.links, l) \in 1..ceiling,
           ceiling \in WireIDs
    PROVE  DesiredStatus(p, l).wireID \in {0, IDOf(p.links, l)}
  <1>1. DOMAIN p.links = LinkNames /\ LinkNames \subseteq Nat /\ IDOf(p.links, l) # 0
    BY NLinksAssumption, MaxWireIDAssumption DEF Pass, LinkNames, WireIDs
  <1>2. \A k \in LinkNames : IDOf(p.links, k) = IDOf(p.links, l) => k = l
    BY <1>1, Zenon DEF UniqueIDs
  <1>3. ~\E o \in WireOwners(p.links, IDOf(p.links, l)) : o < l
    <2>1. WireOwners(p.links, IDOf(p.links, l)) \subseteq {l}
      BY <1>1, <1>2, Zenon DEF WireOwners, IDOf
    <2>2. l \in Nat
      BY <1>1, Zenon
    <2>. QED
      BY <2>1, <2>2
  <1>4. KeepsID(p.links, l)
    BY <1>3, Zenon DEF KeepsID, IDOf
  <1>. QED
    BY <1>4, Zenon DEF DesiredStatus, DesiredWireID, IDOf

\* No id, or the one it had; or a first one.
IDStep(k) ==
    \/ IDOf(links', k) \in {0, IDOf(links, k)}
    \/ IDOf(links, k) = 0 /\ IDOf(links', k) \in 0..ceiling

Steps ==
    /\ \A k \in LinkNames : IDStep(k)
    /\ \A t \in Slots, k \in LinkNames : IDOf(pass'[t].links, k) \in 0..ceiling

\* A step that gives no id: passes list Links, end, or stay.
LEMMA QuietIDs ==
    ASSUME TypeOK, Ranged,
           \A t \in Slots : pass'[t].links = pass[t].links \/ pass'[t].links = links \/ pass'[t] = IdlePass,
           \A k \in LinkNames : IDOf(links', k) \in {0, IDOf(links, k)}
    PROVE  Steps
  <1>1. \A k \in LinkNames : IDOf(IdlePass.links, k) = 0
    BY NoLinkID, Zenon DEF IdlePass, IDOf
  <1>2. 0 \in 0..ceiling
    BY MaxWireIDAssumption DEF TypeOK, WireIDs
  <1>. QED
    BY <1>1, <1>2, Zenon DEF Steps, IDStep, Ranged, InRange

\* A pass goes on, having written status to Link l or not.
LEMMA AdvanceIDs ==
    ASSUME TypeOK, Ranged, NEW s \in Slots, NEW l \in LinkNames, NEW status \in Status, NEW next,
           Advance(s, l, status, next), status.wireID \in 0..ceiling,
           \A k \in LinkNames : IDStep(k)
    PROVE  Steps
  <1>1. pass[s].links \in [LinkNames -> Link]
    BY Zenon DEF TypeOK, Pass
  <1>2. /\ pass'[s].links = [pass[s].links EXCEPT ![l].status = status]
        /\ \A t \in Slots \ {s} : pass'[t] = pass[t]
    BY AdvanceEffect
  <1>3. IDOf(pass'[s].links, l) = status.wireID
        /\ \A k \in LinkNames \ {l} : IDOf(pass'[s].links, k) = IDOf(pass[s].links, k)
    BY <1>1, <1>2 DEF IDOf, Link
  <1>. QED
    BY <1>2, <1>3, Zenon DEF Steps, Ranged, InRange

LEMMA PassStepIDs ==
    ASSUME OrphanInv, Ranged, Accounted, NEW s \in Slots, PassStep(s)
    PROVE  Steps
  <1>0. /\ TypeOK /\ pass \in [Slots -> Pass] /\ links \in [LinkNames -> Link]
        /\ ceiling \in WireIDs /\ pass[s] \in Pass
    BY Zenon DEF OrphanInv, TypeOK
  <1>1. CASE StartPass(s)
    BY <1>0, <1>1, QuietIDs, Zenon DEF StartPass, IdlePass
  <1>2. CASE ListNodes(s) \/ FinishPass(s)
    <2>1. \A t \in Slots : pass'[t].links = pass[t].links \/ pass'[t] = IdlePass
      <3>1. CASE ListNodes(s)
        BY <1>0, <3>1 DEF ListNodes, Pass
      <3>2. CASE FinishPass(s)
        BY <1>0, <3>2, Zenon DEF FinishPass
      <3>. QED
        BY <1>2, <3>1, <3>2, Zenon
    <2>2. \A k \in LinkNames : IDOf(links', k) \in {0, IDOf(links, k)}
      BY <1>2, Zenon DEF ListNodes, FinishPass
    <2>. QED
      BY <1>0, <2>1, <2>2, QuietIDs, Zenon
  <1> DEFINE l == pass[s].at
  <1>3. Visiting(s) => /\ l \in LinkNames /\ pass[s].phase = "links"
                       /\ pass[s].links[l] \in Link /\ pass[s].links[l].status \in Status
                       /\ pass[s].links[l].status.wireID \in 0..ceiling
    BY <1>0, VisitingType, Zenon DEF Visiting, Pass, Link, Ranged, InRange, IDOf
  <1>4. CASE SkipLink(s)
    BY <1>0, <1>3, <1>4, AdvanceIDs, Zenon DEF SkipLink, IDStep
  <1>5. ASSUME Abort(s) PROVE Steps
    BY <1>0, <1>5, QuietIDs, Zenon DEF Abort
  <1>6. CASE DeleteLink(s)
    <2>1. CASE Abort(s)
      BY <1>5, <2>1, Zenon
    <2>2. CASE /\ Advance(s, l, pass[s].links[l].status, pass[s].next)
               /\ links' = links \/ links' = [links EXCEPT ![l] = NoLink]
      <3>1. Visiting(s)
        BY <1>6, Zenon DEF DeleteLink
      <3>2. \A k \in LinkNames : IDStep(k)
        BY <1>0, <1>3, <2>2, <3>1, NoLinkID, Zenon DEF IDStep, IDOf
      <3>. QED
        BY <1>0, <1>3, <2>2, <3>1, <3>2, AdvanceIDs, Zenon
    <2>. QED
      BY <1>6, <2>1, <2>2, Zenon DEF DeleteLink
  <1>7. CASE WriteLinkStatus(s)
    <2> DEFINE desired == DesiredStatus(pass[s], l)
    <2>1. CASE Abort(s)
      BY <1>5, <2>1, Zenon
    <2>2. CASE /\ ~Exhausted(pass[s], l)
               /\ Advance(s, l, desired, ScanPosition(pass[s], l))
               /\ \/ links' = links
                  \/ /\ links' = [links EXCEPT ![l].status = desired]
                     /\ version[l] = pass[s].version[l]
      <3>1. Visiting(s)
        BY <1>7, Zenon DEF WriteLinkStatus
      <3>2. desired \in Status /\ desired.wireID \in 0..ceiling
        BY <1>0, <1>3, <2>2, <3>1, DesiredStatusType, DesiredIDRange, Zenon
      <3>3. UniqueIDs(pass[s].links)
        BY <1>3, <3>1, Zenon DEF Accounted
      <3>4. IDOf(pass[s].links, l) # 0 => desired.wireID \in {0, IDOf(pass[s].links, l)}
        <4>1. IDOf(pass[s].links, l) # 0 => IDOf(pass[s].links, l) \in 1..ceiling
          BY <1>0, <1>3, <3>1, MaxWireIDAssumption DEF IDOf, WireIDs
        <4>. QED
          BY <1>0, <1>3, <3>1, <3>3, <4>1, DesiredIDKept, Zenon
      <3>. HIDE DEF desired
      <3>5. CASE links' = links
        <4>1. \A k \in LinkNames : IDStep(k)
          BY <3>5, Zenon DEF IDStep
        <4>. QED
          BY <1>0, <1>3, <2>2, <3>1, <3>2, <4>1, AdvanceIDs, Zenon
      <3>6. CASE links' = [links EXCEPT ![l].status = desired] /\ version[l] = pass[s].version[l]
        <4>1. links[l] = pass[s].links[l]
          BY <1>3, <3>1, <3>6, Zenon DEF OrphanInv, Fresh, FreshAt
        <4>2. IDOf(links', l) = desired.wireID /\ IDOf(links, l) = IDOf(pass[s].links, l)
          BY <1>0, <1>3, <3>1, <3>6, <4>1, Zenon DEF IDOf, Link
        <4>3. \A k \in LinkNames \ {l} : IDOf(links', k) = IDOf(links, k)
          BY <1>0, <3>6, Zenon DEF IDOf
        <4>4. \A k \in LinkNames : IDStep(k)
          BY <3>2, <3>4, <4>2, <4>3, Zenon DEF IDStep
        <4>. QED
          BY <1>0, <1>3, <2>2, <3>1, <3>2, <4>4, AdvanceIDs, Zenon
      <3>. QED
        BY <2>2, <3>5, <3>6, Zenon
    <2>. QED
      BY <1>7, <2>1, <2>2, Zenon DEF WriteLinkStatus
  <1>. QED
    BY <1>1, <1>2, <1>4, <1>6, <1>7, Zenon DEF PassStep

LEMMA UserNextIDs ==
    ASSUME TypeOK, Ranged, UserNext, clean'
    PROVE  Steps
  <1>0. links \in [LinkNames -> Link] /\ pass \in [Slots -> Pass]
    BY Zenon DEF TypeOK
  <1>1. ASSUME NEW l \in LinkNames,
               CreateLink(l) \/ EditLink(l) \/ MarkDeleting(l) \/ RemoveLink(l) \/ ToggleIgnore(l)
        PROVE  Steps
    <2>1. PICK link : /\ links' = [links EXCEPT ![l] = link] /\ pass' = pass
                      /\ link.status.wireID \in {0, links[l].status.wireID}
      <3>0. \A spec : NewLink(spec).status.wireID = 0
        BY Zenon DEF NewLink, NoLink, EmptyStatus
      <3>1. CASE CreateLink(l) \/ RemoveLink(l)
        BY <3>0, <3>1, NoLinkID, Zenon DEF CreateLink, RemoveLink, PutLink
      <3>2. links[l] \in Link
        BY <1>0, Zenon
      <3>3. CASE EditLink(l)
        BY <3>2, <3>3, Zenon DEF EditLink, PutLink, Link, Status
      <3>4. CASE MarkDeleting(l) \/ ToggleIgnore(l)
        BY <3>2, <3>4, Zenon DEF MarkDeleting, ToggleIgnore, PutLink, Link
      <3>. QED
        BY <1>1, <3>1, <3>3, <3>4, Zenon
    <2>2. \A k \in LinkNames : IDOf(links', k) \in {0, IDOf(links, k)}
      BY <1>0, <2>1, Zenon DEF IDOf
    <2>. QED
      BY <2>1, <2>2, QuietIDs, Zenon
  <1>2. ASSUME NEW l \in LinkNames, TamperStatus(l) PROVE FALSE
    BY <1>2, Zenon DEF TamperStatus
  <1>3. ASSUME NEW n \in NodeNames, CreateNode(n) \/ DeleteNode(n) \/ SetNetworkMode(n)
        PROVE  Steps
    BY <1>3, QuietIDs, Zenon DEF CreateNode, DeleteNode, SetNetworkMode
  <1>4. ASSUME NEW s \in Slots, PassFails(s) \/ Failover(s)
        PROVE  Steps
    BY <1>0, <1>4, QuietIDs, Zenon DEF PassFails, Failover
  <1>. QED
    BY <1>1, <1>2, <1>3, <1>4, Zenon DEF UserNext

LEMMA CleanStays ==
    ASSUME Next, clean'
    PROVE  clean /\ ceiling' = ceiling
  <1>1. CASE UserNext
    BY <1>1, Zenon DEF UserNext, CreateLink, EditLink, MarkDeleting, RemoveLink, ToggleIgnore, TamperStatus,
           CreateNode, DeleteNode, SetNetworkMode, PassFails, Failover, UserStep, PutLink
  <1>2. ASSUME NEW s \in Slots, PassStep(s) PROVE clean /\ ceiling' = ceiling
    BY <1>2, Zenon DEF PassStep, StartPass, ListNodes, SkipLink, DeleteLink, WriteLinkStatus, FinishPass
  <1>. QED
    BY <1>1, <1>2, Zenon DEF Next

LEMMA CleanStep ==
    ASSUME OrphanInv, CleanInv, RangedInv, Next, clean'
    PROVE  Steps /\ ceiling' = ceiling /\ clean
  BY CleanStays, PassStepIDs, UserNextIDs, Zenon DEF Next, CleanInv, RangedInv, OrphanInv

LEMMA RangedInvariant == Spec => []RangedInv
  <1>1. Init => RangedInv
    <2> SUFFICES ASSUME Init PROVE Ranged
      BY Zenon DEF RangedInv
    <2>1. 0 \in 0..ceiling
      BY MaxWireIDAssumption DEF Init, WireIDs
    <2>2. /\ \A k \in LinkNames : IDOf(links, k) = 0
          /\ \A t \in Slots, k \in LinkNames : IDOf(pass[t].links, k) = 0
      BY NoLinkID, Zenon DEF Init, IdlePass, IDOf
    <2>. QED
      BY <2>1, <2>2, Zenon DEF Ranged, InRange
  <1>2. OrphanInv /\ CleanInv /\ RangedInv /\ [Next]_vars => RangedInv'
    <2>1. ASSUME RangedInv, UNCHANGED vars PROVE RangedInv'
      BY <2>1, Zenon DEF vars, RangedInv, Ranged, InRange, IDOf
    <2>2. ASSUME OrphanInv, CleanInv, RangedInv, Next, clean' PROVE Ranged'
      <3>1. Steps /\ ceiling' = ceiling /\ clean
        BY <2>2, CleanStep, Zenon
      <3>2. 0 \in 0..ceiling
        BY <2>2, MaxWireIDAssumption DEF OrphanInv, TypeOK, WireIDs
      <3>. QED
        BY <2>2, <3>1, <3>2, Zenon DEF Steps, IDStep, Ranged, InRange, RangedInv
    <2>. QED
      BY <2>1, <2>2, Zenon DEF RangedInv
  <1>. QED
    BY <1>1, <1>2, OrphanInvariant, CleanInvariant, PTL DEF Spec

\* A Link that has a wire id keeps it until it loses it: no pass, whatever users
\* do to the Links it listed, gives it another one (wireReservations.desired,
\* controllers/link/allocate.go), for any number of Links, Nodes and ids, as long as
\* managers take turns and nobody else writes an id.
THEOREM RewiresKeepTheirID == Spec => RewiresKeepID
  <1> DEFINE Kept == \A l \in LinkNames :
          clean' /\ links[l].status.wireID # 0 /\ links'[l].status.wireID # 0
             => links'[l].status.wireID = links[l].status.wireID
  <1>1. OrphanInv /\ CleanInv /\ RangedInv /\ [Next]_vars => [Kept]_vars
    <2> SUFFICES ASSUME OrphanInv, CleanInv, RangedInv, Next, clean' PROVE Kept
      BY Zenon
    <2>. QED
      BY CleanStep, Zenon DEF Steps, IDStep, IDOf
  <1>. QED
    BY <1>1, OrphanInvariant, CleanInvariant, RangedInvariant, PTL DEF Spec, RewiresKeepID

-----------------------------------------------------------------------------
(***************************************************************************)
(* The initialization of the Config keeps what users wrote and loses no    *)
(* chart, for any number of manager Pods, charts and fields.               *)
(*                                                                         *)
(* Read says what the resource version stands for: a Config that still has *)
(* the version the init container has read is the Config it has read.      *)
(* InHand says which ConfigMap the initialization is about.                *)
(***************************************************************************)

Config == [exists : BOOLEAN, owned : BOOLEAN, version : Nat, spec : Boot!ConfigSpec]

Initialization ==
    [pc : {"idle", "get", "config", "write", "delete", "done"}, number : Nat,
     chart : Charts \cup {Boot!NoChart}, found : BOOLEAN, version : Nat, spec : Boot!ConfigSpec]

\* The types the two arguments need.
Types ==
    /\ cr \in Config
    /\ init \in Initialization
    /\ map \in [exists : BOOLEAN, number : Nat, chart : Charts]

Read ==
    init.pc = "write" =>
        /\ init.version <= cr.version
        /\ init.found => cr.exists
        /\ init.found /\ init.version = cr.version => init.spec = cr.spec

InHand ==
    /\ init.pc \in {"config", "write"} /\ ~overlaps => init.number = map.number
    /\ init.pc = "delete" /\ ~overlaps => merged = map.number

BootInv == Types /\ Read /\ InHand

-----------------------------------------------------------------------------
LEMMA NothingType == Boot!Nothing \in Boot!ConfigSpec /\ Boot!Idle \in Initialization /\ Boot!Finished \in Initialization
  <1>1. Boot!Nothing \in Boot!ConfigSpec
    BY Zenon DEF Boot!Nothing, Boot!ConfigSpec, Boot!Keyed, Boot!Setter
  <1>. QED
    BY <1>1, Zenon DEF Boot!Idle, Boot!Finished, Initialization

LEMMA EncodedType ==
    ASSUME NEW spec \in Boot!ConfigSpec
    PROVE  /\ Boot!Encoded(spec) \in Boot!ConfigSpec
           /\ Boot!Encoded(spec).scalar = spec.scalar /\ Boot!Encoded(spec).keyed = spec.keyed
  BY Zenon DEF Boot!Encoded, Boot!ConfigSpec, Boot!Setter

LEMMA MergeType ==
    ASSUME NEW spec \in Boot!ConfigSpec, NEW b, NEW found
    PROVE  Boot!MergeFromBootstrapConfig(spec, b, found) \in Boot!ConfigSpec
  <1>1. Boot!Replaced(b) \in Boot!ConfigSpec
    <2>1. [s \in Scalars |-> IF s \in b.scalar THEN "chart" ELSE "unset"] \in [Scalars -> Boot!Setter]
      BY Zenon DEF Boot!Setter
    <2>2. [f \in Maps |-> [made |-> TRUE, by |-> [k \in Keys |-> IF k \in b.keys THEN "chart" ELSE "unset"]]]
            \in [Maps -> Boot!Keyed]
      BY Zenon DEF Boot!Setter, Boot!Keyed
    <2>. QED
      BY <2>1, <2>2, Zenon DEF Boot!Replaced, Boot!ConfigSpec, Boot!Setter
  <1>2. Boot!Merged(spec, b) \in Boot!ConfigSpec
    <2>1. [s \in Scalars |-> IF spec.scalar[s] = "unset" /\ s \in b.scalar THEN "chart" ELSE spec.scalar[s]]
            \in [Scalars -> Boot!Setter]
      BY Zenon DEF Boot!Setter, Boot!ConfigSpec
    <2>2. ASSUME NEW f \in Maps PROVE Boot!Filled(spec.keyed[f], b) \in Boot!Keyed
      <3>1. spec.keyed[f] \in Boot!Keyed
        BY Zenon DEF Boot!ConfigSpec
      <3>. QED
        BY <3>1, Zenon DEF Boot!Filled, Boot!Keyed, Boot!Setter
    <2>. QED
      BY <2>1, <2>2, Zenon DEF Boot!Merged, Boot!ConfigSpec, Boot!Setter
  <1>. QED
    BY <1>1, <1>2, Zenon DEF Boot!MergeFromBootstrapConfig

\* A merge keeps every field and key that is set.
LEMMA MergeKeeps ==
    ASSUME NEW spec \in Boot!ConfigSpec, NEW b
    PROVE  /\ \A s \in Scalars : spec.scalar[s] # "unset" => Boot!Merged(spec, b).scalar[s] = spec.scalar[s]
           /\ \A f \in Maps, k \in Keys :
                spec.keyed[f].by[k] # "unset" => Boot!Merged(spec, b).keyed[f].by[k] = spec.keyed[f].by[k]
  BY Zenon DEF Boot!Merged, Boot!Filled

-----------------------------------------------------------------------------
(***************************************************************************)
(* The steps.                                                              *)
(***************************************************************************)

\* Somebody else writes the Config: its version is a new one.
LEMMA WriteKeeps ==
    ASSUME BootInv, cr' \in Config, cr.exists => cr'.exists, cr'.version = cr.version + 1,
           UNCHANGED <<map, init, merged, overlaps>>
    PROVE  BootInv'
  <1>1. init.version \in Nat /\ cr.version \in Nat
    BY Zenon DEF BootInv, Types, Config, Initialization
  <1>2. Types' /\ InHand'
    BY Zenon DEF BootInv, Types, InHand
  <1>3. Read'
    BY <1>1 DEF BootInv, Read
  <1>. QED
    BY <1>2, <1>3, Zenon DEF BootInv

LEMMA FailKeeps ==
    ASSUME BootInv, NEW to \in {Boot!Idle, Boot!Finished}, Boot!Fail(to)
    PROVE  BootInv'
  <1>1. Boot!Idle.pc = "idle" /\ Boot!Finished.pc = "done"
    BY Zenon DEF Boot!Idle, Boot!Finished
  <1>2. to \in Initialization /\ to.pc \in {"idle", "done"}
    BY <1>1, NothingType, Zenon
  <1>. QED
    BY <1>2, Zenon DEF Boot!Fail, BootInv, Types, Read, InHand

LEMMA StepsKeep ==
    ASSUME BootInv, Boot!Steps
    PROVE  BootInv'
  <1>0. /\ init \in Initialization /\ cr \in Config
        /\ map \in [exists : BOOLEAN, number : Nat, chart : Charts]
    BY Zenon DEF BootInv, Types
  <1>1. CASE Boot!GetBootstrapConfigmap
    <2>1. CASE map.exists
      BY <1>0, <1>1, <2>1, Zenon DEF Boot!GetBootstrapConfigmap, BootInv, Types, Initialization, Read, InHand
    <2>2. CASE ~map.exists
      <3>1. Boot!Fail(Boot!Finished)
        BY <1>1, <2>2, Zenon DEF Boot!GetBootstrapConfigmap, Boot!Fail
      <3>. QED
        BY <3>1, FailKeeps, Zenon
    <2>. QED
      BY <2>1, <2>2, Zenon
  <1>2. CASE Boot!GetConfigCR
    <2>1. /\ init.pc = "config" /\ UNCHANGED <<map, cr, merged, overlaps>>
          /\ init' = [init EXCEPT !.pc = "write", !.found = cr.exists, !.version = cr.version,
                                  !.spec = IF cr.exists THEN cr.spec ELSE Boot!Nothing]
      BY <1>2, Zenon DEF Boot!GetConfigCR
    <2>2. init' \in Initialization
      BY <1>0, <2>1, NothingType, Zenon DEF Initialization, Config
    <2>3. /\ init'.pc = "write" /\ init'.number = init.number /\ init'.version = cr.version
          /\ init'.found = cr.exists /\ (cr.exists => init'.spec = cr.spec)
      BY <1>0, <2>1, Zenon DEF Initialization
    <2>4. Read'
      BY <1>0, <2>1, <2>3 DEF Read, Config
    <2>5. InHand'
      BY <2>1, <2>3, Zenon DEF BootInv, InHand
    <2>. QED
      BY <2>1, <2>2, <2>4, <2>5, Zenon DEF BootInv, Types
  <1>3. CASE Boot!CreateOrUpdateConfig
    <2> DEFINE spec == Boot!MergeFromBootstrapConfig(init.spec, init.chart, init.found)
    <2>1. CASE init' = Boot!AfterError /\ UNCHANGED <<cr, merged>>
      <3>1. Boot!Fail(Boot!Finished)
        BY <1>3, <2>1, Zenon DEF Boot!CreateOrUpdateConfig, Boot!Fail, Boot!AfterError
      <3>. QED
        BY <3>1, FailKeeps, Zenon
    <2>2. CASE /\ init' = [init EXCEPT !.pc = "delete"] /\ merged' = init.number
               /\ \/ UNCHANGED cr
                  \/ cr' = [cr EXCEPT !.exists = TRUE, !.version = @ + 1, !.spec = Boot!Encoded(spec)]
      <3>1. init.pc = "write" /\ UNCHANGED <<map, overlaps>>
        BY <1>3, Zenon DEF Boot!CreateOrUpdateConfig
      <3>2. init' \in Initialization /\ init'.pc = "delete"
        BY <1>0, <2>2, Zenon DEF Initialization
      <3>3. spec \in Boot!ConfigSpec
        BY <1>0, MergeType, Zenon DEF Initialization
      <3>. HIDE DEF spec
      <3>4. cr' \in Config
        <4>1. Boot!Encoded(spec) \in Boot!ConfigSpec
          BY <3>3, EncodedType, Zenon
        <4>2. cr.version + 1 \in Nat
          BY <1>0 DEF Config
        <4>. QED
          BY <1>0, <2>2, <4>1, <4>2, Zenon DEF Config
      <3>. QED
        BY <2>2, <3>1, <3>2, <3>4, Zenon DEF BootInv, Types, Read, InHand
    <2>. QED
      BY <1>3, <2>1, <2>2, Zenon DEF Boot!CreateOrUpdateConfig
  <1>4. CASE Boot!DeleteBootstrapConfigmap
    <2>1. /\ init' \in Initialization /\ init'.pc = "done"
          /\ map' \in [exists : BOOLEAN, number : Nat, chart : Charts]
      BY <1>0, <1>4, NothingType, Zenon DEF Boot!DeleteBootstrapConfigmap, Boot!Finished, Boot!Idle
    <2>. QED
      BY <1>4, <2>1, Zenon DEF Boot!DeleteBootstrapConfigmap, BootInv, Types, Read, InHand
  <1>. QED
    BY <1>1, <1>2, <1>3, <1>4, Zenon DEF Boot!Steps

LEMMA EditsKeep ==
    ASSUME BootInv, NEW spec \in Boot!ConfigSpec, Edits(spec), UNCHANGED <<map, init, merged, overlaps>>
    PROVE  BootInv'
  <1>1. cr \in Config /\ cr.version + 1 \in Nat
    BY DEF BootInv, Types, Config
  <1>2. cr' \in Config /\ cr'.exists /\ cr'.version = cr.version + 1
    BY <1>1, Zenon DEF Edits, Config
  <1>. QED
    BY <1>2, WriteKeeps, Zenon

LEMMA EditKeeps ==
    ASSUME BootInv, Edit
    PROVE  BootInv'
  <1>0. cr.spec \in Boot!ConfigSpec
    BY Zenon DEF BootInv, Types, Config
  <1>1. UNCHANGED <<map, init, merged, overlaps>>
    BY Zenon DEF Edit
  <1>2. ASSUME NEW s \in Scalars PROVE [cr.spec EXCEPT !.scalar[s] = "user"] \in Boot!ConfigSpec
    BY <1>0, Zenon DEF Boot!ConfigSpec, Boot!Setter
  <1>3. ASSUME NEW f \in Maps, NEW k \in Keys
        PROVE  [cr.spec EXCEPT !.keyed[f] = [made |-> TRUE, by |-> [@.by EXCEPT ![k] = "user"]]] \in Boot!ConfigSpec
    <2>1. cr.spec.keyed[f] \in Boot!Keyed
      BY <1>0, Zenon DEF Boot!ConfigSpec
    <2>2. [made |-> TRUE, by |-> [cr.spec.keyed[f].by EXCEPT ![k] = "user"]] \in Boot!Keyed
      BY <2>1, Zenon DEF Boot!Keyed, Boot!Setter
    <2>. QED
      BY <1>0, <2>2, Zenon DEF Boot!ConfigSpec
  <1>4. [cr.spec EXCEPT !.keyed = Boot!Nothing.keyed] \in Boot!ConfigSpec
    <2>1. Boot!Nothing.keyed \in [Maps -> Boot!Keyed]
      BY NothingType, Zenon DEF Boot!ConfigSpec
    <2>. QED
      BY <1>0, <2>1, Zenon DEF Boot!ConfigSpec
  <1>5. \E spec \in Boot!ConfigSpec : Edits(spec)
    BY <1>2, <1>3, <1>4, Zenon DEF Edit
  <1>. QED
    BY <1>1, <1>5, EditsKeep, Zenon

LEMMA UpgradeKeeps ==
    ASSUME BootInv, Upgrade
    PROVE  BootInv'
  <1>0. map \in [exists : BOOLEAN, number : Nat, chart : Charts]
    BY Zenon DEF BootInv, Types
  <1>1. PICK b \in Charts : /\ map' = [exists |-> TRUE, number |-> map.number + 1, chart |-> b]
                            /\ overlaps' = (overlaps \/ init.pc \notin {"idle", "done"})
                            /\ UNCHANGED <<cr, init, merged>>
    BY Zenon DEF Upgrade, Boot!Upgrade
  <1>2. map' \in [exists : BOOLEAN, number : Nat, chart : Charts]
    BY <1>0, <1>1
  <1>3. ~overlaps' => init.pc \in {"idle", "done"} /\ ~overlaps
    BY <1>1, Zenon
  <1>4. InHand'
    BY <1>1, <1>3, Zenon DEF InHand
  <1>. QED
    BY <1>1, <1>2, <1>4, Zenon DEF BootInv, Types, Read

LEMMA SameBoot ==
    ASSUME BootInv, UNCHANGED bootstrap
    PROVE  BootInv'
  BY Zenon DEF bootstrap, BootInv, Types, Read, InHand

\* What a step of a Pod does to the Config and its initialization.
LEMMA PodStepBoot ==
    ASSUME NEW p \in world.pods, Step(p) \/ NewLeader(p) \/ OpenWatch(p) \/ Load(p) \/ Replace(p) \/ Faults(p)
    PROVE  \/ UNCHANGED bootstrap
           \/ Boot!Start
           \/ Boot!Steps
           \/ Boot!Fail(Boot!Idle)
           \/ Boot!Fail(Boot!Finished)
           \/ PostStart(p) /\ cr' # cr
  <1>1. CASE Step(p)
    <2>1. CASE PostStart(p)
      BY <2>1, Zenon DEF PostStart, bootstrap
    <2>2. CASE InitializeCrds(p) \/ InitializeConfig(p) \/ InitPanics(p) \/ ExitInit(p)
      BY <2>2, Zenon DEF InitializeCrds, InitializeConfig, InitPanics, ExitInit
    <2>3. CASE \/ AcquireInit(p) \/ Observe(p) \/ Acquire(p) \/ PreStart(p) \/ WaitForCacheSync(p)
               \/ Register(p)
      BY <2>3, Zenon DEF AcquireInit, Observe, Acquire, PreStart, WaitForCacheSync, Register
    <2>. QED
      BY <1>1, <2>1, <2>2, <2>3, Zenon DEF Step
  <1>2. CASE NewLeader(p) \/ OpenWatch(p) \/ Load(p) \/ Replace(p)
    BY <1>2, Zenon DEF NewLeader, OpenWatch, Load, Replace
  <1>3. CASE Faults(p)
    BY <1>3, Zenon DEF Faults, CallFails, LoseInitLease, LoseLease, WatchEnds
  <1>. QED
    BY <1>1, <1>2, <1>3, Zenon

LEMMA StartKeeps ==
    ASSUME BootInv, Boot!Start
    PROVE  BootInv'
  <1>1. init' \in Initialization /\ init'.pc = "get"
    BY NothingType, Zenon DEF Boot!Start, Initialization
  <1>. QED
    BY <1>1, Zenon DEF Boot!Start, BootInv, Types, Read, InHand

LEMMA PostStartKeeps ==
    ASSUME BootInv, NEW p, PostStart(p), cr' # cr
    PROVE  BootInv'
  <1>0. cr \in Config /\ cr.version \in Nat /\ Boot!Encoded(cr.spec) \in Boot!ConfigSpec
    BY EncodedType, Zenon DEF BootInv, Types, Config
  <1>1. /\ cr' = [cr EXCEPT !.owned = TRUE, !.version = @ + 1, !.spec = Boot!Encoded(@)]
        /\ UNCHANGED <<map, init, merged, overlaps>>
    BY Zenon DEF PostStart
  <1>2. cr.version + 1 \in Nat
    BY <1>0
  <1>3. cr' \in Config /\ cr'.exists = cr.exists /\ cr'.version = cr.version + 1
    BY <1>0, <1>1, <1>2, Zenon DEF Config
  <1>. QED
    BY <1>1, <1>3, WriteKeeps, Zenon

LEMMA BootInvariant == ManagerSpec => []BootInv
  <1>1. ManagerInit => BootInv
    <2> SUFFICES ASSUME ManagerInit PROVE BootInv
      BY Zenon
    <2>1. /\ cr = [exists |-> FALSE, owned |-> FALSE, version |-> 0, spec |-> Boot!Nothing]
          /\ init = Boot!Idle
          /\ map \in {[exists |-> TRUE, number |-> 1, chart |-> b] : b \in Charts}
      BY Zenon DEF ManagerInit, Boot!Init
    <2>2. init.pc = "idle"
      BY <2>1, Zenon DEF Boot!Idle
    <2>3. Types
      <3>1. cr \in Config
        BY <2>1, NothingType, Zenon DEF Config
      <3>2. PICK b \in Charts : map = [exists |-> TRUE, number |-> 1, chart |-> b]
        BY <2>1, Zenon
      <3>. QED
        BY <2>1, <3>1, <3>2, NothingType, Zenon DEF Types
    <2>. QED
      BY <2>2, <2>3, Zenon DEF BootInv, Read, InHand
  <1>2. BootInv /\ [ManagerNext]_managerVars => BootInv'
    <2> SUFFICES ASSUME BootInv, [ManagerNext]_managerVars PROVE BootInv'
      BY Zenon
    <2>1. CASE UNCHANGED managerVars
      BY <2>1, SameBoot, Zenon DEF managerVars, bootstrap
    <2>2. CASE \E p \in world.pods :
                 Step(p) \/ NewLeader(p) \/ OpenWatch(p) \/ Load(p) \/ Replace(p) \/ Faults(p)
      BY <2>2, PodStepBoot, SameBoot, StartKeeps, StepsKeep, FailKeeps, PostStartKeeps, Zenon
    <2>. QED
      BY <2>1, <2>2, EditKeeps, UpgradeKeeps, Zenon DEF ManagerNext
  <1>. QED
    BY <1>1, <1>2, PTL DEF ManagerSpec

-----------------------------------------------------------------------------
\* The init container's merge leaves every field and key of the Config that is
\* set as it is (mergeFromBootstrapConfigMerge, initConfigCreateOrUpdateConfig),
\* for any number of Pods, charts, fields and keys, whoever writes the Config
\* between its read and its write.
THEOREM MergesKeepUserData == ManagerSpec => UserDataKept
  <1>1. BootInv /\ [ManagerNext]_managerVars => [Boot!KeepsUserData]_managerVars
    <2> SUFFICES ASSUME BootInv, ManagerNext, Boot!MergeWrites
                 PROVE  /\ \A s \in Scalars : cr.spec.scalar[s] # "unset" => cr'.spec.scalar[s] = cr.spec.scalar[s]
                        /\ \A f \in Maps, k \in Keys :
                             cr.spec.keyed[f].by[k] # "unset" => cr'.spec.keyed[f].by[k] = cr.spec.keyed[f].by[k]
      BY Zenon DEF Boot!KeepsUserData
    <2>1. init.pc = "write" /\ init' # init /\ cr' # cr /\ init.chart.mode = "merge" /\ cr.exists
      BY Zenon DEF Boot!MergeWrites
    <2>2. Boot!CreateOrUpdateConfig
      <3>1. ~Edit /\ ~Upgrade
        <4>1. Edit \/ Upgrade => UNCHANGED init
          BY Zenon DEF Edit, Upgrade, Boot!Upgrade
        <4>. QED
          BY <2>1, <4>1, Zenon
      <3>2. PICK p \in world.pods :
              Step(p) \/ NewLeader(p) \/ OpenWatch(p) \/ Load(p) \/ Replace(p) \/ Faults(p)
        BY <3>1, Zenon DEF ManagerNext
      <3>3. Boot!Steps
        BY <2>1, <3>2, PodStepBoot, Zenon DEF bootstrap, Boot!Start, Boot!Fail, PostStart
      <3>. QED
        BY <2>1, <3>3, Zenon DEF Boot!Steps, Boot!GetBootstrapConfigmap, Boot!GetConfigCR, Boot!DeleteBootstrapConfigmap
    <2> DEFINE spec == Boot!MergeFromBootstrapConfig(init.spec, init.chart, init.found)
    <2>3. Boot!Accepts /\ cr' = [cr EXCEPT !.exists = TRUE, !.version = @ + 1, !.spec = Boot!Encoded(spec)]
      BY <2>1, <2>2, Zenon DEF Boot!CreateOrUpdateConfig
    <2>4. init.found /\ init.spec = cr.spec
      BY <2>1, <2>3, Zenon DEF Boot!Accepts, BootInv, Read
    <2>5. spec = Boot!Merged(cr.spec, init.chart)
      BY <2>1, <2>4, Zenon DEF Boot!MergeFromBootstrapConfig, Boot!Overwrites
    <2>6. cr \in Config /\ cr.spec \in Boot!ConfigSpec /\ spec \in Boot!ConfigSpec
      BY <2>4, MergeType, Zenon DEF BootInv, Types, Config
    <2>. HIDE DEF spec
    <2>7. cr'.spec.scalar = spec.scalar /\ cr'.spec.keyed = spec.keyed
      BY <2>3, <2>6, EncodedType, Zenon DEF Config
    <2>. QED
      BY <2>5, <2>6, <2>7, MergeKeeps
  <1>. QED
    BY <1>1, BootInvariant, PTL DEF ManagerSpec, UserDataKept

\* Unless an upgrade comes during an initialization, the ConfigMap that is
\* deleted is one whose data is in the Config (initializeConfig), for any number
\* of Pods and upgrades, whichever call fails and whoever loses a lease.
THEOREM DeletionsFollowMerges == ManagerSpec => DeletedWhenMerged
  <1>1. BootInv /\ [ManagerNext]_managerVars => [overlaps \/ Boot!DeletesMerged]_managerVars
    <2> SUFFICES ASSUME BootInv, ManagerNext, ~overlaps, map.exists, ~map'.exists
                 PROVE  merged = map.number
      BY Zenon DEF Boot!DeletesMerged
    <2>1. ~Edit /\ ~Upgrade
      <3>1. Edit => UNCHANGED map
        BY Zenon DEF Edit
      <3>2. Upgrade => map'.exists
        BY DEF Upgrade, Boot!Upgrade
      <3>. QED
        BY <3>1, <3>2, Zenon
    <2>2. PICK p \in world.pods :
            Step(p) \/ NewLeader(p) \/ OpenWatch(p) \/ Load(p) \/ Replace(p) \/ Faults(p)
      BY <2>1, Zenon DEF ManagerNext
    <2>3. Boot!Steps
      BY <2>2, PodStepBoot, Zenon DEF bootstrap, Boot!Start, Boot!Fail, PostStart
    <2>4. init.pc = "delete"
      BY <2>3, Zenon DEF Boot!Steps, Boot!GetBootstrapConfigmap, Boot!GetConfigCR, Boot!CreateOrUpdateConfig,
                  Boot!DeleteBootstrapConfigmap
    <2>. QED
      BY <2>4, Zenon DEF BootInv, InHand
  <1>. QED
    BY <1>1, BootInvariant, PTL DEF ManagerSpec, DeletedWhenMerged
=============================================================================
