--------------------------- MODULE LinkController ---------------------------
(***************************************************************************)
(* The link controller (controllers/link): one namespace's Links and Nodes *)
(* in the API server, and the passes that resolve endpoints, reject        *)
(* invalid or conflicting Links, allocate wire ids and delete Links whose  *)
(* bound Node is gone.                                                     *)
(*                                                                         *)
(* A pass reads all Links, then all Nodes, live; then it visits the Links  *)
(* of its snapshot in name order, at most one API write each.  Users       *)
(* change Links and Nodes between any two of these steps.  One worker runs *)
(* passes; a second element of Slots is a deposed leader still finishing   *)
(* the pass it was in.                                                     *)
(*                                                                         *)
(* resourceVersion is a counter per name that every write of the object    *)
(* increments and that survives its deletion, so equal versions also mean  *)
(* equal UIDs.  Generations appear as the flag observed of the condition   *)
(* (its observedGeneration is the Link's generation).                      *)
(* UIDs are only ever compared between Nodes of one name, and are unique   *)
(* among those.                                                            *)
(***************************************************************************)
EXTENDS Integers, FiniteSets, Containerlab

CONSTANTS
    NLinks,      \* Link names are 1..NLinks, in name order
    Specs,       \* the link specs users write
    MaxWireID,   \* bound: wire ids written into a Link's status
    Slots,       \* concurrent passes
    InitialNodes,\* the Nodes that exist at the start
    MaxEnv       \* bound: user actions and failures in a behaviour

ASSUME NLinksAssumption == NLinks \in Nat
ASSUME MaxWireIDAssumption == MaxWireID \in Nat
ASSUME MaxEnvAssumption == MaxEnv \in Nat
ASSUME InitialNodesAssumption == InitialNodes \subseteq NodeNames
ASSUME SpecsAssumption ==
    /\ Specs # {}
    /\ \A s \in Specs : s.a.node \in NodeNames \cup {Host} /\ s.b.node \in NodeNames \cup {Host}

VARIABLES
    links,    \* the Link objects, NoLink where there is none
    version,  \* resourceVersion per Link name
    nodes,    \* the Node objects: uid 0 where there is none
    nextUID,  \* UIDs below it have been given to Nodes
    queued,   \* the namespace key waits in the workqueue
    leader,   \* the slot that may start passes
    pass,     \* the state of the pass of each slot
    clean,    \* no pass overlapped another manager's, no outsider wrote a wire id
    ceiling,  \* the highest id the allocator gives, 16000000 in the code
    env       \* user actions and failures so far

vars == <<links, version, nodes, nextUID, queued, leader, pass, clean, ceiling, env>>

LinkNames == 1..NLinks
WireIDs == 0..MaxWireID

\* The Accepted condition: its status is True exactly with reason "Accepted";
\* detail is what the message names (a conflicting Link or a missing Node).
Reasons == {"", "Accepted", "InvalidSpec", "EndpointsUnresolved", "EndpointConflict"}
NoDetail == 0
Condition == [reason : Reasons, observed : BOOLEAN, detail : LinkNames \cup {NoDetail} \cup NodeNames]

\* status.resolvedEndpoints: endpoint names with the Node UIDs (0 for host), or Unbound.
Unbound == [a |-> NoNode, b |-> NoNode, uidA |-> 0, uidB |-> 0]
Binding == [a : NodeNames \cup {Host}, b : NodeNames \cup {Host}, uidA : Nat, uidB : Nat] \cup {Unbound}

Status == [wireID : WireIDs, bound : Binding, cond : Condition]
EmptyStatus ==
    [wireID |-> 0, bound |-> Unbound,
     cond |-> [reason |-> "", observed |-> FALSE, detail |-> NoDetail]]

\* What a Link object holds; exists = FALSE is no object.
Link == [exists : BOOLEAN, spec : Specs, deleting : BOOLEAN, ignore : BOOLEAN, status : Status]
AnySpec == CHOOSE s \in Specs : TRUE
NoLink ==
    [exists |-> FALSE, spec |-> AnySpec, deleting |-> FALSE, ignore |-> FALSE, status |-> EmptyStatus]
NewLink(s) == [NoLink EXCEPT !.exists = TRUE, !.spec = s]

Node == [uid : Nat, primary : NodeNames \cup {NoNode}]
NoNodeObject == [uid |-> 0, primary |-> NoNode]

\* A pass: idle, waiting for its Node list, or visiting Link at of its snapshot.
\* next is the allocation scan position of wireReservations.
Pass == [phase : {"idle", "nodes", "links"}, links : [LinkNames -> Link],
         version : [LinkNames -> Nat], nodes : [NodeNames -> Node], at : Nat \ {0}, next : Nat \ {0}]
IdlePass ==
    [phase |-> "idle", links |-> [l \in LinkNames |-> NoLink], version |-> [l \in LinkNames |-> 0],
     nodes |-> [n \in NodeNames |-> NoNodeObject], at |-> 1, next |-> 1]

TypeOK ==
    /\ links \in [LinkNames -> Link]
    /\ version \in [LinkNames -> Nat]
    /\ nodes \in [NodeNames -> Node]
    /\ nextUID \in Nat \ {0}
    /\ queued \in BOOLEAN
    /\ leader \in Slots
    /\ pass \in [Slots -> Pass]
    /\ clean \in BOOLEAN
    /\ ceiling \in WireIDs
    /\ env \in 0..MaxEnv

Init ==
    /\ links = [l \in LinkNames |-> NoLink]
    /\ version = [l \in LinkNames |-> 0]
    /\ nodes = [n \in NodeNames |-> [NoNodeObject EXCEPT !.uid = IF n \in InitialNodes THEN 1 ELSE 0]]
    /\ nextUID = 2
    /\ queued = FALSE
    /\ leader \in Slots
    /\ pass = [s \in Slots |-> IdlePass]
    /\ clean = TRUE
    /\ ceiling \in WireIDs \ {0}
    /\ env = 0

-----------------------------------------------------------------------------
(***************************************************************************)
(* What a pass decides about one Link of its snapshot.                     *)
(***************************************************************************)
Present(ls) == {l \in DOMAIN ls : ls[l].exists}
Existing(ns) == {n \in DOMAIN ns : ns[n].uid # 0}

EndpointsResolve(spec, ns) == \A e \in NodeEndpoints(spec) : e.node \in Existing(ns)

\* The Node a missing-endpoint message names: the first that does not exist.
MissingNode(spec, ns) ==
    IF spec.a.node # Host /\ spec.a.node \notin Existing(ns) THEN spec.a.node ELSE spec.b.node

Conflict(ls, ns, l) ==
    ConflictingLink([k \in DOMAIN ls |-> ls[k].spec],
                    {k \in Present(ls) : EndpointsResolve(ls[k].spec, ns)}, l)

IsSamePodLink(spec, ns) ==
    ResolvePrimaryNode(ns, Existing(ns), spec.a.node) = ResolvePrimaryNode(ns, Existing(ns), spec.b.node)

\* A bound endpoint is complete: it names the host, or has the Node's UID.
BindingMatchesSpec(link) ==
    LET b == link.status.bound IN
    /\ b # Unbound
    /\ b.a = link.spec.a.node
    /\ b.b = link.spec.b.node
    /\ b.a = Host \/ b.uidA # 0
    /\ b.b = Host \/ b.uidB # 0

UIDOf(ns, name) == IF name = Host THEN 0 ELSE ns[name].uid

\* resolvedEndpointLifecycleReason: the Node a complete binding names is
\* absent or has another UID.
BindingOrphaned(link, ns) ==
    /\ BindingMatchesSpec(link)
    /\ \/ link.status.bound.uidA # UIDOf(ns, link.status.bound.a)
       \/ link.status.bound.uidB # UIDOf(ns, link.status.bound.b)

\* resolveLinkEndpoints: keep a matching binding, else bind all or nothing.
ResolvedEndpoints(link, ns) ==
    IF BindingMatchesSpec(link) THEN link.status.bound
    ELSE IF EndpointsResolve(link.spec, ns)
         THEN [a |-> link.spec.a.node, b |-> link.spec.b.node,
               uidA |-> UIDOf(ns, link.spec.a.node), uidB |-> UIDOf(ns, link.spec.b.node)]
         ELSE Unbound

\* wireReservations.owners: it always agrees with the statuses of the snapshot,
\* which a pass updates as it writes them.
WireOwners(ls, id) == {l \in DOMAIN ls : ls[l].status.wireID = id}

\* Mutant: the ids of rejected Links and of Links being deleted are up for grabs.
FreeIDsOfManaged(ls, l, next) ==
    {id \in next..ceiling : \A o \in WireOwners(ls, id) : o = l \/ ls[o].deleting}

\* desired: the ids an allocation for l may take, scanning up from next.
FreeIDs(ls, l, next) == {id \in next..ceiling : WireOwners(ls, id) \subseteq {l}}

\* Mutant: a rewired Link, whose condition is of an older generation, is
\* allocated afresh.
KeepsIDUnlessEdited(ls, l) ==
    LET id == ls[l].status.wireID IN
    /\ id \in 1..ceiling /\ ~\E o \in WireOwners(ls, id) : o < l
    /\ ls[l].status.cond.observed

\* Mutant: an id is kept even when a smaller-named Link holds it.
KeepsContestedID(ls, l) == ls[l].status.wireID \in 1..ceiling

\* A link keeps a valid id unless a smaller-named link holds it too.
KeepsID(ls, l) ==
    LET id == ls[l].status.wireID IN
    id \in 1..ceiling /\ ~\E o \in WireOwners(ls, id) : o < l

NeedsWire(link, ns) == ~IsHostLink(link.spec) /\ ~IsSamePodLink(link.spec, ns)

Lowest(ids) == CHOOSE id \in ids : \A other \in ids : id <= other

Allocates(p, l) == NeedsWire(p.links[l], p.nodes) /\ ~KeepsID(p.links, l)

\* The desired wire id of an accepted link; an exhausted range is an error.
DesiredWireID(p, l) ==
    IF ~NeedsWire(p.links[l], p.nodes) THEN 0
    ELSE IF KeepsID(p.links, l) THEN p.links[l].status.wireID
    ELSE Lowest(FreeIDs(p.links, l, p.next))

DesiredCondition(p, l) ==
    LET spec == p.links[l].spec
        conflict == Conflict(p.links, p.nodes, l)
        Cond(reason, detail) == [reason |-> reason, observed |-> TRUE, detail |-> detail]
    IN  IF ~ValidateLink(spec) THEN Cond("InvalidSpec", NoDetail)
        ELSE IF ~EndpointsResolve(spec, p.nodes)
             THEN Cond("EndpointsUnresolved", MissingNode(spec, p.nodes))
        ELSE IF conflict # 0 THEN Cond("EndpointConflict", conflict)
        ELSE Cond("Accepted", NoDetail)

Exhausted(p, l) ==
    /\ DesiredCondition(p, l).reason = "Accepted"
    /\ Allocates(p, l)
    /\ FreeIDs(p.links, l, p.next) = {}

DesiredStatus(p, l) ==
    LET cond == DesiredCondition(p, l) IN
    [wireID |-> IF cond.reason = "Accepted" THEN DesiredWireID(p, l) ELSE 0,
     bound  |-> ResolvedEndpoints(p.links[l], p.nodes),
     cond   |-> cond]

\* The scan position after the allocation for l, and after record() noticed
\* that l left the id previous without an owner.
ScanPosition(p, l) ==
    IF DesiredCondition(p, l).reason = "Accepted" /\ Allocates(p, l)
    THEN Lowest(FreeIDs(p.links, l, p.next)) ELSE p.next

Released(ls, previous, next) ==
    IF previous # 0 /\ WireOwners(ls, previous) = {} /\ previous < next THEN previous ELSE next

-----------------------------------------------------------------------------
(***************************************************************************)
(* The steps of a pass.                                                    *)
(***************************************************************************)

\* Take the namespace key and list the Links; without Links the pass is over.
StartPass(s) ==
    /\ queued
    /\ s = leader
    /\ pass[s].phase = "idle"
    /\ queued' = FALSE
    /\ pass' = IF Present(links) = {} THEN pass
               ELSE [pass EXCEPT ![s] = [IdlePass EXCEPT !.phase = "nodes", !.links = links,
                                                         !.version = version]]
    /\ UNCHANGED <<links, version, nodes, nextUID, leader, clean, ceiling, env>>

\* List the Nodes, after the Links.
ListNodes(s) ==
    /\ pass[s].phase = "nodes"
    /\ pass' = [pass EXCEPT ![s].phase = "links", ![s].nodes = nodes]
    /\ UNCHANGED <<links, version, nodes, nextUID, queued, leader, clean, ceiling, env>>

Visiting(s) == pass[s].phase = "links" /\ pass[s].at <= NLinks

\* The pass goes on with the next Link; status is the Link's status from here on.
Advance(s, l, status, next) ==
    LET ls == [pass[s].links EXCEPT ![l].status = status] IN
    pass' = [pass EXCEPT ![s].at = l + 1, ![s].links = ls,
                         ![s].next = Released(ls, pass[s].links[l].status.wireID, next)]

\* An error ends the pass and requeues the key.
Abort(s) ==
    /\ pass' = [pass EXCEPT ![s] = IdlePass]
    /\ queued' = TRUE
    /\ UNCHANGED <<links, version>>

\* reconcileLink returns early: no such Link, or one it must leave alone.
SkipLink(s) ==
    LET l == pass[s].at
        link == pass[s].links[l]
    IN  /\ Visiting(s)
        /\ ~link.exists \/ link.deleting \/ link.ignore
        /\ Advance(s, l, link.status, pass[s].next)
        /\ UNCHANGED <<links, version, nodes, nextUID, queued, leader, clean, ceiling, env>>

\* Mutant: the delete carries no preconditions.
DeleteAnyLink(s) ==
    LET l == pass[s].at
        link == pass[s].links[l]
    IN  /\ Visiting(s)
        /\ link.exists /\ ~link.deleting /\ ~link.ignore
        /\ BindingOrphaned(link, pass[s].nodes)
        /\ links' = [links EXCEPT ![l] = NoLink]
        /\ version' = [version EXCEPT ![l] = @ + 1]
        /\ queued' = TRUE
        /\ Advance(s, l, link.status, pass[s].next)
        /\ UNCHANGED <<nodes, nextUID, leader, clean, ceiling, env>>

\* A Link whose bound Node is gone is deleted, under UID and resourceVersion
\* preconditions: gone already is fine, changed since the snapshot is an error.
DeleteLink(s) ==
    LET l == pass[s].at
        link == pass[s].links[l]
        fresh == version[l] = pass[s].version[l]
    IN  /\ Visiting(s)
        /\ link.exists /\ ~link.deleting /\ ~link.ignore
        /\ BindingOrphaned(link, pass[s].nodes)
        /\ \/ /\ fresh
              /\ links' = [links EXCEPT ![l] = NoLink]
              /\ version' = [version EXCEPT ![l] = @ + 1]
              /\ queued' = TRUE
              /\ Advance(s, l, link.status, pass[s].next)
           \/ /\ ~links[l].exists
              /\ Advance(s, l, link.status, pass[s].next)
              /\ UNCHANGED <<links, version, queued>>
           \/ ~fresh /\ links[l].exists /\ Abort(s)
        /\ UNCHANGED <<nodes, nextUID, leader, clean, ceiling, env>>

\* Mutant: the status write does not check the resourceVersion.
WriteAnyLinkStatus(s) ==
    LET l == pass[s].at
        p == pass[s]
        link == p.links[l]
        desired == DesiredStatus(p, l)
    IN  /\ Visiting(s)
        /\ link.exists /\ ~link.deleting /\ ~link.ignore
        /\ ~BindingOrphaned(link, p.nodes) /\ ~Exhausted(p, l)
        /\ links' = IF links[l].exists THEN [links EXCEPT ![l].status = desired] ELSE links
        /\ version' = [version EXCEPT ![l] = @ + 1]
        /\ queued' = (desired # link.status)
        /\ Advance(s, l, desired, ScanPosition(p, l))
        /\ UNCHANGED <<nodes, nextUID, leader, clean, ceiling, env>>

\* Every other Link gets its desired status: nothing is written when it has it;
\* a Link that changed or vanished since the snapshot, or an exhausted id
\* range, ends the pass.
WriteLinkStatus(s) ==
    LET l == pass[s].at
        p == pass[s]
        link == p.links[l]
        desired == DesiredStatus(p, l)
        fresh == version[l] = p.version[l]
    IN  /\ Visiting(s)
        /\ link.exists /\ ~link.deleting /\ ~link.ignore
        /\ ~BindingOrphaned(link, p.nodes)
        /\ \/ Exhausted(p, l) /\ Abort(s)
           \/ /\ ~Exhausted(p, l)
              /\ desired = link.status
              /\ Advance(s, l, desired, ScanPosition(p, l))
              /\ UNCHANGED <<links, version, queued>>
           \/ /\ ~Exhausted(p, l)
              /\ desired # link.status
              /\ fresh
              /\ links' = [links EXCEPT ![l].status = desired]
              /\ version' = [version EXCEPT ![l] = @ + 1]
              /\ queued' = TRUE
              /\ Advance(s, l, desired, ScanPosition(p, l))
           \/ ~Exhausted(p, l) /\ desired # link.status /\ ~fresh /\ Abort(s)
        /\ UNCHANGED <<nodes, nextUID, leader, clean, ceiling, env>>

FinishPass(s) ==
    /\ pass[s].phase = "links" /\ pass[s].at > NLinks
    /\ pass' = [pass EXCEPT ![s] = IdlePass]
    /\ UNCHANGED <<links, version, nodes, nextUID, queued, leader, clean, ceiling, env>>

\* One step of Reconcile.
PassStep(s) ==
    StartPass(s) \/ ListNodes(s) \/ SkipLink(s) \/ DeleteLink(s) \/ WriteLinkStatus(s) \/ FinishPass(s)

-----------------------------------------------------------------------------
(***************************************************************************)
(* Users, and failures.  Each write of a Link is a new resourceVersion and *)
(* a watch event that queues the namespace.                                *)
(***************************************************************************)
UserStep ==
    /\ env < MaxEnv
    /\ env' = env + 1
    /\ queued' = TRUE
    /\ UNCHANGED ceiling

PutLink(l, link) ==
    /\ links' = [links EXCEPT ![l] = link]
    /\ version' = [version EXCEPT ![l] = @ + 1]
    /\ UNCHANGED <<nodes, nextUID, leader, pass, clean>>

CreateLink(l) ==
    /\ UserStep
    /\ ~links[l].exists
    /\ \E spec \in Specs : PutLink(l, NewLink(spec))

\* A spec change is a new generation, which the condition has not observed.
EditLink(l) ==
    /\ UserStep
    /\ links[l].exists
    /\ \E spec \in Specs \ {links[l].spec} :
          PutLink(l, [links[l] EXCEPT !.spec = spec, !.status.cond.observed = FALSE])

\* Deletion of a Link that a finalizer holds back for a while.
MarkDeleting(l) ==
    /\ UserStep
    /\ links[l].exists /\ ~links[l].deleting
    /\ PutLink(l, [links[l] EXCEPT !.deleting = TRUE])

RemoveLink(l) ==
    /\ UserStep
    /\ links[l].exists
    /\ PutLink(l, NoLink)

\* The label that makes controllers ignore an object.
ToggleIgnore(l) ==
    /\ UserStep
    /\ links[l].exists
    /\ PutLink(l, [links[l] EXCEPT !.ignore = ~@])

\* Somebody else writes a wire id into the status subresource.
TamperStatus(l) ==
    /\ UserStep
    /\ links[l].exists
    /\ \E id \in WireIDs \ {links[l].status.wireID} :
          links' = [links EXCEPT ![l].status.wireID = id]
    /\ version' = [version EXCEPT ![l] = @ + 1]
    /\ clean' = FALSE
    /\ UNCHANGED <<nodes, nextUID, leader, pass>>

CreateNode(n) ==
    /\ UserStep
    /\ nodes[n].uid = 0
    /\ nodes' = [nodes EXCEPT ![n].uid = nextUID]
    /\ nextUID' = nextUID + 1
    /\ UNCHANGED <<links, version, leader, pass, clean>>

DeleteNode(n) ==
    /\ UserStep
    /\ nodes[n].uid # 0
    /\ nodes' = [nodes EXCEPT ![n] = NoNodeObject]
    /\ UNCHANGED <<links, version, nextUID, leader, pass, clean>>

\* A network-mode edit moves the Node into or out of another Node's Pod.
SetNetworkMode(n) ==
    /\ UserStep
    /\ nodes[n].uid # 0
    /\ \E primary \in (NodeNames \cup {NoNode}) \ {nodes[n].primary} :
          nodes' = [nodes EXCEPT ![n].primary = primary]
    /\ UNCHANGED <<links, version, nextUID, leader, pass, clean>>

\* The pass ends early: a list or a write failed (after or before taking
\* effect), or the manager crashed; the key is queued again.
PassFails(s) ==
    /\ UserStep
    /\ pass[s].phase # "idle"
    /\ pass' = [pass EXCEPT ![s] = IdlePass]
    /\ UNCHANGED <<links, version, nodes, nextUID, leader, clean>>

\* Another manager takes the lease while the old leader is still in a pass; its
\* informers' first sync queues the namespace.
Failover(s) ==
    /\ UserStep
    /\ s # leader /\ pass[s].phase = "idle"
    /\ leader' = s
    /\ clean' = (clean /\ pass[leader].phase = "idle")
    /\ UNCHANGED <<links, version, nodes, nextUID, pass>>

UserNext ==
    \/ \E l \in LinkNames :
          \/ CreateLink(l) \/ EditLink(l) \/ MarkDeleting(l)
          \/ RemoveLink(l) \/ ToggleIgnore(l) \/ TamperStatus(l)
    \/ \E n \in NodeNames : CreateNode(n) \/ DeleteNode(n) \/ SetNetworkMode(n)
    \/ \E s \in Slots : PassFails(s) \/ Failover(s)

Next == (\E s \in Slots : PassStep(s)) \/ UserNext

Spec == Init /\ [][Next]_vars

\* Workers take queued keys and API calls return; users owe nothing.
FairSpec == Spec /\ \A s \in Slots : WF_vars(PassStep(s))

-----------------------------------------------------------------------------
(***************************************************************************)
(* Properties.                                                             *)
(***************************************************************************)

\* As long as no two managers' passes overlapped and nobody else wrote an id,
\* no two Links of the namespace hold the same wire id, whatever a pass
\* interleaves with: ids stay reserved until the write that releases them
\* succeeded.
WireIDsUnique ==
    clean =>
        \A k, l \in LinkNames :
            k # l /\ links[k].status.wireID # 0 => links[k].status.wireID # links[l].status.wireID

\* Every id in the API server is one that the snapshot of the pass under way
\* accounts for, for the same Link, and the snapshot gives no id twice: so the
\* pass never hands out an id that a Link it has not reached, or one changed
\* behind its back, still holds.  (On the same condition.)
SnapshotAccountsForIDs ==
    \A s \in Slots :
        clean /\ pass[s].phase # "idle" =>
            /\ \A l \in LinkNames :
                  links[l].status.wireID \in {0, pass[s].links[l].status.wireID}
            /\ \A k, l \in LinkNames :
                  k # l /\ pass[s].links[k].status.wireID # 0
                     => pass[s].links[k].status.wireID # pass[s].links[l].status.wireID

\* A rewire keeps its id: no step changes the id of a Link to another id, so
\* an edited Link moves its wire instead of getting a new one.  (On the same
\* condition.)
RewiresKeepID ==
    [][\A l \in LinkNames :
          clean' /\ links[l].status.wireID # 0 /\ links'[l].status.wireID # 0
             => links'[l].status.wireID = links[l].status.wireID]_vars

\* A Link the controller deletes is bound to a Node that no longer exists: it
\* never deletes one that was rewired, recreated, or bound to a live Node
\* between the two lists of the pass and the delete.
DeletesOnlyOrphans ==
    [][\A l \in LinkNames :
          links[l].exists /\ ~links'[l].exists /\ env' = env
             => BindingOrphaned(links[l], nodes)]_vars

\* A Link whose status says Accepted for its current generation was valid, and
\* bound to exactly the endpoints it names.
AcceptedIsBound ==
    \A l \in LinkNames :
        LET link == links[l] IN
        link.exists /\ link.status.cond.reason = "Accepted" /\ link.status.cond.observed =>
            ValidateLink(link.spec) /\ BindingMatchesSpec(link)

-----------------------------------------------------------------------------
Managed(l) == links[l].exists /\ ~links[l].deleting /\ ~links[l].ignore

EndpointWinners ==
    EndpointOwners([k \in LinkNames |-> links[k].spec],
                   {k \in Present(links) : EndpointsResolve(links[k].spec, nodes)}, NLinks)

\* What a settled namespace looks like, said of the specs and Nodes alone.
Settled ==
    /\ \A l \in LinkNames : Managed(l) =>
         LET status == links[l].status IN
         /\ status.cond.observed
         /\ status.cond.reason = "Accepted" <=> l \in EndpointWinners
         /\ status.wireID # 0 <=> l \in EndpointWinners /\ NeedsWire(links[l], nodes)
         /\ \A k \in LinkNames : k < l /\ status.wireID # 0 => links[k].status.wireID # status.wireID
         /\ ~BindingOrphaned(links[l], nodes)

\* The allocator ran out: a Link needs an id of its own and each one is held.
Starved ==
    /\ \E l \in EndpointWinners :
          /\ Managed(l) /\ NeedsWire(links[l], nodes)
          /\ \/ links[l].status.wireID \notin 1..ceiling
             \/ \E k \in LinkNames : k < l /\ links[k].status.wireID = links[l].status.wireID
    /\ \A id \in 1..ceiling : \E l \in LinkNames : links[l].status.wireID = id

\* Once users stop, the Links that own their endpoints are accepted with an id
\* of their own, the others are rejected without one, and it stays so; unless
\* the ids ran out.
Converges == <>[](Settled \/ Starved)

=============================================================================
