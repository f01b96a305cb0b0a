---------------------------- MODULE Containerlab ----------------------------
(***************************************************************************)
(* The pure helpers of util/containerlab (links.go, grouping.go) that the  *)
(* controllers share: link validation, deterministic endpoint ownership,   *)
(* and the grouping of nodes onto the Pod of a primary node.               *)
(*                                                                         *)
(* Link names are the naturals 1..n, in the order of the names.  A link    *)
(* spec is a pair of endpoints [node, ifc].  A namespace's Nodes are a     *)
(* function from node names to records with a field primary, the name in   *)
(* network-mode "container:<primary>", or NoNode when there is none.       *)
(***************************************************************************)
EXTENDS Naturals

CONSTANTS
    NodeNames,   \* names of Node objects
    Host,        \* the reserved endpoint name "host"
    NoNode       \* an absent network-mode reference

ASSUME ReservedNames == Host \notin NodeNames /\ NoNode \notin NodeNames /\ Host # NoNode

Endpoints(spec) == {spec.a, spec.b}

\* The endpoints that name a Node; "host" claims nothing.
NodeEndpoints(spec) == {e \in Endpoints(spec) : e.node # Host}

\* What the CRD schema cannot express: not both sides on the host, and not an
\* interface wired to itself.
ValidateLink(spec) ==
    /\ ~(spec.a.node = Host /\ spec.b.node = Host)
    /\ spec.a # spec.b

IsHostLink(spec) == Host \in {spec.a.node, spec.b.node}

(***************************************************************************)
(* The links that own their endpoints after one pass in name order over    *)
(* the names in candidates: a rejected link reserves nothing.  specs maps  *)
(* names to specs.                                                         *)
(***************************************************************************)
EndpointOwners(specs, candidates, n) ==
    LET owns[i \in 1..n] ==
          /\ i \in candidates
          /\ ValidateLink(specs[i])
          /\ \A o \in 1..(i - 1) :
                owns[o] => NodeEndpoints(specs[o]) \cap NodeEndpoints(specs[i]) = {}
    IN  {i \in 1..n : owns[i]}

\* The owner of endpoint e among the links in owners, or 0.
OwnerOf(specs, owners, e) ==
    IF \E o \in owners : e \in NodeEndpoints(specs[o])
    THEN CHOOSE o \in owners : e \in NodeEndpoints(specs[o])
    ELSE 0

\* The smaller-named link a valid candidate lost an endpoint to (endpoint A is
\* looked at first), or 0 when it conflicts with none.
ConflictingLink(specs, candidates, l) ==
    LET owners == EndpointOwners(specs, candidates, l - 1)
        byA    == IF specs[l].a.node = Host THEN 0 ELSE OwnerOf(specs, owners, specs[l].a)
        byB    == IF specs[l].b.node = Host THEN 0 ELSE OwnerOf(specs, owners, specs[l].b)
    IN  IF l \notin candidates \/ ~ValidateLink(specs[l]) THEN 0
        ELSE IF byA # 0 THEN byA ELSE byB

(***************************************************************************)
(* The node whose Pod hosts the node called name: follow network-mode      *)
(* references until there is none, the Node does not exist, or the next    *)
(* reference was already left behind (a cycle).                            *)
(***************************************************************************)
ResolvePrimaryNode(nodes, exists, name) ==
    LET walk[seen \in SUBSET NodeNames, current \in NodeNames \cup {Host}] ==
          IF current \notin exists THEN current
          ELSE LET primary == nodes[current].primary IN
               IF primary = NoNode \/ primary \in seen THEN current
               ELSE walk[seen \cup {current}, primary]
    IN  walk[{}, name]

=============================================================================
