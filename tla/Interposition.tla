---------------------------- MODULE Interposition ----------------------------
(***************************************************************************)
(* The management interposition of a device Pod (interposition_linux.go,   *)
(* transport_neighbors_linux.go, nat_linux.go): pure operators on what     *)
(* survives the sidecar process, the Pod's network namespace and the       *)
(* sidecar's state directory.  A pod p has                                 *)
(*   p.transport  the interface with the Pod address: its name, whether it *)
(*                is up, carries the address and its permanent neighbors,  *)
(*                and its routes of the main table ("cni": as the CNI left *)
(*                them, "connected": only what the kernel adds, "none");   *)
(*   p.default    the interface of the main table's default route;         *)
(*   p.leg        the device leg of the synthetic pair: where it is, its   *)
(*                mark, its address, whether it is up and ever was;        *)
(*   p.vtep       the mesh tunnel endpoint: its index (0: absent), its     *)
(*                mark, its MTU, the forwarding entries and the neighbors; *)
(*   p.rules, p.table   the policy rules and the transport table;          *)
(*   p.nat, p.hardened  the translation, and the filter table and sysctls; *)
(*   p.disk       the records of the neighbors and of the routes.          *)
(* An operation is [ok, via] as in Endpoints.  IPv6 is left out.           *)
(***************************************************************************)
EXTENDS Endpoints

(* A policy rule; "any" matches everything. *)
Rule(priority, table, iif, dst, src, marked) ==
  [priority |-> priority, table |-> table, iif |-> iif, dst |-> dst, src |-> src,
   marked |-> marked]

KernelLocal == Rule(0, "local", "any", "any", "any", FALSE)
KernelMain == Rule(32766, "main", "any", "any", "any", FALSE)

(* The namespace as the CNI and the kubelet hand it over. *)
PristineNet ==
  [transport |-> [name |-> "cni", up |-> TRUE, addr |-> TRUE, neigh |-> TRUE, routes |-> "cni"],
   default |-> "transport",
   leg |-> [at |-> "none", marked |-> FALSE, addr |-> FALSE, up |-> FALSE, raised |-> FALSE],
   vtep |-> [index |-> 0, marked |-> FALSE, mtu |-> 0, fdb |-> {}, neigh |-> {}],
   rules |-> {KernelLocal, KernelMain}, table |-> {}, nat |-> FALSE, hardened |-> {},
   mtu |-> 1]

-----------------------------------------------------------------------------
(* The transport interface *)

(* Taking a link down flushes its neighbors and its routes. *)
TransportDown(p) ==
  [p EXCEPT !.transport.up = FALSE, !.transport.neigh = FALSE, !.transport.routes = "none",
            !.default = IF @ = "transport" THEN "none" ELSE @, !.table = @ \ {"cni"}]

Replay(p, routes) ==
  [p EXCEPT !.transport.routes = routes,
            !.default = IF routes = "cni" THEN "transport" ELSE @]

(* captureTransportNeighbors and the record of the permanent ones. *)
RecordNeighbors(p) == [p EXCEPT !.disk.neigh = @ \/ p.transport.neigh]

(* rememberTransportRoutes: nothing captured leaves the record. *)
RecordRoutes(p, captured) ==
  [p EXCEPT !.disk.routes = IF captured = "none" THEN @ ELSE captured]

(* restoreTransportNeighbors from what is recorded. *)
RestoreNeighbors(p) == [p EXCEPT !.transport.neigh = @ \/ p.disk.neigh]

(* Mutant: the neighbors are recorded when the link is down. *)
PreserveColdPassLate(p) ==
  LET captured == p.transport.routes
      recorded == RecordNeighbors(TransportDown(p))
      up == [recorded EXCEPT !.transport.name = "transport", !.transport.up = TRUE,
                             !.transport.routes = "connected"]
      replayed == Replay(RestoreNeighbors(up), captured)
  IN Done(<<recorded, up, replayed, RecordRoutes(replayed, captured)>>)

(* preserveTransportColdPass and the record of the routes that follows it:   *)
(* the neighbors are recorded before the link goes down, the routes only at  *)
(* the end.                                                                  *)
PreserveColdPass(p) ==
  LET captured == p.transport.routes
      recorded == RecordNeighbors(p)
      down == TransportDown(recorded)
      up == [down EXCEPT !.transport.name = "transport", !.transport.up = TRUE,
                         !.transport.routes = "connected"]
      restored == RestoreNeighbors(up)
      replayed == Replay(restored, captured)
  IN Done(<<recorded, down, up, restored, replayed, RecordRoutes(replayed, captured)>>)

(* The rename failed: the link comes back up with the neighbors and without *)
(* the routes.                                                              *)
RenameFailed(p) ==
  LET down == TransportDown(RecordNeighbors(p))
  IN RestoreNeighbors([down EXCEPT !.transport.up = TRUE, !.transport.routes = "connected"])

(* preserveTransportInterface: later passes give back the address and the  *)
(* recorded neighbors.                                                     *)
PreserveTransport(p) ==
  IF p.transport.name = "cni" THEN PreserveColdPass(p)
  ELSE Done(<<RestoreNeighbors([p EXCEPT !.transport.addr = TRUE])>>)

-----------------------------------------------------------------------------
(* The synthetic pair and the main table's default route *)

(* addressDeviceLeg: only a leg the device has not touched is addressed. *)
AddressLeg(p) ==
  IF p.leg.at = "plan" /\ p.leg.marked /\ ~p.leg.addr /\ ~p.leg.up
  THEN [p EXCEPT !.leg.addr = TRUE] ELSE p

(* ensureSyntheticPair: the device leg is brought up by the pass that *)
(* creates the pair, and never again.                                 *)
SyntheticPair(p) ==
  IF p.leg.at # "none" THEN Done(<<AddressLeg(p)>>)
  ELSE LET added == [p EXCEPT !.leg.at = "plan"]
           marked == [added EXCEPT !.leg.marked = TRUE]
           addressed == AddressLeg(marked)
       IN Done(<<added, marked, addressed,
                 [addressed EXCEPT !.leg.up = TRUE, !.leg.raised = TRUE]>>)

(* deviceLegLink: the leg under whatever name, unless it left the namespace. *)
LegInPod(p) == p.leg.at \in {"plan", "renamed"}

(* legCarriesManagementAddress *)
LegCarries(p) == LegInPod(p) /\ p.leg.up /\ p.leg.addr

(* addressHeldLocally: the kernel itself terminates the management address. *)
KernelHeld(p) == LegInPod(p) /\ p.leg.addr

(* ensureDeviceDefaultRoute: by the leg while that is expressible, else by *)
(* the recorded CNI default.                                               *)
DefaultRoute(p) ==
  [p EXCEPT !.default = IF LegCarries(p) THEN "leg"
                        ELSE IF p.disk.routes = "cni" THEN "transport" ELSE @]

-----------------------------------------------------------------------------
(* The mesh tunnel endpoint *)

(* ensureMeshVTEP: one that does not conform is replaced, and its entries *)
(* go with it; one that is not marked is unrelated state.                 *)
MeshVTEP(p) ==
  LET added == [p EXCEPT !.vtep = [index |-> @.index + 1, marked |-> FALSE, mtu |-> p.mtu,
                                   fdb |-> {}, neigh |-> {}],
                         !.table = @ \ {"subnet"}]
  IN IF p.vtep.index # 0 /\ ~p.vtep.marked THEN Failed(<<>>)
     ELSE IF p.vtep.index # 0 /\ p.vtep.mtu = p.mtu THEN Done(<<>>)
     ELSE Done(<<added, [added EXCEPT !.vtep.marked = TRUE]>>)

(* ensureMeshFilterTable: one transaction. *)
MeshFilterTable(p) == [p EXCEPT !.hardened = @ \cup {"filter"}]

(* applyInterpositionSysctls and the checksum offload. *)
InterpositionSysctls(p) == [p EXCEPT !.hardened = @ \cup {"sysctls"}]

-----------------------------------------------------------------------------
(* The transport table and the policy rules *)

(* ensureTransportTable's routes and ensureManagementRoutes: what the table *)
(* holds for the gateway follows the leg under its planned name.            *)
ManagementRoutes(p) ==
  LET cni == IF p.disk.routes = "cni" THEN {"cni"} ELSE {}
      legFound == p.leg.at = "plan"
      added == IF KernelHeld(p) /\ legFound /\ p.leg.up THEN {"gateway"} ELSE {}
      stale == IF ~KernelHeld(p) /\ legFound THEN {"gateway"} ELSE {}
  IN [p EXCEPT !.table = ((@ \cup cni \cup {"own", "subnet"} \cup added) \ stale)]

(* ensureTransportRules *)
TransportRules ==
  {Rule(900, "transport", "router", "any", "any", FALSE),
   Rule(901, "transport", "any", "any", "pod", FALSE),
   Rule(903, "specific", "lo", "any", "any", FALSE),
   Rule(904, "transport", "lo", "any", "any", FALSE)}

(* deviceLegName *)
LegName(p) == IF p.leg.at = "renamed" THEN "renamed" ELSE "plan"

(* Mutant: what arrives on a leg for an address nobody holds is routed on. *)
OwnAddressRulesOpen(p) ==
  {Rule(898, "local", "any", "any", "any", FALSE)} \cup
  (IF KernelHeld(p)
   THEN {Rule(897, "transport", "mesh", "own", "any", FALSE),
         Rule(897, "transport", "transport", "own", "any", FALSE),
         Rule(897, "transport", "lo", "own", "any", TRUE),
         Rule(894, "local", "router", "gateway", "any", FALSE),
         Rule(895, "transport", "any", "gateway", "any", FALSE)}
   ELSE {Rule(902, "transport", "any", "own", "any", FALSE)})

(* ownAddressRuleShapes *)
OwnAddressRules(p) ==
  {Rule(898, "local", "any", "any", "any", FALSE)} \cup
  (IF KernelHeld(p)
   THEN {Rule(897, "transport", "mesh", "own", "any", FALSE),
         Rule(897, "transport", "transport", "own", "any", FALSE),
         Rule(897, "transport", "lo", "own", "any", TRUE),
         Rule(894, "local", "router", "gateway", "any", FALSE),
         Rule(895, "transport", "any", "gateway", "any", FALSE)}
   ELSE {Rule(902, "transport", "any", "own", "any", FALSE),
         Rule(896, "blackhole", LegName(p), "own", "any", FALSE)})

OwnedRule(r) == r.priority \in {894, 895, 896, 897, 898, 902}

(* ensureOwnAddressRules: the stale ones go, the wanted ones come, and the *)
(* kernel's own local lookup goes last.                                    *)
OwnAddressStages(p) ==
  LET wanted == OwnAddressRules(p)
      pruned == [p EXCEPT !.rules = {r \in @ : OwnedRule(r) => r \in wanted}]
      added == [pruned EXCEPT !.rules = @ \cup wanted]
  IN <<pruned, added, [added EXCEPT !.rules = @ \ {KernelLocal}]>>

(* ensureTransportTable *)
TransportTable(p) ==
  LET routed == ManagementRoutes(p)
      selected == [routed EXCEPT !.rules = @ \cup TransportRules]
  IN Done(<<routed, selected>> \o OwnAddressStages(selected))

-----------------------------------------------------------------------------
(* The mesh peers: a listing maps the peers to the Pods that realize them *)

(* list of the inventory: events are drained before it answers, so that it   *)
(* holds what the kernel holds.                                              *)
Inventory(p) == p.vtep

(* ensureMeshForwardingEntries: the stale entries go, the missing ones come. *)
ForwardingEntries(p, active) ==
  LET pruned == [p EXCEPT !.vtep.fdb = Inventory(p).fdb \cap active]
  IN <<pruned, [pruned EXCEPT !.vtep.fdb = @ \cup active]>>

(* ensureMeshNeighbors: likewise. *)
Neighbors(p, active) ==
  LET wanted == {e[1] : e \in active}
      pruned == [p EXCEPT !.vtep.neigh = Inventory(p).neigh \cap wanted]
  IN <<pruned, [pruned EXCEPT !.vtep.neigh = @ \cup wanted]>>

(* ensureMeshPeers: exactly the active peers, forwarding first. *)
MeshPeers(p, active) ==
  LET forwarding == ForwardingEntries(p, active)
  IN Done(forwarding \o Neighbors(Last(forwarding), active))

(* resolve: the entries of one peer, forwarding first; the peer's previous *)
(* forwarding entry is replaced.                                           *)
ResolvePeer(p, peer, at) ==
  LET forwarding == [p EXCEPT !.vtep.fdb = {e \in @ : e[1] # peer} \cup {<<peer, at>>}]
  IN <<forwarding, [forwarding EXCEPT !.vtep.neigh = @ \cup {peer}]>>

(* EnsureInterpositionNAT: one transaction. *)
Translate(p) == Done(<<[p EXCEPT !.nat = TRUE]>>)

-----------------------------------------------------------------------------
(* The kernel's routing decision, for a packet [iif, dst, src, marked]: the *)
(* first rule, by priority, whose table has a route.                        *)

Matches(r, k) ==
  /\ r.iif \in {"any", k.iif}
  /\ r.dst \in {"any", k.dst}
  /\ r.src \in {"any", k.src}
  /\ r.marked => k.marked

Subnet == {"own", "gateway", "peer"}

(* The way out that a table has for a destination, or "none". *)
RouteIn(p, table, dst) ==
  CASE table = "local" ->
         IF \/ dst = "own" /\ KernelHeld(p)
            \/ dst = "gateway" /\ p.leg.at # "none"
            \/ dst = "pod" /\ p.transport.addr THEN "local" ELSE "none"
    [] table = "transport" ->
         IF dst = "own" /\ "own" \in p.table THEN "router"
         ELSE IF dst = "gateway" /\ "gateway" \in p.table THEN "leg"
         ELSE IF dst \in Subnet /\ "subnet" \in p.table THEN "mesh"
         ELSE IF "cni" \in p.table THEN "transport" ELSE "none"
    [] table = "specific" -> IF dst \in Subnet /\ LegCarries(p) THEN "leg" ELSE "none"
    [] table = "main" ->
         IF dst \in Subnet /\ LegCarries(p) THEN "leg" ELSE p.default
    [] table = "blackhole" -> "dropped"

(* Where one routing decision sends the packet. *)
Hop(p, k) ==
  LET found == {r \in p.rules : Matches(r, k) /\ RouteIn(p, r.table, k.dst) # "none"}
      best == {r \in found : \A q \in found : r.priority <= q.priority}
  IN IF found = {} THEN "dropped" ELSE RouteIn(p, (CHOOSE r \in best : TRUE).table, k.dst)

(* Across the pair: what leaves by one leg arrives on the other. *)
Crosses(out) == out \in {"router", "leg"}
Arrival(p, out) ==
  IF out = "leg" THEN "router" ELSE IF LegInPod(p) THEN LegName(p) ELSE "device"

(* The decisions taken for a packet, until it leaves the pair, is delivered  *)
(* or is dropped; "device" is a leg in a namespace of the device's own.      *)
Walk(p, k) ==
  LET onward(out) == IF Arrival(p, out) = "device" THEN "device"
                     ELSE Hop(p, [k EXCEPT !.iif = Arrival(p, out)])
      h1 == Hop(p, k)
      h2 == onward(h1)
      h3 == onward(h2)
  IN IF ~Crosses(h1) THEN <<h1>>
     ELSE IF ~Crosses(h2) THEN <<h1, h2>> ELSE <<h1, h2, h3>>

Packets(p) ==
  {k \in [iif : {"mesh", "transport", "router", "lo"}
                \cup (IF LegInPod(p) THEN {LegName(p)} ELSE {}),
          dst : {"own", "gateway", "peer", "pod", "world"},
          src : {"pod", "management", "other"}, marked : BOOLEAN] :
     /\ k.marked => k.iif = "lo" /\ k.dst = "own" /\ k.src = "pod"
     /\ k.src = "pod" => k.iif = "lo"}

(* Where traffic must end up, with the rules of this state of the leg.       *)
WellSteered(p) ==
  \A k \in Packets(p) :
    LET walk == Walk(p, k)
    IN /\ ~Crosses(Last(walk))
       /\ k.dst = "own" /\ (k.iif \in {"mesh", "transport"} \/ k.marked) =>
            /\ Head(walk) = "router"
            /\ Last(walk) = IF p.leg.at = "moved" THEN "device"
                            ELSE IF KernelHeld(p) THEN "local" ELSE "dropped"
       /\ k.dst = "peer" /\ k.iif = "router" => walk = <<"mesh">>
       /\ k.dst = "world" /\ (k.iif = "router" \/ k.src = "pod") /\ "cni" \in p.table =>
            walk = <<"transport">>
       /\ k.dst = "gateway" /\ k.iif # "router" /\ KernelHeld(p) /\ p.leg.at = "plan"
            /\ p.leg.up => walk = <<"leg", "local">>
=============================================================================
