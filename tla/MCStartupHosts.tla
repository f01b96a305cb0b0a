--------------------------- MODULE MCStartupHosts ---------------------------
(***************************************************************************)
(* An instance of StartupHosts: one host, two Pods of a Topology and one   *)
(* on its own, and a world for each kind of fault.                         *)
(***************************************************************************)
EXTENDS StartupHosts

CONSTANTS h1, t1, none, nohost

TwoOwned == [p \in PodIDs |-> IF p <= 2 THEN t1 ELSE none]

AWorld(n, stuck, limit, own, batched, kinds, left) ==
    [pods |-> n, stuck |-> stuck, limit |-> limit, limits |-> [t \in Topologies |-> own],
     batched |-> batched, kinds |-> kinds, left |-> left]

\* Two Pods for one slot, of the Config or of their Topology, through two
\* faults; stuck devices behind a limit that is lifted.
Races ==
    {AWorld(2, {}, 1, 0, TRUE, {"delete", "ambiguous", "relapse", "restart"}, 2),
     AWorld(2, {}, 0, 1, TRUE, {"nodes", "delete", "restart"}, 2),
     AWorld(2, {1, 2}, 1, 0, FALSE, {"config"}, 1)}

\* Three Pods for two slots.
Crowd == {AWorld(3, {}, 2, 0, TRUE, {"restart"}, 1)}

Settings == Races \cup Crowd

=============================================================================
