------------------------- MODULE MCStartupAdmission -------------------------
(***************************************************************************)
(* An instance of StartupAdmission: a group of two Nodes and two groups of *)
(* one, of which a world has two or all.                                   *)
(***************************************************************************)
EXTENDS StartupAdmission

PairAndTwo == [n \in NodeIDs |-> IF n = 2 THEN 1 ELSE n]

AWorld(nodes, compiled, topoBatch, globalBatch, toggled, stops, restarts) ==
    [nodes |-> nodes, compiled |-> compiled, topoBatch |-> topoBatch, globalBatch |-> globalBatch,
     toggled |-> toggled, stops |-> stops, restarts |-> restarts]

Rollouts ==
    {\* A Topology of three groups, with a restart of the manager
     AWorld(1..4, 1..4, 1, 0, {}, {}, 1),
     \* An installation of two groups that stop while they wait, and a restart
     AWorld(1..3, {}, 0, 1, {1, 3}, {"waiting"}, 1),
     \* A held pair beside a Node on its own, both limits
     AWorld(1..3, 1..2, 1, 1, {}, {}, 0),
     \* A held Node that stops at any time beside a Node on its own, both limits
     AWorld(3..4, {3}, 1, 1, {3}, {"waiting", "started"}, 0)}

=============================================================================
