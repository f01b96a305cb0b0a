----------------------- MODULE MCTopologyController -----------------------
(***************************************************************************)
(* A small Topology for TopologyController, with the edits made to it and  *)
(* what happens around it.                                                 *)
(***************************************************************************)
EXTENDS TopologyController

CONSTANTS p, l, a, b, s1, s2

Version(profile, link, first, second) ==
    [c \in Children |-> CASE c = p -> profile [] c = l -> link [] c = a -> first [] c = b -> second]

\* A second Node and a Link are added, then the first Node is removed.
Grow == <<Version(s1, NoSpec, s1, NoSpec), Version(s1, s1, s1, s1), Version(s1, s1, NoSpec, s1)>>

\* Both Nodes from the start, and no Link
Pair == <<Version(s1, NoSpec, s1, s1)>>

\* One Node
Single == <<Version(s1, NoSpec, s1, NoSpec)>>

\* One Node becomes another.
Replace == <<Version(s1, NoSpec, s1, NoSpec), Version(s2, NoSpec, NoSpec, s2)>>

\* The profile and the Link change, and a second Node comes with them.
Rewire == <<Version(s1, s1, s1, NoSpec), Version(s2, s2, s1, s1)>>

AWorld(compiled, broken, kinds, left) ==
    [compiled |-> compiled, broken |-> broken, kinds |-> kinds, left |-> left]

Lives ==
    {AWorld(Single, {}, {"drift", "delete", "foreign", "free"}, 2),
     AWorld(Grow, {2}, {"edit", "ready", "unready"}, 3),
     AWorld(Replace, {}, {"edit", "drift", "delete"}, 2),
     AWorld(Rewire, {}, {"edit"}, 1),
     AWorld(Pair, {}, {"ready", "unready", "foreign"}, 2)}

=============================================================================
