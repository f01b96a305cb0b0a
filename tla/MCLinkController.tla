--------------------------- MODULE MCLinkController ---------------------------
(* Instances of LinkController for TLC. *)
EXTENDS LinkController

CONSTANTS n1, n2, s1

Ep(node, ifc) == [node |-> node, ifc |-> ifc]
Wire(a, b) == [a |-> a, b |-> b]

\* Two cross-pod wires that share nothing, and a host link that takes an
\* endpoint of the second.
SomeSpecs ==
    {Wire(Ep(n1, 1), Ep(n2, 1)), Wire(Ep(n1, 2), Ep(n2, 2)), Wire(Ep(n1, 2), Ep(Host, 1))}

\* The passes are alike: it is enough that the first of them leads at the start.
FirstInit == Init /\ leader = s1

FirstLeads == FirstInit /\ [][Next]_vars /\ \A s \in Slots : WF_vars(PassStep(s))

===============================================================================
