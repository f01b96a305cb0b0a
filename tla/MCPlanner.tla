------------------------------ MODULE MCPlanner ------------------------------
(***************************************************************************)
(* An instance of Planner: one Node with two requests and Pods of its own, *)
(* or two Nodes and a pool of one worker.  Planning asks for one image,    *)
(* then, knowing it, for another, then for certificates.                   *)
(***************************************************************************)
EXTENDS Planner

Discovery == <<{1}, {1, 2}>>

\* A Node and Pods of its own
Own(script, certs, ok, lag, kinds, left) ==
    [pool |-> FALSE, owner |-> [a \in Attempts |-> 1], want |-> [n \in Nodes |-> IF n = 1 THEN 1 ELSE 0],
     script |-> script, certs |-> certs, ok |-> ok, lag |-> lag, kinds |-> kinds, left |-> left]

\* Two Nodes and the pool
Pool(script, certs, ok, lag, kinds, left) ==
    [pool |-> TRUE, owner |-> [a \in Attempts |-> a], want |-> [n \in Nodes |-> n],
     script |-> script, certs |-> certs, ok |-> ok, lag |-> lag, kinds |-> kinds, left |-> left]

Lives ==
    {Own(Discovery, TRUE, TRUE, {}, {"edit", "crash"}, 1),
     Own(<<{1}>>, FALSE, TRUE, {}, {"edit", "crash"}, 2),
     Own(<<{1}>>, FALSE, TRUE, {"maps"}, {"edit"}, 1),
     Own(<<{1}>>, FALSE, TRUE, {"pods"}, {"edit"}, 1),
     Own(<<>>, FALSE, TRUE, {"policies"}, {"edit"}, 2),
     Own(<<{1}>>, TRUE, TRUE, {}, {"tag", "secret"}, 2),
     Own(<<{1}>>, FALSE, TRUE, {}, {"skew", "crash"}, 2),
     Own(<<{1}>>, FALSE, TRUE, {"pods"}, {"kill", "cut"}, 1),
     Own(<<>>, FALSE, FALSE, {}, {"crash", "edit"}, 1),
     Pool(Discovery, TRUE, TRUE, {}, {"crash"}, 1),
     Pool(<<>>, TRUE, TRUE, {"maps"}, {"tag", "secret"}, 1),
     Pool(<<{1}>>, FALSE, TRUE, {}, {"kill", "cut", "skew"}, 1),
     Pool(<<>>, TRUE, FALSE, {}, {"crash"}, 1)}

=============================================================================
