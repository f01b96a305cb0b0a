---------------------------- MODULE MCFabricWire ----------------------------
(* Instances of FabricWire: what may happen to the two ends. *)
EXTENDS FabricWire, TLC

CONSTANTS p1, p2

Ends == Permutations(Pods)

World(kinds, faults, inFlight, published) ==
    [kinds |-> kinds, faults |-> faults, inFlight |-> inFlight, ports |-> {TRUE}, published |-> published]

\* A port toggles and the peers are not resolvable at first;
\* a pass is delayed between its look at the leg and its question to the wire;
\* a veth pair is made anew and the capture socket does not open; a process
\* restarts with datagrams of the dead one in flight, a burst is lost, one is
\* duplicated; a Pod moves to another address.
Anything ==
    {World({"device"}, 1, 1, 0), World({"delay"}, 1, 1, 1), World({"recreate", "open"}, 2, 1, 1),
     World({"crash"}, 1, 1, 1), World({"lose", "duplicate"}, 1, 1, 1), World({"move"}, 1, 1, 1)}

\* Two faults: a port toggles, a process restarts, a pair is made anew, a datagram
\* or a burst is lost, a Pod moves.
Disturbed == {World({"device", "crash", "recreate", "lose", "move"}, 2, 2, 1)}

\* Both processes run, hear each other and take the link for up, and nothing is
\* under way.
Established ==
    /\ net = {}
    /\ \A p \in Pods :
          LET q == Other(p) IN
          /\ leg[p] /\ oper[p] /\ step[p] = "idle" /\ wire[p].index = index[p]
          /\ Heard(p, home[q]) /\ wire[p].sess[home[q]].up
          /\ wire[p].local /\ wire[p].remote /\ ~wire[p].forced /\ ~wire[p].settling

\* Bounds of the run for liveness.  The first fault befalls an established link
\* (a move befalls p1: the ends are alike); a second one, at any moment after, is a
\* port that toggles, and there is none after a move.  No fair action is a fault.
DisturbedLate ==
    /\ world' # world /\ world.left = 2 => Established /\ home'[p2] = home[p2]
    /\ world' # world /\ world.left = 1 =>
          device' # device /\ home' = home /\ home = [p \in Pods |-> 1]

=============================================================================
