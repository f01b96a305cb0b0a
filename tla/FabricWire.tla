----------------------------- MODULE FabricWire -----------------------------
(***************************************************************************)
(* The fabric wire (internal/directruntime/wire_linux.go) of one link      *)
(* between two Pods: sessions and process generations, link-state          *)
(* advertisements, and the carrier state machine that holds a sidecar leg  *)
(* down while the far end is dead or down.                                 *)
(*                                                                         *)
(* Each Pod runs one sidecar process (wire), has the sidecar leg of a veth *)
(* pair (leg: admin state, oper: the operational state the kernel shows,   *)
(* which lags) whose other end is the device's port (device), and an       *)
(* address, <<Pod, number>>, the number alone where the Pod is clear.      *)
(* Datagrams may be lost, duplicated, delayed and reordered.               *)
(*                                                                         *)
(* Time.  silent says that more than fabricWireSessionTimeout passed since *)
(* the session last heard a datagram; settling that settleUntil has not    *)
(* passed.  A live, reachable peer only falls silent when a burst of       *)
(* datagrams is lost, and the kernel shows the state of a raised leg       *)
(* before the settle window ends.                                          *)
(***************************************************************************)
EXTENDS Naturals, FiniteSets

CONSTANTS
    Pods,        \* the two ends
    MaxGen,      \* bound: process generations
    MaxHome,     \* bound: addresses per Pod
    Ordered,     \* whether a later process always has the larger generation
    Worlds       \* what may happen: bounds of a behaviour and how it starts

FaultKinds == {"device", "crash", "move", "lose", "duplicate", "recreate", "open", "delay"}

ASSUME PodsAssumption == \E p, q \in Pods : p # q /\ Pods = {p, q}
ASSUME BoundsAssumption ==
    /\ MaxGen \in Nat /\ MaxHome \in Nat \ {0} /\ Ordered \in BOOLEAN
    /\ \A w \in Worlds :
          /\ w.kinds \subseteq FaultKinds /\ w.faults \in Nat /\ w.inFlight \in Nat
          /\ w.ports \subseteq BOOLEAN /\ w.published \in {0, 1}

VARIABLES
    device,   \* the device's port is up
    leg,      \* the sidecar leg is administratively up
    oper,     \* the operational state the kernel shows for the sidecar leg
    index,    \* the ifindex of the sidecar leg
    home,     \* the number of the Pod's address
    dns,      \* the address number published for the Pod, 0 for none
    wire,     \* the wire of the Pod's sidecar process
    step,     \* how far the sidecar's pass over the endpoint is
    net,      \* the datagrams in flight
    nextGen,  \* generations given to processes so far
    dipped,   \* (history) the port was down since the process saw it up
    world     \* the kinds of faults, how many are left, datagrams in flight from a process,
              \* how a new device's port starts

vars == <<device, leg, oper, index, home, dns, wire, step, net, nextGen, dipped, world>>

Other(p) == CHOOSE q \in Pods : q # p
Homes == 1..MaxHome

\* fabricWireSession, one per remote address.
Session == [known : BOOLEAN, gen : 0..MaxGen, up : BOOLEAN, silent : BOOLEAN, exists : BOOLEAN]
NoSession == [known |-> FALSE, gen |-> 0, up |-> FALSE, silent |-> FALSE, exists |-> FALSE]

\* fabricWire with its link: peer is 0 while the peer address is not known,
\* resolving the answer of a lookup under way (0: none), stopped that the stop
\* channel of the capture pump is closed, panicked that it was closed twice.
Wire == [running : BOOLEAN, gen : 0..MaxGen, index : Nat, peer : {0} \cup Homes,
         local : BOOLEAN, remote : BOOLEAN, forced : BOOLEAN, settling : BOOLEAN,
         resolving : {0} \cup Homes, sess : [Homes -> Session], stopped : BOOLEAN, panicked : BOOLEAN]
NoWire ==
    [running |-> FALSE, gen |-> 0, index |-> 0, peer |-> 0, local |-> FALSE, remote |-> FALSE,
     forced |-> FALSE, settling |-> FALSE, resolving |-> 0, sess |-> [k \in Homes |-> NoSession],
     stopped |-> FALSE, panicked |-> FALSE]

\* A heartbeat, or a link-state advertisement; to and from are addresses.
Datagram == [to : Pods \X Homes, from : Homes, gen : 1..MaxGen, kind : {"heartbeat", "state"}, up : BOOLEAN]

Steps == {"idle", "sawDown", "raise"}

TypeOK ==
    /\ device \in [Pods -> BOOLEAN] /\ leg \in [Pods -> BOOLEAN] /\ oper \in [Pods -> BOOLEAN]
    /\ index \in [Pods -> Nat] /\ home \in [Pods -> Homes] /\ dns \in [Pods -> {0} \cup Homes]
    /\ wire \in [Pods -> Wire]
    /\ step \in [Pods -> Steps]
    /\ net \subseteq Datagram
    /\ nextGen \subseteq 1..MaxGen
    /\ dipped \in [Pods -> BOOLEAN]
    /\ world \in [kinds : SUBSET FaultKinds, left : Nat, inFlight : Nat, ports : SUBSET BOOLEAN]

Init ==
    /\ leg = [p \in Pods |-> FALSE] /\ oper = [p \in Pods |-> FALSE]
    /\ index = [p \in Pods |-> 1] /\ home = [p \in Pods |-> 1]
    /\ wire = [p \in Pods |-> NoWire]
    /\ step = [p \in Pods |-> "idle"]
    /\ net = {} /\ nextGen = {}
    /\ dipped = [p \in Pods |-> FALSE]
    /\ \E w \in Worlds :
          /\ world = [kinds |-> w.kinds, left |-> w.faults, inFlight |-> w.inFlight, ports |-> w.ports]
          /\ device \in [Pods -> w.ports]
          /\ dns = [p \in Pods |-> w.published]

-----------------------------------------------------------------------------
(***************************************************************************)
(* What the handlers do to a wire record.                                  *)
(***************************************************************************)
RemoteUp(w) == w.peer # 0 /\ w.sess[w.peer].up /\ w.remote

\* Mutant: the leg is held down whenever the far end is down.
DesiredWhileLocalDown(w) == ~RemoteUp(w)

\* The leg is to be held down: this end is alive and the far end is not.
Desired(w) == w.local /\ ~RemoteUp(w)

\* applyLinkCarrierLocked; its netlink call fails when the leg is gone (i is the
\* ifindex there is).
Applied(w, i) ==
    [w EXCEPT !.forced = Desired(w),
              !.settling = (w.forced /\ ~Desired(w) /\ w.index = i) \/ @]

\* The leg's admin state after a handler that turned w into x: changed when the
\* hold on the leg changes (a re-created leg starts without one).
LegAfter(w, x, i, up) ==
    LET held == w.forced /\ w.index = x.index
    IN  IF held = x.forced \/ x.index # i THEN up ELSE ~x.forced

\* Mutant: down observations in the settle window count.
ObservesEcho(w, operUp) == ~w.forced /\ w.local # operUp

\* observeLegStateLocked takes the observation: not while the wire itself holds
\* the leg down, and no down observation right after it raised it.
Observes(w, operUp) == ~w.forced /\ w.local # operUp /\ (operUp \/ ~w.settling)

\* Mutant: an observation does not re-evaluate the carrier.
ObservedUnapplied(w, operUp, i) == IF Observes(w, operUp) THEN [w EXCEPT !.local = operUp] ELSE w

Observed(w, operUp, i) == IF Observes(w, operUp) THEN Applied([w EXCEPT !.local = operUp], i) ELSE w

\* Mutant: an older generation displaces the holder.
RejectsNone(w, k, g) == ~w.sess[k].exists /\ w.peer # k

\* refreshSessionLocked drops a datagram of generation g from address k: nobody
\* is homed there, or it is older than a holder that is still being heard.
Rejects(w, k, g) ==
    LET s == w.sess[k] IN
    \/ ~s.exists /\ w.peer # k
    \/ s.exists /\ s.known /\ g < s.gen /\ ~s.silent

\* The session that accepted it; a different generation resets the links homed
\* on that address.
Refreshed(w, k, g) ==
    [w EXCEPT !.sess[k] = [known |-> TRUE, gen |-> g, up |-> TRUE, silent |-> FALSE, exists |-> TRUE],
              !.remote = @ /\ ~(w.sess[k].known /\ w.sess[k].gen # g /\ w.peer = k)]

\* handleDatagram: a heartbeat refreshes, a link state also says what is up.
Handled(w, m, i) ==
    LET k == m.from
        r == Refreshed(w, k, m.gen)
        x == IF m.kind = "state" /\ w.peer = k THEN [r EXCEPT !.remote = m.up] ELSE r
    IN  IF Rejects(w, k, m.gen) THEN w
        ELSE IF w.peer = k THEN Applied(x, i) ELSE x

\* The sessions that were silent past the timeout.
TimedOut(w) == {k \in Homes : w.sess[k].up /\ w.sess[k].silent}

\* They go down, with the links homed on them, and forget the generation.
Expired(w, i) ==
    LET x == [w EXCEPT !.sess = [k \in Homes |-> IF k \in TimedOut(w)
                                                 THEN [w.sess[k] EXCEPT !.up = FALSE, !.known = FALSE]
                                                 ELSE w.sess[k]]]
    IN  IF w.peer \in TimedOut(w) THEN Applied(x, i) ELSE x

-----------------------------------------------------------------------------
(***************************************************************************)
(* Sending.                                                                *)
(***************************************************************************)
\* What a process has in flight, without what an earlier one left there.
InFlight(p, n) ==
    Cardinality({m \in n : m.to[1] = Other(p) /\ (m.gen = wire[p].gen \/ m.from # home[p])})

\* Datagrams to an address that was given up are lost.
Routed(ms) == {m \in ms : m.to[2] = home[m.to[1]]}

\* Datagrams that a send of ms may leave in flight: a full socket drops the tail.
Sent(p, ms) ==
    LET all == net \cup Routed(ms)
    IN  {n \in SUBSET all : /\ net \subseteq n
                            /\ InFlight(p, n) <= world.inFlight \/ n = net
                            /\ n = all \/ InFlight(p, all) > world.inFlight}

Heartbeat(p, w) ==
    [to |-> <<Other(p), w.peer>>, from |-> home[p], gen |-> w.gen, kind |-> "heartbeat", up |-> FALSE]
LinkState(p, w) ==
    [to |-> <<Other(p), w.peer>>, from |-> home[p], gen |-> w.gen, kind |-> "state", up |-> w.local]

\* advertiseLinkLocked after an observation; nothing is sent to an unknown peer.
Advertises(p, w) == IF w.peer = 0 THEN {} ELSE {LinkState(p, w)}

\* A fault of a kind this world has.
Fault(kind) == kind \in world.kinds /\ world.left > 0 /\ world' = [world EXCEPT !.left = @ - 1]

\* History: a process that takes its port for up forgets earlier dips.
Redip(p, x) ==
    dipped' = [dipped EXCEPT ![p] = IF x.local /\ ~wire[p].local THEN ~device[p] ELSE @]

\* The wire of p becomes x, and the leg follows it.
Turns(p, x) ==
    /\ wire' = [wire EXCEPT ![p] = x]
    /\ leg' = [leg EXCEPT ![p] = LegAfter(wire[p], x, index[p], @)]
    /\ Redip(p, x)

\* The wire of p becomes x, sending ms.
Becomes(p, x, ms) ==
    /\ Turns(p, x)
    /\ \E n \in Sent(p, ms) : net' = n

-----------------------------------------------------------------------------
(***************************************************************************)
(* The sidecar's pass over its endpoint: ensureFabricPair looks at the     *)
(* leg, asks the wire whether it holds it down, raises it; then the peer   *)
(* is resolved and the link registered with the wire.                      *)
(***************************************************************************)
PairRead(p) ==
    /\ step[p] = "idle" /\ ~leg[p] /\ ~wire[p].forced
    /\ step' = [step EXCEPT ![p] = "raise"]
    /\ UNCHANGED <<device, leg, oper, index, home, dns, wire, net, nextGen, dipped, world>>

\* podFabricWireHoldsLegDown is asked a moment after the look at the leg, which
\* tells when the wire held the leg and lets go of it in between.
PairReadHeld(p) ==
    /\ Fault("delay")
    /\ step[p] = "idle" /\ ~leg[p] /\ wire[p].forced
    /\ step' = [step EXCEPT ![p] = "sawDown"]
    /\ UNCHANGED <<device, leg, oper, index, home, dns, wire, net, nextGen, dipped>>

PairCheck(p) ==
    /\ step[p] = "sawDown"
    /\ step' = [step EXCEPT ![p] = IF wire[p].forced THEN "idle" ELSE "raise"]
    /\ UNCHANGED <<device, leg, oper, index, home, dns, wire, net, nextGen, dipped, world>>

PairRaise(p) ==
    /\ step[p] = "raise"
    /\ leg' = [leg EXCEPT ![p] = TRUE]
    /\ step' = [step EXCEPT ![p] = "idle"]
    /\ UNCHANGED <<device, oper, index, home, dns, wire, net, nextGen, dipped, world>>

\* newFabricWireGeneration: start time first, so usually larger than any before.
NewGenerations == {g \in (1..MaxGen) \ nextGen : Ordered => 1..(g - 1) \subseteq nextGen}

\* EnsureLink registers the link of w on the leg there is (a new link and a
\* re-created leg start from its operational state), then takes over the peer
\* address d unless it is unknown.
Registered(p, w, d) ==
    LET moved == w.index # index[p]
        fresh == IF moved
                 THEN [w EXCEPT !.index = index[p], !.local = oper[p], !.settling = TRUE,
                                !.forced = FALSE, !.stopped = FALSE]
                 ELSE w
    IN  IF d = 0 THEN fresh ELSE [fresh EXCEPT !.peer = d]

\* The pass gets past the pair: the leg is up, or the wire holds it down.
PairEnsured(p) == step[p] = "idle" /\ (leg[p] \/ wire[p].forced)

\* ensurePodFabricWire (the first pass of a process starts its wire) and EnsureLink.
EnsureLink(p) ==
    /\ PairEnsured(p)
    /\ \E g \in IF wire[p].running THEN {wire[p].gen} ELSE NewGenerations :
          /\ nextGen' = nextGen \cup {g}
          /\ \E w \in {Registered(p, [wire[p] EXCEPT !.running = TRUE, !.gen = g], dns[Other(p)])} :
                Becomes(p, IF wire[p].stopped THEN [wire[p] EXCEPT !.panicked = TRUE]
                                              ELSE Applied(w, index[p]), {})
    /\ UNCHANGED <<device, oper, index, home, dns, step, world>>

\* Opening the capture socket on the re-created leg fails: the old pump is
\* stopped, everything else is as before.
OpenFails(p) ==
    /\ Fault("open")
    /\ PairEnsured(p) /\ wire[p].running /\ wire[p].index # index[p]
    /\ wire' = [wire EXCEPT ![p].panicked = wire[p].stopped, ![p].stopped = TRUE]
    /\ UNCHANGED <<device, leg, oper, index, home, dns, step, net, nextGen, dipped>>

-----------------------------------------------------------------------------
(***************************************************************************)
(* The wire's own threads.                                                 *)
(***************************************************************************)

\* tick: sample the leg, expire sessions, send a heartbeat and the link state
\* to the peer, look up a peer that is not heard (the answer matters only if it
\* is another address).
Sampled(p) == IF wire[p].index = index[p] THEN Observed(wire[p], oper[p], index[p]) ELSE wire[p]

LookedUp(p, w) ==
    IF /\ w.resolving = 0 /\ dns[Other(p)] \notin {0, w.peer}
       /\ w.peer = 0 \/ ~w.sess[w.peer].up
    THEN [w EXCEPT !.resolving = dns[Other(p)]] ELSE w

Tick(p) ==
    /\ wire[p].running /\ ~wire[p].panicked
    /\ \E s \in {Sampled(p)} : \E e \in {Expired(s, index[p])} : \E x \in {LookedUp(p, e)} :
          Becomes(p, x, (IF s.local # wire[p].local THEN Advertises(p, s) ELSE {})
                           \cup (IF x.peer = 0 THEN {} ELSE {Heartbeat(p, x), LinkState(p, x)}))
    /\ UNCHANGED <<device, oper, index, home, dns, step, nextGen, world>>

\* watchLinks: a netlink update of the leg.
WatchEvent(p) ==
    /\ wire[p].running /\ ~wire[p].panicked /\ wire[p].index = index[p]
    /\ Observes(wire[p], oper[p])
    /\ \E x \in {Observed(wire[p], oper[p], index[p])} : Becomes(p, x, Advertises(p, x))
    /\ UNCHANGED <<device, oper, index, home, dns, step, nextGen, world>>

\* handleDatagram of datagram m, which n leaves in flight.
Receive(p, m, n) ==
    /\ m.to = <<p, home[p]>>
    /\ wire[p].running /\ ~wire[p].panicked
    /\ \E x \in {Handled(wire[p], m, index[p])} : Turns(p, x)
    /\ net' = n
    /\ UNCHANGED <<device, oper, index, home, dns, step, nextGen>>

Deliver(p, kind) ==
    \E m \in net : m.kind = kind /\ Receive(p, m, net \ {m}) /\ UNCHANGED world

\* adoptPeerAddress with the answer of an earlier lookup.
Adopted(w, i) ==
    LET done == [w EXCEPT !.resolving = 0]
    IN  IF w.resolving = w.peer THEN done
        ELSE Applied([done EXCEPT !.peer = w.resolving, !.remote = FALSE], i)

AdoptPeerAddress(p) ==
    /\ wire[p].running /\ ~wire[p].panicked /\ wire[p].resolving # 0
    /\ \E x \in {Adopted(wire[p], index[p])} : Becomes(p, x, {})
    /\ UNCHANGED <<device, oper, index, home, dns, step, nextGen, world>>

\* SweepLinks forgets the sessions nobody is homed on that were long silent.
Sweep(p) ==
    LET gone == {k \in Homes : wire[p].sess[k].exists /\ wire[p].peer # k /\ wire[p].sess[k].silent} IN
    /\ gone # {}
    /\ wire' = [wire EXCEPT ![p].sess = [k \in Homes |-> IF k \in gone THEN NoSession ELSE @[k]]]
    /\ UNCHANGED <<device, leg, oper, index, home, dns, step, net, nextGen, dipped, world>>

-----------------------------------------------------------------------------
(***************************************************************************)
(* The kernel, time, DNS, and faults.                                      *)
(***************************************************************************)

\* The operational state catches up with the two ends of the veth pair.
Linkwatch(p) ==
    /\ oper[p] # (device[p] /\ leg[p])
    /\ oper' = [oper EXCEPT ![p] = ~@]
    /\ UNCHANGED <<device, leg, index, home, dns, wire, step, net, nextGen, dipped, world>>

\* The settle window ends, once the kernel shows what the raised leg brought.
SettleEnds(p) ==
    /\ wire[p].settling /\ oper[p] = (device[p] /\ leg[p])
    /\ wire' = [wire EXCEPT ![p].settling = FALSE]
    /\ UNCHANGED <<device, leg, oper, index, home, dns, step, net, nextGen, dipped, world>>

\* The process at address k of the other Pod is alive and sends to p.
Heard(p, k) ==
    LET q == Other(p) IN home[q] = k /\ wire[q].running /\ wire[q].peer = home[p]

Silence(p, k) ==
    /\ wire[p].sess[k].exists /\ ~wire[p].sess[k].silent
    /\ wire' = [wire EXCEPT ![p].sess[k].silent = TRUE]
    /\ UNCHANGED <<device, leg, oper, index, home, dns, step, net, nextGen, dipped>>

\* The timeout passes without a datagram from k: nobody there sends ...
GoSilent(p, k) == ~Heard(p, k) /\ Silence(p, k) /\ UNCHANGED world

PublishAddress(p) ==
    /\ dns[p] # home[p]
    /\ dns' = [dns EXCEPT ![p] = home[p]]
    /\ UNCHANGED <<device, leg, oper, index, home, wire, step, net, nextGen, dipped, world>>

\* Datagrams to an address without a process are lost.
Drop(m) ==
    /\ ~wire[m.to[1]].running
    /\ net' = net \ {m}
    /\ UNCHANGED <<device, leg, oper, index, home, dns, wire, step, nextGen, dipped, world>>

\* ... or a burst of its datagrams is lost.
LoseBurst(p, k) == Fault("lose") /\ Heard(p, k) /\ Silence(p, k)

Lose(m) ==
    /\ Fault("lose")
    /\ net' = net \ {m}
    /\ UNCHANGED <<device, leg, oper, index, home, dns, wire, step, nextGen, dipped>>

Duplicate(p) == \E m \in net : Fault("duplicate") /\ Receive(p, m, net)

\* The device shuts its port or brings it back.
ToggleDevice(p) ==
    /\ Fault("device")
    /\ device' = [device EXCEPT ![p] = ~@]
    /\ dipped' = [dipped EXCEPT ![p] = @ \/ device[p]]
    /\ UNCHANGED <<leg, oper, index, home, dns, wire, step, net, nextGen>>

\* The sidecar process dies; the leg stays as it is.
Crash(p) ==
    /\ Fault("crash") /\ NewGenerations # {}
    /\ wire' = [wire EXCEPT ![p] = NoWire]
    /\ step' = [step EXCEPT ![p] = "idle"]
    /\ UNCHANGED <<device, leg, oper, index, home, dns, net, nextGen, dipped>>

\* The Pod is replaced by another with a new address; DNS follows later.
MovePod(p) ==
    /\ Fault("move") /\ NewGenerations # {} /\ home[p] < MaxHome
    /\ home' = [home EXCEPT ![p] = @ + 1]
    /\ wire' = [wire EXCEPT ![p] = NoWire]
    /\ step' = [step EXCEPT ![p] = "idle"]
    /\ leg' = [leg EXCEPT ![p] = FALSE] /\ oper' = [oper EXCEPT ![p] = FALSE]
    /\ \E up \in world.ports : device' = [device EXCEPT ![p] = up]
    /\ net' = {m \in net : m.to[1] # p}
    /\ UNCHANGED <<index, dns, nextGen, dipped>>

\* The veth pair is deleted and made anew.
RecreatePair(p) ==
    /\ Fault("recreate")
    /\ index' = [index EXCEPT ![p] = @ + 1]
    /\ leg' = [leg EXCEPT ![p] = FALSE] /\ oper' = [oper EXCEPT ![p] = FALSE]
    /\ UNCHANGED <<device, home, dns, wire, step, net, nextGen, dipped>>

\* The sidecar's pass, and what time brings about.
Pass(p) == PairRead(p) \/ PairCheck(p) \/ PairRaise(p) \/ EnsureLink(p)
Elapse(p) ==
    Linkwatch(p) \/ SettleEnds(p) \/ PublishAddress(p) \/ AdoptPeerAddress(p) \/ \E k \in Homes : GoSilent(p, k)

Next ==
    \/ \E p \in Pods :
          \/ Pass(p) \/ PairReadHeld(p) \/ OpenFails(p)
          \/ Tick(p) \/ WatchEvent(p) \/ Sweep(p)
          \/ \E kind \in {"heartbeat", "state"} : Deliver(p, kind)
          \/ Elapse(p)
          \/ \E k \in Homes : LoseBurst(p, k)
          \/ Duplicate(p) \/ ToggleDevice(p) \/ Crash(p) \/ MovePod(p) \/ RecreatePair(p)
    \/ \E m \in net : Drop(m) \/ Lose(m)

Spec == Init /\ [][Next]_vars

\* The sidecar goes over its endpoints again and again, its wire ticks every
\* second, datagrams arrive or are lost for good, the kernel, DNS and time
\* advance; faults need not happen.
FairSpec ==
    /\ Spec
    /\ \A p \in Pods :
          /\ WF_vars(Pass(p)) /\ WF_vars(Tick(p)) /\ WF_vars(Elapse(p))
          /\ WF_vars(Deliver(p, "heartbeat")) /\ WF_vars(Deliver(p, "state"))
    /\ WF_vars(\E m \in net : Drop(m))

-----------------------------------------------------------------------------
(***************************************************************************)
(* Properties.                                                             *)
(***************************************************************************)

\* Every handler leaves the wire's hold on the leg (forced) as applyLinkCarrierLocked
\* wants it: taken exactly when this end is up and the far end is not known to be.
\* No path changes what the hold follows without applying it.  It is about the hold,
\* not the leg, which a pass under way may still raise (PairRaise).
CarrierFollowsState ==
    \A p \in Pods : wire[p].running /\ ~wire[p].panicked => wire[p].forced = Desired(wire[p])

\* The wire never takes its own holding-down or raising of the leg for a loss
\* of the device's carrier: it reports the port down only if it was down.
NoEcho ==
    [][\A p \in Pods :
          wire[p].local /\ ~wire'[p].local /\ wire'[p].running /\ wire'[p].index = wire[p].index
             => dipped[p]]_vars

\* A session held by the living process of the far Pod, and not silent, is not
\* taken over by another generation: stragglers of dead processes are dropped.
LivePeerKeepsSession ==
    [][\A p \in Pods, k \in Homes :
          LET s == wire[p].sess[k]
              q == Other(p)
          IN  /\ s.known /\ ~s.silent /\ s.gen = wire[q].gen /\ home[q] = k
              /\ wire'[p].running /\ wire'[q] = wire[q]
              => wire'[p].sess[k].gen = s.gen]_vars

\* Once faults stop, a link whose ends are both up has its legs up and none held,
\* and where one end is down the other end's leg is held down.  So a link reconverges
\* after a toggle of a port, a restart, a lost burst or a pair made anew, each
\* followed by another toggle at any moment, and after a Pod moved.
Reconverges ==
    <>[](\A p \in Pods :
            /\ device[p] /\ device[Other(p)] => leg[p] /\ ~wire[p].forced
            /\ device[p] /\ ~device[Other(p)] => wire[p].forced)

=============================================================================
