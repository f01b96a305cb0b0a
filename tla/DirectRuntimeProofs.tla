------------------------ MODULE DirectRuntimeProofs ------------------------
(***************************************************************************)
(* The carrier of a fabric link, for any number of generations, addresses, *)
(* datagrams in flight and faults.                                         *)
(*                                                                         *)
(* That the wire never takes its own doing for the device's needs to know  *)
(* what a leg that is up or down can be due to: a leg the wire does not    *)
(* hold and takes for up is up, one that shows up is up unless it is held, *)
(* and a port that is taken for up and is down went down since.  That a    *)
(* live peer keeps its session needs that nothing in flight from a Pod is  *)
(* of a later generation than the process it runs.                         *)
(*                                                                         *)
(* The second part is about the frames: a link implements FrameChannel.    *)
(* The third is about the binary that the Pods of a host install.          *)
(***************************************************************************)
EXTENDS FabricWire, WireReassembly, LifecycleBinary, TLAPS

\* CarrierFollowsState, of one wire
Followed(w) == w.running /\ ~w.panicked => w.forced = Desired(w)

\* The wire follows the leg with ifindex i, and does not hold it down.
Watches(w, i) == w.running /\ w.index = i /\ ~w.forced

\* What wire w and the leg with ifindex i may show: up is the device's port, l the
\* leg, o its operational state, d whether the port was down since the wire saw it up.
Sound(w, i, up, l, o, d) ==
    /\ (w.running /\ w.gen # 0) \/ w = NoWire
    /\ w.panicked => w.stopped
    /\ w.index <= i /\ i # 0
    /\ w.running /\ ~(w.forced /\ w.index = i) /\ o => l
    /\ Watches(w, i) /\ w.local => l
    /\ w.local /\ ~up => d
    /\ Watches(w, i) /\ w.local /\ ~w.settling => o \/ d

LegSound(p) == Sound(wire[p], index[p], device[p], leg[p], oper[p], dipped[p])

\* A session with a generation exists.
Known(w) == \A k \in Homes : w.sess[k].known => w.sess[k].exists /\ w.sess[k].gen # 0

WireInv ==
    /\ TypeOK
    /\ \A p \in Pods : Followed(wire[p]) /\ Known(wire[p]) /\ LegSound(p)

\* The generations given out are the first ones; a process has the last one of
\* its Pod, and nothing in flight from the Pod is of a later one.
Given == \A g \in nextGen : 1..g \subseteq nextGen

NoneLater ==
    /\ \A m \in net : m.gen \in nextGen
    /\ \A p \in Pods : wire[p].running => wire[p].gen \in nextGen
    /\ \A p \in Pods, m \in net : wire[p].running /\ m.to[1] = Other(p) => m.gen <= wire[p].gen

GenInv == Given /\ NoneLater

-----------------------------------------------------------------------------
(* The two ends, and the fields of a wire *)

LEMMA TwoEnds ==
    ASSUME NEW p \in Pods
    PROVE  /\ Other(p) \in Pods /\ Other(p) # p /\ Other(Other(p)) = p
           /\ \A q \in Pods : q # p => q = Other(p)
  <1>1. PICK a \in Pods, b \in Pods : a # b /\ Pods = {a, b}
    BY PodsAssumption, Zenon
  <1>2. \E q \in Pods : q # p
    BY <1>1
  <1>3. \A r \in Pods : (\E q \in Pods : q # r) => Other(r) \in Pods /\ Other(r) # r
    BY Zenon DEF Other
  <1>. QED
    BY <1>1, <1>2, <1>3, Zenon

LEMMA SessionFields ==
    ASSUME NEW w \in Wire, NEW k \in Homes
    PROVE  /\ w.sess[k] \in Session /\ w.sess[k].up \in BOOLEAN /\ w.sess[k].known \in BOOLEAN
           /\ w.sess[k].silent \in BOOLEAN /\ w.sess[k].exists \in BOOLEAN /\ w.sess[k].gen \in 0..MaxGen
  <1>1. w.sess \in [Homes -> Session]
    BY Zenon DEF Wire
  <1>2. w.sess[k] \in Session
    BY <1>1, Zenon
  <1>. QED
    BY <1>2, Zenon DEF Session

LEMMA WireFields ==
    ASSUME NEW w \in Wire
    PROVE  /\ w.running \in BOOLEAN /\ w.local \in BOOLEAN /\ w.remote \in BOOLEAN /\ w.forced \in BOOLEAN
           /\ w.settling \in BOOLEAN /\ w.stopped \in BOOLEAN /\ w.panicked \in BOOLEAN
           /\ w.index \in Nat /\ w.gen \in 0..MaxGen /\ w.peer \in {0} \cup Homes
           /\ w.resolving \in {0} \cup Homes /\ w.sess \in [Homes -> Session]
  BY Zenon DEF Wire

LEMMA HomesAreNumbers == 0 \notin Homes /\ 1 \in Homes /\ Homes \subseteq Nat
  BY BoundsAssumption DEF Homes

LEMMA NoWireFields ==
    /\ NoWire \in Wire /\ Known(NoWire) /\ Followed(NoWire) /\ NoSession \in Session
    /\ NoWire.running = FALSE /\ NoWire.forced = FALSE /\ NoWire.index = 0 /\ NoWire.local = FALSE
    /\ NoWire.gen = 0 /\ NoWire.stopped = FALSE /\ NoWire.panicked = FALSE /\ NoWire.settling = FALSE
  <1>1. NoSession \in Session /\ NoSession.known = FALSE
    BY BoundsAssumption DEF Session, NoSession
  <1>2. [k \in Homes |-> NoSession] \in [Homes -> Session] /\ 0 \in 0..MaxGen
    BY <1>1, BoundsAssumption
  <1>3. NoWire \in Wire
    BY <1>2, Zenon DEF NoWire, Wire
  <1>4. /\ NoWire.running = FALSE /\ NoWire.forced = FALSE /\ NoWire.index = 0 /\ NoWire.local = FALSE
        /\ NoWire.gen = 0 /\ NoWire.stopped = FALSE /\ NoWire.panicked = FALSE /\ NoWire.settling = FALSE
        /\ NoWire.sess = [k \in Homes |-> NoSession]
    BY Zenon DEF NoWire
  <1>. QED
    BY <1>1, <1>3, <1>4, Zenon DEF Followed, Known

-----------------------------------------------------------------------------
(* What a handler does to a wire *)

\* The sessions keep their generations, or forget them.
SameSessions(w, x) ==
    \A k \in Homes : /\ x.sess[k].gen = w.sess[k].gen
                     /\ x.sess[k].known => w.sess[k].known
                     /\ x.sess[k].exists = w.sess[k].exists

\* w becomes x, where the leg with ifindex i shows o: what is taken for the port's
\* state changes only to what the leg shows, and a raised leg gets time to settle.
Handles(w, x, i, o) ==
    /\ x.running = w.running /\ x.index = w.index /\ x.gen = w.gen
    /\ x.stopped = w.stopped /\ x.panicked = w.panicked
    /\ Followed(x)
    /\ x.local = w.local \/ (w.index = i /\ ~w.forced /\ x.local = o /\ (o \/ ~w.settling))
    /\ w.forced /\ ~x.forced /\ w.index = i => x.settling
    /\ w.settling => x.settling

LEMMA HandlesTwice ==
    ASSUME NEW w \in Wire, NEW x \in Wire, NEW y \in Wire, NEW i \in Nat, NEW o \in BOOLEAN,
           Handles(w, x, i, o), Handles(x, y, i, o), y.local = x.local
    PROVE  Handles(w, y, i, o)
  BY WireFields, Zenon DEF Handles

LEMMA AppliedFields ==
    ASSUME NEW w \in Wire, NEW i \in Nat
    PROVE  LET x == Applied(w, i) IN
           /\ x \in Wire /\ Followed(x)
           /\ x.running = w.running /\ x.index = w.index /\ x.gen = w.gen
           /\ x.stopped = w.stopped /\ x.panicked = w.panicked /\ x.local = w.local
           /\ x.sess = w.sess /\ x.peer = w.peer /\ x.remote = w.remote /\ x.resolving = w.resolving
           /\ x.forced = Desired(w)
           /\ x.settling = ((w.forced /\ ~Desired(w) /\ w.index = i) \/ w.settling)
  <1> DEFINE settles == (w.forced /\ ~Desired(w) /\ w.index = i) \/ w.settling
             x == [w EXCEPT !.forced = Desired(w), !.settling = settles]
  <1>1. Desired(w) \in BOOLEAN /\ settles \in BOOLEAN
    BY WireFields, Zenon DEF Desired
  <1>2. Applied(w, i) = x
    BY Zenon DEF Applied, Wire
  <1>3. /\ x.running = w.running /\ x.index = w.index /\ x.gen = w.gen
        /\ x.stopped = w.stopped /\ x.panicked = w.panicked /\ x.local = w.local
        /\ x.sess = w.sess /\ x.peer = w.peer /\ x.remote = w.remote /\ x.resolving = w.resolving
        /\ x.forced = Desired(w) /\ x.settling = settles
    BY Zenon DEF Wire
  <1>4. x \in Wire
    <2>. HIDE DEF settles
    <2>. QED
      BY <1>1, Zenon DEF Wire
  <1>. HIDE DEF x
  <1>5. Followed(x)
    BY <1>3, Zenon DEF Followed, Desired, RemoteUp
  <1>. QED
    BY <1>2, <1>3, <1>4, <1>5, Zenon

\* Applying the carrier is a handler, and ends one that changed what it follows.
LEMMA AppliedHandles ==
    ASSUME NEW w \in Wire, NEW v \in Wire, NEW i \in Nat, NEW o \in BOOLEAN,
           v.running = w.running, v.index = w.index, v.gen = w.gen, v.stopped = w.stopped,
           v.panicked = w.panicked, v.forced = w.forced, v.settling = w.settling,
           v.local = w.local \/ (w.index = i /\ ~w.forced /\ v.local = o /\ (o \/ ~w.settling))
    PROVE  Applied(v, i) \in Wire /\ Handles(w, Applied(v, i), i, o)
  <1>1. /\ Applied(v, i) \in Wire /\ Followed(Applied(v, i))
        /\ Applied(v, i).running = v.running /\ Applied(v, i).index = v.index /\ Applied(v, i).gen = v.gen
        /\ Applied(v, i).stopped = v.stopped /\ Applied(v, i).panicked = v.panicked
        /\ Applied(v, i).local = v.local
        /\ Applied(v, i).forced = Desired(v)
        /\ Applied(v, i).settling = ((v.forced /\ ~Desired(v) /\ v.index = i) \/ v.settling)
    BY AppliedFields, Zenon
  <1>. QED
    BY <1>1, Zenon DEF Handles
LEMMA ObservedHandles ==
    ASSUME NEW w \in Wire, NEW i \in Nat, NEW o \in BOOLEAN, Followed(w), w.index = i
    PROVE  LET x == Observed(w, o, i) IN
           x \in Wire /\ Handles(w, x, i, o) /\ x.sess = w.sess /\ x.peer = w.peer
  <1> DEFINE v == [w EXCEPT !.local = o]
  <1>1. CASE Observes(w, o)
    <2>1. /\ v \in Wire /\ v.local = o /\ v.running = w.running /\ v.index = w.index /\ v.gen = w.gen
          /\ v.stopped = w.stopped /\ v.panicked = w.panicked /\ v.forced = w.forced
          /\ v.settling = w.settling /\ v.sess = w.sess /\ v.peer = w.peer
      BY Zenon DEF Wire
    <2>2. Observed(w, o, i) = Applied(v, i)
      BY <1>1, Zenon DEF Observed
    <2>3. ~w.forced /\ (o \/ ~w.settling)
      BY <1>1, Zenon DEF Observes
    <2>. HIDE DEF v
    <2>4. Applied(v, i) \in Wire /\ Handles(w, Applied(v, i), i, o)
      BY <2>1, <2>3, AppliedHandles, Zenon
    <2>5. Applied(v, i).sess = w.sess /\ Applied(v, i).peer = w.peer
      BY <2>1, AppliedFields, Zenon
    <2>. QED
      BY <2>2, <2>4, <2>5, Zenon
  <1>2. CASE ~Observes(w, o)
    <2>1. Observed(w, o, i) = w
      BY <1>2, Zenon DEF Observed
    <2>. QED
      BY <2>1, Zenon DEF Handles
  <1>. QED
    BY <1>1, <1>2, Zenon

\* A session that goes down keeps its generation's number, and forgets it was known.
LEMMA ExpiredHandles ==
    ASSUME NEW w \in Wire, NEW i \in Nat, NEW o \in BOOLEAN, Followed(w)
    PROVE  LET x == Expired(w, i) IN
           x \in Wire /\ Handles(w, x, i, o) /\ x.local = w.local /\ SameSessions(w, x) /\ x.peer = w.peer
  <1> DEFINE table == [k \in Homes |-> IF k \in TimedOut(w)
                                      THEN [w.sess[k] EXCEPT !.up = FALSE, !.known = FALSE]
                                      ELSE w.sess[k]]
             v == [w EXCEPT !.sess = table]
  <1>1. ASSUME NEW k \in Homes
        PROVE  /\ table[k] \in Session /\ table[k].gen = w.sess[k].gen /\ table[k].exists = w.sess[k].exists
               /\ table[k].known => w.sess[k].known
               /\ k \notin TimedOut(w) => table[k] = w.sess[k]
    <2>1. w.sess[k] \in Session
      BY SessionFields, Zenon
    <2>. QED
      BY <2>1, Zenon DEF Session
  <1>2. table \in [Homes -> Session]
    BY <1>1, Zenon
  <1>. HIDE DEF table
  <1>3. /\ v \in Wire /\ v.local = w.local /\ v.running = w.running /\ v.index = w.index /\ v.gen = w.gen
        /\ v.stopped = w.stopped /\ v.panicked = w.panicked /\ v.forced = w.forced
        /\ v.settling = w.settling /\ v.sess = table /\ v.peer = w.peer /\ v.remote = w.remote
    BY <1>2, Zenon DEF Wire
  <1>4. Expired(w, i) = IF w.peer \in TimedOut(w) THEN Applied(v, i) ELSE v
    BY Zenon DEF Expired, table
  <1>. HIDE DEF v
  <1>5. SameSessions(w, v)
    BY <1>1, <1>3, Zenon DEF SameSessions
  <1>6. CASE w.peer \in TimedOut(w)
    <2>1. Applied(v, i) \in Wire /\ Handles(w, Applied(v, i), i, o)
      BY <1>3, AppliedHandles, Zenon
    <2>2. Applied(v, i).sess = v.sess /\ Applied(v, i).local = w.local /\ Applied(v, i).peer = w.peer
      BY <1>3, AppliedFields, Zenon
    <2>. QED
      BY <1>4, <1>5, <1>6, <2>1, <2>2, Zenon DEF SameSessions
  <1>7. CASE w.peer \notin TimedOut(w)
    <2>1. w.peer \in Homes => table[w.peer] = w.sess[w.peer]
      BY <1>1, <1>7, Zenon
    <2>2. RemoteUp(v) = RemoteUp(w)
      BY <1>3, <2>1, WireFields, Zenon DEF RemoteUp
    <2>3. Handles(w, v, i, o)
      BY <1>3, <2>2, Zenon DEF Handles, Followed, Desired
    <2>. QED
      BY <1>3, <1>4, <1>5, <1>7, <2>3, Zenon
  <1>. QED
    BY <1>6, <1>7, Zenon

LEMMA LookedUpHandles ==
    ASSUME NEW p \in Pods, NEW w \in Wire, NEW i \in Nat, NEW o \in BOOLEAN, Followed(w),
           dns \in [Pods -> {0} \cup Homes]
    PROVE  LET x == LookedUp(p, w) IN
           x \in Wire /\ Handles(w, x, i, o) /\ x.local = w.local /\ x.sess = w.sess /\ x.peer = w.peer
  <1> DEFINE v == [w EXCEPT !.resolving = dns[Other(p)]]
  <1>1. dns[Other(p)] \in {0} \cup Homes
    BY TwoEnds, Zenon
  <1>2. /\ v \in Wire /\ v.local = w.local /\ v.running = w.running /\ v.index = w.index /\ v.gen = w.gen
        /\ v.stopped = w.stopped /\ v.panicked = w.panicked /\ v.forced = w.forced
        /\ v.settling = w.settling /\ v.sess = w.sess /\ v.peer = w.peer /\ v.remote = w.remote
    BY <1>1, Zenon DEF Wire
  <1>3. LookedUp(p, w) \in {v, w}
    BY Zenon DEF LookedUp
  <1>. HIDE DEF v
  <1>4. Handles(w, v, i, o) /\ Handles(w, w, i, o)
    BY <1>2, Zenon DEF Handles, Followed, Desired, RemoteUp
  <1>. QED
    BY <1>2, <1>3, <1>4, Zenon
LEMMA RefreshedFields ==
    ASSUME NEW w \in Wire, NEW k \in Homes, NEW g \in 1..MaxGen
    PROVE  LET r == Refreshed(w, k, g) IN
           /\ r \in Wire /\ r.local = w.local /\ r.running = w.running /\ r.index = w.index /\ r.gen = w.gen
           /\ r.stopped = w.stopped /\ r.panicked = w.panicked /\ r.forced = w.forced
           /\ r.settling = w.settling /\ r.peer = w.peer /\ (w.peer # k => r.remote = w.remote)
           /\ \A j \in Homes \ {k} : r.sess[j] = w.sess[j]
           /\ r.sess[k].gen = g /\ r.sess[k].exists
  <1> DEFINE s == [known |-> TRUE, gen |-> g, up |-> TRUE, silent |-> FALSE, exists |-> TRUE]
             table == [w.sess EXCEPT ![k] = s]
             remote == w.remote /\ ~(w.sess[k].known /\ w.sess[k].gen # g /\ w.peer = k)
             r == [w EXCEPT !.sess = table, !.remote = remote]
  <1>1. s \in Session /\ s.gen = g /\ s.exists = TRUE
    BY DEF Session
  <1>2. table \in [Homes -> Session] /\ table[k] = s /\ \A j \in Homes \ {k} : table[j] = w.sess[j]
    <2>. HIDE DEF s
    <2>. QED
      BY <1>1, WireFields, Zenon DEF table
  <1>3. remote \in BOOLEAN /\ (w.peer # k => remote = w.remote)
    BY WireFields, Zenon
  <1>4. Refreshed(w, k, g) = r
    BY Zenon DEF Refreshed, Wire
  <1>. HIDE DEF s, table, remote
  <1>5. /\ r \in Wire /\ r.local = w.local /\ r.running = w.running /\ r.index = w.index /\ r.gen = w.gen
        /\ r.stopped = w.stopped /\ r.panicked = w.panicked /\ r.forced = w.forced
        /\ r.settling = w.settling /\ r.peer = w.peer /\ r.remote = remote /\ r.sess = table
    BY <1>2, <1>3, Zenon DEF Wire
  <1>. HIDE DEF r
  <1>. QED
    BY <1>1, <1>2, <1>3, <1>4, <1>5, Zenon

\* The only session a datagram changes is that of its sender's address, and it
\* gets the datagram's generation only if the datagram is not rejected.
LEMMA HandledHandles ==
    ASSUME NEW w \in Wire, NEW m \in Datagram, NEW i \in Nat, NEW o \in BOOLEAN, Followed(w), Known(w)
    PROVE  LET x == Handled(w, m, i) IN
           /\ x \in Wire /\ Handles(w, x, i, o) /\ x.local = w.local /\ Known(x)
           /\ \A k \in Homes : \/ x.sess[k].gen = w.sess[k].gen
                               \/ k = m.from /\ x.sess[k].gen = m.gen /\ ~Rejects(w, k, m.gen)
  <1> DEFINE k == m.from
             r == Refreshed(w, k, m.gen)
             v == IF m.kind = "state" /\ w.peer = k THEN [r EXCEPT !.remote = m.up] ELSE r
  <1>1. k \in Homes /\ m.gen \in 1..MaxGen /\ m.up \in BOOLEAN /\ m.gen # 0
    BY DEF Datagram
  <1>2. /\ r \in Wire /\ r.local = w.local /\ r.running = w.running /\ r.index = w.index /\ r.gen = w.gen
        /\ r.stopped = w.stopped /\ r.panicked = w.panicked /\ r.forced = w.forced
        /\ r.settling = w.settling /\ r.peer = w.peer /\ (w.peer # k => r.remote = w.remote)
        /\ \A j \in Homes \ {k} : r.sess[j] = w.sess[j]
        /\ r.sess[k].gen = m.gen /\ r.sess[k].exists
    BY <1>1, RefreshedFields, Zenon
  <1>. HIDE DEF r
  <1>3. /\ v \in Wire /\ v.local = w.local /\ v.running = w.running /\ v.index = w.index /\ v.gen = w.gen
        /\ v.stopped = w.stopped /\ v.panicked = w.panicked /\ v.forced = w.forced
        /\ v.settling = w.settling /\ v.peer = w.peer /\ (w.peer # k => v.remote = w.remote)
        /\ v.sess = r.sess
    <2>1. CASE m.kind = "state" /\ w.peer = k
      BY <1>1, <1>2, <2>1, Zenon DEF Wire
    <2>2. CASE ~(m.kind = "state" /\ w.peer = k)
      BY <1>2, <2>2, Zenon
    <2>. QED
      BY <2>1, <2>2, Zenon
  <1>4. Handled(w, m, i) = IF Rejects(w, k, m.gen) THEN w ELSE IF w.peer = k THEN Applied(v, i) ELSE v
    BY Zenon DEF Handled, r
  <1>. HIDE DEF v
  <1>5. Known(v)
    BY <1>1, <1>2, <1>3 DEF Known
  <1>6. CASE Rejects(w, k, m.gen)
    BY <1>4, <1>6, Zenon DEF Handles
  <1>7. CASE ~Rejects(w, k, m.gen) /\ w.peer = k
    <2>1. Applied(v, i) \in Wire /\ Handles(w, Applied(v, i), i, o)
      BY <1>3, AppliedHandles, Zenon
    <2>2. Applied(v, i).sess = v.sess /\ Applied(v, i).local = w.local
      BY <1>3, AppliedFields, Zenon
    <2>3. Known(Applied(v, i))
      BY <1>5, <2>2, Zenon DEF Known
    <2>. QED
      BY <1>2, <1>3, <1>4, <1>7, <2>1, <2>2, <2>3
  <1>8. CASE ~Rejects(w, k, m.gen) /\ w.peer # k
    <2>1. w.peer \in Homes => v.sess[w.peer] = w.sess[w.peer]
      BY <1>2, <1>3, <1>8
    <2>2. RemoteUp(v) = RemoteUp(w)
      BY <1>3, <1>8, <2>1, WireFields, Zenon DEF RemoteUp
    <2>3. Handles(w, v, i, o)
      BY <1>3, <2>2, Zenon DEF Handles, Followed, Desired
    <2>. QED
      BY <1>2, <1>3, <1>4, <1>5, <1>8, <2>3
  <1>. QED
    BY <1>6, <1>7, <1>8, Zenon

LEMMA AdoptedHandles ==
    ASSUME NEW w \in Wire, NEW i \in Nat, NEW o \in BOOLEAN, Followed(w)
    PROVE  LET x == Adopted(w, i) IN
           x \in Wire /\ Handles(w, x, i, o) /\ x.local = w.local /\ x.sess = w.sess
  <1> DEFINE done == [w EXCEPT !.resolving = 0]
             v == [done EXCEPT !.peer = w.resolving, !.remote = FALSE]
  <1>1. /\ done \in Wire /\ done.local = w.local /\ done.running = w.running /\ done.index = w.index
        /\ done.gen = w.gen /\ done.stopped = w.stopped /\ done.panicked = w.panicked
        /\ done.forced = w.forced /\ done.settling = w.settling /\ done.sess = w.sess
        /\ done.peer = w.peer /\ done.remote = w.remote
    BY Zenon DEF Wire
  <1>2. Adopted(w, i) = IF w.resolving = w.peer THEN done ELSE Applied(v, i)
    BY Zenon DEF Adopted
  <1>. HIDE DEF done
  <1>3. w.resolving \in {0} \cup Homes
    BY WireFields, Zenon
  <1>4. /\ v \in Wire /\ v.local = w.local /\ v.running = w.running /\ v.index = w.index
        /\ v.gen = w.gen /\ v.stopped = w.stopped /\ v.panicked = w.panicked
        /\ v.forced = w.forced /\ v.settling = w.settling /\ v.sess = w.sess
    BY <1>1, <1>3, Zenon DEF Wire
  <1>. HIDE DEF v
  <1>5. Handles(w, done, i, o)
    BY <1>1, Zenon DEF Handles, Followed, Desired, RemoteUp
  <1>6. Applied(v, i) \in Wire /\ Handles(w, Applied(v, i), i, o)
    BY <1>4, AppliedHandles, Zenon
  <1>7. Applied(v, i).sess = w.sess /\ Applied(v, i).local = w.local
    BY <1>4, AppliedFields, Zenon
  <1>. QED
    BY <1>1, <1>2, <1>5, <1>6, <1>7, Zenon

\* What a handler leaves is sound, the leg and the history following it.
LEMMA HandlesSoundly ==
    ASSUME NEW w \in Wire, NEW x \in Wire, NEW i \in Nat, NEW up \in BOOLEAN, NEW l \in BOOLEAN,
           NEW o \in BOOLEAN, NEW d \in BOOLEAN,
           w.running, Handles(w, x, i, o), Sound(w, i, up, l, o, d)
    PROVE  Sound(x, i, up, LegAfter(w, x, i, l), o, IF x.local /\ ~w.local THEN ~up ELSE d)
  <1> DEFINE l1 == LegAfter(w, x, i, l)
             d1 == IF x.local /\ ~w.local THEN ~up ELSE d
  <1>1. /\ x.running /\ x.index = w.index /\ x.gen = w.gen
        /\ x.local = w.local \/ (w.index = i /\ ~w.forced /\ x.local = o /\ (o \/ ~w.settling))
        /\ w.forced /\ ~x.forced /\ w.index = i => x.settling
        /\ w.settling => x.settling
        /\ x.stopped = w.stopped /\ x.panicked = w.panicked
    BY Zenon DEF Handles
  <1>2. /\ w.gen # 0 /\ w.index <= i /\ i # 0 /\ (w.panicked => w.stopped)
        /\ ~(w.forced /\ w.index = i) /\ o => l
        /\ w.index = i /\ ~w.forced /\ w.local => l
        /\ w.local /\ ~up => d
        /\ w.index = i /\ ~w.forced /\ w.local /\ ~w.settling => o \/ d
    BY NoWireFields, Zenon DEF Sound, Watches
  <1>3. /\ w.local \in BOOLEAN /\ w.forced \in BOOLEAN /\ w.settling \in BOOLEAN
        /\ x.local \in BOOLEAN /\ x.forced \in BOOLEAN /\ x.settling \in BOOLEAN
    BY WireFields, Zenon
  <1>4. l1 = IF w.forced = x.forced \/ w.index # i THEN l ELSE ~x.forced
    BY <1>1, <1>3, Zenon DEF LegAfter
  <1>. HIDE DEF l1
  <1>5. ~(x.forced /\ x.index = i) /\ o => l1
    BY <1>1, <1>2, <1>3, <1>4, Zenon
  <1>6. x.index = i /\ ~x.forced /\ x.local => l1
    BY <1>1, <1>2, <1>3, <1>4, Zenon
  <1>7. x.local /\ ~up => d1
    BY <1>1, <1>2, <1>3, Zenon
  <1>8. x.index = i /\ ~x.forced /\ x.local /\ ~x.settling => o \/ d1
    BY <1>1, <1>2, <1>3, Zenon
  <1>. HIDE DEF d1
  <1>9. Sound(x, i, up, l1, o, d1)
    BY <1>1, <1>2, <1>5, <1>6, <1>7, <1>8, Zenon DEF Sound, Watches
  <1>. QED
    BY <1>9, Zenon DEF l1, d1

-----------------------------------------------------------------------------
(* Steps of one end *)

\* The rest of TypeOK
RestTyped ==
    /\ home \in [Pods -> Homes] /\ dns \in [Pods -> {0} \cup Homes] /\ step \in [Pods -> Steps]
    /\ net \subseteq Datagram /\ nextGen \subseteq 1..MaxGen
    /\ world \in [kinds : SUBSET FaultKinds, left : Nat, inFlight : Nat, ports : SUBSET BOOLEAN]

EndTyped ==
    /\ device \in [Pods -> BOOLEAN] /\ leg \in [Pods -> BOOLEAN] /\ oper \in [Pods -> BOOLEAN]
    /\ index \in [Pods -> Nat] /\ wire \in [Pods -> Wire] /\ dipped \in [Pods -> BOOLEAN]

\* The step is one of p's end.
Only(p) ==
    \A q \in Pods \ {p} : /\ device'[q] = device[q] /\ leg'[q] = leg[q] /\ oper'[q] = oper[q]
                           /\ index'[q] = index[q] /\ wire'[q] = wire[q] /\ dipped'[q] = dipped[q]

\* NoEcho, of one end
Honest(p) ==
    wire[p].local /\ ~wire'[p].local /\ wire'[p].running /\ wire'[p].index = wire[p].index => dipped[p]

\* A session changes its generation when it was silent, or for a datagram that
\* is not rejected.
Kept(p, k) ==
    \/ wire'[p].sess[k].gen = wire[p].sess[k].gen
    \/ wire[p].sess[k].silent
    \/ \E m \in net : m.to[1] = p /\ wire'[p].sess[k].gen = m.gen /\ ~Rejects(wire[p], k, m.gen)

\* What every step brings about
Good ==
    /\ WireInv'
    /\ \A p \in Pods : Honest(p) /\ \A k \in Homes : wire'[p].running => Kept(p, k)

\* No process starts, and what is sent has the generation of a process.
Quiet ==
    /\ nextGen' = nextGen
    /\ \A p \in Pods : wire'[p].running => wire[p].running /\ wire'[p].gen = wire[p].gen
    /\ \A m \in net' \ net :
          \E p \in Pods : m.to[1] = Other(p) /\ wire[p].running /\ m.gen = wire[p].gen

LEMMA OneEnd ==
    ASSUME WireInv, NEW p \in Pods, RestTyped', EndTyped', Only(p), Honest(p),
           Followed(wire'[p]), Known(wire'[p]),
           Sound(wire'[p], index'[p], device'[p], leg'[p], oper'[p], dipped'[p]),
           \A k \in Homes : wire'[p].running => Kept(p, k)
    PROVE  Good
  <1>1. TypeOK'
    BY Zenon DEF TypeOK, RestTyped, EndTyped
  <1>2. ASSUME NEW q \in Pods
        PROVE  (Followed(wire[q]) /\ Known(wire[q]) /\ LegSound(q))'
    <2>1. CASE q = p
      BY <2>1, Zenon DEF LegSound
    <2>2. CASE q # p
      BY <2>2, Zenon DEF WireInv, LegSound, Only
    <2>. QED
      BY <2>1, <2>2, Zenon
  <1>3. ASSUME NEW q \in Pods, NEW k \in Homes
        PROVE  Honest(q) /\ (wire'[q].running => Kept(q, k))
    <2>1. CASE q # p
      BY <2>1, Zenon DEF Only, Honest, Kept
    <2>. QED
      BY <2>1, Zenon
  <1>4. \A q \in Pods : Honest(q)
    BY <1>3, HomesAreNumbers, Zenon
  <1>. QED
    BY <1>1, <1>2, <1>3, <1>4, Zenon DEF WireInv, Good

LEMMA End ==
    ASSUME WireInv, NEW p \in Pods
    PROVE  /\ wire[p] \in Wire /\ index[p] \in Nat /\ device[p] \in BOOLEAN /\ leg[p] \in BOOLEAN
           /\ oper[p] \in BOOLEAN /\ dipped[p] \in BOOLEAN /\ home[p] \in Homes
           /\ Followed(wire[p]) /\ Known(wire[p])
           /\ Sound(wire[p], index[p], device[p], leg[p], oper[p], dipped[p])
  BY Zenon DEF WireInv, TypeOK, LegSound

\* The wire of a process of generation g
Started(w, g) == [w EXCEPT !.running = TRUE, !.gen = g]

\* The first registration of a process, and one on a leg made anew, start from
\* what the leg shows.
LEMMA RegisteredSoundly ==
    ASSUME WireInv, NEW p \in Pods, NEW g \in 1..MaxGen, NEW a \in {0} \cup Homes,
           ~wire[p].stopped, leg[p] \/ wire[p].forced, wire[p].running => g = wire[p].gen,
           NEW x, x = Applied(Registered(p, Started(wire[p], g), a), index[p])
    PROVE  /\ x \in Wire /\ Followed(x) /\ x.sess = wire[p].sess /\ x.running /\ x.gen = g
           /\ x.index = wire[p].index => x.local = wire[p].local
           /\ Sound(x, index[p], device[p], LegAfter(wire[p], x, index[p], leg[p]), oper[p],
                    IF x.local /\ ~wire[p].local THEN ~device[p] ELSE dipped[p])
  <1> DEFINE w == wire[p]
             i == index[p]
             up == device[p]
             l == leg[p]
             o == oper[p]
             d == dipped[p]
             started == Started(w, g)
             moved == [started EXCEPT !.index = i, !.local = o, !.settling = TRUE,
                                      !.forced = FALSE, !.stopped = FALSE]
             fresh == IF started.index # i THEN moved ELSE started
             v == IF a = 0 THEN fresh ELSE [fresh EXCEPT !.peer = a]
  <1>a. /\ w \in Wire /\ i \in Nat /\ o \in BOOLEAN /\ up \in BOOLEAN /\ l \in BOOLEAN
        /\ d \in BOOLEAN /\ Sound(w, i, up, l, o, d)
    BY End, Zenon
  <1>b. (l \/ w.forced) /\ (w.running => g = w.gen) /\ ~w.stopped
    BY Zenon
  <1>0. g \in 0..MaxGen /\ g # 0
    OBVIOUS
  <1>1. /\ started \in Wire /\ started.running = TRUE /\ started.gen = g /\ started.index = w.index
        /\ started.local = w.local /\ started.forced = w.forced /\ started.settling = w.settling
        /\ started.stopped = w.stopped /\ started.panicked = w.panicked /\ started.sess = w.sess
    BY <1>0, <1>a, Zenon DEF Wire, Started
  <1>2. Registered(p, started, a) = v
    BY Zenon DEF Registered
  <1>c. x = Applied(v, i)
    BY <1>2, Zenon
  <1>. SUFFICES /\ x \in Wire /\ Followed(x) /\ x.sess = w.sess /\ x.running /\ x.gen = g
                /\ x.index = w.index => x.local = w.local
                /\ Sound(x, i, up, LegAfter(w, x, i, l), o, IF x.local /\ ~w.local THEN ~up ELSE d)
    BY Zenon
  <1>. HIDE DEF started, w, i, up, l, o, d
  <1>d. FALSE \in BOOLEAN /\ TRUE \in BOOLEAN
    BY Zenon
  <1>e. moved \in Wire
    BY <1>1, <1>a, <1>d, ZenonT(30) DEF Wire
  <1>f. /\ moved.running = started.running /\ moved.gen = started.gen /\ moved.index = i
        /\ moved.local = o /\ moved.forced = FALSE /\ moved.settling = TRUE /\ moved.sess = started.sess
        /\ moved.panicked = started.panicked
    BY <1>1, ZenonT(30) DEF Wire
  <1>3. /\ moved \in Wire /\ moved.running = TRUE /\ moved.gen = g /\ moved.index = i
        /\ moved.local = o /\ moved.forced = FALSE /\ moved.settling = TRUE /\ moved.sess = w.sess
        /\ moved.panicked = w.panicked
    BY <1>1, <1>e, <1>f, Zenon
  <1>. HIDE DEF moved
  <1>4. /\ fresh \in Wire /\ fresh.running = TRUE /\ fresh.gen = g /\ fresh.sess = w.sess
        /\ fresh.panicked = w.panicked
    BY <1>1, <1>3, Zenon
  <1>5. /\ v \in Wire /\ v.running = TRUE /\ v.gen = g /\ v.sess = w.sess
        /\ v.index = fresh.index /\ v.local = fresh.local /\ v.forced = fresh.forced
        /\ v.settling = fresh.settling /\ v.stopped = fresh.stopped /\ v.panicked = fresh.panicked
    <2>. HIDE DEF fresh
    <2>. QED
      BY <1>4, Zenon DEF Wire
  <1>. HIDE DEF v
  <1>6. /\ x \in Wire /\ Followed(x)
        /\ x.running = TRUE /\ x.index = v.index /\ x.gen = g /\ x.local = v.local /\ x.sess = w.sess
        /\ x.forced = Desired(v) /\ x.settling = ((v.forced /\ ~Desired(v) /\ v.index = i) \/ v.settling)
        /\ x.panicked = w.panicked
    <2>1. v \in Wire /\ i \in Nat
      BY <1>5, <1>a, Zenon
    <2>2. /\ x \in Wire /\ Followed(x)
          /\ x.running = v.running /\ x.index = v.index /\ x.gen = v.gen /\ x.local = v.local
          /\ x.sess = v.sess /\ x.panicked = v.panicked /\ x.forced = Desired(v)
          /\ x.settling = ((v.forced /\ ~Desired(v) /\ v.index = i) \/ v.settling)
      BY <1>c, <2>1, AppliedFields
    <2>. QED
      BY <1>4, <1>5, <2>2, Zenon
  <1>. SUFFICES /\ x.index = w.index => x.local = w.local
                /\ Sound(x, i, up, LegAfter(w, x, i, l), o, IF x.local /\ ~w.local THEN ~up ELSE d)
    BY <1>6, Zenon
  <1>7. CASE w.index # i
    <2> DEFINE l1 == LegAfter(w, x, i, l)
               d1 == IF x.local /\ ~w.local THEN ~up ELSE d
    <2>1. /\ x.index = i /\ x.local = o /\ x.settling = TRUE /\ x.forced \in BOOLEAN
          /\ x.running = TRUE /\ x.gen = g
      BY <1>1, <1>3, <1>5, <1>6, <1>7, <1>a, WireFields, Zenon
    <2>2. /\ i # 0 /\ (w.local /\ ~up => d) /\ (w.forced /\ o => l) /\ ~w.panicked
      BY <1>7, <1>a, <1>b, NoWireFields, Zenon DEF Sound
    <2>3. l1 = IF x.forced THEN FALSE ELSE l
      BY <1>7, <1>a, <2>1, Zenon DEF LegAfter
    <2>4. (o /\ ~x.forced => l1) /\ (x.local /\ ~up => d1)
      BY <1>a, <1>b, <2>1, <2>2, <2>3, WireFields, Zenon
    <2>. HIDE DEF l1, d1
    <2>5. Sound(x, i, up, l1, o, d1)
      BY <1>0, <1>6, <1>a, <2>1, <2>2, <2>4 DEF Sound, Watches
    <2>. QED
      BY <1>7, <2>1, <2>5, Zenon DEF l1, d1
  <1>8. CASE w.index = i
    <2>1. w.running
      BY <1>8, <1>a, NoWireFields, Zenon DEF Sound
    <2>2. /\ v.running = w.running /\ v.index = w.index /\ v.gen = w.gen /\ v.stopped = w.stopped
          /\ v.panicked = w.panicked /\ v.forced = w.forced /\ v.settling = w.settling /\ v.local = w.local
      BY <1>1, <1>5, <1>8, <1>b, <2>1, WireFields, Zenon
    <2>3. Handles(w, x, i, o)
      BY <1>5, <1>a, <1>c, <2>2, AppliedHandles, Zenon
    <2>4. Sound(x, i, up, LegAfter(w, x, i, l), o, IF x.local /\ ~w.local THEN ~up ELSE d)
      BY <1>6, <1>a, <2>1, <2>3, HandlesSoundly
    <2>. QED
      BY <1>6, <2>2, <2>4, Zenon
  <1>. QED
    BY <1>7, <1>8, Zenon

LEMMA TurnsKeeps ==
    ASSUME WireInv, NEW p \in Pods, NEW x \in Wire, Turns(p, x), UNCHANGED <<device, oper, index>>,
           RestTyped', Followed(x), Known(x),
           Sound(x, index[p], device[p], LegAfter(wire[p], x, index[p], leg[p]), oper[p],
                 IF x.local /\ ~wire[p].local THEN ~device[p] ELSE dipped[p]),
           wire[p].local /\ ~x.local /\ x.index = wire[p].index => dipped[p],
           \A k \in Homes : \/ x.sess[k].gen = wire[p].sess[k].gen
                            \/ \E m \in net : /\ m.to[1] = p /\ x.sess[k].gen = m.gen
                                              /\ ~Rejects(wire[p], k, m.gen)
    PROVE  Good
  <1> DEFINE l == LegAfter(wire[p], x, index[p], leg[p])
             d == IF x.local /\ ~wire[p].local THEN ~device[p] ELSE dipped[p]
  <1>1. EndTyped
    BY Zenon DEF WireInv, TypeOK, EndTyped
  <1>2. l \in BOOLEAN /\ d \in BOOLEAN
    BY End, WireFields, Zenon DEF LegAfter
  <1>3. /\ wire' = [wire EXCEPT ![p] = x] /\ leg' = [leg EXCEPT ![p] = l] /\ dipped' = [dipped EXCEPT ![p] = d]
    BY <1>1, Zenon DEF Turns, Redip, EndTyped
  <1>. HIDE DEF l, d
  <1>4. EndTyped'
    BY <1>1, <1>2, <1>3, Zenon DEF EndTyped
  <1>5. /\ wire'[p] = x /\ leg'[p] = l /\ dipped'[p] = d
        /\ \A q \in Pods \ {p} : wire'[q] = wire[q] /\ leg'[q] = leg[q] /\ dipped'[q] = dipped[q]
    BY <1>1, <1>3, Zenon DEF EndTyped
  <1>6. Sound(x, index[p], device[p], l, oper[p], d)
    BY Zenon DEF l, d
  <1>7. Honest(p) /\ Only(p) /\ \A k \in Homes : Kept(p, k)
    BY <1>5, Zenon DEF Honest, Only, Kept
  <1>. QED
    BY <1>4, <1>5, <1>6, <1>7, OneEnd, Zenon

-----------------------------------------------------------------------------
(* The wire's threads *)

\* What is sent goes to the other Pod, and has the generation of the process.
Sending(p) ==
    /\ net' \subseteq Datagram
    /\ \A m \in net' \ net : m.to[1] = Other(p) /\ m.gen = wire[p].gen

LEMMA SentBounds ==
    ASSUME NEW p \in Pods, NEW ms, NEW n \in Sent(p, ms)
    PROVE  n \subseteq net \cup ms
  BY Zenon DEF Sent, Routed

LEMMA SendsOwn ==
    ASSUME WireInv, NEW p \in Pods, NEW w \in Wire, w.gen = wire[p].gen, wire[p].running
    PROVE  /\ \A m \in Advertises(p, w) : m \in Datagram /\ m.to[1] = Other(p) /\ m.gen = wire[p].gen
           /\ w.peer # 0 => \A m \in {Heartbeat(p, w), LinkState(p, w)} :
                               m \in Datagram /\ m.to[1] = Other(p) /\ m.gen = wire[p].gen
  <1>1. /\ home[p] \in Homes /\ Other(p) \in Pods /\ w.local \in BOOLEAN
        /\ w.peer # 0 => w.peer \in Homes
    BY End, TwoEnds, WireFields, Zenon
  <1>2. w.gen \in 1..MaxGen
    <2>1. wire[p].gen # 0 /\ w.gen \in 0..MaxGen
      BY End, NoWireFields, WireFields, Zenon DEF Sound
    <2>. QED
      BY <2>1, BoundsAssumption
  <1>3. ASSUME w.peer # 0
        PROVE  /\ Heartbeat(p, w) \in Datagram /\ Heartbeat(p, w).to[1] = Other(p)
               /\ Heartbeat(p, w).gen = wire[p].gen
    BY <1>1, <1>2, <1>3, Zenon DEF Heartbeat, Datagram
  <1>4. ASSUME w.peer # 0
        PROVE  /\ LinkState(p, w) \in Datagram /\ LinkState(p, w).to[1] = Other(p)
               /\ LinkState(p, w).gen = wire[p].gen
    BY <1>1, <1>2, <1>4, Zenon DEF LinkState, Datagram
  <1>. QED
    BY <1>3, <1>4, Zenon DEF Advertises

LEMMA BecomesSends ==
    ASSUME WireInv, NEW p \in Pods, NEW x, NEW ms, Becomes(p, x, ms),
           \A m \in ms : m \in Datagram /\ m.to[1] = Other(p) /\ m.gen = wire[p].gen
    PROVE  Turns(p, x) /\ Sending(p)
  <1>1. net \subseteq Datagram
    BY Zenon DEF WireInv, TypeOK
  <1>2. net' \subseteq net \cup ms /\ Turns(p, x)
    BY SentBounds, Zenon DEF Becomes
  <1>. QED
    BY <1>1, <1>2, Zenon DEF Sending

\* A thread of the wire that leaves the sessions' generations alone.
Steady(p, x) ==
    /\ x \in Wire /\ wire[p].running /\ Turns(p, x) /\ Handles(wire[p], x, index[p], oper[p])
    /\ SameSessions(wire[p], x) /\ Sending(p)
    /\ UNCHANGED <<device, oper, index, home, dns, step, nextGen, world>>

LEMMA TickSteady ==
    ASSUME WireInv, NEW p \in Pods, Tick(p)
    PROVE  \E x : Steady(p, x)
  <1> DEFINE w == wire[p]
             i == index[p]
             o == oper[p]
             s == Sampled(p)
             e == Expired(s, i)
             x == LookedUp(p, e)
  <1>0. /\ w \in Wire /\ i \in Nat /\ o \in BOOLEAN /\ Followed(w) /\ w.running
        /\ dns \in [Pods -> {0} \cup Homes]
    BY End, Zenon DEF Tick, WireInv, TypeOK
  <1>. USE <1>0
  <1>1. s \in Wire /\ Handles(w, s, i, o) /\ s.sess = w.sess
    <2>1. CASE w.index = i
      <3>1. s = Observed(w, o, i)
        BY <2>1, Zenon DEF Sampled
      <3>. HIDE DEF s, w, i, o
      <3>. QED
        BY <2>1, <3>1, ObservedHandles, Zenon
    <2>2. CASE w.index # i
      <3>1. s = w
        BY <2>2, Zenon DEF Sampled
      <3>. HIDE DEF s, w, i, o
      <3>. QED
        BY <3>1, Zenon DEF Handles
    <2>. QED
      BY <2>1, <2>2, Zenon
  <1>2. Becomes(p, x, (IF s.local # w.local THEN Advertises(p, s) ELSE {})
                         \cup (IF x.peer = 0 THEN {} ELSE {Heartbeat(p, x), LinkState(p, x)}))
        /\ UNCHANGED <<device, oper, index, home, dns, step, nextGen, world>>
    BY Zenon DEF Tick
  <1>. HIDE DEF s, x
  <1>3. /\ e \in Wire /\ Handles(s, e, i, o) /\ e.local = s.local /\ SameSessions(s, e)
    <2>. HIDE DEF i, o
    <2>1. Followed(s)
      BY <1>1, Zenon DEF Handles
    <2>. QED
      BY <1>1, <2>1, ExpiredHandles, Zenon
  <1>. HIDE DEF e
  <1>4. x \in Wire /\ Handles(e, x, i, o) /\ x.local = e.local /\ x.sess = e.sess
    <2>. HIDE DEF i, o
    <2>1. Followed(e)
      BY <1>3, Zenon DEF Handles
    <2>. QED
      BY <1>3, <2>1, LookedUpHandles, Zenon DEF x
  <1>5. Handles(w, x, i, o) /\ SameSessions(w, x)
    <2>. HIDE DEF i, o, w
    <2>1. Handles(w, e, i, o)
      BY <1>1, <1>3, HandlesTwice
    <2>2. Handles(w, x, i, o)
      BY <1>3, <1>4, <2>1, HandlesTwice
    <2>. QED
      BY <1>1, <1>3, <1>4, <2>2, Zenon DEF SameSessions
  <1>6. Turns(p, x) /\ Sending(p)
    <2>1. s.gen = w.gen /\ x.gen = w.gen
      BY <1>1, <1>5, Zenon DEF Handles
    <2>2. /\ \A m \in Advertises(p, s) : m \in Datagram /\ m.to[1] = Other(p) /\ m.gen = wire[p].gen
          /\ x.peer # 0 => \A m \in {Heartbeat(p, x), LinkState(p, x)} :
                              m \in Datagram /\ m.to[1] = Other(p) /\ m.gen = wire[p].gen
      BY <1>1, <1>4, <2>1, SendsOwn, Zenon
    <2>. QED
      BY <1>2, <2>2, BecomesSends
  <1>. QED
    BY <1>2, <1>4, <1>5, <1>6, Zenon DEF Steady

LEMMA WatchSteady ==
    ASSUME WireInv, NEW p \in Pods, WatchEvent(p)
    PROVE  \E x : Steady(p, x)
  <1> DEFINE x == Observed(wire[p], oper[p], index[p])
  <1>0. /\ wire[p] \in Wire /\ index[p] \in Nat /\ oper[p] \in BOOLEAN /\ Followed(wire[p])
        /\ wire[p].running /\ wire[p].index = index[p]
    BY End, Zenon DEF WatchEvent
  <1>1. x \in Wire /\ Handles(wire[p], x, index[p], oper[p]) /\ x.sess = wire[p].sess
    BY <1>0, ObservedHandles, Zenon
  <1>2. /\ Becomes(p, x, Advertises(p, x))
        /\ UNCHANGED <<device, oper, index, home, dns, step, nextGen, world>>
    BY Zenon DEF WatchEvent
  <1>. HIDE DEF x
  <1>3. x.gen = wire[p].gen
    BY <1>1, Zenon DEF Handles
  <1>4. Turns(p, x) /\ Sending(p)
    BY <1>0, <1>1, <1>2, <1>3, SendsOwn, BecomesSends, Zenon
  <1>. QED
    BY <1>0, <1>1, <1>2, <1>4, Zenon DEF Steady, SameSessions

LEMMA AdoptSteady ==
    ASSUME WireInv, NEW p \in Pods, AdoptPeerAddress(p)
    PROVE  \E x : Steady(p, x)
  <1> DEFINE x == Adopted(wire[p], index[p])
  <1>0. /\ wire[p] \in Wire /\ index[p] \in Nat /\ oper[p] \in BOOLEAN /\ Followed(wire[p])
        /\ wire[p].running
    BY End, Zenon DEF AdoptPeerAddress
  <1>1. x \in Wire /\ Handles(wire[p], x, index[p], oper[p]) /\ x.sess = wire[p].sess
    BY <1>0, AdoptedHandles, Zenon
  <1>2. /\ Becomes(p, x, {})
        /\ UNCHANGED <<device, oper, index, home, dns, step, nextGen, world>>
    BY Zenon DEF AdoptPeerAddress
  <1>. HIDE DEF x
  <1>3. Turns(p, x) /\ Sending(p)
    BY <1>2, BecomesSends
  <1>. QED
    BY <1>0, <1>1, <1>2, <1>3, Zenon DEF Steady, SameSessions

LEMMA SteadyGood ==
    ASSUME WireInv, NEW p \in Pods, NEW x, Steady(p, x)
    PROVE  Good /\ Quiet
  <1>1. /\ x \in Wire /\ wire[p].running /\ Turns(p, x) /\ Handles(wire[p], x, index[p], oper[p])
        /\ SameSessions(wire[p], x) /\ UNCHANGED <<device, oper, index>>
    BY Zenon DEF Steady
  <1>2. RestTyped'
    BY Zenon DEF Steady, Sending, WireInv, TypeOK, RestTyped
  <1>3. Followed(x) /\ Known(x)
    BY <1>1, End DEF Handles, SameSessions, Known
  <1>4. Sound(x, index[p], device[p], LegAfter(wire[p], x, index[p], leg[p]), oper[p],
              IF x.local /\ ~wire[p].local THEN ~device[p] ELSE dipped[p])
    BY <1>1, End, HandlesSoundly
  <1>5. wire[p].local /\ ~x.local => dipped[p]
    BY <1>1, End, WireFields, Zenon DEF Handles, Sound, Watches
  <1>6. Good
    BY <1>1, <1>2, <1>3, <1>4, <1>5, TurnsKeeps, Zenon DEF SameSessions
  <1>7. wire'[p] = x /\ Only(p)
    BY <1>1, Zenon DEF WireInv, TypeOK, Turns, Redip, Only
  <1>8. Quiet
    BY <1>1, <1>7, Zenon DEF Quiet, Only, Handles, Steady, Sending
  <1>. QED
    BY <1>6, <1>8, Zenon

LEMMA ReceiveGood ==
    ASSUME WireInv, NEW p \in Pods, NEW m \in net, NEW n \in SUBSET net, Receive(p, m, n),
           world' \in [kinds : SUBSET FaultKinds, left : Nat, inFlight : Nat, ports : SUBSET BOOLEAN]
    PROVE  Good /\ Quiet
  <1> DEFINE x == Handled(wire[p], m, index[p])
  <1>0. m \in Datagram /\ m.to[1] = p /\ wire[p].running
    BY DEF WireInv, TypeOK, Receive
  <1>1. /\ x \in Wire /\ Handles(wire[p], x, index[p], oper[p]) /\ x.local = wire[p].local /\ Known(x)
        /\ \A k \in Homes : \/ x.sess[k].gen = wire[p].sess[k].gen
                            \/ x.sess[k].gen = m.gen /\ ~Rejects(wire[p], k, m.gen)
    BY <1>0, End, HandledHandles
  <1>2. Turns(p, x) /\ net' = n /\ UNCHANGED <<device, oper, index, home, dns, step, nextGen>>
    BY Zenon DEF Receive
  <1>. HIDE DEF x
  <1>3. RestTyped'
    BY <1>2, Zenon DEF WireInv, TypeOK, RestTyped
  <1>4. Followed(x) /\ x.running = wire[p].running /\ x.gen = wire[p].gen
    BY <1>1, Zenon DEF Handles
  <1>5. Sound(x, index[p], device[p], LegAfter(wire[p], x, index[p], leg[p]), oper[p],
              IF x.local /\ ~wire[p].local THEN ~device[p] ELSE dipped[p])
    BY <1>0, <1>1, End, HandlesSoundly
  <1>6. Good
    BY <1>0, <1>1, <1>2, <1>3, <1>4, <1>5, TurnsKeeps, Zenon
  <1>7. wire'[p] = x /\ Only(p)
    BY <1>2, Zenon DEF WireInv, TypeOK, Turns, Redip, Only
  <1>8. Quiet
    BY <1>0, <1>2, <1>4, <1>7, Zenon DEF Quiet, Only
  <1>. QED
    BY <1>6, <1>8, Zenon

\* A pass, which starts a process where none runs.
Begins(p) ==
    /\ \E g \in IF wire[p].running THEN {wire[p].gen} ELSE NewGenerations :
          nextGen' = nextGen \cup {g} /\ wire'[p].gen = g
    /\ Only(p) /\ net' \subseteq net

LEMMA EnsureGood ==
    ASSUME WireInv, NEW p \in Pods, EnsureLink(p)
    PROVE  Good /\ Begins(p)
  <1> DEFINE w == wire[p]
             i == index[p]
             a == dns[Other(p)]
  <1>0. /\ w \in Wire /\ i \in Nat /\ oper[p] \in BOOLEAN /\ device[p] \in BOOLEAN /\ leg[p] \in BOOLEAN
        /\ dipped[p] \in BOOLEAN /\ Sound(w, i, device[p], leg[p], oper[p], dipped[p])
        /\ Known(w) /\ Followed(w)
    BY End, Zenon
  <1>1. a \in {0} \cup Homes
    BY TwoEnds, Zenon DEF WireInv, TypeOK
  <1>2. PICK g \in IF w.running THEN {w.gen} ELSE NewGenerations :
           /\ nextGen' = nextGen \cup {g}
           /\ \E v \in {Registered(p, [w EXCEPT !.running = TRUE, !.gen = g], a)} :
                 Becomes(p, IF w.stopped THEN [w EXCEPT !.panicked = TRUE] ELSE Applied(v, i), {})
    BY Zenon DEF EnsureLink
  <1>3. g \in 1..MaxGen /\ (w.running => g = w.gen)
    <2>1. w.running => w.gen # 0 /\ w.gen \in 0..MaxGen
      BY <1>0, NoWireFields, WireFields, Zenon DEF Sound
    <2>. QED
      BY <1>2, <2>1, BoundsAssumption DEF NewGenerations
  <1>4. (leg[p] \/ w.forced) /\ UNCHANGED <<device, oper, index, home, dns, step, world>>
    BY Zenon DEF EnsureLink, PairEnsured
  <1> DEFINE r == Applied(Registered(p, [w EXCEPT !.running = TRUE, !.gen = g], a), i)
             f == [w EXCEPT !.panicked = TRUE]
             x == IF w.stopped THEN f ELSE r
  <1>5. Becomes(p, x, {})
    BY <1>2, Zenon
  <1>6. Turns(p, x) /\ Sending(p) /\ net' \subseteq net
    <2>. HIDE DEF x
    <2>. QED
      BY <1>5, BecomesSends, SentBounds DEF Becomes
  <1>7. RestTyped'
    BY <1>2, <1>3, <1>4, <1>6, Zenon DEF Sending, WireInv, TypeOK, RestTyped
  <1>8. CASE ~w.stopped
    <2>0. r = Applied(Registered(p, Started(w, g), a), i)
      BY Zenon DEF Started
    <2>2. Turns(p, r)
      BY <1>6, <1>8, Zenon
    <2>. HIDE DEF r, a
    <2>1. /\ r \in Wire /\ Followed(r) /\ r.sess = w.sess /\ (r.index = w.index => r.local = w.local)
          /\ r.gen = g
          /\ Sound(r, i, device[p], LegAfter(w, r, i, leg[p]), oper[p],
                   IF r.local /\ ~w.local THEN ~device[p] ELSE dipped[p])
      BY <1>1, <1>3, <1>4, <1>8, <2>0, RegisteredSoundly
    <2>3. Known(r)
      BY <1>0, <2>1, Zenon DEF Known
    <2>4. wire'[p].gen = g /\ Only(p)
      BY <1>4, <2>1, <2>2, Zenon DEF WireInv, TypeOK, Turns, Redip, Only
    <2>5. Begins(p)
      BY <1>2, <1>6, <2>4, Zenon DEF Begins
    <2>. QED
      BY <1>4, <1>7, <2>1, <2>2, <2>3, <2>5, TurnsKeeps, Zenon
  <1>9. CASE w.stopped
    <2>1. w.running
      BY <1>0, <1>9, NoWireFields, Zenon DEF Sound
    <2>2. /\ f \in Wire /\ f.running = w.running /\ f.index = w.index /\ f.gen = w.gen /\ f.local = w.local
          /\ f.forced = w.forced /\ f.settling = w.settling /\ f.sess = w.sess /\ f.panicked = TRUE
          /\ f.stopped = w.stopped
      BY <1>0, Zenon DEF Wire
    <2>3. Turns(p, f)
      BY <1>6, <1>9, Zenon
    <2>. HIDE DEF f
    <2>4. Followed(f) /\ Known(f)
      BY <1>0, <2>2, Zenon DEF Followed, Known
    <2>5. LegAfter(w, f, i, leg[p]) = leg[p]
      BY <1>0, <2>2, WireFields, Zenon DEF LegAfter
    <2>6. Sound(f, i, device[p], leg[p], oper[p], dipped[p])
      BY <1>0, <1>9, <2>1, <2>2, NoWireFields, Zenon DEF Sound, Watches
    <2>7. wire'[p].gen = g /\ Only(p)
      BY <1>3, <1>4, <2>1, <2>2, <2>3, Zenon DEF WireInv, TypeOK, Turns, Redip, Only
    <2>8. Begins(p)
      BY <1>2, <1>6, <2>7, Zenon DEF Begins
    <2>. QED
      BY <1>4, <1>7, <2>2, <2>3, <2>4, <2>5, <2>6, <2>8, TurnsKeeps, Zenon
  <1>. QED
    BY <1>8, <1>9, Zenon
-----------------------------------------------------------------------------
(* The other steps *)

Bounded == [kinds : SUBSET FaultKinds, left : Nat, inFlight : Nat, ports : SUBSET BOOLEAN]

LEMMA FaultBounded ==
    ASSUME WireInv, NEW kind, Fault(kind)
    PROVE  world' \in Bounded
  <1>1. world \in Bounded /\ world.left > 0 /\ world' = [world EXCEPT !.left = @ - 1]
    BY Zenon DEF WireInv, TypeOK, Fault, Bounded
  <1>2. world.left - 1 \in Nat
    BY <1>1 DEF Bounded
  <1>. QED
    BY <1>1, <1>2, Zenon DEF Bounded

\* A step that only touches the wire of p
LEMMA WireOnly ==
    ASSUME WireInv, NEW p \in Pods, NEW x \in Wire, wire' = [wire EXCEPT ![p] = x],
           UNCHANGED <<device, leg, oper, index, home, dns, step, net, nextGen, dipped>>,
           world' \in Bounded, Followed(x), Known(x),
           Sound(x, index[p], device[p], leg[p], oper[p], dipped[p]),
           x.local = wire[p].local, x.running = wire[p].running, x.gen = wire[p].gen,
           \A k \in Homes : x.sess[k].gen = wire[p].sess[k].gen \/ wire[p].sess[k].silent
    PROVE  Good /\ Quiet
  <1>1. RestTyped' /\ EndTyped'
    BY Zenon DEF WireInv, TypeOK, RestTyped, EndTyped, Bounded
  <1>2. wire'[p] = x /\ Only(p)
    BY Zenon DEF WireInv, TypeOK, Only
  <1>3. Honest(p) /\ \A k \in Homes : Kept(p, k)
    BY <1>2, Zenon DEF Honest, Kept
  <1>4. Good
    BY <1>1, <1>2, <1>3, OneEnd, Zenon
  <1>5. Quiet
    BY <1>2, Zenon DEF Quiet, Only
  <1>. QED
    BY <1>4, <1>5, Zenon

\* A step that leaves the wires alone
LEMMA WireKept ==
    ASSUME WireInv, NEW p \in Pods, UNCHANGED <<wire, nextGen>>, net' \subseteq net, RestTyped', EndTyped', Only(p),
           Sound(wire[p], index'[p], device'[p], leg'[p], oper'[p], dipped'[p])
    PROVE  Good /\ Quiet
  <1>1. Honest(p) /\ \A k \in Homes : Kept(p, k)
    BY Zenon DEF Honest, Kept
  <1>2. Followed(wire'[p]) /\ Known(wire'[p])
    BY End, Zenon
  <1>3. Good
    BY <1>1, <1>2, OneEnd, Zenon
  <1>4. Quiet
    BY Zenon DEF Quiet
  <1>. QED
    BY <1>3, <1>4, Zenon

\* A process dies, and its Pod may be replaced.
LEMMA WireGone ==
    ASSUME WireInv, NEW p \in Pods, wire' = [wire EXCEPT ![p] = NoWire], UNCHANGED <<index, nextGen>>,
           net' \subseteq net, RestTyped', EndTyped', Only(p)
    PROVE  Good /\ Quiet
  <1>1. wire'[p] = NoWire
    BY Zenon DEF WireInv, TypeOK
  <1>2. Honest(p) /\ ~wire'[p].running
    BY <1>1, NoWireFields, Zenon DEF Honest
  <1>3. index[p] \in Nat /\ index[p] # 0
    BY End, Zenon DEF Sound
  <1>4. Sound(wire'[p], index'[p], device'[p], leg'[p], oper'[p], dipped'[p])
    BY <1>1, <1>3, NoWireFields DEF Sound, Watches
  <1>5. Good
    BY <1>1, <1>2, <1>4, NoWireFields, OneEnd, Zenon
  <1>6. Quiet
    BY <1>2, Zenon DEF Quiet, Only
  <1>. QED
    BY <1>5, <1>6, Zenon
\* x differs from w in what Sound does not look at, or in that the leg has settled.
Alike(w, x, up, l, o) ==
    /\ w.running /\ x.running = w.running /\ x.gen = w.gen /\ x.index = w.index
    /\ x.local = w.local /\ x.forced = w.forced
    /\ x.panicked => x.stopped
    /\ x.settling = w.settling \/ o = (up /\ l)

LEMMA SoundAlike ==
    ASSUME NEW w \in Wire, NEW x \in Wire, NEW i \in Nat, NEW up \in BOOLEAN, NEW l \in BOOLEAN,
           NEW o \in BOOLEAN, NEW d \in BOOLEAN, Sound(w, i, up, l, o, d),
           Alike(w, x, up, l, o)
    PROVE  Sound(x, i, up, l, o, d)
  <1>1. /\ w.gen # 0 /\ w.index <= i /\ i # 0
        /\ ~(w.forced /\ w.index = i) /\ o => l
        /\ w.index = i /\ ~w.forced /\ w.local => l
        /\ w.local /\ ~up => d
        /\ w.index = i /\ ~w.forced /\ w.local /\ ~w.settling => o \/ d
    BY NoWireFields, Zenon DEF Sound, Watches, Alike
  <1>2. x.index = i /\ ~x.forced /\ x.local /\ ~x.settling => o \/ d
    BY <1>1, WireFields, Zenon DEF Alike
  <1>. QED
    BY <1>1, <1>2, Zenon DEF Sound, Watches, Alike

LEMMA Silenced ==
    ASSUME NEW s \in Session, NEW t, t = [s EXCEPT !.silent = TRUE]
    PROVE  t \in Session /\ t.known = s.known /\ t.exists = s.exists /\ t.up = s.up /\ t.gen = s.gen
  BY Zenon DEF Session

LEMMA NoSessionFields == \A k \in Homes : ~NoWire.sess[k].exists
  BY Zenon DEF NoWire, NoSession

LEMMA PassGood ==
    ASSUME WireInv, NEW p \in Pods, PairRead(p) \/ PairReadHeld(p) \/ PairCheck(p) \/ PairRaise(p)
    PROVE  Good /\ Quiet
  <1>1. step' \in [Pods -> Steps] /\ world' \in Bounded
    BY FaultBounded, Zenon DEF WireInv, TypeOK, Steps, PairRead, PairReadHeld, PairCheck, PairRaise, Bounded
  <1>2. UNCHANGED <<device, oper, index, home, dns, wire, net, nextGen, dipped>>
    BY Zenon DEF PairRead, PairReadHeld, PairCheck, PairRaise
  <1>3. leg' = leg \/ leg' = [leg EXCEPT ![p] = TRUE]
    BY Zenon DEF PairRead, PairReadHeld, PairCheck, PairRaise
  <1>4. RestTyped' /\ EndTyped' /\ Only(p) /\ (leg'[p] = leg[p] \/ leg'[p] = TRUE)
    BY <1>1, <1>2, <1>3, Zenon DEF WireInv, TypeOK, RestTyped, EndTyped, Only, Bounded
  <1>5. Sound(wire[p], index'[p], device'[p], leg'[p], oper'[p], dipped'[p])
    BY <1>2, <1>4, End, Zenon DEF Sound
  <1>. QED
    BY <1>2, <1>4, <1>5, WireKept, Zenon

LEMMA OpenFailsGood ==
    ASSUME WireInv, NEW p \in Pods, OpenFails(p)
    PROVE  Good /\ Quiet
  <1> DEFINE w == wire[p]
             x == [w EXCEPT !.panicked = w.stopped, !.stopped = TRUE]
  <1>1. /\ w \in Wire /\ w.running /\ Followed(w) /\ Known(w)
        /\ Sound(w, index[p], device[p], leg[p], oper[p], dipped[p])
    BY End, Zenon DEF OpenFails
  <1>2. /\ world' \in Bounded /\ wire' = [wire EXCEPT ![p] = x]
        /\ UNCHANGED <<device, leg, oper, index, home, dns, step, net, nextGen, dipped>>
    BY FaultBounded, Zenon DEF OpenFails
  <1>3. /\ x \in Wire /\ x.running = w.running /\ x.gen = w.gen /\ x.index = w.index /\ x.local = w.local
        /\ x.forced = w.forced /\ x.remote = w.remote /\ x.peer = w.peer /\ x.settling = w.settling
        /\ x.sess = w.sess /\ x.panicked = w.stopped /\ x.stopped = TRUE
    BY <1>1, Zenon DEF Wire
  <1>n. w.running
    BY <1>1, Zenon DEF OpenFails
  <1>. HIDE DEF x
  <1>4. Followed(x) /\ Known(x)
    BY <1>1, <1>3, Zenon DEF Followed, Known, Desired, RemoteUp, Sound
  <1>p. Alike(w, x, device[p], leg[p], oper[p])
    BY <1>1, <1>3, <1>n, Zenon DEF Sound, Alike
  <1>5. Sound(x, index[p], device[p], leg[p], oper[p], dipped[p])
    BY <1>1, <1>3, <1>p, End, SoundAlike
  <1>. QED
    BY <1>1, <1>2, <1>3, <1>4, <1>5, WireOnly, Zenon

LEMMA SweepGood ==
    ASSUME WireInv, NEW p \in Pods, Sweep(p)
    PROVE  Good /\ Quiet
  <1> DEFINE w == wire[p]
             gone == {k \in Homes : w.sess[k].exists /\ w.peer # k /\ w.sess[k].silent}
             s == [k \in Homes |-> IF k \in gone THEN NoSession ELSE w.sess[k]]
             x == [w EXCEPT !.sess = s]
  <1>1. /\ w \in Wire /\ Followed(w) /\ Known(w)
        /\ Sound(w, index[p], device[p], leg[p], oper[p], dipped[p])
    BY End, Zenon
  <1>2. /\ gone # {} /\ wire' = [wire EXCEPT ![p] = x]
        /\ UNCHANGED <<device, leg, oper, index, home, dns, step, net, nextGen, dipped, world>>
    BY Zenon DEF Sweep
  <1>6. s \in [Homes -> Session] /\ \A k \in Homes : s[k] = w.sess[k] \/ (s[k] = NoSession /\ k \in gone)
    BY <1>1, SessionFields, NoWireFields, Zenon
  <1>7. NoSession.known = FALSE /\ NoSession.exists = FALSE
    BY Zenon DEF NoSession
  <1>8. \A k \in Homes : k = w.peer => s[k] = w.sess[k]
    BY <1>6, Zenon
  <1>9. \A k \in gone : k \in Homes /\ w.sess[k].silent /\ w.sess[k].exists
    BY Zenon
  <1>. HIDE DEF s, gone
  <1>3. /\ x \in Wire /\ x.running = w.running /\ x.gen = w.gen /\ x.index = w.index /\ x.local = w.local
        /\ x.forced = w.forced /\ x.remote = w.remote /\ x.peer = w.peer /\ x.settling = w.settling
        /\ x.panicked = w.panicked /\ x.stopped = w.stopped /\ x.sess = s
    BY <1>1, <1>6, Zenon DEF Wire
  <1>n. w.running
    BY <1>1, <1>2, <1>9, NoSessionFields, Zenon DEF Sound
  <1>. HIDE DEF x
  <1>w. world' \in Bounded
    BY <1>2, Zenon DEF WireInv, TypeOK, Bounded
  <1>4. Followed(x) /\ Known(x)
    BY <1>1, <1>3, <1>6, <1>7, <1>8, WireFields DEF Followed, Known, Desired, RemoteUp
  <1>p. Alike(w, x, device[p], leg[p], oper[p])
    BY <1>1, <1>3, <1>n, Zenon DEF Sound, Alike
  <1>5. Sound(x, index[p], device[p], leg[p], oper[p], dipped[p])
    BY <1>1, <1>3, <1>p, End, SoundAlike
  <1>. QED
    BY <1>1, <1>2, <1>3, <1>4, <1>5, <1>6, <1>9, <1>w, WireOnly, Zenon

LEMMA SettleGood ==
    ASSUME WireInv, NEW p \in Pods, SettleEnds(p)
    PROVE  Good /\ Quiet
  <1> DEFINE w == wire[p]
             x == [w EXCEPT !.settling = FALSE]
  <1>1. /\ w \in Wire /\ Followed(w) /\ Known(w) /\ Sound(w, index[p], device[p], leg[p], oper[p], dipped[p])
        /\ oper[p] = (device[p] /\ leg[p]) /\ w.settling
    BY End, Zenon DEF SettleEnds
  <1>2. /\ wire' = [wire EXCEPT ![p] = x]
        /\ UNCHANGED <<device, leg, oper, index, home, dns, step, net, nextGen, dipped, world>>
    BY Zenon DEF SettleEnds
  <1>3. /\ x \in Wire /\ x.running = w.running /\ x.gen = w.gen /\ x.index = w.index /\ x.local = w.local
        /\ x.forced = w.forced /\ x.remote = w.remote /\ x.peer = w.peer /\ x.settling = FALSE
        /\ x.panicked = w.panicked /\ x.stopped = w.stopped /\ x.sess = w.sess
    BY <1>1, Zenon DEF Wire
  <1>n. w.running
    BY <1>1, NoWireFields, Zenon DEF Sound
  <1>. HIDE DEF x
  <1>w. world' \in Bounded
    BY <1>2, Zenon DEF WireInv, TypeOK, Bounded
  <1>4. Followed(x) /\ Known(x)
    BY <1>1, <1>3, Zenon DEF Followed, Known, Desired, RemoteUp
  <1>p. Alike(w, x, device[p], leg[p], oper[p])
    BY <1>1, <1>3, <1>n, Zenon DEF Sound, Alike
  <1>5. Sound(x, index[p], device[p], leg[p], oper[p], dipped[p])
    BY <1>1, <1>3, <1>p, End, SoundAlike
  <1>. QED
    BY <1>1, <1>2, <1>3, <1>4, <1>5, <1>w, WireOnly, Zenon

LEMMA SilenceGood ==
    ASSUME WireInv, NEW p \in Pods, NEW k \in Homes, Silence(p, k), world' \in Bounded
    PROVE  Good /\ Quiet
  <1> DEFINE w == wire[p]
             t == [w.sess[k] EXCEPT !.silent = TRUE]
             s == [w.sess EXCEPT ![k] = t]
             x == [w EXCEPT !.sess = s]
  <1>1. /\ w \in Wire /\ Followed(w) /\ Known(w)
        /\ Sound(w, index[p], device[p], leg[p], oper[p], dipped[p])
    BY End, Zenon
  <1>2. /\ wire' = [wire EXCEPT ![p] = x]
        /\ UNCHANGED <<device, leg, oper, index, home, dns, step, net, nextGen, dipped>>
    BY Zenon DEF Silence
  <1>6. /\ t \in Session /\ t.known = w.sess[k].known /\ t.exists = w.sess[k].exists /\ t.up = w.sess[k].up
        /\ t.gen = w.sess[k].gen
    BY <1>1, SessionFields, Silenced, Zenon
  <1>. HIDE DEF t
  <1>7. s \in [Homes -> Session] /\ s[k] = t /\ \A j \in Homes \ {k} : s[j] = w.sess[j]
    BY <1>1, <1>6, WireFields, Zenon
  <1>. HIDE DEF s
  <1>8. \A j \in Homes : /\ s[j].known = w.sess[j].known /\ s[j].exists = w.sess[j].exists
                        /\ s[j].up = w.sess[j].up /\ s[j].gen = w.sess[j].gen
    BY <1>6, <1>7, Zenon
  <1>3. /\ x \in Wire /\ x.running = w.running /\ x.gen = w.gen /\ x.index = w.index /\ x.local = w.local
        /\ x.forced = w.forced /\ x.remote = w.remote /\ x.peer = w.peer /\ x.settling = w.settling
        /\ x.panicked = w.panicked /\ x.stopped = w.stopped /\ x.sess = s
    BY <1>1, <1>7, Zenon DEF Wire
  <1>n. w.running
    BY <1>1, NoSessionFields, Zenon DEF Sound, Silence
  <1>. HIDE DEF x
  <1>4. Followed(x) /\ Known(x)
    BY <1>1, <1>3, <1>8, WireFields DEF Followed, Known, Desired, RemoteUp
  <1>p. Alike(w, x, device[p], leg[p], oper[p])
    BY <1>1, <1>3, <1>n, Zenon DEF Sound, Alike
  <1>5. Sound(x, index[p], device[p], leg[p], oper[p], dipped[p])
    BY <1>1, <1>3, <1>p, End, SoundAlike
  <1>. QED
    BY <1>1, <1>2, <1>3, <1>4, <1>5, <1>8, WireOnly, Zenon

LEMMA LinkwatchGood ==
    ASSUME WireInv, NEW p \in Pods, Linkwatch(p)
    PROVE  Good /\ Quiet
  <1>1. /\ UNCHANGED <<device, leg, index, home, dns, wire, step, net, nextGen, dipped, world>>
        /\ oper' = [oper EXCEPT ![p] = ~oper[p]] /\ oper[p] # (device[p] /\ leg[p])
    BY Zenon DEF Linkwatch
  <1>2. RestTyped' /\ EndTyped' /\ Only(p) /\ oper'[p] = (device[p] /\ leg[p])
    BY <1>1, Zenon DEF WireInv, TypeOK, RestTyped, EndTyped, Only
  <1>3. Sound(wire[p], index'[p], device'[p], leg'[p], oper'[p], dipped'[p])
    BY <1>1, <1>2, End, WireFields, Zenon DEF Sound, Watches
  <1>. QED
    BY <1>1, <1>2, <1>3, WireKept, Zenon

LEMMA ToggleGood ==
    ASSUME WireInv, NEW p \in Pods, ToggleDevice(p)
    PROVE  Good /\ Quiet
  <1>1. /\ UNCHANGED <<leg, oper, index, home, dns, wire, step, net, nextGen>> /\ world' \in Bounded
        /\ device' = [device EXCEPT ![p] = ~device[p]]
        /\ dipped' = [dipped EXCEPT ![p] = dipped[p] \/ device[p]]
    BY FaultBounded, Zenon DEF ToggleDevice
  <1>2. /\ RestTyped' /\ EndTyped' /\ Only(p)
        /\ device'[p] = ~device[p] /\ dipped'[p] = (dipped[p] \/ device[p])
    BY <1>1, Zenon DEF WireInv, TypeOK, RestTyped, EndTyped, Only, Bounded
  <1>3. Sound(wire[p], index'[p], device'[p], leg'[p], oper'[p], dipped'[p])
    BY <1>1, <1>2, End, WireFields, Zenon DEF Sound, Watches
  <1>. QED
    BY <1>1, <1>2, <1>3, WireKept, Zenon

LEMMA RecreateGood ==
    ASSUME WireInv, NEW p \in Pods, RecreatePair(p)
    PROVE  Good /\ Quiet
  <1>1. /\ UNCHANGED <<device, home, dns, wire, step, net, nextGen, dipped>> /\ world' \in Bounded
        /\ index' = [index EXCEPT ![p] = index[p] + 1]
        /\ leg' = [leg EXCEPT ![p] = FALSE] /\ oper' = [oper EXCEPT ![p] = FALSE]
    BY FaultBounded, Zenon DEF RecreatePair
  <1>2. /\ RestTyped' /\ EndTyped' /\ Only(p)
        /\ index'[p] = index[p] + 1 /\ leg'[p] = FALSE /\ oper'[p] = FALSE
    BY <1>1 DEF WireInv, TypeOK, RestTyped, EndTyped, Only, Bounded
  <1>3. Sound(wire[p], index'[p], device'[p], leg'[p], oper'[p], dipped'[p])
    BY <1>1, <1>2, End, WireFields DEF Sound, Watches
  <1>. QED
    BY <1>1, <1>2, <1>3, WireKept, Zenon

LEMMA RoutesGood ==
    ASSUME WireInv, NEW p \in Pods,
           UNCHANGED <<device, leg, oper, index, home, wire, step, nextGen, dipped>>, world' \in Bounded,
           net' \subseteq net, dns' \in [Pods -> {0} \cup Homes]
    PROVE  Good /\ Quiet
  <1>1. RestTyped' /\ EndTyped' /\ Only(p)
    BY Zenon DEF WireInv, TypeOK, RestTyped, EndTyped, Only, Bounded
  <1>. QED
    BY <1>1, End, WireKept, Zenon

LEMMA CrashGood ==
    ASSUME WireInv, NEW p \in Pods, Crash(p)
    PROVE  Good /\ Quiet
  <1>1. /\ world' \in Bounded /\ wire' = [wire EXCEPT ![p] = NoWire] /\ step' = [step EXCEPT ![p] = "idle"]
        /\ UNCHANGED <<device, leg, oper, index, home, dns, net, nextGen, dipped>>
    BY FaultBounded, Zenon DEF Crash
  <1>2. RestTyped' /\ EndTyped' /\ Only(p)
    BY <1>1, NoWireFields, Zenon DEF WireInv, TypeOK, RestTyped, EndTyped, Only, Bounded, Steps
  <1>. QED
    BY <1>1, <1>2, WireGone, Zenon

LEMMA MoveGood ==
    ASSUME WireInv, NEW p \in Pods, MovePod(p)
    PROVE  Good /\ Quiet
  <1>1. /\ world' \in Bounded /\ wire' = [wire EXCEPT ![p] = NoWire] /\ step' = [step EXCEPT ![p] = "idle"]
        /\ home[p] < MaxHome /\ home' = [home EXCEPT ![p] = home[p] + 1]
        /\ leg' = [leg EXCEPT ![p] = FALSE] /\ oper' = [oper EXCEPT ![p] = FALSE] /\ net' \subseteq net
        /\ UNCHANGED <<index, dns, nextGen, dipped>>
    <2>1. net' = {m \in net : m.to[1] # p}
      BY Zenon DEF MovePod
    <2>2. net' \subseteq net
      BY <2>1, Zenon
    <2>. QED
      BY <2>2, FaultBounded, Zenon DEF MovePod
  <1>2. PICK up \in world.ports : device' = [device EXCEPT ![p] = up]
    BY Zenon DEF MovePod
  <1>3. up \in BOOLEAN
    BY Zenon DEF WireInv, TypeOK
  <1>4. home[p] + 1 \in Homes
    BY <1>1, End, BoundsAssumption DEF Homes
  <1>5. RestTyped'
    BY <1>1, <1>4, Zenon DEF WireInv, TypeOK, RestTyped, Bounded, Steps
  <1>6. EndTyped' /\ Only(p)
    BY <1>1, <1>2, <1>3, NoWireFields, Zenon DEF WireInv, TypeOK, EndTyped, Only
  <1>. QED
    BY <1>1, <1>5, <1>6, WireGone, Zenon
-----------------------------------------------------------------------------
(* The invariant, and what the wire shows and reports *)

LEMMA NextGood ==
    ASSUME WireInv, Next
    PROVE  Good /\ (Quiet \/ \E p \in Pods : Begins(p))
  <1>1. PICK any \in Pods : TRUE
    BY PodsAssumption, Zenon
  <1>2. ASSUME NEW m \in net, Drop(m) \/ Lose(m)
        PROVE  Good /\ Quiet
    <2>1. /\ UNCHANGED <<device, leg, oper, index, home, dns, wire, step, nextGen, dipped>>
          /\ net' = net \ {m} /\ world' \in Bounded
      BY <1>2, FaultBounded, Zenon DEF Drop, Lose, WireInv, TypeOK, Bounded
    <2>2. net' \subseteq net /\ dns' \in [Pods -> {0} \cup Homes]
      BY <2>1, Zenon DEF WireInv, TypeOK
    <2>. QED
      BY <1>1, <2>1, <2>2, RoutesGood, Zenon
  <1>3. ASSUME NEW p \in Pods, Tick(p) \/ WatchEvent(p) \/ AdoptPeerAddress(p)
        PROVE  Good /\ Quiet
    BY <1>3, TickSteady, WatchSteady, AdoptSteady, SteadyGood, Zenon
  <1>4. ASSUME NEW p \in Pods, NEW kind, Deliver(p, kind)
        PROVE  Good /\ Quiet
    <2>1. PICK m \in net : Receive(p, m, net \ {m}) /\ UNCHANGED world
      BY <1>4, Zenon DEF Deliver
    <2>2. net \ {m} \in SUBSET net
      BY Zenon
    <2>3. world' \in [kinds : SUBSET FaultKinds, left : Nat, inFlight : Nat, ports : SUBSET BOOLEAN]
      BY <2>1, Zenon DEF WireInv, TypeOK
    <2>. QED
      BY <2>1, <2>2, <2>3, ReceiveGood, Zenon
  <1>5. ASSUME NEW p \in Pods, Duplicate(p)
        PROVE  Good /\ Quiet
    <2>1. PICK m \in net : Receive(p, m, net) /\ Fault("duplicate")
      BY <1>5, Zenon DEF Duplicate
    <2>2. world' \in [kinds : SUBSET FaultKinds, left : Nat, inFlight : Nat, ports : SUBSET BOOLEAN]
      BY <2>1, FaultBounded, Zenon DEF Bounded
    <2>. QED
      BY <2>1, <2>2, ReceiveGood, Zenon
  <1>6. ASSUME NEW p \in Pods, NEW k \in Homes, GoSilent(p, k) \/ LoseBurst(p, k)
        PROVE  Good /\ Quiet
    <2>1. Silence(p, k) /\ world' \in Bounded
      BY <1>6, FaultBounded, Zenon DEF GoSilent, LoseBurst, WireInv, TypeOK, Bounded
    <2>. QED
      BY <2>1, SilenceGood, Zenon
  <1>7. ASSUME NEW p \in Pods, PublishAddress(p)
        PROVE  Good /\ Quiet
    <2>1. /\ UNCHANGED <<device, leg, oper, index, home, wire, step, net, nextGen, dipped, world>>
          /\ dns' = [dns EXCEPT ![p] = home[p]]
      BY <1>7, Zenon DEF PublishAddress
    <2>2. /\ net' \subseteq net /\ dns' \in [Pods -> {0} \cup Homes] /\ world' \in Bounded
      BY <2>1, Zenon DEF WireInv, TypeOK, Bounded
    <2>. QED
      BY <2>1, <2>2, RoutesGood, Zenon
  <1>8. ASSUME NEW p \in Pods,
               \/ Pass(p) \/ PairReadHeld(p) \/ OpenFails(p) \/ Sweep(p) \/ Linkwatch(p) \/ SettleEnds(p)
               \/ ToggleDevice(p) \/ Crash(p) \/ MovePod(p) \/ RecreatePair(p)
        PROVE  Good /\ (Quiet \/ Begins(p))
    BY <1>8, PassGood, EnsureGood, OpenFailsGood, SweepGood, LinkwatchGood, SettleGood, ToggleGood, CrashGood,
       MoveGood, RecreateGood, Zenon DEF Pass
  <1>. QED
    BY <1>2, <1>3, <1>4, <1>5, <1>6, <1>7, <1>8, Zenon DEF Next, Pass, Elapse

LEMMA StutterGood ==
    ASSUME WireInv, UNCHANGED vars
    PROVE  Good /\ Quiet
  <1>1. /\ UNCHANGED <<device, leg, oper, index, home, dns, wire, step, net, nextGen, dipped, world>>
    BY Zenon DEF vars
  <1>2. WireInv'
    BY <1>1, Zenon DEF WireInv, TypeOK, LegSound
  <1>. QED
    BY <1>1, <1>2, Zenon DEF Good, Quiet, Honest, Kept

LEMMA InitSound == Init => WireInv
  <1>. SUFFICES ASSUME Init PROVE WireInv
    BY Zenon
  <1>1. PICK w \in Worlds :
           /\ world = [kinds |-> w.kinds, left |-> w.faults, inFlight |-> w.inFlight, ports |-> w.ports]
           /\ device \in [Pods -> w.ports]
           /\ dns = [p \in Pods |-> w.published]
    BY Zenon DEF Init
  <1>2. /\ w.kinds \subseteq FaultKinds /\ w.faults \in Nat /\ w.inFlight \in Nat
        /\ w.ports \subseteq BOOLEAN /\ w.published \in {0, 1}
    BY BoundsAssumption, Zenon
  <1>3. world \in Bounded
    BY <1>1, <1>2, Zenon DEF Bounded
  <1>4. device \in [Pods -> BOOLEAN] /\ dns \in [Pods -> {0} \cup Homes]
    BY <1>1, <1>2, HomesAreNumbers, Zenon
  <1>5. TypeOK
    BY <1>3, <1>4, HomesAreNumbers, NoWireFields, Zenon DEF Init, TypeOK, Bounded, Steps
  <1>6. ASSUME NEW p \in Pods
        PROVE  LegSound(p) /\ wire[p] = NoWire
    BY <1>6, NoWireFields DEF Init, LegSound, Sound, Watches
  <1>. QED
    BY <1>5, <1>6, NoWireFields, Zenon DEF WireInv

\* The inductive invariant: what the wire takes for the state of its leg and its
\* port, and how it holds the leg, agree with the leg, its port and their history.
LEMMA WireInvariant == Spec => []WireInv
  <1>1. WireInv /\ [Next]_vars => WireInv'
    BY NextGood, StutterGood, Zenon DEF Good
  <1>. QED
    BY InitSound, <1>1, PTL DEF Spec

\* applyLinkCarrierLocked is never forgotten: in every running process that did not
\* fail, the hold on the leg (forced) is taken exactly when this end is up and the
\* far end is not known to be, whatever is lost, reordered, restarted, moved or
\* re-created.  It is about the wire's own hold, not about the leg.
THEOREM CarrierFollows == Spec => []CarrierFollowsState
  <1>1. WireInv => CarrierFollowsState
    BY Zenon DEF WireInv, Followed, CarrierFollowsState
  <1>. QED
    BY WireInvariant, <1>1, PTL

\* observeLegStateLocked: a wire reports its port down only if the port was down,
\* never because it held or raised the leg itself.
THEOREM NeverEchoes == Spec => NoEcho
  <1>1. WireInv /\ [Next]_vars =>
           [\A p \in Pods :
               wire[p].local /\ ~wire'[p].local /\ wire'[p].running /\ wire'[p].index = wire[p].index
                  => dipped[p]]_vars
    BY NextGood, Zenon DEF Good, Honest
  <1>. QED
    BY WireInvariant, <1>1, PTL DEF Spec, NoEcho

-----------------------------------------------------------------------------
(* Generations *)

LEMMA GenInit == Init => GenInv
  BY NoWireFields, Zenon DEF Init, GenInv, Given, NoneLater

LEMMA NumbersBelow ==
    ASSUME nextGen \subseteq 1..MaxGen, Given, NEW g \in NewGenerations, NEW h \in nextGen
    PROVE  h < g
  <1>1. g \in 1..MaxGen /\ g \notin nextGen /\ h \in 1..MaxGen /\ 1..h \subseteq nextGen
    BY Zenon DEF NewGenerations, Given
  <1>. QED
    BY <1>1, BoundsAssumption

LEMMA QuietKeepsGen ==
    ASSUME WireInv, GenInv, Quiet
    PROVE  GenInv'
  <1>1. Given'
    BY Zenon DEF Quiet, GenInv, Given
  <1>2. ASSUME NEW m \in net'
        PROVE  /\ m.gen \in nextGen'
               /\ \A p \in Pods : wire'[p].running /\ m.to[1] = Other(p) => m.gen <= wire'[p].gen
    <2>1. CASE m \in net
      BY <2>1, Zenon DEF Quiet, GenInv, NoneLater
    <2>2. CASE m \notin net
      <3>1. PICK q \in Pods : m.to[1] = Other(q) /\ wire[q].running /\ m.gen = wire[q].gen
        BY <1>2, <2>2, Zenon DEF Quiet
      <3>2. m.gen \in nextGen'
        BY <3>1, Zenon DEF Quiet, GenInv, NoneLater
      <3>3. m.gen \in Nat
        BY <3>1, End, WireFields
      <3>4. ASSUME NEW p \in Pods, wire'[p].running, m.to[1] = Other(p)
            PROVE  m.gen <= wire'[p].gen
        <4>1. p = q
          BY <3>1, <3>4, TwoEnds, Zenon
        <4>. QED
          BY <3>1, <3>3, <3>4, <4>1 DEF Quiet
      <3>. QED
        BY <3>2, <3>4, Zenon
    <2>. QED
      BY <2>1, <2>2, Zenon
  <1>3. \A p \in Pods : wire'[p].running => wire'[p].gen \in nextGen'
    BY Zenon DEF Quiet, GenInv, NoneLater
  <1>. QED
    BY <1>1, <1>2, <1>3, Zenon DEF GenInv, NoneLater

LEMMA BeginsKeepsGen ==
    ASSUME Ordered, WireInv, GenInv, NEW p \in Pods, Begins(p)
    PROVE  GenInv'
  <1>1. PICK g \in IF wire[p].running THEN {wire[p].gen} ELSE NewGenerations :
           nextGen' = nextGen \cup {g} /\ wire'[p].gen = g
    BY Zenon DEF Begins
  <1>2. Only(p) /\ net' \subseteq net
    BY Zenon DEF Begins
  <1>3. /\ nextGen \subseteq 1..MaxGen /\ net \subseteq Datagram
    BY Zenon DEF WireInv, TypeOK
  <1>4. CASE wire[p].running
    <2>1. nextGen' = nextGen /\ wire'[p].gen = wire[p].gen
      BY <1>1, <1>4, Zenon DEF GenInv, NoneLater
    <2>2. \A q \in Pods : wire'[q].running => wire[q].running /\ wire'[q].gen = wire[q].gen
      BY <1>2, <1>4, <2>1, Zenon DEF Only
    <2>3. Quiet
      BY <1>2, <2>1, <2>2, Zenon DEF Quiet
    <2>. QED
      BY <2>3, QuietKeepsGen, Zenon
  <1>5. CASE ~wire[p].running
    <2>1. g \in NewGenerations
      BY <1>1, <1>5, Zenon
    <2>2. \A h \in nextGen : h < g
      BY <1>3, <2>1, NumbersBelow, Zenon DEF GenInv
    <2>3. Given'
      <3>1. g \in Nat /\ 1..(g - 1) \subseteq nextGen
        BY <2>1, BoundsAssumption DEF NewGenerations
      <3>2. \A j \in 1..g : j = g \/ j \in 1..(g - 1)
        BY <3>1
      <3>. QED
        BY <1>1, <3>1, <3>2, Zenon DEF GenInv, Given
    <2>4. ASSUME NEW q \in Pods, NEW m \in net', wire'[q].running, m.to[1] = Other(q)
          PROVE  m.gen <= wire'[q].gen
      <3>1. m \in net /\ m.gen \in nextGen /\ m.gen \in Nat /\ g \in Nat
        BY <1>2, <1>3, <2>1, <2>4, BoundsAssumption DEF GenInv, NoneLater, Datagram, NewGenerations
      <3>2. CASE q = p
        BY <1>1, <2>2, <3>1, <3>2
      <3>3. CASE q # p
        BY <1>2, <2>4, <3>1, <3>3, Zenon DEF GenInv, NoneLater, Only
      <3>. QED
        BY <3>2, <3>3, Zenon
    <2>5. \A m \in net' : m.gen \in nextGen'
      BY <1>1, <1>2, Zenon DEF GenInv, NoneLater
    <2>6. \A q \in Pods : wire'[q].running => wire'[q].gen \in nextGen'
      BY <1>1, <1>2, Zenon DEF GenInv, NoneLater, Only
    <2>. QED
      BY <2>3, <2>4, <2>5, <2>6, Zenon DEF GenInv, NoneLater
  <1>. QED
    BY <1>4, <1>5, Zenon

\* newFabricWireGeneration puts the start time first.  When a later process then
\* has the larger generation, a session held by the living process of the far Pod
\* that is not silent is not taken over: refreshSessionLocked drops what dead
\* processes left in flight, however late and in whatever order it arrives.
THEOREM LivePeersKeepSessions ==
    ASSUME Ordered
    PROVE  Spec => LivePeerKeepsSession
  <1>1. WireInv /\ GenInv /\ [Next]_vars => GenInv'
    BY NextGood, StutterGood, QuietKeepsGen, BeginsKeepsGen, Zenon
  <1>2. ASSUME WireInv, GenInv, Next, NEW p \in Pods, NEW k \in Homes,
               wire[p].sess[k].known, ~wire[p].sess[k].silent, wire[p].sess[k].gen = wire[Other(p)].gen,
               wire'[p].running
        PROVE  wire'[p].sess[k].gen = wire[p].sess[k].gen
    <2> DEFINE s == wire[p].sess[k]
               q == Other(p)
    <2>1. Kept(p, k)
      BY <1>2, NextGood, Zenon DEF Good
    <2>2. CASE \E m \in net : m.to[1] = p /\ wire'[p].sess[k].gen = m.gen /\ ~Rejects(wire[p], k, m.gen)
      <3>1. PICK m \in net : m.to[1] = p /\ wire'[p].sess[k].gen = m.gen /\ ~Rejects(wire[p], k, m.gen)
        BY <2>2, Zenon
      <3>2. s.exists /\ s.gen # 0 /\ s.gen \in Nat
        BY <1>2, End, SessionFields DEF Known
      <3>3. q \in Pods /\ Other(q) = p
        BY TwoEnds, Zenon
      <3>4. wire[q].running
        BY <1>2, <3>2, <3>3, End, NoWireFields, Zenon DEF Sound
      <3>5. m.gen <= wire[q].gen /\ m.gen \in Nat
        BY <1>2, <3>1, <3>3, <3>4 DEF GenInv, NoneLater, WireInv, TypeOK, Datagram
      <3>6. ~(m.gen < s.gen)
        BY <1>2, <3>1, <3>2, Zenon DEF Rejects
      <3>. QED
        BY <1>2, <3>1, <3>2, <3>5, <3>6
    <2>. QED
      BY <1>2, <2>1, <2>2, Zenon DEF Kept
  <1>3. WireInv /\ GenInv /\ [Next]_vars =>
           [\A p \in Pods, k \in Homes :
               LET s == wire[p].sess[k]
                   q == Other(p)
               IN  /\ s.known /\ ~s.silent /\ s.gen = wire[q].gen /\ home[q] = k
                   /\ wire'[p].running /\ wire'[q] = wire[q]
                   => wire'[p].sess[k].gen = s.gen]_vars
    BY <1>2, Zenon
  <1>. QED
    BY WireInvariant, GenInit, <1>1, <1>3, PTL DEF Spec, LivePeerKeepsSession

-----------------------------------------------------------------------------
(***************************************************************************)
(* A link of the fabric wire implements FrameChannel, for every number of  *)
(* processes, addresses and frames and every setting of the limits.        *)
(***************************************************************************)

ReassemblyTypes ==
    /\ frameID \in [Procs -> Nat]
    /\ clock \in Nat
    /\ peer \in Addresses
    /\ sess \in [Addresses -> [known : BOOLEAN, gen : Nat, lastHeard : Nat]]
    /\ \A a \in Addresses : sess[a].lastHeard <= clock
    /\ pending \in [FrameIDs -> [arrived : Nat, got : SUBSET traffic]]
    /\ carried \in BOOLEAN

\* What was sent is well formed, and a process gives an id to one frame only.
SentOnce ==
    /\ \A m \in traffic : /\ m.proc \in Procs /\ m.id \in FrameIDs
                          /\ m \in Fragments(m.proc, m.id, m.total)
                          /\ m.id <= frameID[m.proc]
    /\ \A m, o \in traffic : m.proc = o.proc /\ m.id = o.id => m.total = o.total

\* What is pending came from the process whose generation holds the session of
\* the peer, and is no younger than the session's last datagram: when the
\* session is forgotten, the same tick forgets the fragments.
HeldTogether ==
    \A f \in FrameIDs :
        /\ \A o \in pending[f].got : o.id = f
        /\ ~carried /\ pending[f].got # {} =>
              /\ sess[peer].known
              /\ pending[f].arrived <= sess[peer].lastHeard
              /\ \A o \in pending[f].got : Gen[o.proc] = sess[peer].gen

ReassemblyInv == ReassemblyTypes /\ SentOnce /\ HeldTogether

-----------------------------------------------------------------------------
\* What the header of a fragment says of its frame.
LEMMA FragmentFacts ==
    ASSUME NEW p, NEW id, NEW len, NEW m \in Fragments(p, id, len)
    PROVE  /\ m.proc = p /\ m.id = id /\ m.total = len
           /\ m.count = FragCount(len, Payload[p])
           /\ m.index \in 1..FragCount(len, Payload[p])
           /\ m = Frag(p, id, len, m.index)
  BY DEF Fragments, Frag

\* An entry with every fragment of a frame, and no other, is that frame.
LEMMA WholeFrame ==
    ASSUME NEW p, NEW id, NEW len, NEW got,
           got \subseteq Fragments(p, id, len),
           \A i \in 1..FragCount(len, Payload[p]) : \E o \in got : o.index = i
    PROVE  got = Fragments(p, id, len)
  <1> SUFFICES ASSUME NEW x \in Fragments(p, id, len) PROVE x \in got
    BY Zenon
  <1>1. x.index \in 1..FragCount(len, Payload[p]) /\ x = Frag(p, id, len, x.index)
    BY FragmentFacts
  <1>2. PICK o \in got : o.index = x.index
    BY <1>1, Zenon
  <1>3. o = Frag(p, id, len, o.index)
    BY FragmentFacts
  <1> QED
    BY <1>1, <1>2, <1>3, Zenon

\* expire and evictOldest only ever forget entries.
LEMMA OnlyForgets ==
    ASSUME NEW pend \in [FrameIDs -> [arrived : Nat, got : SUBSET traffic]], NEW now \in Nat, NEW id,
           NEW left \in Evicted(Unexpired(pend, now), id)
    PROVE  /\ left \in [FrameIDs -> [arrived : Nat, got : SUBSET traffic]]
           /\ \A f \in FrameIDs : left[f] = pend[f] \/ left[f] = NoEntry
  <1> DEFINE young == Unexpired(pend, now)
  <1>1. /\ young \in [FrameIDs -> [arrived : Nat, got : SUBSET traffic]]
        /\ \A f \in FrameIDs : young[f] = pend[f] \/ young[f] = NoEntry
    BY Zenon DEF Unexpired, NoEntry
  <1>2. left = young \/ \E f \in Oldest(young) : left = [young EXCEPT ![f] = NoEntry]
    BY Zenon DEF Evicted
  <1> HIDE DEF young
  <1>3. ASSUME NEW f, left = [young EXCEPT ![f] = NoEntry]
        PROVE  /\ left \in [FrameIDs -> [arrived : Nat, got : SUBSET traffic]]
               /\ \A k \in FrameIDs : left[k] = young[k] \/ left[k] = NoEntry
    BY <1>1, <1>3, Zenon DEF NoEntry
  <1> QED
    BY <1>1, <1>2, <1>3, Zenon

-----------------------------------------------------------------------------
LEMMA InitInv == ReassemblyInit => ReassemblyInv
  <1> SUFFICES ASSUME ReassemblyInit PROVE ReassemblyInv
    BY Zenon
  <1>1. pending \in [FrameIDs -> [arrived : Nat, got : SUBSET traffic]]
    BY Zenon DEF ReassemblyInit, NoEntry
  <1>2. /\ sess \in [Addresses -> [known : BOOLEAN, gen : Nat, lastHeard : Nat]]
        /\ \A a \in Addresses : sess[a].lastHeard <= clock
    BY DEF ReassemblyInit
  <1>3. ReassemblyTypes
    BY <1>1, <1>2, Zenon DEF ReassemblyInit, ReassemblyTypes
  <1>4. SentOnce
    BY Zenon DEF ReassemblyInit, SentOnce
  <1>5. HeldTogether
    BY Zenon DEF ReassemblyInit, HeldTogether, NoEntry
  <1> QED
    BY <1>3, <1>4, <1>5, Zenon DEF ReassemblyInv

\* transmitFrame: the new frame's id was given to none before.
LEMMA TransmitInv ==
    ASSUME ReassemblyInv, NEW p \in Procs, NEW len \in Lengths, TransmitFrame(p, len)
    PROVE  ReassemblyInv'
  <1> USE DEF ReassemblyInv
  <1> DEFINE id == frameID[p] + 1
             new == Fragments(p, id, len)
  <1>1. frameID[p] \in Nat /\ id \in FrameIDs
    BY LimitsAssumption DEF TransmitFrame, ReassemblyTypes, FrameIDs
  <1>2. frameID' \in [Procs -> Nat] /\ frameID'[p] = id /\ \A q \in Procs : frameID[q] <= frameID'[q]
    BY <1>1 DEF TransmitFrame, ReassemblyTypes
  <1>3. traffic \subseteq traffic' /\ traffic' \subseteq traffic \cup new
    BY Zenon DEF TransmitFrame
  <1>4. ReassemblyTypes'
    <2>1. pending' \in [FrameIDs -> [arrived : Nat, got : SUBSET traffic']]
      BY <1>3, Zenon DEF TransmitFrame, ReassemblyTypes
    <2> QED
      BY <1>2, <2>1, Zenon DEF TransmitFrame, ReassemblyTypes
  <1>5. \A m \in new : m.proc = p /\ m.id = id /\ m.total = len
    BY FragmentFacts
  <1>6. SentOnce'
    <2>1. ASSUME NEW m \in traffic'
          PROVE  /\ m.proc \in Procs /\ m.id \in FrameIDs
                 /\ m \in Fragments(m.proc, m.id, m.total)
                 /\ m.id <= frameID'[m.proc]
      <3>1. CASE m \in traffic
        BY <3>1, <1>2 DEF SentOnce, ReassemblyTypes, FrameIDs
      <3>2. CASE m \in new
        BY <3>2, <1>1, <1>2, <1>5
      <3> QED
        BY <3>1, <3>2, <1>3, Zenon
    <2>2. \A m \in traffic : ~(m.proc = p /\ m.id = id)
      BY <1>1 DEF SentOnce, FrameIDs
    <2>3. \A m, o \in traffic' : m.proc = o.proc /\ m.id = o.id => m.total = o.total
      BY <2>2, <1>3, <1>5, Zenon DEF SentOnce
    <2> QED
      BY <2>1, <2>3, Zenon DEF SentOnce
  <1>7. HeldTogether'
    BY Zenon DEF TransmitFrame, HeldTogether
  <1> QED
    BY <1>4, <1>6, <1>7, Zenon

\* handleData: the fragment joins fragments of its own process, if any; a frame
\* that is complete was sent.
LEMMA HandleDataStep ==
    ASSUME ReassemblyInv, NEW m \in traffic, HandleData(m)
    PROVE  /\ ReassemblyInv'
           /\ delivered \subseteq delivered'
           /\ carried \/ delivered' = delivered
              \/ delivered' = delivered \cup {Fragments(m.proc, m.id, m.total)}
  <1> USE DEF ReassemblyInv
  <1> DEFINE a == addr[m.proc]
             s == sess[a]
             g == Gen[m.proc]
             kept == IF Resets(s, g) THEN [f \in FrameIDs |-> NoEntry] ELSE pending
  <1>1. CASE a # peer \/ SessionRejects(s, g)
    BY <1>1, Zenon DEF HandleData, ReassemblyTypes, SentOnce, HeldTogether
  <1>2. CASE ~(a # peer \/ SessionRejects(s, g))
    <2>1. /\ a = peer
          /\ sess' = [sess EXCEPT ![a] = [known |-> TRUE, gen |-> g, lastHeard |-> clock]]
          /\ UNCHANGED <<live, addr, frameID, traffic, clock, peer, carried>>
      BY <1>2, Zenon DEF HandleData
    <2>2. PICK pend \in Evicted(Unexpired(kept, clock), m.id) :
             /\ pending' = Absorbed(pend, m, clock)
             /\ delivered' = delivered \cup Injected(pend, m)
      BY <1>2, Zenon DEF HandleData
    <2>3. kept \in [FrameIDs -> [arrived : Nat, got : SUBSET traffic]]
      BY Zenon DEF ReassemblyTypes, NoEntry
    <2>4. /\ pend \in [FrameIDs -> [arrived : Nat, got : SUBSET traffic]]
          /\ \A f \in FrameIDs : pend[f] = kept[f] \/ pend[f] = NoEntry
      BY <2>2, <2>3, OnlyForgets DEF ReassemblyTypes
    <2>5. /\ m.proc \in Procs /\ m.id \in FrameIDs /\ g \in Nat
          /\ m \in Fragments(m.proc, m.id, m.total)
      BY ProcsAssumption, Zenon DEF SentOnce
    <2>6. \A f \in FrameIDs : \A o \in pend[f].got : o.id = f
      BY <2>4 DEF HeldTogether, NoEntry
    \* Everything that is still pending is of the generation that m is of.
    <2>7. ASSUME ~carried, NEW f \in FrameIDs, pend[f].got # {}
          PROVE  pend[f].arrived <= clock /\ \A o \in pend[f].got : Gen[o.proc] = g
      <3>1. ~Resets(s, g) /\ pend[f] = pending[f]
        BY <2>4, <2>7 DEF NoEntry
      <3>2. /\ s.known /\ pending[f].arrived <= s.lastHeard
            /\ \A o \in pending[f].got : Gen[o.proc] = s.gen
        BY <2>1, <2>7, <3>1, Zenon DEF HeldTogether
      <3>3. s.gen = g
        BY <3>1, <3>2, Zenon DEF Resets
      <3>4. s.lastHeard <= clock /\ s.lastHeard \in Nat /\ clock \in Nat /\ pending[f].arrived \in Nat
        BY <2>1, Zenon DEF ReassemblyTypes
      <3> QED
        BY <3>1, <3>2, <3>3, <3>4
    <2>8. \A f \in FrameIDs : \/ pending'[f] = pend[f]
                              \/ pending'[f] = NoEntry
                              \/ f = m.id /\ pending'[f] = Joined(pend[f], m, clock)
      BY <2>2, <2>4, Zenon DEF Absorbed
    <2>9. ReassemblyTypes'
      <3>1. pending' \in [FrameIDs -> [arrived : Nat, got : SUBSET traffic]]
        BY <2>2, <2>4, <2>5, Zenon DEF Absorbed, Joined, NoEntry, ReassemblyTypes
      <3>2. /\ sess' \in [Addresses -> [known : BOOLEAN, gen : Nat, lastHeard : Nat]]
            /\ \A b \in Addresses : sess'[b].lastHeard <= clock
        BY <2>1, <2>5 DEF ReassemblyTypes
      <3> QED
        BY <2>1, <3>1, <3>2, Zenon DEF ReassemblyTypes
    <2>10. SentOnce'
      BY <2>1, Zenon DEF SentOnce
    <2>11. HeldTogether'
      <3> SUFFICES ASSUME NEW f \in FrameIDs
                   PROVE  /\ \A o \in pending'[f].got : o.id = f
                          /\ ~carried /\ pending'[f].got # {} =>
                                /\ sess'[peer].known
                                /\ pending'[f].arrived <= sess'[peer].lastHeard
                                /\ \A o \in pending'[f].got : Gen[o.proc] = sess'[peer].gen
        BY <2>1 DEF HeldTogether
      <3>1. sess'[peer] = [known |-> TRUE, gen |-> g, lastHeard |-> clock]
        BY <2>1, Zenon DEF ReassemblyTypes
      <3>2. CASE pending'[f] = NoEntry
        BY <3>2 DEF NoEntry
      <3>3. CASE pending'[f] = pend[f]
        BY <3>1, <3>3, <2>6, <2>7
      <3>4. CASE f = m.id /\ pending'[f] = Joined(pend[f], m, clock)
        <4>1. CASE Filled(pend[f], m.index)
          BY <3>1, <3>4, <4>1, <2>6, <2>7 DEF Joined
        <4>2. CASE ~Filled(pend[f], m.index)
          <5>1. pending'[f].got = pend[f].got \cup {m}
            BY <3>4, <4>2 DEF Joined
          <5>2. ~carried => pending'[f].arrived <= clock
            BY <3>4, <4>2, <2>7 DEF Joined, ReassemblyTypes
          <5> QED
            BY <3>1, <3>4, <5>1, <5>2, <2>6, <2>7
        <4> QED
          BY <4>1, <4>2, Zenon
      <3> QED
        BY <2>8, <3>2, <3>3, <3>4, Zenon
    \* The fragments of a completed entry are those of one frame.
    <2>12. ASSUME ~carried, Completes(pend[m.id], m)
           PROVE  pend[m.id].got \cup {m} = Fragments(m.proc, m.id, m.total)
      <3> DEFINE got == pend[m.id].got \cup {m}
      <3>1. \A o \in got : o \in traffic /\ o.id = m.id /\ Gen[o.proc] = g
        BY <2>4, <2>5, <2>6, <2>7, <2>12, Zenon
      <3>2. \A o \in got : o.proc = m.proc /\ o.total = m.total
        BY <3>1, <2>5, ProcsAssumption, Zenon DEF SentOnce
      <3>3. got \subseteq Fragments(m.proc, m.id, m.total)
        BY <3>1, <3>2, Zenon DEF SentOnce
      <3>4. m.count = FragCount(m.total, Payload[m.proc])
        BY <2>5, FragmentFacts
      <3>5. \A i \in 1..m.count : \E o \in got : o.index = i
        BY <2>12, Zenon DEF Completes, Filled
      <3> HIDE DEF got
      <3>6. \A i \in 1..FragCount(m.total, Payload[m.proc]) : \E o \in got : o.index = i
        BY <3>4, <3>5, Zenon
      <3>7. got = Fragments(m.proc, m.id, m.total)
        BY <3>3, <3>6, WholeFrame, Zenon
      <3> QED
        BY <3>7, Zenon DEF got
    <2>13. carried \/ Injected(pend, m) \subseteq {Fragments(m.proc, m.id, m.total)}
      BY <2>12, Zenon DEF Injected
    <2> QED
      BY <2>2, <2>9, <2>10, <2>11, <2>13, Zenon
  <1> QED
    BY <1>1, <1>2, Zenon

\* A heartbeat of another generation empties the table.
LEMMA HeartbeatInv ==
    ASSUME ReassemblyInv, NEW p \in Procs, HandleHeartbeat(p)
    PROVE  ReassemblyInv'
  <1> USE DEF ReassemblyInv
  <1> DEFINE s == sess[peer]
  <1>1. /\ sess' = [sess EXCEPT ![peer] = [known |-> TRUE, gen |-> Gen[p], lastHeard |-> clock]]
        /\ pending' = IF Resets(s, Gen[p]) THEN [f \in FrameIDs |-> NoEntry] ELSE pending
        /\ UNCHANGED <<live, addr, frameID, traffic, clock, peer, delivered, carried>>
    BY Zenon DEF HandleHeartbeat
  <1>2. ReassemblyTypes'
    <2>1. pending' \in [FrameIDs -> [arrived : Nat, got : SUBSET traffic]]
      BY <1>1, Zenon DEF ReassemblyTypes, NoEntry
    <2>2. /\ sess' \in [Addresses -> [known : BOOLEAN, gen : Nat, lastHeard : Nat]]
          /\ \A b \in Addresses : sess'[b].lastHeard <= clock
      BY <1>1, ProcsAssumption DEF ReassemblyTypes
    <2> QED
      BY <1>1, <2>1, <2>2, Zenon DEF ReassemblyTypes
  <1>3. SentOnce'
    BY <1>1, Zenon DEF SentOnce
  <1>4. HeldTogether'
    <2>1. sess'[peer] = [known |-> TRUE, gen |-> Gen[p], lastHeard |-> clock]
      BY <1>1, Zenon DEF ReassemblyTypes
    <2>2. CASE Resets(s, Gen[p])
      BY <1>1, <2>2, Zenon DEF HeldTogether, NoEntry
    <2>3. CASE ~Resets(s, Gen[p])
      <3>1. pending' = pending
        BY <1>1, <2>3, Zenon
      <3>2. ASSUME NEW f \in FrameIDs, ~carried, pending[f].got # {}
            PROVE  /\ pending[f].arrived <= clock
                   /\ \A o \in pending[f].got : Gen[o.proc] = Gen[p]
        <4>1. /\ s.known /\ pending[f].arrived <= s.lastHeard
              /\ \A o \in pending[f].got : Gen[o.proc] = s.gen
          BY <3>2, Zenon DEF HeldTogether
        <4>2. s.gen = Gen[p]
          BY <2>3, <4>1, Zenon DEF Resets
        <4>3. s.lastHeard <= clock /\ s.lastHeard \in Nat /\ clock \in Nat /\ pending[f].arrived \in Nat
          BY Zenon DEF ReassemblyTypes
        <4> QED
          BY <4>1, <4>2, <4>3
      <3> QED
        BY <1>1, <2>1, <3>1, <3>2 DEF HeldTogether
    <2> QED
      BY <2>2, <2>3, Zenon
  <1> QED
    BY <1>2, <1>3, <1>4, Zenon

\* tick: a session that is forgotten was silent for longer than any fragment
\* that came with it is kept.
LEMMA TickInv ==
    ASSUME ReassemblyInv, ReassemblyTick
    PROVE  ReassemblyInv'
  <1> USE DEF ReassemblyInv
  <1>1. /\ sess' = [a \in Addresses |-> [sess[a] EXCEPT !.known = @ /\ ~Silent(sess[a])]]
        /\ pending' = Unexpired(pending, clock)
        /\ UNCHANGED <<live, addr, frameID, traffic, clock, peer, delivered, carried>>
    BY Zenon DEF ReassemblyTick
  <1>2. \A a \in Addresses :
          /\ sess'[a].known = (sess[a].known /\ ~Silent(sess[a]))
          /\ sess'[a].gen = sess[a].gen /\ sess'[a].lastHeard = sess[a].lastHeard
          /\ sess'[a] \in [known : BOOLEAN, gen : Nat, lastHeard : Nat]
    BY <1>1, Zenon DEF ReassemblyTypes
  <1>3. \A f \in FrameIDs :
          pending'[f] = IF clock - pending[f].arrived > Expiry THEN NoEntry ELSE pending[f]
    BY <1>1, Zenon DEF Unexpired, ReassemblyTypes
  <1>4. ReassemblyTypes'
    <2>1. pending' \in [FrameIDs -> [arrived : Nat, got : SUBSET traffic]]
      BY <1>1, Zenon DEF ReassemblyTypes, Unexpired, NoEntry
    <2>2. sess' \in [Addresses -> [known : BOOLEAN, gen : Nat, lastHeard : Nat]]
      BY <1>1, <1>2, Zenon
    <2> QED
      BY <1>1, <1>2, <2>1, <2>2, Zenon DEF ReassemblyTypes
  <1>5. SentOnce'
    BY <1>1, Zenon DEF SentOnce
  <1>6. HeldTogether'
    <2> SUFFICES ASSUME NEW f \in FrameIDs
                 PROVE  /\ \A o \in pending'[f].got : o.id = f
                        /\ ~carried /\ pending'[f].got # {} =>
                              /\ sess'[peer].known
                              /\ pending'[f].arrived <= sess'[peer].lastHeard
                              /\ \A o \in pending'[f].got : Gen[o.proc] = sess'[peer].gen
      BY <1>1 DEF HeldTogether
    <2>1. CASE clock - pending[f].arrived > Expiry
      BY <1>3, <2>1 DEF NoEntry
    <2>2. CASE ~(clock - pending[f].arrived > Expiry)
      <3>1. pending'[f] = pending[f]
        BY <1>3, <2>2, Zenon
      <3>2. ASSUME ~carried, pending[f].got # {}
            PROVE  ~Silent(sess[peer])
        <4>1. pending[f].arrived <= sess[peer].lastHeard
          BY <3>2, Zenon DEF HeldTogether
        <4>2. /\ clock \in Nat /\ pending[f].arrived \in Nat /\ sess[peer].lastHeard \in Nat
              /\ Expiry \in Nat /\ SessionTimeout \in Nat /\ Expiry < SessionTimeout
          BY LimitsAssumption, Zenon DEF ReassemblyTypes
        <4> QED
          BY <2>2, <4>1, <4>2 DEF Silent
      <3> QED
        BY <1>2, <3>1, <3>2, Zenon DEF HeldTogether, ReassemblyTypes
    <2> QED
      BY <2>1, <2>2, Zenon
  <1> QED
    BY <1>4, <1>5, <1>6, Zenon

LEMMA StepInv == ReassemblyInv /\ [ReassemblyNext]_reassemblyVars => ReassemblyInv'
  <1> SUFFICES ASSUME ReassemblyInv, [ReassemblyNext]_reassemblyVars PROVE ReassemblyInv'
    BY Zenon
  <1>1. ASSUME NEW p \in Procs, NEW a \in Addresses, Start(p, a) PROVE ReassemblyInv'
    BY <1>1, Zenon DEF Start, ReassemblyInv, ReassemblyTypes, SentOnce, HeldTogether
  <1>2. ASSUME NEW a \in Addresses, Rehome(a) PROVE ReassemblyInv'
    <2>1. ReassemblyTypes' /\ SentOnce'
      BY <1>2, Zenon DEF Rehome, ReassemblyInv, ReassemblyTypes, SentOnce
    <2>2. carried' \/ \A f \in FrameIDs : pending[f].got = {}
      BY <1>2, Zenon DEF Rehome, Busy, ReassemblyInv, ReassemblyTypes
    <2>3. HeldTogether'
      BY <1>2, <2>2, Zenon DEF Rehome, ReassemblyInv, HeldTogether
    <2> QED
      BY <2>1, <2>3, Zenon DEF ReassemblyInv
  <1>3. ASSUME TimePasses PROVE ReassemblyInv'
    BY <1>3 DEF TimePasses, ReassemblyInv, ReassemblyTypes, SentOnce, HeldTogether
  <1>4. CASE UNCHANGED reassemblyVars
    BY <1>4, Zenon DEF reassemblyVars, ReassemblyInv, ReassemblyTypes, SentOnce, HeldTogether
  <1> QED
    BY <1>1, <1>2, <1>3, <1>4, TransmitInv, HandleDataStep, HeartbeatInv, TickInv, Zenon DEF ReassemblyNext

-----------------------------------------------------------------------------
\* The abstract channel sees a frame sent ...
LEMMA TransmitSends ==
    ASSUME NEW p \in Procs, NEW len \in Lengths, TransmitFrame(p, len)
    PROVE  [Channel!Next]_(Channel!vars)
  <1> DEFINE new == Fragments(p, frameID[p] + 1, len)
  <1>1. UNCHANGED <<delivered, carried>>
    BY Zenon DEF TransmitFrame
  <1>2. traffic' = traffic \/ traffic' = traffic \cup new
    BY Zenon DEF TransmitFrame
  <1>3. \A m \in new : Fragments(m.proc, m.id, m.total) = new
    BY FragmentFacts
  <1>4. SentFrames' = SentFrames \/ SentFrames' = SentFrames \cup {new}
    <2>1. CASE traffic' = traffic
      BY <2>1, Zenon DEF SentFrames
    <2>2. CASE traffic' = traffic \cup new
      <3>1. SentFrames' = SentFrames \cup {Fragments(m.proc, m.id, m.total) : m \in new}
        BY <2>2, Zenon DEF SentFrames
      <3>2. {Fragments(m.proc, m.id, m.total) : m \in new} \subseteq {new}
        BY <1>3, Zenon
      <3> QED
        BY <3>1, <3>2, Zenon
    <2> QED
      BY <1>2, <2>1, <2>2, Zenon
  <1> QED
    BY <1>1, <1>4, Zenon DEF Channel!Next, Channel!Send, Channel!vars

\* ... or delivered, or nothing, with every step of the implementation.
LEMMA StepImplements == ReassemblyInv /\ [ReassemblyNext]_reassemblyVars => [Channel!Next]_(Channel!vars)
  <1> SUFFICES ASSUME ReassemblyInv, [ReassemblyNext]_reassemblyVars PROVE [Channel!Next]_(Channel!vars)
    BY Zenon
  <1>1. ASSUME NEW m \in traffic, HandleData(m) PROVE [Channel!Next]_(Channel!vars)
    <2>1. /\ delivered \subseteq delivered'
          /\ carried \/ delivered' = delivered
             \/ delivered' = delivered \cup {Fragments(m.proc, m.id, m.total)}
      BY <1>1, HandleDataStep, Zenon
    <2>2. traffic' = traffic /\ carried' = carried
      BY <1>1, Zenon DEF HandleData
    <2>3. SentFrames' = SentFrames /\ Fragments(m.proc, m.id, m.total) \in SentFrames
      BY <2>2, Zenon DEF SentFrames
    <2> QED
      BY <2>1, <2>2, <2>3, Zenon DEF Channel!Next, Channel!Deliver, Channel!Garble, Channel!vars
  <1>2. ASSUME NEW a \in Addresses, Rehome(a) PROVE [Channel!Next]_(Channel!vars)
    <2>1. UNCHANGED <<traffic, delivered>> /\ (carried' = carried \/ carried' = TRUE)
      BY <1>2, Zenon DEF Rehome, ReassemblyInv, ReassemblyTypes
    <2>2. SentFrames' = SentFrames
      BY <2>1, Zenon DEF SentFrames
    <2> QED
      BY <2>1, <2>2, Zenon DEF Channel!Next, Channel!Break, Channel!vars
  <1>3. ASSUME UNCHANGED <<traffic, delivered, carried>> PROVE [Channel!Next]_(Channel!vars)
    BY <1>3, Zenon DEF Channel!vars, SentFrames
  <1>4. CASE UNCHANGED reassemblyVars
    BY <1>3, <1>4, Zenon DEF reassemblyVars
  <1>5. CASE ReassemblyNext
    <2>1. ASSUME NEW p \in Procs, NEW a \in Addresses, Start(p, a)
          PROVE  UNCHANGED <<traffic, delivered, carried>>
      BY <2>1, Zenon DEF Start
    <2>2. ASSUME NEW p \in Procs, HandleHeartbeat(p)
          PROVE  UNCHANGED <<traffic, delivered, carried>>
      BY <2>2, Zenon DEF HandleHeartbeat
    <2>3. ASSUME ReassemblyTick \/ TimePasses PROVE UNCHANGED <<traffic, delivered, carried>>
      BY <2>3, Zenon DEF ReassemblyTick, TimePasses
    <2> QED
      BY <1>1, <1>2, <1>3, <1>5, <2>1, <2>2, <2>3, TransmitSends, Zenon DEF ReassemblyNext
  <1> QED
    BY <1>4, <1>5, Zenon

\* Every behaviour of the reassembly is one of the channel: only frames that
\* were sent are injected, whole, for any number of sender processes and any
\* loss, repetition, reordering, eviction, expiry and session timeout, as long
\* as fragments are not kept longer than sessions.
THEOREM Implements == ReassemblySpec => ImplementsChannel
  <1>1. ReassemblyInit => Channel!Init
    BY Zenon DEF ReassemblyInit, Channel!Init, SentFrames
  <1> QED
    BY <1>1, InitInv, StepInv, StepImplements, PTL DEF ReassemblySpec, ImplementsChannel, Channel!Spec

-----------------------------------------------------------------------------
(***************************************************************************)
(* The installation of the lifecycle binary, for any number of Pods of a   *)
(* host and any versions of their images.                                  *)
(*                                                                         *)
(* What is published is what its installer filled, as HolderOK has it: who *)
(* fills the cache holds the lock, so that nobody else stages a file or    *)
(* prunes the entry before it is opened.  InstallerOK says what is in an   *)
(* installer's hands at each step.                                         *)
(***************************************************************************)

\* What an installer of version v may have in its hands.
InstallSteps == {"idle", "clone", "verify", "lock", "recheck", "stage", "fill", "publish", "prune",
                 "fromCache", "copy", "finish", "links", "done"}
InstallerSet(v) == [pc : InstallSteps, ver : {v}, tmp : {Absent, Partial, v}, fd : {Absent, v},
                    dst : {Absent, v}, links : BOOLEAN]

InstallerOK(r, v) ==
    /\ r \in InstallerSet(v)
    /\ r.pc = "fromCache" => r.fd = v
    /\ r.pc = "finish" => r.tmp = v
    /\ r.pc \in {"links", "done"} => r.dst = v
    /\ r.pc = "done" => r.links

CacheForm(c) ==
    /\ c = [entries |-> c.entries, staged |-> c.staged, lock |-> c.lock, order |-> c.order, before |-> c.before]
    /\ c.entries = [v \in DOMAIN c.entries |-> c.entries[v]]

EntriesOK(c) == \A v \in DOMAIN c.entries : c.entries[v] \in {Absent, v, c.before[v]}

\* The lock is held by who fills the cache, and nobody else changes it.
Filling == {"recheck", "stage", "fill", "publish", "prune"}

HolderOK(i, r, c) ==
    /\ r.ver \in DOMAIN c.entries
    /\ r.pc \in Filling <=> c.lock = i
    /\ r.pc = "publish" => c.staged = r.ver
    /\ r.pc = "prune" => c.entries[r.ver] = r.ver

InstallInv ==
    /\ inst = [i \in DOMAIN inst |-> inst[i]] /\ 0 \notin DOMAIN inst
    /\ CacheForm(cache) /\ EntriesOK(cache)
    /\ \A i \in DOMAIN inst : InstallerOK(inst[i], inst[i].ver) /\ HolderOK(i, inst[i], cache)

-----------------------------------------------------------------------------
\* A step of an installer that leaves the cache and does not hold the lock.
LEMMA InstallerStep ==
    ASSUME InstallInv, NEW i \in DOMAIN inst, NEW r, InstallerOK(r, inst[i].ver),
           inst' = [inst EXCEPT ![i] = r], cache' = cache,
           inst[i].pc \notin Filling, r.pc \notin Filling
    PROVE  InstallInv'
  <1>1. r.ver = inst[i].ver
    BY Zenon DEF InstallerOK, InstallerSet
  <1>2. inst'[i] = r /\ \A k \in DOMAIN inst \ {i} : inst'[k] = inst[k]
    BY Zenon DEF InstallInv
  <1>3. DOMAIN inst' = DOMAIN inst /\ inst' = [k \in DOMAIN inst |-> inst'[k]]
    BY Zenon DEF InstallInv
  <1>4. HolderOK(i, r, cache)
    <2>1. cache.lock # i /\ inst[i].ver \in DOMAIN cache.entries
      BY Zenon DEF InstallInv, HolderOK
    <2>. QED
      BY <1>1, <2>1, Zenon DEF HolderOK, Filling
  <1>5. \A k \in DOMAIN inst : InstallerOK(inst'[k], inst'[k].ver) /\ HolderOK(k, inst'[k], cache')
    BY <1>1, <1>2, <1>4, Zenon DEF InstallInv
  <1>. QED
    BY <1>3, <1>5, Zenon DEF InstallInv

\* A step of the holder of the lock, or one that takes it.
LEMMA HolderStep ==
    ASSUME InstallInv, NEW i \in DOMAIN inst, NEW r, NEW c, InstallerOK(r, inst[i].ver),
           inst' = [inst EXCEPT ![i] = r], cache' = c,
           CacheForm(c), EntriesOK(c), DOMAIN c.entries = DOMAIN cache.entries,
           HolderOK(i, r, c), cache.lock \in {0, i}, c.lock \in {0, i}
    PROVE  InstallInv'
  <1>1. r.ver = inst[i].ver
    BY Zenon DEF InstallerOK, InstallerSet
  <1>2. inst'[i] = r /\ \A k \in DOMAIN inst \ {i} : inst'[k] = inst[k]
    BY Zenon DEF InstallInv
  <1>3. DOMAIN inst' = DOMAIN inst /\ inst' = [k \in DOMAIN inst |-> inst'[k]]
    BY Zenon DEF InstallInv
  <1>4. ASSUME NEW k \in DOMAIN inst \ {i} PROVE HolderOK(k, inst[k], c)
    <2>1. k # 0 /\ k # i
      BY <1>4, Zenon DEF InstallInv
    <2>2. inst[k].pc \notin Filling /\ inst[k].ver \in DOMAIN c.entries
      BY <2>1, <1>4, Zenon DEF InstallInv, HolderOK
    <2>. QED
      BY <2>1, <2>2, Zenon DEF HolderOK, Filling
  <1>5. \A k \in DOMAIN inst : InstallerOK(inst'[k], inst'[k].ver) /\ HolderOK(k, inst'[k], cache')
    BY <1>1, <1>2, <1>4, Zenon DEF InstallInv
  <1>. QED
    BY <1>3, <1>5, Zenon DEF InstallInv

LEMMA InstallerFields ==
    ASSUME NEW v, NEW r, InstallerOK(r, v)
    PROVE  /\ r.ver = v /\ r.pc \in InstallSteps /\ r.tmp \in {Absent, Partial, v} /\ r.fd \in {Absent, v}
           /\ r.dst \in {Absent, v} /\ r.links \in BOOLEAN
  BY Zenon DEF InstallerOK, InstallerSet

\* Only the installer changes, and does not hold the lock.
LEMMA PrivateSteps ==
    ASSUME InstallInv, NEW i \in DOMAIN inst, NEW reflink,
           \/ BeginInstall(i) \/ CloneLifecycleBinary(i, reflink) \/ VerifyCache(i)
           \/ CloneFromCache(i, reflink) \/ CopyBinary(i) \/ FinishInstall(i) \/ LinkRuntimeCLI(i)
    PROVE  InstallInv'
  <1> DEFINE s == inst[i]
             v == inst[i].ver
  <1>1. InstallerOK(s, v)
    BY Zenon DEF InstallInv
  <1>3. s.ver = v /\ s.fd \in {Absent, v}
    BY <1>1, InstallerFields, Zenon
  <1>4. ASSUME NEW r, InstallerOK(r, v), r.pc \notin Filling, s.pc \notin Filling, Moves(i, r), cache' = cache
        PROVE  InstallInv'
    BY <1>4, InstallerStep, Zenon DEF Moves
  <1>5. CASE BeginInstall(i)
    <2>1. s.pc = "idle"
      BY <1>5, Zenon DEF BeginInstall
    <2>2. [s EXCEPT !.pc = "clone", !.tmp = Partial].pc = "clone"
      BY <1>1, Zenon DEF InstallerOK, InstallerSet
    <2>3. InstallerOK([s EXCEPT !.pc = "clone", !.tmp = Partial], v)
      BY <1>1, <1>3, <2>1, Zenon DEF InstallerOK, InstallerSet, InstallSteps
    <2>. QED
      BY <1>3, <1>4, <1>5, <2>1, <2>2, <2>3, Zenon DEF BeginInstall, Filling
  <1>6. CASE CloneLifecycleBinary(i, reflink)
    <2>1. s.pc = "clone"
      BY <1>6, Zenon DEF CloneLifecycleBinary
    <2>2. CASE reflink = "direct"
      <3>1. [s EXCEPT !.pc = "finish", !.tmp = s.ver].pc = "finish"
        BY <1>1, Zenon DEF InstallerOK, InstallerSet
      <3>2. InstallerOK([s EXCEPT !.pc = "finish", !.tmp = s.ver], v)
        BY <1>1, <1>3, <2>1, Zenon DEF InstallerOK, InstallerSet, InstallSteps
      <3>. QED
        BY <1>4, <1>6, <2>1, <2>2, <3>1, <3>2, Zenon DEF CloneLifecycleBinary, Filling
    <2>3. CASE reflink # "direct"
      <3>1. [s EXCEPT !.pc = "verify"].pc = "verify"
        BY <1>1, Zenon DEF InstallerOK, InstallerSet
      <3>2. InstallerOK([s EXCEPT !.pc = "verify"], v)
        BY <1>1, <1>3, <2>1, Zenon DEF InstallerOK, InstallerSet, InstallSteps
      <3>. QED
        BY <1>4, <1>6, <2>1, <2>3, <3>1, <3>2, Zenon DEF CloneLifecycleBinary, Go, Filling
    <2>. QED
      BY <2>2, <2>3, Zenon
  <1>7. CASE VerifyCache(i)
    <2> DEFINE found == VerifiedLifecycleCache(s.ver)
               pc == IF found # Absent THEN "fromCache"
                     ELSE IF cache.entries[s.ver] = Unsafe THEN "copy" ELSE "lock"
    <2>1. s.pc = "verify" /\ Moves(i, [s EXCEPT !.fd = found, !.pc = pc]) /\ cache' = cache
      BY <1>7, Zenon DEF VerifyCache
    <2>2. found \in {Absent, v} /\ (found # Absent => found = v)
      BY <1>3, Zenon DEF VerifiedLifecycleCache
    <2>3. pc \in {"fromCache", "copy", "lock"} /\ (pc = "fromCache" => found = v)
      BY <2>2, Zenon
    <2>. HIDE DEF found, pc
    <2>4. [s EXCEPT !.fd = found, !.pc = pc].pc = pc
      BY <1>1, Zenon DEF InstallerOK, InstallerSet
    <2>5. pc \in InstallSteps /\ pc \notin Filling /\ pc \notin {"finish", "links", "done"}
      BY <2>3, Zenon DEF InstallSteps, Filling
    <2>6. InstallerOK([s EXCEPT !.fd = found, !.pc = pc], v)
      BY <1>1, <1>3, <2>2, <2>3, <2>5, Zenon DEF InstallerOK, InstallerSet
    <2>. QED
      BY <1>4, <2>1, <2>4, <2>5, <2>6, Zenon DEF Filling
  <1>8. CASE CloneFromCache(i, reflink)
    <2>1. s.pc = "fromCache" /\ s.fd = v
      BY <1>1, <1>8, Zenon DEF CloneFromCache, InstallerOK
    <2>2. CASE reflink = "cache"
      <3>1. [s EXCEPT !.pc = "finish", !.tmp = s.fd].pc = "finish"
        BY <1>1, Zenon DEF InstallerOK, InstallerSet
      <3>2. InstallerOK([s EXCEPT !.pc = "finish", !.tmp = s.fd], v)
        BY <1>1, <1>3, <2>1, Zenon DEF InstallerOK, InstallerSet, InstallSteps
      <3>. QED
        BY <1>4, <1>8, <2>1, <2>2, <3>1, <3>2, Zenon DEF CloneFromCache, Filling
    <2>3. CASE reflink # "cache"
      <3>1. [s EXCEPT !.pc = "copy"].pc = "copy"
        BY <1>1, Zenon DEF InstallerOK, InstallerSet
      <3>2. InstallerOK([s EXCEPT !.pc = "copy"], v)
        BY <1>1, <1>3, <2>1, Zenon DEF InstallerOK, InstallerSet, InstallSteps
      <3>. QED
        BY <1>4, <1>8, <2>1, <2>3, <3>1, <3>2, Zenon DEF CloneFromCache, Go, Filling
    <2>. QED
      BY <2>2, <2>3, Zenon
  <1>9. CASE CopyBinary(i)
    <2>1. s.pc = "copy"
      BY <1>9, Zenon DEF CopyBinary
    <2>2. [s EXCEPT !.pc = "finish", !.tmp = s.ver].pc = "finish"
      BY <1>1, Zenon DEF InstallerOK, InstallerSet
    <2>3. InstallerOK([s EXCEPT !.pc = "finish", !.tmp = s.ver], v)
      BY <1>1, <1>3, <2>1, Zenon DEF InstallerOK, InstallerSet, InstallSteps
    <2>. QED
      BY <1>3, <1>4, <1>9, <2>1, <2>2, <2>3, Zenon DEF CopyBinary, Filling
  <1>10. CASE FinishInstall(i)
    <2>1. s.pc = "finish"
      BY <1>10, Zenon DEF FinishInstall
    <2>2. [s EXCEPT !.pc = "links", !.dst = s.tmp, !.tmp = Absent, !.fd = Absent].pc = "links"
      BY <1>1, Zenon DEF InstallerOK, InstallerSet
    <2>3. InstallerOK([s EXCEPT !.pc = "links", !.dst = s.tmp, !.tmp = Absent, !.fd = Absent], v)
      BY <1>1, <1>3, <2>1, Zenon DEF InstallerOK, InstallerSet, InstallSteps
    <2>. QED
      BY <1>3, <1>4, <1>10, <2>1, <2>2, <2>3, Zenon DEF FinishInstall, Filling
  <1>11. CASE LinkRuntimeCLI(i)
    <2>1. s.pc = "links"
      BY <1>11, Zenon DEF LinkRuntimeCLI
    <2>2. [s EXCEPT !.pc = "done", !.links = TRUE].pc = "done"
      BY <1>1, Zenon DEF InstallerOK, InstallerSet
    <2>3. InstallerOK([s EXCEPT !.pc = "done", !.links = TRUE], v)
      BY <1>1, <1>3, <2>1, Zenon DEF InstallerOK, InstallerSet, InstallSteps
    <2>. QED
      BY <1>3, <1>4, <1>11, <2>1, <2>2, <2>3, Zenon DEF LinkRuntimeCLI, Filling
  <1>. QED
    BY <1>5, <1>6, <1>7, <1>8, <1>9, <1>10, <1>11, Zenon

\* The cache changes in one of its fields.
LEMMA CacheFields ==
    ASSUME CacheForm(cache), NEW x
    PROVE  /\ CacheForm([cache EXCEPT !.lock = x])
           /\ [cache EXCEPT !.lock = x].lock = x /\ [cache EXCEPT !.lock = x].staged = cache.staged
           /\ [cache EXCEPT !.lock = x].entries = cache.entries
           /\ [cache EXCEPT !.lock = x].before = cache.before
           /\ CacheForm([cache EXCEPT !.staged = x])
           /\ [cache EXCEPT !.staged = x].staged = x /\ [cache EXCEPT !.staged = x].lock = cache.lock
           /\ [cache EXCEPT !.staged = x].entries = cache.entries
           /\ [cache EXCEPT !.staged = x].before = cache.before
  <1> DEFINE r == [entries |-> cache.entries, staged |-> cache.staged, lock |-> cache.lock,
                   order |-> cache.order, before |-> cache.before]
             locked == [entries |-> cache.entries, staged |-> cache.staged, lock |-> x,
                        order |-> cache.order, before |-> cache.before]
             staged == [entries |-> cache.entries, staged |-> x, lock |-> cache.lock,
                        order |-> cache.order, before |-> cache.before]
  <1>1. cache = r /\ cache.entries = [v \in DOMAIN cache.entries |-> cache.entries[v]]
    BY Zenon DEF CacheForm
  <1>2. [r EXCEPT !.lock = x] = locked /\ [r EXCEPT !.staged = x] = staged
    OBVIOUS
  <1>3. [cache EXCEPT !.lock = x] = locked /\ [cache EXCEPT !.staged = x] = staged
    BY <1>1, <1>2, Zenon
  <1>. QED
    BY <1>1, <1>3, Zenon DEF CacheForm

\* The lock is free, or its holder's.
LEMMA Holder ==
    ASSUME InstallInv, NEW i \in DOMAIN inst
    PROVE  /\ inst[i].pc \in Filling => cache.lock = i
           /\ cache.lock = i => inst[i].pc \in Filling
           /\ InstallerOK(inst[i], inst[i].ver) /\ inst[i].ver \in DOMAIN cache.entries /\ i # 0
           /\ CacheForm(cache) /\ EntriesOK(cache)
  BY Zenon DEF HolderOK, InstallInv

LEMMA LockSteps ==
    ASSUME InstallInv, NEW i \in DOMAIN inst, LockCache(i) \/ RecheckCache(i)
    PROVE  InstallInv'
  <1> DEFINE s == inst[i]
             v == inst[i].ver
  <1>1. InstallerOK(s, v) /\ s.ver = v /\ CacheForm(cache) /\ i # 0 /\ v \in DOMAIN cache.entries
    BY Holder, Zenon
  <1>2. CASE LockCache(i)
    <2>1. s.pc = "lock" /\ s.pc \notin Filling
      BY <1>2, Zenon DEF LockCache, Filling
    <2>2. CASE cache.lock = 0
      <3> DEFINE r == [s EXCEPT !.pc = "recheck"]
                 c == [cache EXCEPT !.lock = i]
      <3>1. inst' = [inst EXCEPT ![i] = r]
        BY <1>2, <2>2, Zenon DEF LockCache, Go, Moves
      <3>2. cache' = c
        BY <1>2, <2>2, Zenon DEF LockCache
      <3>3. r.pc = "recheck" /\ r.ver = v
        BY <1>1, Zenon DEF InstallerOK, InstallerSet
      <3>4. InstallerOK(r, v)
        BY <1>1, <2>1, Zenon DEF InstallerOK, InstallerSet, InstallSteps
      <3>5. CacheForm(c) /\ c.lock = i /\ c.entries = cache.entries /\ c.before = cache.before
        BY <1>1, CacheFields, Zenon
      <3>. HIDE DEF r, c
      <3>6. HolderOK(i, r, c)
        BY <1>1, <3>3, <3>5, Zenon DEF HolderOK, Filling
      <3>7. EntriesOK(c)
        BY <3>5, Holder, Zenon DEF EntriesOK
      <3>. QED
        BY <2>2, <3>1, <3>2, <3>4, <3>5, <3>6, <3>7, HolderStep, Zenon
    <2>3. CASE cache.lock # 0
      <3> DEFINE r == [s EXCEPT !.pc = "copy"]
      <3>1. inst' = [inst EXCEPT ![i] = r]
        BY <1>2, <2>3, Zenon DEF LockCache, Go, Moves
      <3>2. cache' = cache
        <4>1. cache' = [cache EXCEPT !.lock = cache.lock]
          BY <1>2, <2>3, Zenon DEF LockCache
        <4>. QED
          BY <4>1, <1>1 DEF CacheForm
      <3>3. r.pc = "copy"
        BY <1>1, Zenon DEF InstallerOK, InstallerSet
      <3>4. InstallerOK(r, v)
        BY <1>1, <2>1, Zenon DEF InstallerOK, InstallerSet, InstallSteps
      <3>5. r.pc \notin Filling
        BY <3>3, Zenon DEF Filling
      <3>. HIDE DEF r
      <3>. QED
        BY <2>1, <3>1, <3>2, <3>4, <3>5, InstallerStep, Zenon
    <2>. QED
      BY <2>2, <2>3, Zenon
  <1>3. CASE RecheckCache(i)
    <2> DEFINE found == VerifiedLifecycleCache(s.ver)
               unsafe == cache.entries[s.ver] = Unsafe
               pc == IF found # Absent THEN "fromCache" ELSE IF unsafe THEN "copy" ELSE "stage"
               lock == IF found # Absent \/ unsafe THEN 0 ELSE cache.lock
    <2>1. /\ s.pc = "recheck" /\ inst' = [inst EXCEPT ![i] = [s EXCEPT !.fd = found, !.pc = pc]]
          /\ cache' = [cache EXCEPT !.lock = lock]
      BY <1>3, Zenon DEF RecheckCache, Moves
    <2>2. found \in {Absent, v} /\ (found # Absent => found = v)
      BY <1>1, Zenon DEF VerifiedLifecycleCache
    <2>3. cache.lock = i
      BY <2>1, Holder, Zenon DEF Filling
    <2>4. /\ pc \in {"fromCache", "copy", "stage"} /\ (pc = "fromCache" => found = v)
          /\ pc = "stage" <=> lock = i
          /\ lock \in {0, i}
      BY <1>1, <2>2, <2>3, Zenon
    <2>. HIDE DEF found, unsafe, pc, lock
    <2> DEFINE r == [s EXCEPT !.fd = found, !.pc = pc]
               c == [cache EXCEPT !.lock = lock]
    <2>5. r.pc = pc /\ r.ver = v
      BY <1>1, Zenon DEF InstallerOK, InstallerSet
    <2>6. pc \in InstallSteps /\ pc \notin {"finish", "links", "done", "publish", "prune"}
      BY <2>4, Zenon DEF InstallSteps
    <2>7. InstallerOK(r, v)
      BY <1>1, <2>2, <2>4, <2>6, Zenon DEF InstallerOK, InstallerSet
    <2>8. CacheForm(c) /\ c.lock = lock /\ c.entries = cache.entries /\ c.before = cache.before
      BY <1>1, CacheFields, Zenon
    <2>9. inst' = [inst EXCEPT ![i] = r] /\ cache' = c
      BY <2>1, Zenon
    <2>. HIDE DEF r, c
    <2>10. HolderOK(i, r, c)
      BY <1>1, <2>4, <2>5, <2>6, <2>8, Zenon DEF HolderOK, Filling
    <2>11. EntriesOK(c)
      BY <2>8, Holder, Zenon DEF EntriesOK
    <2>12. c.lock \in {0, i} /\ cache.lock \in {0, i}
      BY <2>3, <2>4, <2>8, Zenon
    <2>. QED
      BY <2>7, <2>8, <2>9, <2>10, <2>11, <2>12, HolderStep, Zenon
  <1>. QED
    BY <1>2, <1>3, Zenon

\* The holder stages content: a partial binary, or what its image has.
Stages(i, pc, x) ==
    /\ pc \in {"fill", "publish"} /\ inst[i].pc \in {"stage", "fill"}
    /\ inst' = [inst EXCEPT ![i] = [inst[i] EXCEPT !.pc = pc]]
    /\ cache' = [cache EXCEPT !.staged = x] /\ (pc = "publish" => x = inst[i].ver)

LEMMA HolderStages ==
    ASSUME InstallInv, NEW i \in DOMAIN inst, NEW pc, NEW x, Stages(i, pc, x)
    PROVE  InstallInv'
  <1> DEFINE s == inst[i]
             v == inst[i].ver
  <1>1. InstallerOK(s, v) /\ s.ver = v /\ CacheForm(cache) /\ i # 0 /\ v \in DOMAIN cache.entries
    BY Holder, Zenon
  <1> DEFINE r == [s EXCEPT !.pc = pc]
             c == [cache EXCEPT !.staged = x]
  <1>2. cache.lock = i
    BY Holder, Zenon DEF Filling, Stages
  <1>3. r.pc = pc /\ r.ver = v
    BY <1>1, Zenon DEF InstallerOK, InstallerSet
  <1>4. pc \in InstallSteps /\ pc \notin {"fromCache", "finish", "links", "done", "prune"} /\ pc \in Filling
    BY Zenon DEF InstallSteps, Filling, Stages
  <1>5. InstallerOK(r, v)
    BY <1>1, <1>4, Zenon DEF InstallerOK, InstallerSet
  <1>6. CacheForm(c) /\ c.lock = cache.lock /\ c.entries = cache.entries /\ c.before = cache.before /\ c.staged = x
    BY <1>1, CacheFields, Zenon
  <1>7. inst' = [inst EXCEPT ![i] = r] /\ cache' = c /\ (pc = "publish" => x = v)
    BY Zenon DEF Stages
  <1>. HIDE DEF r, c
  <1>8. HolderOK(i, r, c)
    BY <1>1, <1>2, <1>3, <1>4, <1>6, <1>7, Zenon DEF HolderOK
  <1>9. (EntriesOK(c)) /\ c.lock \in {0, i} /\ cache.lock \in {0, i}
    BY <1>2, <1>6, Holder, Zenon DEF EntriesOK
  <1>. QED
    BY <1>5, <1>6, <1>7, <1>8, <1>9, HolderStep, Zenon

\* The holder fills the cache.
LEMMA FillSteps ==
    ASSUME InstallInv, NEW i \in DOMAIN inst, StageCache(i) \/ FillCache(i)
    PROVE  InstallInv'
  <1>1. CASE StageCache(i)
    <2>1. "fill" # "publish"
      BY SMT
    <2>2. Stages(i, "fill", Partial)
      BY <1>1, <2>1, Zenon DEF StageCache, Go, Moves, Stages
    <2> QED
      BY <2>2, HolderStages, Zenon
  <1>2. CASE FillCache(i)
    <2>1. Stages(i, "publish", inst[i].ver)
      BY <1>2, Zenon DEF FillCache, Go, Moves, Stages
    <2> QED
      BY <2>1, HolderStages, Zenon
  <1> QED
    BY <1>1, <1>2, Zenon

\* The holder publishes what it filled, and prunes what is older.
LEMMA PublishStep ==
    ASSUME InstallInv, NEW i \in DOMAIN inst, PublishCache(i)
    PROVE  InstallInv'
  <1> DEFINE s == inst[i]
             v == inst[i].ver
             e == [cache.entries EXCEPT ![v] = cache.staged]
             order == Append(SelectSeq(cache.order, LAMBDA u : u # v), v)
             r == [s EXCEPT !.pc = "prune"]
             c == [entries |-> e, staged |-> Absent, lock |-> cache.lock, order |-> order, before |-> cache.before]
  <1>1. InstallerOK(s, v) /\ CacheForm(cache) /\ EntriesOK(cache) /\ v \in DOMAIN cache.entries
    BY Holder, Zenon
  <1>2. s.pc = "publish" /\ inst' = [inst EXCEPT ![i] = r]
    BY Zenon DEF PublishCache, Go, Moves
  <1>3. cache.lock = i /\ cache.staged = v
    BY <1>2, Holder, Zenon DEF Filling, InstallInv, HolderOK
  <1>4. cache' = c
    <2>1. cache' = [cache EXCEPT !.entries = e, !.staged = Absent, !.order = order]
      BY DEF PublishCache
    <2>2. cache = [entries |-> cache.entries, staged |-> cache.staged, lock |-> cache.lock,
                   order |-> cache.order, before |-> cache.before]
      BY <1>1, Zenon DEF CacheForm
    <2>. HIDE DEF e, order
    <2>. QED
      BY <2>1, <2>2, Zenon
  <1>5. DOMAIN e = DOMAIN cache.entries /\ e[v] = v /\ \A u \in DOMAIN cache.entries \ {v} : e[u] = cache.entries[u]
    BY <1>1, <1>3, Zenon
  <1>6. e = [u \in DOMAIN e |-> e[u]]
    BY Zenon
  <1>7. r.pc = "prune" /\ r.ver = v
    BY <1>1, Zenon DEF InstallerOK, InstallerSet
  <1>8. InstallerOK(r, v)
    BY <1>1, <1>2, Zenon DEF InstallerOK, InstallerSet, InstallSteps
  <1>. HIDE DEF e, order, r
  <1>9. c.entries = e /\ c.staged = Absent /\ c.lock = i /\ c.before = cache.before
    BY <1>3, Zenon
  <1>10. CacheForm(c)
    BY <1>6, Zenon DEF CacheForm
  <1>. HIDE DEF c
  <1>11. EntriesOK(c)
    BY <1>1, <1>5, <1>9, Zenon DEF EntriesOK
  <1>12. HolderOK(i, r, c)
    BY <1>1, <1>5, <1>7, <1>9, Zenon DEF HolderOK, Filling
  <1>. QED
    BY <1>2, <1>3, <1>4, <1>5, <1>8, <1>9, <1>10, <1>11, <1>12, HolderStep, Zenon

LEMMA PruneStep ==
    ASSUME InstallInv, NEW i \in DOMAIN inst, PruneCache(i)
    PROVE  InstallInv'
  <1> DEFINE s == inst[i]
             v == inst[i].ver
             others == SelectSeq(cache.order, LAMBDA u : u # v)
             kept == { others[k] : k \in { k \in DOMAIN others : k > Len(others) - (KeptVersions - 1) } }
             e == [u \in DOMAIN cache.entries |->
                     IF u = v \/ u \in kept \/ cache.entries[u] = Unsafe THEN cache.entries[u] ELSE Absent]
             order == SelectSeq(cache.order, LAMBDA u : u = v \/ u \in kept)
             r == [s EXCEPT !.pc = "fromCache", !.fd = e[v]]
             p == [entries |-> e, staged |-> cache.staged, lock |-> cache.lock, order |-> order,
                   before |-> cache.before]
             c == [entries |-> e, staged |-> Absent, lock |-> 0, order |-> order, before |-> cache.before]
  <1>1. InstallerOK(s, v) /\ CacheForm(cache) /\ EntriesOK(cache) /\ v \in DOMAIN cache.entries /\ i # 0
    BY Holder, Zenon
  <1>2. s.pc = "prune"
    BY Zenon DEF PruneCache
  <1>3. cache.lock = i /\ cache.entries[v] = v
    BY <1>2, Holder, Zenon DEF Filling, InstallInv, HolderOK
  <1>4. PruneLifecycleCache(v) = p
    <2>1. PruneLifecycleCache(v) = [cache EXCEPT !.entries = e, !.order = order]
      BY Zenon DEF PruneLifecycleCache
    <2>2. cache = [entries |-> cache.entries, staged |-> cache.staged, lock |-> cache.lock,
                   order |-> cache.order, before |-> cache.before]
      BY <1>1, Zenon DEF CacheForm
    <2>. HIDE DEF e, order
    <2>. QED
      BY <2>1, <2>2, Zenon
  <1>5. /\ DOMAIN e = DOMAIN cache.entries /\ e[v] = v
        /\ \A u \in DOMAIN cache.entries : e[u] \in {Absent, cache.entries[u]}
    BY <1>1, <1>3, Zenon
  <1>6. e = [u \in DOMAIN e |-> e[u]]
    BY Zenon
  <1>. HIDE DEF e, order
  <1>7. inst' = [inst EXCEPT ![i] = r] /\ cache' = c
    <2> DEFINE q == PruneLifecycleCache(v)
    <2>1. /\ inst' = [inst EXCEPT ![i] = [s EXCEPT !.pc = "fromCache", !.fd = q.entries[v]]]
          /\ cache' = [q EXCEPT !.staged = Absent, !.lock = 0]
      BY Zenon DEF PruneCache, Moves
    <2>2. q = p
      BY <1>4, Zenon
    <2>. HIDE DEF q
    <2>3. q.entries = e /\ q.order = order /\ q.before = cache.before
      BY <2>2, Zenon
    <2>4. q = [entries |-> q.entries, staged |-> q.staged, lock |-> q.lock, order |-> q.order, before |-> q.before]
      BY <2>2, Zenon
    <2>5. cache' = [entries |-> q.entries, staged |-> Absent, lock |-> 0, order |-> q.order, before |-> q.before]
      <3>1. cache' = [q EXCEPT !.staged = Absent, !.lock = 0]
        BY <2>1, Zenon
      <3>. QED
        BY <2>4, <3>1, Zenon
    <2>. QED
      BY <2>1, <2>3, <2>5, Zenon
  <1>8. r.pc = "fromCache" /\ r.ver = v
    BY <1>1, Zenon DEF InstallerOK, InstallerSet
  <1>9. InstallerOK(r, v)
    BY <1>1, <1>2, <1>5, Zenon DEF InstallerOK, InstallerSet, InstallSteps
  <1>. HIDE DEF r
  <1>10. c.entries = e /\ c.lock = 0 /\ c.before = cache.before /\ CacheForm(c)
    BY <1>6, Zenon DEF CacheForm
  <1>. HIDE DEF c
  <1>11. EntriesOK(c)
    BY <1>1, <1>5, <1>10, Zenon DEF EntriesOK
  <1>12. HolderOK(i, r, c)
    BY <1>1, <1>5, <1>8, <1>10, Zenon DEF HolderOK, Filling
  <1>. QED
    BY <1>3, <1>5, <1>7, <1>9, <1>10, <1>11, <1>12, HolderStep, Zenon

\* A Pod that is killed or replaced gives up the lock, and nothing else changes.
LEMMA LeaveStep ==
    ASSUME InstallInv, NEW i \in DOMAIN inst, Kill(i) \/ Recreate(i)
    PROVE  InstallInv'
  <1> DEFINE s == inst[i]
             v == inst[i].ver
             lock == IF cache.lock = i THEN 0 ELSE cache.lock
             c == [cache EXCEPT !.lock = lock]
  <1>1. InstallerOK(s, v) /\ CacheForm(cache) /\ EntriesOK(cache) /\ v \in DOMAIN cache.entries /\ i # 0
    BY Holder, Zenon
  <1>2. cache' = c
    BY Zenon DEF Kill, Recreate, Unlocked
  <1>3. PICK r : inst' = [inst EXCEPT ![i] = r] /\ InstallerOK(r, v) /\ r.pc = "idle" /\ r.ver = v
    <2>1. CASE Kill(i)
      <3> DEFINE k == [s EXCEPT !.pc = "idle", !.tmp = Absent, !.fd = Absent]
      <3>1. k.pc = "idle" /\ k.ver = v
        BY <1>1, Zenon DEF InstallerOK, InstallerSet
      <3>2. InstallerOK(k, v)
        BY <1>1, Zenon DEF InstallerOK, InstallerSet, InstallSteps
      <3>. QED
        BY <2>1, <3>1, <3>2, Zenon DEF Kill, Moves
    <2>2. CASE Recreate(i)
      <3>1. NewInstaller(v).pc = "idle" /\ NewInstaller(v).ver = v /\ InstallerOK(NewInstaller(v), v)
        BY Zenon DEF NewInstaller, InstallerOK, InstallerSet, InstallSteps
      <3>. QED
        BY <2>2, <3>1, Zenon DEF Recreate, Moves
    <2>. QED
      BY <2>1, <2>2, Zenon
  <1>4. CASE cache.lock = i
    <2>1. CacheForm(c) /\ c.lock = 0 /\ c.entries = cache.entries /\ c.before = cache.before
      BY <1>1, <1>4, CacheFields, Zenon
    <2>. HIDE DEF c
    <2>2. HolderOK(i, r, c) /\ EntriesOK(c)
      BY <1>1, <1>3, <2>1, Zenon DEF HolderOK, EntriesOK, Filling
    <2>. QED
      BY <1>2, <1>3, <1>4, <2>1, <2>2, HolderStep, Zenon
  <1>5. CASE cache.lock # i
    <2>1. cache' = cache
      <3>1. c = [cache EXCEPT !.lock = cache.lock]
        BY <1>5, Zenon
      <3>. QED
        BY <1>1, <1>2, <3>1 DEF CacheForm
    <2>2. s.pc \notin Filling /\ r.pc \notin Filling
      BY <1>3, <1>5, Holder, Zenon DEF Filling
    <2>. QED
      BY <1>3, <2>1, <2>2, InstallerStep, Zenon
  <1>. QED
    BY <1>4, <1>5, Zenon

LEMMA InitInstall ==
    ASSUME NEW vers \in Seq(Nat \ {0}), NEW before \in [Range(vers) -> Int], NEW staged, NEW order,
           InstallInit(vers, before, staged, order)
    PROVE  InstallInv
  <1>1. 0 \notin DOMAIN vers
    OBVIOUS
  <1>2. \A i \in DOMAIN vers : vers[i] \in Range(vers)
    BY Zenon DEF Range
  <1>3. inst = [i \in DOMAIN vers |-> NewInstaller(vers[i])] /\ DOMAIN inst = DOMAIN vers
    BY Zenon DEF InstallInit
  <1>4. ASSUME NEW i \in DOMAIN vers
        PROVE  InstallerOK(inst[i], inst[i].ver) /\ inst[i].pc = "idle" /\ inst[i].ver = vers[i]
    BY <1>3, Zenon DEF NewInstaller, InstallerOK, InstallerSet, InstallSteps
  <1>5. cache = [entries |-> before, staged |-> staged, lock |-> 0, order |-> order, before |-> before]
    BY Zenon DEF InstallInit
  <1>6. cache.entries = before /\ cache.before = before /\ cache.lock = 0 /\ CacheForm(cache)
    BY <1>5, Zenon DEF CacheForm
  <1>7. EntriesOK(cache)
    BY <1>6, Zenon DEF EntriesOK
  <1>8. \A i \in DOMAIN vers : HolderOK(i, inst[i], cache)
    BY <1>1, <1>2, <1>4, <1>6, Zenon DEF HolderOK, Filling
  <1>. QED
    BY <1>1, <1>3, <1>4, <1>6, <1>7, <1>8, Zenon DEF InstallInv

\* However many Pods of a host install their lifecycle binaries at once, of
\* whatever versions, through crashes, replacements and a cache damaged before,
\* no Pod gets a binary that is not the whole binary of its image, and no entry of
\* the cache is damaged (cloneLifecycleBinary, populateLifecycleCache,
\* publishLifecycleCache and pruneLifecycleCache).
THEOREM BinariesStayIntact == InstallSpec => []BinaryIntact
  <1>1. InstallInv /\ [InstallNext]_<<inst, cache>> => InstallInv'
    <2> SUFFICES ASSUME InstallInv, [InstallNext]_<<inst, cache>> PROVE InstallInv'
      OBVIOUS
    <2>1. CASE UNCHANGED <<inst, cache>>
      BY <2>1, Zenon DEF InstallInv
    <2>2. CASE InstallNext
      <3>1. PICK i \in DOMAIN inst : \/ \E reflink \in {"direct", "cache", "none"} : InstallStep(i, reflink)
                                    \/ Kill(i) \/ Recreate(i)
        BY <2>2, Zenon DEF InstallNext
      <3>2. CASE Kill(i) \/ Recreate(i)
        BY <3>2, LeaveStep, Zenon
      <3>3. CASE \E reflink \in {"direct", "cache", "none"} : InstallStep(i, reflink)
        BY <3>3, PrivateSteps, LockSteps, FillSteps, PublishStep, PruneStep, Zenon DEF InstallStep
      <3>. QED
        BY <3>1, <3>2, <3>3, Zenon
    <2>. QED
      BY <2>1, <2>2, Zenon
  <1>2. InstallInv => BinaryIntact
    <2> SUFFICES ASSUME InstallInv PROVE BinaryIntact
      OBVIOUS
    <2>1. ASSUME NEW i \in DOMAIN inst
          PROVE  /\ inst[i].dst \in {Absent, inst[i].ver} /\ inst[i].fd \in {Absent, inst[i].ver}
                 /\ inst[i].pc = "done" => inst[i].dst = inst[i].ver /\ inst[i].links
      <3>1. InstallerOK(inst[i], inst[i].ver)
        BY Zenon DEF InstallInv
      <3>. QED
        BY <3>1, InstallerFields, Zenon DEF InstallerOK
    <2>. QED
      BY <2>1, Zenon DEF BinaryIntact, InstallInv, EntriesOK
  <1>3. (\E vers \in Seq(Nat \ {0}) :
         \E before \in [Range(vers) -> Int], staged \in Int, order \in Seq(Nat \ {0}) :
            InstallInit(vers, before, staged, order)) => InstallInv
    BY InitInstall, Zenon
  <1>. QED
    BY <1>1, <1>2, <1>3, PTL DEF InstallSpec
=============================================================================
