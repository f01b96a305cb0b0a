--------------------------- MODULE WireReassembly ---------------------------
(***************************************************************************)
(* The data path of one link of the fabric wire: the far Pod's sidecar     *)
(* processes split frames into fragments (transmitFrame,                   *)
(* splitFabricWireFrame), datagrams are lost, duplicated, delayed and      *)
(* reordered, and the receiver (handleData, wireReassembler) puts frames   *)
(* together again, per link, from the fragments its peer session accepts.  *)
(*                                                                         *)
(* A payload is named by where it comes from: fragment index of frame id   *)
(* of process p.  Any fragment that was sent may arrive, at any time and    *)
(* any number of times; a lost datagram is one that never does.            *)
(***************************************************************************)
EXTENDS Integers, FiniteSets, Functions

CONSTANTS
    Addresses,      \* addresses the far Pods have
    Procs,          \* sidecar processes on them
    NoAddr, NoProc, \* no address, no process
    Gen,            \* Gen[p]: the generation of p, never drawn twice
    Payload,        \* Payload[p]: the fragment payload size of p
    Lengths,        \* lengths of the frames the devices send
    MaxFragments,   \* fabricWireMaximumFragments
    MaxDeliver,     \* the link's MTU plus fabricWireFrameHeadroom
    FrameLimit,     \* fabricWireReassemblyFrameLimit
    Expiry,         \* fabricWireReassemblyExpiry
    SessionTimeout, \* fabricWireSessionTimeout
    MaxFrames,      \* bound: frames a process sends
    MaxSent,        \* bound: frames sent
    MaxClock        \* bound: time

ASSUME ProcsAssumption ==
    /\ NoAddr \notin Addresses /\ NoProc \notin Procs
    /\ Gen \in [Procs -> Nat] /\ \A p, q \in Procs : Gen[p] = Gen[q] => p = q
    /\ Payload \in [Procs -> Nat \ {0}]
    /\ Lengths \subseteq Nat \ {0}
ASSUME LimitsAssumption ==
    /\ MaxFragments \in Nat \ {0} /\ MaxDeliver \in Nat /\ FrameLimit \in Nat \ {0}
    /\ Expiry \in Nat /\ SessionTimeout \in Nat /\ Expiry < SessionTimeout
    /\ MaxFrames \in Nat /\ MaxSent \in Nat /\ MaxClock \in Nat

VARIABLES
    live,      \* the process running at each address
    addr,      \* the address each process has or had
    frameID,   \* link.frameID of each process
    traffic,       \* the fragments that were sent
    clock,
    peer,      \* link.peerAddr of the receiver
    sess,      \* its sessions by address
    pending,   \* wireReassembler.pending
    delivered, \* (history) the frames injected into the leg
    carried    \* (history) fragments were pending when the peer address changed

reassemblyVars == <<live, addr, frameID, traffic, clock, peer, sess, pending, delivered, carried>>

FrameIDs == 1..MaxFrames
Indexes == 1..MaxFragments

\* A data datagram: where its payload comes from (proc, id, index), the rest of
\* its header, and the size of the payload.
Fragment == [proc : Procs, id : FrameIDs, index : Indexes, count : Indexes, total : Nat, size : Nat]

\* pendingWireFrame, with the fragments it has; none when there is no entry.
Entry == [arrived : 0..MaxClock, got : SUBSET Fragment]
NoEntry == [arrived |-> 0, got |-> {}]

PeerSession == [known : BOOLEAN, gen : Nat, lastHeard : 0..MaxClock]

ReassemblyTypeOK ==
    /\ live \in [Addresses -> Procs \cup {NoProc}]
    /\ addr \in [Procs -> Addresses \cup {NoAddr}]
    /\ frameID \in [Procs -> 0..MaxFrames]
    /\ traffic \subseteq Fragment
    /\ clock \in 0..MaxClock
    /\ peer \in Addresses
    /\ sess \in [Addresses -> PeerSession]
    /\ pending \in [FrameIDs -> Entry]
    /\ delivered \subseteq SUBSET Fragment
    /\ carried \in BOOLEAN

ReassemblyInit ==
    /\ live = [a \in Addresses |-> NoProc]
    /\ addr = [p \in Procs |-> NoAddr]
    /\ frameID = [p \in Procs |-> 0]
    /\ traffic = {} /\ clock = 0
    /\ peer \in Addresses
    /\ sess = [a \in Addresses |-> [known |-> FALSE, gen |-> 0, lastHeard |-> 0]]
    /\ pending = [f \in FrameIDs |-> NoEntry]
    /\ delivered = {} /\ carried = FALSE

-----------------------------------------------------------------------------
(***************************************************************************)
(* The senders.                                                            *)
(***************************************************************************)

\* splitFabricWireFrame.
FragCount(len, size) == (len + size - 1) \div size

FragSize(len, size, i) == IF i * size <= len THEN size ELSE len - (i - 1) * size

Frag(p, id, len, i) ==
    [proc |-> p, id |-> id, index |-> i, count |-> FragCount(len, Payload[p]), total |-> len,
     size |-> FragSize(len, Payload[p], i)]

Fragments(p, id, len) == {Frag(p, id, len, i) : i \in 1..FragCount(len, Payload[p])}

\* A sidecar process starts at address a, in the place of the one there.
Start(p, a) ==
    /\ addr[p] = NoAddr
    /\ addr' = [addr EXCEPT ![p] = a]
    /\ live' = [live EXCEPT ![a] = p]
    /\ UNCHANGED <<frameID, traffic, clock, peer, sess, pending, delivered, carried>>

\* transmitFrame; a frame that needs too many fragments takes an id and is dropped.
TransmitFrame(p, len) ==
    /\ addr[p] # NoAddr /\ live[addr[p]] = p
    /\ frameID[p] < MaxFrames /\ SumFunction(frameID) < MaxSent
    /\ frameID' = [frameID EXCEPT ![p] = @ + 1]
    /\ traffic' = IF FragCount(len, Payload[p]) > MaxFragments THEN traffic
              ELSE traffic \cup Fragments(p, frameID[p] + 1, len)
    /\ UNCHANGED <<live, addr, clock, peer, sess, pending, delivered, carried>>

-----------------------------------------------------------------------------
(***************************************************************************)
(* The reassembler.                                                        *)
(***************************************************************************)
Busy(pend) == {f \in DOMAIN pend : pend[f].got # {}}

\* expire
Unexpired(pend, now) ==
    [f \in DOMAIN pend |-> IF now - pend[f].arrived > Expiry THEN NoEntry ELSE pend[f]]

Oldest(pend) == {f \in Busy(pend) : \A g \in Busy(pend) : pend[f].arrived <= pend[g].arrived}

\* absorb evicts before it opens an entry at the cap.
MakesRoom(pend, id) == pend[id].got = {} /\ Cardinality(Busy(pend)) >= FrameLimit

\* evictOldest: entries that arrived together are evicted in any order.
Evicted(pend, id) ==
    IF MakesRoom(pend, id) THEN {[pend EXCEPT ![f] = NoEntry] : f \in Oldest(pend)} ELSE {pend}

Disagrees(entry, m) == \E o \in entry.got : o.count # m.count \/ o.total # m.total
Filled(entry, i) == \E o \in entry.got : o.index = i

\* The entry with m in it; a duplicate is ignored.
Joined(entry, m, now) ==
    IF Filled(entry, m.index) THEN entry
    ELSE [arrived |-> IF entry.got = {} THEN now ELSE entry.arrived, got |-> entry.got \cup {m}]

Bytes(got) == SumFunction([o \in got |-> o.size])

Completes(entry, m) ==
    ~Filled(entry, m.index) /\ \A i \in 1..m.count : i = m.index \/ Filled(entry, i)

\* absorb in an entry table that has room: what is left pending ...
Absorbed(pend, m, now) ==
    IF Disagrees(pend[m.id], m) \/ Completes(pend[m.id], m) THEN [pend EXCEPT ![m.id] = NoEntry]
    ELSE [pend EXCEPT ![m.id] = Joined(@, m, now)]

\* ... whether a disagreement dropped the frame ...
Dropped(pend, m) ==
    \/ Disagrees(pend[m.id], m)
    \/ Completes(pend[m.id], m) /\ Bytes(pend[m.id].got \cup {m}) # m.total

\* ... and the frame that is injected, if any.
Injected(pend, m) ==
    IF Completes(pend[m.id], m) /\ ~Dropped(pend, m) /\ m.total <= MaxDeliver
    THEN {pend[m.id].got \cup {m}} ELSE {}

-----------------------------------------------------------------------------
(***************************************************************************)
(* The receiver.                                                           *)
(***************************************************************************)
Silent(s) == clock - s.lastHeard > SessionTimeout

\* refreshSessionLocked drops the datagram.
SessionRejects(s, g) == s.known /\ g < s.gen /\ ~Silent(s)

\* Mutant: a new generation leaves the pending frames alone.
ResetsNever(s, g) == FALSE

\* refreshSessionLocked sees another generation and resets the link.
Resets(s, g) == s.known /\ s.gen # g

\* handleData of fragment m.
HandleData(m) ==
    LET a == addr[m.proc]
        s == sess[a]
        g == Gen[m.proc]
        kept == IF Resets(s, g) THEN [f \in FrameIDs |-> NoEntry] ELSE pending
    IN  /\ UNCHANGED <<live, addr, frameID, traffic, clock, peer, carried>>
        /\ IF a # peer \/ SessionRejects(s, g)
           THEN UNCHANGED <<sess, pending, delivered>>
           ELSE /\ sess' = [sess EXCEPT ![a] = [known |-> TRUE, gen |-> g, lastHeard |-> clock]]
                /\ \E pend \in Evicted(Unexpired(kept, clock), m.id) :
                      /\ pending' = Absorbed(pend, m, clock)
                      /\ delivered' = delivered \cup Injected(pend, m)

\* A heartbeat or link state from the process at the peer address.
HandleHeartbeat(p) ==
    LET a == addr[p]
        s == sess[a]
    IN  /\ a = peer /\ live[a] = p /\ ~SessionRejects(s, Gen[p])
        /\ sess' = [sess EXCEPT ![a] = [known |-> TRUE, gen |-> Gen[p], lastHeard |-> clock]]
        /\ pending' = IF Resets(s, Gen[p]) THEN [f \in FrameIDs |-> NoEntry] ELSE pending
        /\ UNCHANGED <<live, addr, frameID, traffic, clock, peer, delivered, carried>>

\* tick: sessions time out, pending frames expire.
ReassemblyTick ==
    /\ sess' = [a \in Addresses |-> [sess[a] EXCEPT !.known = @ /\ ~Silent(sess[a])]]
    /\ pending' = Unexpired(pending, clock)
    /\ UNCHANGED <<live, addr, frameID, traffic, clock, peer, delivered, carried>>

\* EnsureLink or adoptPeerAddress moves the link to another peer address.
Rehome(a) ==
    /\ a # peer
    /\ peer' = a
    /\ carried' = (carried \/ Busy(pending) # {})
    /\ UNCHANGED <<live, addr, frameID, traffic, clock, sess, pending, delivered>>

TimePasses ==
    /\ clock < MaxClock
    /\ clock' = clock + 1
    /\ UNCHANGED <<live, addr, frameID, traffic, peer, sess, pending, delivered, carried>>

ReassemblyNext ==
    \/ \E p \in Procs : \/ \E a \in Addresses : Start(p, a)
                        \/ \E len \in Lengths : TransmitFrame(p, len)
                        \/ HandleHeartbeat(p)
    \/ \E m \in traffic : HandleData(m)
    \/ \E a \in Addresses : Rehome(a)
    \/ ReassemblyTick \/ TimePasses

ReassemblySpec == ReassemblyInit /\ [][ReassemblyNext]_reassemblyVars

-----------------------------------------------------------------------------
(***************************************************************************)
(* Properties.                                                             *)
(***************************************************************************)

\* The frames that were sent, each as the set of its fragments.
SentFrames == {Fragments(m.proc, m.id, m.total) : m \in traffic}

Channel == INSTANCE FrameChannel WITH sent <- SentFrames, got <- delivered, broken <- carried

\* What is put together belongs together: whatever the network does to the
\* datagrams and whichever processes come and go, every frame handleData injects
\* is one that was sent, with all of its fragments and no other's, as long as no
\* fragments were pending when the link's peer address changed.
ImplementsChannel == Channel!Spec
=============================================================================
