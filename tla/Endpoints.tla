------------------------------ MODULE Endpoints ------------------------------
(***************************************************************************)
(* The veth pairs with which the connectivity sidecar realizes the Links   *)
(* of its Pod (connectivity.go, links_linux.go, fabric_linux.go): pure     *)
(* operators on the set of pairs of the Pod.  A pair is a record           *)
(*   [a, b, aa, ba]: the names of its two ends and their ifalias, with     *)
(* which the sidecar marks what it owns.  An end is named <<where, name>>: *)
(* "dev" is a device interface of the Pod namespace, "leg" the sidecar's   *)
(* end of a fabric pair, "transfer" the end of a host Link before it is    *)
(* moved, "worker" an interface of the worker namespace, "moved" a device  *)
(* leg that a device took into a namespace of its own.                     *)
(*                                                                         *)
(* An operation is [ok, via]: the successive sets of pairs it produces,    *)
(* one per kernel call that can be the last one before a crash, and        *)
(* whether it returns without an error.                                    *)
(*                                                                         *)
(* An interface of a plan is [id, link, name, kind, peer, host, mode]:     *)
(* kind is "local" (same-pod or loopback; two interfaces of the link are   *)
(* in the plan), "wire" or "host".                                         *)
(***************************************************************************)
EXTENDS Naturals, Sequences, SequencesExt, FiniteSets

Unmarked == <<"none", "none", "none">>

(* directLinkOwner: the Pod, the flavor, the Link and the Nodes it joins. *)
Owner(type, i) == <<type, i.link, i.peer>>

OwnerOf(i) == Owner(IF i.kind = "local" THEN "veth" ELSE "transport", i)

Done(via) == [ok |-> TRUE, via |-> via]
Failed(via) == [ok |-> FALSE, via |-> via]

(* What an operation leaves in the kernel. *)
Outcome(pairs, op) == IF op.via = <<>> THEN pairs ELSE Last(op.via)

Dev(n) == <<"dev", n>>
Leg(i) == <<"leg", i.id>>

InPod(end) == end[1] \notin {"worker", "moved"}

(* The ends visible in the Pod namespace, as lookupLink and listPodLinks   *)
(* see them.                                                               *)
Ends(pairs) ==
  {e \in UNION {{[name |-> v.a, alias |-> v.aa, of |-> v],
                 [name |-> v.b, alias |-> v.ba, of |-> v]} : v \in pairs} : InPod(e.name)}

Present(pairs, n) == \E e \in Ends(pairs) : e.name = n
Lookup(pairs, n) == CHOOSE e \in Ends(pairs) : e.name = n

Replace(pairs, old, new) == (pairs \ {old}) \cup {new}

(* v with the alias of its end n set to owner, or with its end n renamed.  *)
Marked(v, n, owner) ==
  IF v.a = n THEN [v EXCEPT !.aa = owner] ELSE [v EXCEPT !.ba = owner]

Renamed(v, n, to) == IF v.a = n THEN [v EXCEPT !.a = to] ELSE [v EXCEPT !.b = to]

(* LinkAdd does not keep the alias: a new pair is marked end by end.       *)
Creation(pairs, first, second, owner) ==
  LET added == [a |-> first, b |-> second, aa |-> Unmarked, ba |-> Unmarked]
      half == Marked(added, first, owner)
  IN <<pairs \cup {added}, pairs \cup {half}, pairs \cup {Marked(half, second, owner)}>>

-----------------------------------------------------------------------------
(* Local Links: one veth pair per same-Pod or loopback Link *)

(* The pair a local Link wants: its two interfaces in the order of their ids. *)
WantedPairs(ifs) ==
  {[a |-> Dev(p[1].name), b |-> Dev(p[2].name), aa |-> OwnerOf(p[1]), ba |-> OwnerOf(p[1])] :
     p \in {q \in ifs \X ifs :
              /\ q[1].kind = "local"
              /\ q[1].link = q[2].link
              /\ q[1].id < q[2].id}}

SamePair(v, w) == {v.a, v.b} = {w.a, w.b} /\ v.aa = w.aa

LocalEnds(pairs) == {e \in Ends(pairs) : e.alias[1] = "veth"}

(* Every owner's ends are the two ends of one pair; an end marked alone is an error. *)
InventoryComplete(pairs) ==
  \A e \in LocalEnds(pairs) :
     LET mine == {f \in LocalEnds(pairs) : f.alias = e.alias}
     IN Cardinality(mine) = 2 /\ \A f \in mine : f.of = e.of

(* Mutant: a changed plan replaces every pair. *)
StalePairsAll(pairs, wanted) == {e.of : e \in LocalEnds(pairs)}

StalePairs(pairs, wanted) ==
  {v \in {e.of : e \in LocalEnds(pairs)} : \A w \in wanted : ~SamePair(v, w)}

(* The stale pairs are deleted, one after the other. *)
RemoveStale(pairs, wanted) ==
  LET stale == SetToSeq(StalePairs(pairs, wanted))
  IN [n \in 1..Len(stale) |-> pairs \ {stale[m] : m \in 1..n}]

EnsureVethPair(pairs, w) ==
  IF Present(pairs, w.a) # Present(pairs, w.b) THEN Failed(<<>>)
  ELSE IF ~Present(pairs, w.a) THEN Done(Creation(pairs, w.a, w.b, w.aa))
  ELSE LET v == Lookup(pairs, w.a).of
       IN IF v = Lookup(pairs, w.b).of /\ v.aa = w.aa /\ v.ba = w.aa
          THEN Done(<<>>) ELSE Failed(<<>>)

(* One operation after the other, up to the first that fails. *)
AndThen(pairs, op, Next1(_)) ==
  IF ~op.ok THEN op
  ELSE LET rest == Next1(Outcome(pairs, op)) IN [ok |-> rest.ok, via |-> op.via \o rest.via]

EnsureEach(pairs, specs, Ensure(_, _)) ==
  FoldLeft(LAMBDA op, s : AndThen(pairs, op, LAMBDA now : Ensure(now, s)), Done(<<>>), specs)

(* reconcileLocalInterfaces: everything stale goes before anything is created. *)
LocalInterfaces(pairs, ifs) ==
  LET wanted == WantedPairs(ifs)
      removal == IF InventoryComplete(pairs)
                 THEN Done(RemoveStale(pairs, wanted)) ELSE Failed(<<>>)
  IN AndThen(pairs, removal, LAMBDA now : EnsureEach(now, SetToSeq(wanted), EnsureVethPair))

-----------------------------------------------------------------------------
(* Fabric endpoints: a device leg and the sidecar leg the wire captures on *)

OwnedTransport(alias) == alias[1] = "transport"

Other(v, n) == IF v.a = n THEN [name |-> v.b, alias |-> v.ba, of |-> v]
                          ELSE [name |-> v.a, alias |-> v.aa, of |-> v]

(* The two ends carry one owner, or one of them already carries the new one. *)
Adoptable(owner, first, second) ==
  /\ OwnedTransport(first.alias)
  /\ OwnedTransport(second.alias)
  /\ \/ first.alias = second.alias
     \/ owner \in {first.alias, second.alias}

(* adoptFabricPair: the device leg keeps its pair, which gets a new owner. *)
AdoptFabricPair(pairs, i) ==
  LET device == Lookup(pairs, Dev(i.name))
      leg == Other(device.of, device.name)
      renamed == Renamed(device.of, leg.name, Leg(i))
      half == Marked(renamed, Leg(i), OwnerOf(i))
  IN IF /\ leg.name[1] = "leg"
        /\ Adoptable(OwnerOf(i), device, leg)
        /\ Present(pairs, Leg(i)) => Lookup(pairs, Leg(i)).of = device.of
     THEN Done(<<Replace(pairs, device.of, renamed),
                 Replace(pairs, device.of, half),
                 Replace(pairs, device.of, Marked(half, device.name, OwnerOf(i)))>>)
     ELSE Failed(<<>>)

(* ensureFabricPair: a sidecar leg whose device leg is gone is a device that *)
(* took it, and stays as it is.                                              *)
EnsureFabricPair(pairs, i) ==
  LET owner == OwnerOf(i)
      device == Lookup(pairs, Dev(i.name))
      devicePresent == Present(pairs, Dev(i.name))
  IN CASE Present(pairs, Leg(i)) ->
            IF /\ Lookup(pairs, Leg(i)).alias = owner
               /\ devicePresent => device.alias = owner
            THEN Done(<<>>)
            ELSE IF devicePresent THEN AdoptFabricPair(pairs, i) ELSE Failed(<<>>)
       [] ~Present(pairs, Leg(i)) /\ devicePresent ->
            IF device.alias = owner THEN Failed(<<>>) ELSE AdoptFabricPair(pairs, i)
       [] OTHER -> Done(Creation(pairs, Dev(i.name), Leg(i), owner))

-----------------------------------------------------------------------------
(* Host Links: the other end of the pair goes to the worker namespace *)

(* adoptHostInterface: the worker end is renamed and marked, then the Pod end. *)
AdoptHostInterface(pairs, i) ==
  LET device == Lookup(pairs, Dev(i.name))
      worker == Other(device.of, device.name)
      named == Renamed(device.of, worker.name, <<"worker", i.host>>)
      half == Marked(named, <<"worker", i.host>>, OwnerOf(i))
  IN IF /\ worker.name[1] = "worker"
        /\ Adoptable(OwnerOf(i), device, worker)
        /\ \A v \in pairs \ {device.of} : <<"worker", i.host>> \notin {v.a, v.b}
     THEN Done(<<Replace(pairs, device.of, named),
                 Replace(pairs, device.of, half),
                 Replace(pairs, device.of, Marked(half, device.name, OwnerOf(i)))>>)
     ELSE Failed(<<>>)

(* EnsureHostInterface: created, marked, moved, named and marked there.  A   *)
(* Pod end that carries the owner is taken for a realized Link.              *)
EnsureHostInterface(pairs, i) ==
  LET owner == OwnerOf(i)
      transfer == <<"transfer", i.id>>
      added == [a |-> Dev(i.name), b |-> transfer, aa |-> Unmarked, ba |-> Unmarked]
      half == Marked(added, added.a, owner)
      named == Renamed(half, transfer, <<"worker", i.host>>)
      taken == \E v \in pairs : <<"worker", i.host>> \in {v.a, v.b}
  IN CASE Present(pairs, Dev(i.name)) ->
            IF Lookup(pairs, Dev(i.name)).alias = owner
            THEN Done(<<>>) ELSE AdoptHostInterface(pairs, i)
       [] taken -> Failed(<<pairs \cup {added}, pairs \cup {half}, pairs>>)
       [] OTHER -> Done(<<pairs \cup {added}, pairs \cup {half}, pairs \cup {named},
                          pairs \cup {Marked(named, named.b, owner)}>>)

-----------------------------------------------------------------------------
(* reconcileEndpointTransports *)

Transports(ifs) ==
  SetToSortSeq({i \in ifs : i.kind # "local"}, LAMBDA i, j : i.id < j.id)

EnsureTransport(pairs, i) ==
  IF i.kind = "host" THEN EnsureHostInterface(pairs, i) ELSE EnsureFabricPair(pairs, i)

(* Mutant: what no Link wants any more stays. *)
SweepNothing(pairs, keep) == pairs

(* SweepTransportState: either end carries an owner that is not kept. *)
SweepTransportState(pairs, keep) ==
  {v \in pairs : \A e \in Ends({v}) : OwnedTransport(e.alias) => e.alias \in keep}

(* The sweep runs only when every endpoint was realized. *)
EndpointTransports(pairs, ifs) ==
  LET keep == {OwnerOf(i) : i \in {j \in ifs : j.kind # "local"}}
  IN AndThen(pairs, EnsureEach(pairs, Transports(ifs), EnsureTransport),
             LAMBDA now : Done(<<SweepTransportState(now, keep)>>))

-----------------------------------------------------------------------------
(* What a plan asks of the Pod, independent of how it is brought about *)

Realizes(v, i, ifs) ==
  /\ v.aa = OwnerOf(i)
  /\ v.ba = OwnerOf(i)
  /\ CASE i.kind = "local" -> \E j \in ifs \ {i} : j.link = i.link /\ {v.a, v.b} = {Dev(i.name), Dev(j.name)}
       [] i.kind = "wire" -> v.a \in {Dev(i.name), <<"moved", i.name>>} /\ v.b = Leg(i)
       [] i.kind = "host" -> v.a = Dev(i.name) /\ v.b = <<"worker", i.host>>

Realized(pairs, ifs) ==
  /\ \A i \in ifs : \E v \in pairs : Realizes(v, i, ifs)
  /\ \A v \in pairs : \E i \in ifs : Realizes(v, i, ifs)

(* A crash in the middle of a creation left a pair that no later pass      *)
(* takes for its own: unmarked, marked at one end, or never moved.         *)
Stranded(pairs) ==
  \E v \in pairs : \/ v.aa[1] = "none"
                   \/ v.ba[1] = "none" 
=============================================================================
