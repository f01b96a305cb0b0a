------------------------------- MODULE Sidecar -------------------------------
(***************************************************************************)
(* The connectivity sidecar of a device Pod (internal/directruntime): the  *)
(* cold pass of runConnectivity, the tick loop of                          *)
(* waitForConnectivityRevisions, the markers and the readiness endpoint,   *)
(* the peer-directory reader and the mesh neighbor resolver, with the      *)
(* crashes and the failures that restart it and the device that shares     *)
(* its network namespace.                                                  *)
(*                                                                         *)
(*   world  the scenario: the plans of the Pod (the first is the one it    *)
(*          was created from), whether its management is interposed, what  *)
(*          the device does, the listings of the peer directory, the peers *)
(*          it talks to, and how often each fault may strike               *)
(*   vol    the projected volumes and the peers' DNS: the plan of the      *)
(*          projected revision, the listing, whether the peers resolve     *)
(*   pod    what outlives the process: see Interposition and Endpoints,    *)
(*          and the accepts, the hosts file and the markers                *)
(*   proc   the process                                                    *)
(*   dev    the device: whether it runs, and what it has done              *)
(***************************************************************************)
EXTENDS Interposition, TLC

Conn == INSTANCE Connectivity

CONSTANTS Worlds,         \* the scenarios
          BootTicks,      \* interpositionBootTicks
          ResyncTicks,    \* interpositionResyncTicks
          PeerTicks,      \* meshPeerResyncTicks
          RetryTicks,     \* fabricRetryInterval, in ticks
          ReassertTicks   \* hostEndpointReassertInterval, in ticks

VARIABLES world, vol, pod, proc, dev, fresh

vars == <<world, vol, pod, proc, dev, fresh>>

-----------------------------------------------------------------------------
(* Plans and revisions *)

InputOf(ifs) ==
  [cold |-> world.cold,
   ifs |-> {[id |-> i.id, link |-> i.link, kind |-> i.kind, peer |-> i.peer, host |-> i.host] :
              i \in ifs}]

PlanOf(n) ==
  [planner |-> "planner", input |-> InputOf(world.plans[n]), cold |-> n,
   ifs |-> world.plans[n], waits |-> {i.id : i \in world.plans[n]}]

(* The revision the node controller projects for the n-th plan (directconnectivity.go). *)
RevisionFor(n) ==
  Conn!NewRevision(InputOf(world.plans[1]), PlanOf(1), InputOf(world.plans[n]), PlanOf(n), "live")

(* loadConnectivityRevision, of the n-th plan's revision. *)
Loaded(n) == Conn!ApplyRevision(InputOf(world.plans[1]), PlanOf(1), RevisionFor(n).revision)

Interfaces(n) == Loaded(n).plan.ifs

Listing(n) == IF n = 0 THEN <<>> ELSE world.dirs[n]

ListedPeers(n) == {q \in DOMAIN Listing(n) : Listing(n)[q] # 0}

-----------------------------------------------------------------------------
(* The process *)

(* A fresh process: nothing loaded, nothing applied. *)
Fresh(pc) ==
  [pc |-> pc, cold |-> TRUE, init |-> FALSE, ready |-> FALSE, active |-> 0, next |-> 0,
   nextReady |-> FALSE, peers |-> 0, seen |-> 0, full |-> FALSE, changed |-> FALSE,
   ticks |-> 0, memo |-> {}, pacer |-> [ok |-> FALSE, ready |-> FALSE, age |-> 0],
   resolver |-> [index |-> 0, listing |-> 0, asked |-> {}]]

Init ==
  /\ world \in Worlds
  /\ vol = [want |-> 1, dir |-> 1, resolves |-> world.resolves, edits |-> 0, flaky |-> 0,
            crashes |-> 0, fails |-> 0]
  /\ pod = PristineNet @@ [pairs |-> {}, accepts |-> {}, hosts |-> {},
                           disk |-> [neigh |-> FALSE, routes |-> "none",
                                     ready |-> FALSE, applied |-> 0]]
  /\ proc = Fresh("off")
  /\ dev = [started |-> FALSE, done |-> {}]
  /\ fresh = FALSE

ClearMarkers(p) == [p EXCEPT !.disk.ready = FALSE, !.disk.applied = 0]

(* peerDirectory.load: the fingerprint first, then the content; a directory *)
(* that cannot be read keeps the peers and uses up the fingerprint.         *)
LoadPeers(q, broken) ==
  IF q.seen = vol.dir THEN [q EXCEPT !.changed = FALSE]
  ELSE IF broken /\ q.seen # 0 THEN [q EXCEPT !.seen = vol.dir, !.changed = FALSE]
  ELSE [q EXCEPT !.seen = vol.dir, !.changed = TRUE, !.peers = IF broken THEN 0 ELSE vol.dir]

Reads(broken) ==
  /\ broken => vol.flaky < world.flaky
  /\ vol' = [vol EXCEPT !.flaky = @ + (IF broken THEN 1 ELSE 0)]

(* The kubelet starts the container (again). *)
Start ==
  /\ proc.pc = "off"
  /\ proc' = Fresh("begin")
  /\ UNCHANGED <<world, vol, pod, dev, fresh>>

(* runConnectivity up to the first change of the namespace: the markers are *)
(* cleared, the revision and the peers are loaded.                          *)
Begin ==
  \E broken \in BOOLEAN :
    /\ proc.pc = "begin"
    /\ Reads(broken)
    /\ pod' = ClearMarkers(pod)
    /\ proc' = IF Loaded(vol.want).ok
               THEN [LoadPeers(proc, broken) EXCEPT
                       !.pc = IF world.mesh THEN "preserve" ELSE "filter",
                       !.next = vol.want, !.full = TRUE]
               ELSE Fresh("off")
    /\ fresh' = TRUE
    /\ UNCHANGED <<world, dev>>

(* The tick counter, wrapped so that the residues stay. *)
NextTick ==
  IF proc.ticks = BootTicks + PeerTicks THEN BootTicks + 1 ELSE proc.ticks + 1

(* A tick: the full interposition while the device boots, on the resync and *)
(* when the directory changed.                                              *)
Tick ==
  \E broken \in BOOLEAN :
    /\ proc.pc = "idle"
    /\ Reads(broken)
    /\ LET read == LoadPeers(proc, broken)
           mesh == world.mesh /\ (read.changed \/ NextTick <= BootTicks
                                  \/ NextTick % ResyncTicks = 0)
       IN /\ proc' = [read EXCEPT
                        !.pc = IF mesh THEN "preserve" ELSE "filter",
                        !.ticks = NextTick, !.cold = FALSE,
                        !.full = read.changed \/ NextTick % PeerTicks = 0,
                        !.pacer.age = IF @ < ReassertTicks THEN @ + 1 ELSE @]
          /\ fresh' = (mesh \/ fresh)
    /\ UNCHANGED <<world, pod, dev>>

-----------------------------------------------------------------------------
(* The phases of a pass: what each one does to the Pod, as [ok, via] *)

LiftPairs(op) == [ok |-> op.ok, via |-> [n \in DOMAIN op.via |-> [pod EXCEPT !.pairs = op.via[n]]]]

Last1(via) == IF via = <<>> THEN pod ELSE Last(via)

(* The tail of a phase that always succeeds. *)
Followed(op, F(_)) ==
  IF op.ok THEN [op EXCEPT !.via = Append(@, F(Last1(@)))] ELSE op

(* The plan of the revision that the pass applies. *)
Desired == Interfaces(proc.next)

(* The cold pass asserts the accepts of the revision, the tick those of the *)
(* plan the Pod was created from.                                           *)
Ports(ifs) ==
  {"probe"} \cup (IF world.mesh THEN {"mesh"} ELSE {})
  \cup (IF \E i \in ifs : i.kind = "wire" THEN {"wire"} ELSE {})

FilteredFor == IF proc.cold THEN Desired ELSE world.plans[1]

(* EnsureTransportFilterAccepts: what is missing at the head of any chain. *)
Accepted(p, ports) == [p EXCEPT !.accepts = @ \cup ports]

(* applyOwnedHostsBestEffort: the owned lines replace the earlier ones. *)
WriteHosts(p, listing) == [p EXCEPT !.hosts = {listing}]

(* assertOwnedHosts: skipped while neither the peers nor the file changed. *)
OwnedHosts ==
  IF ~proc.cold /\ ~proc.changed /\ proc.memo # {} /\ proc.memo = pod.hosts
  THEN pod ELSE WriteHosts(pod, proc.peers)

(* meshNeighborResolver.start: another tunnel endpoint, nothing asked for. *)
Started ==
  IF proc.resolver.index = pod.vtep.index THEN proc.resolver
  ELSE [index |-> pod.vtep.index, listing |-> 0, asked |-> {}]

(* selectRequested: the listed peers that were asked for. *)
Resolver ==
  [Started EXCEPT !.listing = proc.peers, !.asked = @ \cap ListedPeers(proc.peers)]

ActivePeers == {<<q, Listing(proc.peers)[q]>> : q \in Resolver.asked}

(* publishConnectivityMarker *)
PublishReadiness(p) == [p EXCEPT !.disk.ready = TRUE]
PublishRevision(p, n) == [p EXCEPT !.disk.applied = n]

(* The markers: readiness before the applied revision, and cleared in that order. *)
Markers ==
  LET up == PublishReadiness(pod)
      down == [pod EXCEPT !.disk.ready = FALSE]
  IN IF proc.nextReady /\ (proc.cold \/ ~proc.ready \/ proc.next # proc.active)
     THEN <<up, PublishRevision(up, proc.next)>>
     ELSE IF ~proc.nextReady /\ ~proc.cold /\ proc.ready
     THEN <<down, ClearMarkers(down)>>
     ELSE <<>>

Operation ==
  CASE proc.pc = "preserve" -> PreserveTransport(pod)
    [] proc.pc = "pair" -> Followed(SyntheticPair(pod), DefaultRoute)
    [] proc.pc = "vtep" -> Followed(Followed(MeshVTEP(pod), MeshFilterTable), InterpositionSysctls)
    [] proc.pc = "table" -> TransportTable(pod)
    [] proc.pc = "peers" -> MeshPeers(pod, ActivePeers)
    [] proc.pc = "nat" -> Translate(pod)
    [] proc.pc = "filter" -> Done(<<Accepted(pod, Ports(FilteredFor))>>)
    [] proc.pc = "hosts" -> Done(<<OwnedHosts>>)
    [] proc.pc = "local" -> LiftPairs(LocalInterfaces(pod.pairs, Desired))
    [] proc.pc = "transports" -> LiftPairs(EndpointTransports(pod.pairs, Desired))
    [] proc.pc = "publish" -> Done(Markers)

Working == {"preserve", "pair", "vtep", "table", "peers", "nat", "filter", "hosts", "local",
            "transports", "publish"}

(* Every fabric endpoint is ready: its peer resolves. *)
EndpointsReady == vol.resolves \/ \A i \in Desired : i.kind # "wire"

(* The process after the phase. *)
Advanced ==
  CASE proc.pc = "preserve" -> [proc EXCEPT !.pc = "pair"]
    [] proc.pc = "pair" -> [proc EXCEPT !.pc = "vtep"]
    [] proc.pc = "vtep" -> [proc EXCEPT !.pc = "table"]
    [] proc.pc = "table" -> [proc EXCEPT !.pc = IF proc.full THEN "peers" ELSE "nat"]
    [] proc.pc = "peers" -> [proc EXCEPT !.pc = "nat", !.resolver = Resolver]
    [] proc.pc = "nat" -> [proc EXCEPT !.pc = "filter"]
    [] proc.pc = "filter" -> [proc EXCEPT !.pc = "hosts"]
    [] proc.pc = "hosts" -> [proc EXCEPT !.pc = IF proc.cold THEN "local" ELSE "load",
                                         !.memo = OwnedHosts.hosts]
    [] proc.pc = "local" -> [proc EXCEPT !.pc = "transports"]
    [] proc.pc = "transports" ->
         [proc EXCEPT !.pc = "publish", !.nextReady = EndpointsReady,
                      !.pacer = [ok |-> TRUE, ready |-> EndpointsReady, age |-> 0]]
    [] proc.pc = "publish" ->
         [proc EXCEPT !.pc = "idle", !.init = TRUE, !.ready = proc.nextReady,
                      !.active = proc.next]

(* A phase runs to its end; an error ends the process, whose markers go. *)
Phase ==
  /\ proc.pc \in Working
  /\ pod' = IF Operation.ok THEN Last1(Operation.via) ELSE ClearMarkers(Last1(Operation.via))
  /\ proc' = IF Operation.ok THEN Advanced ELSE Fresh("off")
  /\ UNCHANGED <<world, vol, dev, fresh>>

(* hostEndpointPacer.due *)
Due ==
  CASE ~proc.pacer.ok -> TRUE
    [] proc.pacer.ok /\ ~proc.pacer.ready -> proc.pacer.age >= RetryTicks
    [] OTHER -> proc.pacer.age >= ReassertTicks

(* applyProjectedConnectivityRevision: a new revision is applied, the one  *)
(* that was is re-asserted when that is due.                               *)
Load ==
  /\ proc.pc = "load"
  /\ IF ~Loaded(vol.want).ok
     THEN proc' = Fresh("off") /\ pod' = ClearMarkers(pod)
     ELSE /\ proc' = IF vol.want # proc.active
                     THEN [proc EXCEPT !.pc = "local", !.next = vol.want]
                     ELSE [proc EXCEPT !.next = vol.want,
                             !.pc = IF Due THEN "transports" ELSE "publish",
                             !.nextReady = proc.pacer.ok /\ proc.pacer.ready]
          /\ UNCHANGED pod
  /\ UNCHANGED <<world, vol, dev, fresh>>

(* The process dies in the middle of a phase: what it did stays, markers   *)
(* included.                                                               *)
Crash ==
  /\ proc.pc \in Working
  /\ vol.crashes < world.crashes
  /\ vol' = [vol EXCEPT !.crashes = @ + 1]
  /\ pod' \in {pod} \cup Range(Operation.via)
  /\ proc' = Fresh("off")
  /\ UNCHANGED <<world, dev, fresh>>

(* What a phase made and could not finish is deleted again: the tunnel      *)
(* endpoint, a local pair, a host pair.  A fabric pair is left as it is.      *)
RolledBack(p) ==
  [p EXCEPT !.vtep = IF @.index # 0 /\ ~@.marked THEN PristineNet.vtep ELSE @,
            !.pairs = {v \in @ : v \in pod.pairs \/ v.b[1] = "leg" \/ ~Stranded({v})}]

(* A kernel call of a phase fails: what was done before it stays, up to what *)
(* is rolled back.  A failed rename of the transport interface brings it up  *)
(* again.  A hosts file that cannot be written is left as it is and          *)
(* remembered all the same.                                                  *)
Fail ==
  /\ proc.pc \in Working
  /\ vol.fails < world.fails
  /\ vol' = [vol EXCEPT !.fails = @ + 1]
  /\ IF proc.pc = "hosts"
     THEN proc' = [Advanced EXCEPT !.memo = pod.hosts] /\ pod' = pod
     ELSE /\ proc' = Fresh("off")
          /\ \E p \in CASE proc.pc = "preserve" /\ pod.transport.name = "cni" -> {RenameFailed(pod)}
                        [] proc.pc = "preserve" /\ pod.transport.name # "cni" -> {pod}
                        [] OTHER -> {pod} \cup {RolledBack(q) : q \in Range(Operation.via)} :
                pod' = ClearMarkers(p)
  /\ UNCHANGED <<world, dev, fresh>>

-----------------------------------------------------------------------------
(* Around the process *)

(* The kernel asks for a peer it has no neighbor of; the resolver answers   *)
(* for the peers of the listing it was given last.                          *)
Solicit ==
  \E q \in world.talks :
    /\ proc.resolver.index # 0 /\ proc.resolver.index = pod.vtep.index
    /\ q \in ListedPeers(proc.resolver.listing) /\ q \notin pod.vtep.neigh
    /\ proc' = [proc EXCEPT !.resolver.asked = @ \cup {q}]
    /\ pod' = Last(ResolvePeer(pod, q, Listing(proc.resolver.listing)[q]))
    /\ UNCHANGED <<world, vol, dev, fresh>>

(* The node controller projects another plan, if that can be applied live. *)
Project ==
  \E n \in DOMAIN world.plans \ {vol.want} :
    /\ vol.edits < world.edits
    /\ RevisionFor(n).ok
    /\ vol' = [vol EXCEPT !.want = n, !.edits = @ + 1]
    /\ UNCHANGED <<world, pod, proc, dev, fresh>>

(* The peer directory is rewritten; the peers become resolvable. *)
UpdateDirectory ==
  /\ vol.dir < Len(world.dirs)
  /\ vol' = [vol EXCEPT !.dir = @ + 1]
  /\ UNCHANGED <<world, pod, proc, dev, fresh>>

PeersAppear ==
  /\ ~vol.resolves
  /\ vol' = [vol EXCEPT !.resolves = TRUE]
  /\ UNCHANGED <<world, pod, proc, dev, fresh>>

(* Startup succeeded: the application containers start. *)
StartDevice ==
  /\ proc.init /\ ~dev.started
  /\ dev' = [dev EXCEPT !.started = TRUE]
  /\ UNCHANGED <<world, vol, pod, proc, fresh>>

(* A route by the leg goes when the leg goes down or away. *)
WithoutLeg(p) ==
  [p EXCEPT !.default = IF @ = "leg" THEN "none" ELSE @, !.table = @ \ {"gateway"}]

(* A device takes the end of a wire into a namespace of its own. *)
Taken(pairs) ==
  {IF v.a[1] = "dev" /\ v.b[1] = "leg" THEN [v EXCEPT !.a = <<"moved", v.a[2]>>] ELSE v :
     v \in pairs}

(* What a booting device does to the namespace it shares; the last two are *)
(* the underlay's and the kubelet's doing.                                 *)
Displaced(act) ==
  CASE act = "strip" -> [pod EXCEPT !.leg.addr = FALSE]
    [] act = "down" -> WithoutLeg([pod EXCEPT !.leg.up = FALSE])
    [] act = "rename" -> [pod EXCEPT !.leg.at = "renamed"]
    [] act = "move" -> WithoutLeg([pod EXCEPT !.leg.at = "moved", !.leg.addr = FALSE])
    [] act = "flush" -> [pod EXCEPT !.transport.addr = FALSE, !.transport.neigh = FALSE]
    [] act = "routes" -> [pod EXCEPT !.table = {}, !.default = "none"]
    [] act = "ruleset" -> [pod EXCEPT !.nat = FALSE, !.accepts = {}, !.hardened = @ \ {"filter"}]
    [] act = "sysctls" -> [pod EXCEPT !.hardened = @ \ {"sysctls"}]
    [] act = "rules" -> [pod EXCEPT !.rules = {KernelLocal, KernelMain}]
    [] act = "adopt" -> [pod EXCEPT !.pairs = Taken(@)]
    [] act = "mtu" -> [pod EXCEPT !.mtu = 2]
    [] act = "kubelet" -> [pod EXCEPT !.hosts = {}]

Displace ==
  \E act \in world.acts \ dev.done :
    /\ dev.started
    /\ act \in {"strip", "down", "rename", "move"} => LegInPod(pod)
    /\ pod' = Displaced(act)
    /\ dev' = [dev EXCEPT !.done = @ \cup {act}]
    /\ fresh' = FALSE
    /\ UNCHANGED <<world, vol, proc>>

ProcessStep == Start \/ Begin \/ Tick \/ Phase \/ Load

Next ==
  \/ ProcessStep \/ Crash \/ Fail \/ Solicit \/ Project \/ UpdateDirectory
  \/ PeersAppear \/ StartDevice \/ Displace

Spec == Init /\ [][Next]_vars

(* The container is restarted and its loop runs: a process always has a     *)
(* next step, and faults are bounded, so that weak fairness of ProcessStep  *)
(* is that the process moves on infinitely often.  A kernel repeats its     *)
(* question; every peer of the lab comes up in the end.                     *)
FairSpec ==
  Spec /\ []<><<proc'.pc # proc.pc>>_vars /\ WF_vars(Solicit) /\ WF_vars(PeersAppear)

-----------------------------------------------------------------------------
(* Properties *)

(* connectivityReadinessServer's answer to the probe for the projected revision. *)
Probe == proc.init /\ pod.disk.ready /\ pod.disk.applied = vol.want

(* The adoption of a pair by another Link was cut off and that Link is no    *)
(* longer wanted: no owner of the plan fits both ends, or the device end     *)
(* carries its old owner, and the other end not its old name or mark.        *)
CalledOff(v) ==
  \E i \in Interfaces(vol.want) :
    /\ i.kind # "local" /\ v.a = Dev(i.name)
    /\ \/ v.aa # v.ba /\ OwnerOf(i) \notin {v.aa, v.ba}
       \/ v.aa = OwnerOf(i) /\ i.kind = "wire" /\ v.b # Leg(i)
       \/ v.aa = OwnerOf(i) /\ i.kind = "host" /\ <<v.b, v.ba>> # <<<<"worker", i.host>>, v.aa>>

(* What a crash, or a failure that is not rolled back, leaves between two    *)
(* kernel calls and no later pass repairs.                                   *)
Wedged ==
  /\ vol.crashes + vol.fails > 0
  /\ \/ Stranded(pod.pairs)
     \/ \E v \in pod.pairs : CalledOff(v)
     \/ pod.vtep.index # 0 /\ ~pod.vtep.marked
     \/ pod.leg.at # "none" /\ ~pod.leg.raised

(* The process ended between taking the transport interface down and         *)
(* recording its routes: they are gone for good.                             *)
RoutesLost ==
  /\ vol.crashes + vol.fails > 0
  /\ pod.disk.routes # "cni"
  /\ pod.transport.name = "transport" \/ pod.transport.routes # "cni"

(* The readiness endpoint vouches for the namespace: whenever it answers for *)
(* the projected revision and no later one is being applied, exactly the     *)
(* interfaces of that revision exist, whole and marked, whatever crashes and *)
(* restarts came before.                                                     *)
ReadyIsRealized ==
  Probe /\ (proc.next = vol.want \/ proc.pc = "idle") /\ ~Wedged
    => Realized(pod.pairs, Interfaces(vol.want))

(* A pass never takes away an endpoint that the revision it applies wants,   *)
(* under whatever name the other end goes.                                   *)
LinksKept ==
  [][\A v \in pod.pairs :
        proc.pc \in {"local", "transports"} /\ (\E i \in Desired : Realizes(v, i, Desired))
          => v \in pod'.pairs \/ dev' # dev]_vars

(* After a pass that no device disturbed, the rules and routes steer every   *)
(* packet where it belongs and no packet circles between the two legs.       *)
Steered == proc.pc = "idle" /\ fresh /\ world.mesh /\ ~Wedged /\ ~RoutesLost => WellSteered(pod)

(* Peers whose entries are current, unless the listing could not be read. *)
PeersFollow ==
  \/ proc.peers # vol.dir
  \/ /\ pod.vtep.fdb \subseteq {<<q, Listing(vol.dir)[q]>> : q \in ListedPeers(vol.dir)}
     /\ pod.vtep.neigh = world.talks \cap ListedPeers(vol.dir)
     /\ {e[1] : e \in pod.vtep.fdb} = pod.vtep.neigh

ManagementUp ==
  /\ pod.transport.name = "transport" /\ pod.transport.addr /\ pod.transport.neigh
  /\ pod.nat /\ pod.hardened = {"filter", "sysctls"}
  /\ PeersFollow
  /\ RoutesLost \/ ("cni" \in pod.table /\ WellSteered(pod))

(* However the device rearranges the namespace, the sidecar crashes and the  *)
(* plans change, the Pod ends up ready for the last revision, with its Links *)
(* realized, its transport, translation and accepts in place and its mesh    *)
(* entries and hosts file those of the last listing it could read.           *)
Converges ==
  <>[](\/ Wedged
       \/ /\ Probe
          /\ Realized(pod.pairs, Interfaces(vol.want))
          /\ Ports(world.plans[1]) \subseteq pod.accepts
          /\ pod.hosts = {vol.dir} \/ proc.peers # vol.dir \/ vol.fails > 0
          /\ world.mesh => ManagementUp)
=============================================================================
