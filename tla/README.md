# clabernetes in TLA+

clabernetes runs containerlab topologies on Kubernetes.  This directory models
its concurrent parts in TLA+, model-checks them with TLC, and proves the safety
properties that matter most with TLAPS.  `PROJECT.json` lists every run, the
source lines behind every definition, and the hazards the properties were chosen
for; this file explains how the pieces fit together.

Run a model with `tlc -config X.cfg M`, check proofs with `tlapm M.tla`.

## The system

A user creates a **Topology**.  The manager's controllers turn it into running
devices:

1. the *topology controller* compiles it into NodeProfile, Link and Node objects,
   keeps those as compiled, and sums their readiness up;
2. the *link controller* gives every accepted Link a wire id of its namespace and
   binds it to the Nodes it names;
3. the *startup admission* controllers hold Nodes and Pods back, in batches per
   Topology and installation, and by slots per host;
4. the *node controller* has every Node planned by a *planner* process outside the
   manager, which runs containerlab's own package code against a recording
   runtime, and renders the plan into a Deployment;
5. the *device Pod* prepares its volumes, installs its helper binary, starts the
   *connectivity sidecar*, launches the device, replays the package's hooks next
   to it and answers probes;
6. the sidecars of two Pods connect their Links over the *fabric wire*, a
   datagram protocol of their own, and route management traffic through an
   *interposed* interface and a mesh.

The *manager* itself runs in several Pods: an init container merges the chart's
ConfigMap into the Config resource, and leader election picks who runs the
controllers.

## Modules

| Part of the code | Module | State |
|---|---|---|
| `controllers/link` | `LinkController`, with `Containerlab` (validation, endpoint ownership) | `links`, their `version`s, `nodes`, `nextUID`; per manager a `pass` (snapshot, position, scan cursor), `leader`, `queued`; history `clean`; `ceiling`, `env` bound ids and outside steps |
| `internal/directruntime/wire_linux.go`, `fabric_linux.go` | `FabricWire` | per Pod the `device` port, sidecar `leg`, what the kernel shows (`oper`), interface `index`, address `home`, `dns`, the process's `wire` state and the `step` of the sidecar's pass; `net`, `nextGen`; history `dipped` |
| `internal/directruntime/wire.go` and the data path of `wire_linux.go` | `WireReassembly`, refining `FrameChannel` | sending processes (`live`, `addr`, `frameID`), what was sent (`traffic`), `clock`, the receiver's `peer`, sessions, `pending` fragments and `delivered` frames; history `carried` |
| `controllers/topology/rollout.go`, `controllers/node/startupadmission.go` | `StartupAdmission` | `node`, `pod` and their caches, one pass per controller (`topo`, `glob`, `local`) |
| `controllers/node/startuphost.go` | `StartupHosts` | `pods`, `cache`, `nodes`, `topos`, `config` (object, manager's copy, event), `reserved`, `pass`, `queued`; history `lost` |
| `manager/`, `manager/election`, `config/manager.go`, `config/bootstrap.go` | `Manager`, which instantiates `ConfigBootstrap` | bootstrap ConfigMap `map`, Config `cr`, the initialization `init`, both leases, `crds`, one `proc` per Pod; history `merged`, `overlaps` |
| `controllers/topology`, `controllers/observationcache.go` | `TopologyController` | Topology `top`, children `obj`, their caches `seenTop`, `seen`, undelivered `events`, the `pass`, the stored `observation`, the status `window` |
| `controllers/node/reconcile.go`, `direct.go`, `directstatus.go` | `NodeController` | `node`, `status`, `inputs` (Links, NodeProfile), `dep`, `pod`, ConfigMaps `cms`, `worker`, the caches `seen`, `marking`, `queued`, `obs`, `pass` |
| `controllers/node/planner*.go`, `workeroutput.go`, `internal/deviceplan/session.go` | `Planner` | `want`, per Node a `pass`, persisted `inputs`, `records`, `policies`, `pods`, caches `seen`; processes `proc` and their streams `out`, the manager's sessions `sess`, `busy` workers, the `facts` of the world; history `cut` |
| `internal/directruntime/connectivity.go`, `links_linux.go`, `interposition_linux.go`, ... | `Sidecar`, built from the operators of `Endpoints`, `Interposition`, `Connectivity` | projected volumes `vol`, the network namespace and state directory `pod`, the process `proc`, the device `dev`; history `fresh` |
| `internal/deviceplan`, `internal/directpod`, `internal/directruntime` (lifecycle) | `DevicePod`, built from `ImportedRuntime`, `DeviceEvaluation`, `DevicePlan`, `DeviceWorkload`, `DeviceStaging`, `DeviceReplay`, `LifecycleBinary` | Node input `spec`, plan and Pod `made`, `pod`, containers `run`, volumes `vol`, fault budget `left`, installers `inst`, shared binary `cache`; history `hist` |

Each `MC*` module instantiates one of them for TLC, and each `*Proofs` module
holds theorems about one, with three exceptions: `ControlPlaneProofs` is about
`LinkController` and `Manager`, where overlapping managers write the same objects;
`DirectRuntimeProofs` about both halves of the wire and `LifecycleBinary`;
`PlannerSessionProofs` has the first half of what `PlannerProofs` needs.  Where two
specifications meet in one module the names of one carry a prefix (`ManagerSpec`,
`ReassemblySpec`, `InstallSpec`).  Definitions keep the names of the functions they
translate where TLA+ allows it.  Definitions commented `Mutant:` are plausible
bugs; `PROJECT.json` names for every property the mutant that breaks it.

### Conventions

*Controllers.*  A reconcile is not atomic.  It is cut at every API call: what it
listed is kept in `pass`, and anything may happen before its next write.  A write
under an optimistic lock is accepted exactly if the object is still the one that
was read.  Informer caches are variables of their own that catch up in separate
`Sync` steps; a pass reads caches, never the API server, unless the code does.

*Processes.*  A crash loses what is in memory and keeps what is in the API server,
the kernel or on disk.  In the sidecar, preparation and the binary cache every
single kernel or file operation may be the last one before a crash: an operation
is described by the successive states it goes through.

*Data.*  A spec, a plan, a frame or a file is named by what it depends on, so that
comparing digests is comparing values.  What a topology definition compiles to and
what a containerlab kind does are parameters: `Compiled` in `TopologyController`,
sequences of calls in `DeviceEvaluation`.

*Worlds.*  Most modules take a CONSTANT `Worlds`.  A behaviour starts in one world,
which says what kinds of outside events may happen in it and how many.  The model
stays small that way without leaving out the combinations that matter; each MC
module says what each world is for.

*History variables* (`clean`, `dipped`, `carried`, `lost`, `merged`, `overlaps`,
`cut`, `fresh`, `hist`) are only written by actions and read by properties.

## Runs

All runs pass.  `CHECK_DEADLOCK FALSE` throughout: every model stops when the
world's events are used up and everything has settled, as the system does.

### links: `MCLinkController`, `LinkController.cfg`

Two Links, two Nodes, two ids (so that they can run out), three Link specs of
which two compete for an endpoint, two managers, three outside steps (a Link
created, edited, deleted, ignored; a Node created, deleted, regrouped; a failed
pass; a change of leader; an id written by somebody else).

* `WireIDsUnique`: no two Links hold one id, as long as managers take turns and
  nobody else writes ids (`clean`).
* `AcceptedIsBound`: an Accepted Link is bound to exactly the endpoints it names.
* `RewiresKeepID`: an edited Link keeps its id.
* `DeletesOnlyOrphans`: a Link the controller deletes is bound to a Node that does
  not exist at that moment, although the decision is made from two older lists.
* `Converges`: the Links settle, also after managers overlapped, unless the ids ran
  out.

### wire: `MCFabricWire`, `FabricWire.cfg`; wire_reconverges: `FabricWireLive.cfg`

One link, two Pods.  Six worlds: a port toggles before the peer resolves; the
pass is delayed between looking at the leg and asking the wire; a veth pair is
recreated and its capture does not open; a process restarts while datagrams of
the dead one are in flight; bursts are lost and duplicated; a Pod moves.  Three
generations, two addresses, symmetric in the ends.

* `CarrierFollowsState`: after every handler the wire's hold on the leg (`forced`) is
  taken exactly when this end is up and the far end is not known to be.  It is about
  the hold: a pass under way may still raise the leg (see below).
* `NoEcho`: the wire never reports its own holding-down as the device's.
* `LivePeerKeepsSession`: no straggler displaces the living peer.
* `Reconverges` (with fairness): the carriers settle on what the two ports say.  Its
  world has two faults.  The first befalls an established link: a port toggles, a
  process restarts, a pair is made anew, a datagram or a burst is lost, a Pod moves.
  The second, at any moment after any of them but a move, is another toggle.  The
  action constraint `DisturbedLate` says so; it restricts faults only, which owe
  nothing, so it takes no fair step away.

### frames: `MCWireReassembly`, `WireReassembly.cfg`

Two processes, one after the other at an address or at two addresses, send two
frames: of two fragments, of a length the receiver does not deliver, or too long
to be sent.  Whatever was sent may arrive at any time and any number of times,
around expiry, session timeout, eviction and re-homing.
`ImplementsChannel` is `FrameChannel`'s specification under a refinement mapping:
frames may be lost, repeated and reordered, never mixed or invented.  It ends at
`carried`: the link's peer address changed with fragments pending.

### rollout: `MCStartupAdmission`, `StartupAdmission.cfg`

Four worlds with a Topology's batches, an installation's, and both, with Nodes
that are stopped and started and a manager that restarts.  `BatchesAreLimited`:
no more groups than the batch size await their sandbox.  `EveryGroupStarts`: the
two gates never wait for each other.

### startup_hosts: `MCStartupHosts`, `StartupHosts.cfg`

Up to three Pods, a host, a Topology; Pods are deleted, relapse, lose their Node,
answers are lost, the manager restarts, the limit is lifted.  `SlotsAreLimited`:
the limits of hosts and Topologies hold (unless an answer was lost).
`QueueDrains`: everyone is granted in the end, and lifting the limit releases
those behind a device that never boots.

### manager: `MCManager`, `Manager.cfg`

Two Pods, two releases of the chart, one edit, one fault (a failed call, a lost
lease, a watch that ends).  `UserDataKept`: merging changes nothing that is set.
`DeletedWhenMerged`: a ConfigMap goes away only after its data is in the Config,
unless an upgrade comes during an initialization.  `ConfigFollowed`: the leader
ends up with the last Config, as long as its watch stays open.

### topology: `MCTopologyController`, `Topology.cfg`

Five worlds: drift, deletion, names taken and freed; growth over a generation
that does not compile; a Node replaced; profile and Link changed with a Node that
needs them; readiness against the status window.

* `UserObjectsKept`: no object that the controller did not make, under a name the
  Topology wants, is touched.
* `WiringFirst`: a Node is created after the profiles and Links of its generation,
  where users edit the Topology only and take no edit back.
* `ChildrenFollow`, `StatusFollows`: at last the children and the status are those
  of the last generation, without waiting for an observation to expire.

### node: `MCNodeController`, `NodeController.cfg`

Thirteen worlds of one or two events out of: edits of spec, Links, profile, run
state, restart token, group; drift; a sweep; a lost input; errors and crashes of
the manager; each with the caches that lag meanwhile.

* `MountsKept`: garbage collection never removes a ConfigMap the Deployment mounts.
* `ReplacedForReason`: a running Pod is replaced only for a change that cannot be
  applied to it.
* `AppliedIsCurrent`, `ReportsForward`: the status never speaks of another
  generation's plan, and never goes back.
* `Converges`: Deployment, ConfigMaps and status settle on what is asked for.

The first two are about passes that read the current Deployment: see below for
what older caches do.  A pass goes from API call to API call: planning ends with a
cached read of the final input (`ReadInput`), which may not be there yet, and a live
change is recorded in the revision's ConfigMap before the status (`Record`).

### planner: `MCPlanner`, `Planner.cfg`

Thirteen worlds: a Node with planner Pods of its own, or two Nodes and a pool of
one worker; edits, moved tags, lost Secrets, lagging caches, killed processes,
cut streams, results with other facts, a replaced manager.  `PlansAreSound`: a
persisted plan was computed from all the facts it needs and no other.
`FailuresAreReported`: a failure is persisted only if planning reported it, a
conversation was cut, or planning needs more rounds than a session has (`Rounds`).
A deleted Pod that runs goes on for its grace period and keeps its name (`Deleted`,
`Terminate`).  `Isolated`: planner processes run behind their NetworkPolicy until their
Pod is told to end, where the caches of Pods and policies are current.  `Converges`:
every Node comes to its plan.

### sidecar: `MCSidecar`, `Sidecar.cfg`

Eleven worlds: live rewiring of local, wire and host Links with crashes between any
two kernel calls and with calls that fail at any point of a phase, after which the
code deletes what it has not finished, except a fabric pair (`RolledBack`); the interposition likewise; a device
that strips addresses, renames, moves and flushes; a directory that grows,
shrinks and cannot be read.

* `ReadyIsRealized`: when the readiness endpoint vouches for a revision, exactly
  its interfaces exist.
* `LinksKept`: a pass takes no wanted endpoint away.
* `Steered`: after a pass no packet takes a wrong way or circles.
* `Converges`: the Pod ends up ready, connected and steered.

### device: `MCDevicePod`, `DevicePod.cfg`

Twenty-five worlds: edits, device writes, resets, enforced configuration, edited
payloads, a deployment that uses everything a package may, groups, impossible and
slow devices, randomness, a rich Pod, and the shared binary cache: a second Pod of
another or of the same version, and three versions of which the cache keeps two, so
that one is pruned while a Pod installs it.

* `PodIsSound`: the rendered Pod can run what was planned, and starts with the
  lifecycle binary in place.
* `DeclaredContent`: started devices find what the current plan declares, or what
  they wrote, unless a preparation was cut off before its ledger was written.
* `AcceptedIsPerformed`: an accepted plan is not refused later on by the runtime.
* `BinaryIntact`: what a Pod installs is the whole binary of its own image, and the
  cache it shares is not spoilt.
* `DeviceStateKept`: what a device wrote stays until a reset.
* `Converges`: the Pod of the last input becomes ready, or is refused.

## Bounds

A bound limits what the outside does, never what the code may do in response.

* Objects: two Links and two ids are enough for every way ids conflict, run out
  and are released, because the allocation looks at one Link and the set of ids
  held by all others; the theorems are for any number.  Three Pods and two slots,
  or two Pods and one, make every race between a count and a grant.  A group of
  two Nodes and two single ones make every partial release.
* Events: each world allows one to three outside events.  A hazard of
  `PROJECT.json` takes at most two of them in a certain order (an edit and a crash,
  a loss and a re-home), and TLC tries every moment for each.
* Time: a timeout is a step that may happen once its condition holds (`silent`,
  `settling`, `TimePasses`, ticks).  `WireReassembly` has a clock because expiry and
  session timeout are compared with each other; what matters is that
  `Expiry < SessionTimeout`, which is an assumption of the proof and true of the
  code's constants.
* Sidecar: the tick periods keep their order (boot, resync, reassertion, retry,
  peers) and not their length.
* Unbounded counters (generations, versions, frame ids, restart tokens) are capped by
  `MaxGen`, `MaxFrames`, `MaxRestarts`, `MaxUpgrades` and the worlds' budgets.

Two simplifications exclude something on purpose: in `MCLinkController` the first
manager leads at the start (the two are alike), and the sidecar's worlds exclude
the rewirings listed below that never succeed, so that `Converges` says something
about all others.

A cache in the models shows the present object, not every version in turn.  Where two
changes undo each other before the cache showed the first, a watch would still deliver
both, and the model would deliver none.  `NodeController!Drift` therefore makes no
change that takes an object back to what the cache has.

`TopologyController` reads the three uncached lists of a conflict check in one step.
The code knows a generated object by its owner reference or by its labels; the model
has one mark for the two (`Generated`), so an object that lost one of them and is
recognized by the other is, in the model, one whose spec drifted: both are put right
by the same update.

## Fairness

Liveness is checked under the fairness the code's scheduling gives:

* controllers: a queued request is taken and a pass goes on (`WF` of the pass's
  steps: workqueues and API calls return); every watch delivers in the end (`WF`
  of each `Sync`); users and faults owe nothing;
* the cluster: Pods are scheduled, started and removed (`WF`), devices boot unless
  the world says they are stuck;
* `Manager`: every goroutine runs (`WF`), and while a bootstrap ConfigMap waits,
  manager Pods are replaced sooner or later (`SF(Replace)`: this is the rollout that
  brought the ConfigMap);
* `Planner`: `SF` of a result being accepted before the Pod's end is seen, because
  nothing orders the two and they do not come in the wrong order every time;
* `FabricWire`: passes, ticks and the passing of time go on, a datagram sent again
  and again arrives;
* `Sidecar`: the process moves on infinitely often, the kernel repeats its
  neighbor solicitations, peers come up;
* `DevicePod`: the Deployment is brought up to date, init containers and containers
  go on.  The other Pod that installs into the shared cache has no fairness: it may
  stop for good while it holds what it holds.

## Proofs

TLAPS checks the following for every value of the constants.

| Theorem | States |
|---|---|
| `ControlPlaneProofs!TypeCorrect` | types of objects and passes; every id is within the ceiling |
| `ControlPlaneProofs!WireIDsStayUnique` | `Spec => []WireIDsUnique` |
| `ControlPlaneProofs!AcceptedLinksAreBound` | `Spec => []AcceptedIsBound` |
| `ControlPlaneProofs!DeletesAreJustified` | `Spec => DeletesOnlyOrphans` |
| `ControlPlaneProofs!RewiresKeepTheirID` | `Spec => RewiresKeepID` |
| `DirectRuntimeProofs!CarrierFollows` | `Spec => []CarrierFollowsState` |
| `DirectRuntimeProofs!NeverEchoes` | `Spec => NoEcho` |
| `DirectRuntimeProofs!LivePeersKeepSessions` | `Spec => LivePeerKeepsSession`, if generations grow (`Ordered`) |
| `DirectRuntimeProofs!Implements` | `ReassemblySpec => ImplementsChannel`, a refinement |
| `StartupAdmissionProofs!TypeCorrect` | types of Nodes, Pods, caches and passes |
| `StartupAdmissionProofs!BatchesKeepTheirSize` | `Spec => []BatchesAreLimited` |
| `StartupHostsProofs!StartupSlotsAreLimited` | `Spec => []SlotsAreLimited` |
| `ControlPlaneProofs!MergesKeepUserData` | `ManagerSpec => UserDataKept` |
| `ControlPlaneProofs!DeletionsFollowMerges` | `ManagerSpec => DeletedWhenMerged` |
| `DirectRuntimeProofs!BinariesStayIntact` | `InstallSpec => []BinaryIntact` |
| `TopologyControllerProofs!TypeCorrect` | types of objects, caches, passes and status |
| `TopologyControllerProofs!UserObjectsAreKept` | `Spec => UserObjectsKept` |
| `TopologyControllerProofs!NodesComeLast` | `Spec => WiringFirst` |
| `NodeControllerProofs!AppliedStatusIsCurrent` | `Spec => []AppliedIsCurrent` |
| `NodeControllerProofs!StatusGoesForward` | `Spec => ReportsForward` |
| `NodeControllerProofs!PodsReplacedForReason` | `Spec => ReplacedForReason` |
| `NodeControllerProofs!MountsAreKept` | `Spec => MountsKept` |
| `PlannerProofs!PlanningKeepsItsInvariant` | `Spec => []PlanInv` |
| `PlannerProofs!PlansAreComplete` | `Spec => []PlansAreSound` |
| `PlannerProofs!FailuresHaveCauses` | `Spec => []FailuresAreReported` |
| `PlannerProofs!ProcessesAreIsolated` | `Spec => []Isolated` |

The assumptions are the named ASSUMEs of the modules.  They say that bounds are
naturals, that names are distinct from "none" and from each other, that a world is
one of the declared shape (`WorldsAssumption`), and little else:

* `FabricWire!PodsAssumption`: a link has two ends;
* `WireReassembly`: `Expiry < SessionTimeout`, processes have distinct generations;
* `TopologyController!ChildrenAssumption`: finitely many children, of three disjoint
  kinds;
* `StartupAdmission`: the primary of a group is its own primary, and a Topology or a
  world has whole groups;
* `Planner!WorldsAssumption`: the attempt a Node asks for first is its own;
* `Planner!BoundsAssumption`: the manager serves as many requests as a worker may make
  (`MaxRounds <= MaxRequests`, both are 8 in the code).

### The arguments

None of the properties is inductive as it stands, because every controller acts on
what it read some time ago.  The invariants say what an old copy is still worth.

* **Unique ids.**  A pass allocates from its snapshot.  `Accounted`: while managers
  take turns every id held now is 0 or the id the snapshot has for that Link, and
  the snapshot's ids are unique; `LeaderAlone`: only the leader's pass runs.  So an
  id free in the snapshot is free.
* **Bindings.**  An Accepted status is written together with the binding it was
  derived from, under the lock of the Link's version; an edit of the spec leaves
  both.  No step separates them.
* **Justified deletions.**  `Fresh`: a Link with the listed resourceVersion is as
  listed.  `AllOld`: UIDs are given once.  `AllListed`: a Node that lives now and that
  a listed binding names was in the Node list, since the list is younger than the
  binding.  Hence a deletion decided from two lists is right at the time it is
  made; managers may overlap.
* **Ids survive rewires.**  `Ranged` and the uniqueness of the snapshot exclude the
  two reasons for a new id; `Fresh` says that the id kept is the Link's.
* **Carriers.**  `WireInv` says what a leg that is up or down can be due to: a leg the
  wire does not hold and takes for up is up; one that shows up is up unless it is
  held; a port taken for up that is down went down since (`dipped`).  With that, a
  report of "down" is never the wire's own doing.
* **Sessions.**  `GenInv`: generations are given out in order, a process has its Pod's
  last one, and nothing in flight from the Pod is of a later one.  This is what
  `Ordered` is needed for; without it the property fails (see below).
* **Refinement of the channel.**  `SentOnce`: a process gives an id to one frame only.
  `HeldTogether`: pending fragments came from the process whose generation holds the
  peer's session, and are no younger than its last datagram, so the tick that
  forgets a session forgets its fragments.  An entry with all indexes is then one
  frame; every step maps to a step of the channel or stutters.
* **Batches.**  `BatchInv` counts slots: the groups that boot, and those the running
  pass is about to let go.  A Topology's rollout releases groups in their order, so
  a group whose release the copy has not seen is the first one a pass would release
  again, and there the optimistic lock stops it.  The admission of an installation
  remembers what it admitted until the cache shows it (`Remembered`), and has looked
  at the Pods of every admitted group before it admits another.
* **Slots of hosts.**  A pass counts cached Pods.  `Lags` says what an old copy of a Pod
  still tells, `Accounted` that every granted Pod is known through the cache or the
  reservations, `PassCounts` that the counts stay at least the number of Pods booting
  while the pass grants.  `LimitInUse` needs that a limit is only ever lifted.
* **Config.**  `Read`: a Config with the version that was read is what was read.
  `InHand`: unless an upgrade overlaps, the initialization is about the present
  ConfigMap.
* **Binaries.**  `HolderOK`: who fills the host's cache holds its lock, so nobody else
  touches the staged file before it is published, nor prunes the entry before its
  publisher has opened it; `InstallerOK`: what an installer has in its hands at each
  step.  `InstallSpec` is what any number of Pods do to one cache, whatever was in it.
  `DevicePod` composes these very steps (`InstallStep`, `Kill`, `Recreate`) with the rest
  of a Pod's life, and leaves `inst` and `cache` alone in all others.
* **Wiring first.**  A pass takes a kind as done when its list says so.  `History`: what
  was listed, what the cache has and what there is are of three generations in this
  order, none newer than the pass's.  If no edit goes back, a child that looks right
  in the oldest is right in all three; `InPlace` says so of every child handled.
* **Nodes.**  `NodeInv`: a copy of the Node is older or has its spec (`Generations`); a
  pass has the plan of the spec it read (`PlansMatch`); a recorded revision is one a
  running Pod can be moved to (`LiveRevisions`); `Chosen` keeps why the pass decided to
  keep or replace; restart tokens are used in the order of their requests
  (`TokensOrdered`).
* **Plans.**  `PlanInv` follows a result from the process through its stream, the log
  or the worker's answer, the accepted digest, the pass and the record: wherever it is,
  it is complete, or has no facts and a sequence number that shows some were supplied,
  which the manager refuses (`FrameOK`, `PodOK`, `PassOK`).
* **Failures.**  While the input of a process is open the two ends of a conversation
  have the same facts and number (`Agree`), and a process has had no more rounds than
  there are answers in its facts (`ProcOK`).  Every answer completes the first discovery
  that is open (`AnswersGrow`), so the rounds are used up only if there are too few of them.
* **Isolation.**  `Fenced`: a pass that starts a Pod has its policy up, and one that
  deletes policies has deleted their Pods, which are gone or ending by then.

### Only model-checked

* Liveness, which is under fairness and beyond the prover: `Converges` (of `links`,
  `node`, `planner`, `sidecar`, `device`), `Reconverges`, `EveryGroupStarts`,
  `QueueDrains`, `ConfigFollowed`, `ChildrenFollow`, `StatusFollows`.
* `Sidecar` (`ReadyIsRealized`, `LinksKept`, `Steered`): which interfaces a pass leaves
  is a fold over the list of those to create and of the kernel calls for each.  To
  say what it yields for any list is an induction over data.
* `DevicePod` (`PodIsSound`, `DeclaredContent`, `AcceptedIsPerformed`,
  `DeviceStateKept`): plan and Pod are folds over the calls a package makes and over
  the nodes of a group, for the same reason.

## Where the code does something else than it says

The models follow the code.  Where a comment, a document or plain expectation
differs, the property is stated with that case excluded, in its definition or its
comment, and the case is listed here.  Paths are below `src/`.

### Links and the fabric wire

* `controllers/link/controller.go:75`: `GenerationChangedPredicate` can drop the
  event of a Node that was deleted and created again between two deliveries.
* One Link that finds no free id ends the pass before later Links release theirs.
* `internal/directruntime/wire_linux.go:1007`: a session timeout forgets the session,
  the remote state survives it (comment at 102); so it does a re-home (342).
* `wire_linux.go:773`: generations start with the second of the process's start.  For
  two starts within a second, or when the clock went back, a dead process's straggler
  may have the larger generation and displaces the living peer at once, which the
  comment at 753 excludes.  The runs take generations to grow (`Ordered`).
* `fabric_linux.go:186`: the pass may raise a leg the wire has just decided to hold
  (`wire_linux.go:382` says the wire decides).
* `wire_linux.go:343`: re-homing keeps pending fragments, so two processes' fragments
  may be joined (`carried`); `wire.go:86` says generations keep them apart.
* `wire_linux.go:316`: a failed re-bind leaves a closed stop channel; the next
  `EnsureLink`, `SweepLinks` or `Close` closes it again and panics.
* `wire_linux.go:841`: `forcedDown` is set before the netlink call; a failed call is
  not retried.
* `wire_linux.go:515`: a capture loop that ends leaves its link published.

### Topology and startup

* `controllers/topology/reconcile.go:171`: the three kinds come from three caches.  A
  child that was edited and edited back looks right in a cache that missed both, so
  a Node can be created before its wiring is back (`Reverts`).
* `reconcile.go:674`: pruning is by name from a cached list; an object a user created
  under that name since goes too.
* `reconcile.go:130`: errors of compilation do not reach `status.error`.
* `status.go:66`: `observedGeneration` is set on a name conflict; `status.go:60`
  counts Nodes that are about to be pruned; `status.go:163,190`: a stale cache can
  take a running Topology back to deploying.
* `apis/v1alpha1/topology.go:22`: the state `deployfailed` is never set.
* `controllers/topology/rollout.go:33`: a Node that is started between two passes
  exceeds the batch; `reconcile.go:429`: a Node that is stopped and started again gets
  no hold.
* `controllers/node/startupadmission.go:333`: a Node started again before a pass saw it
  stopped keeps its admission; `:180,125`: a Config event that overtakes the Config
  manager's watch is used up without effect.
* `controllers/node/startuphost.go:192`: the slot is reserved after the Patch; if its
  answer is lost the limit can be exceeded (`lost`).  `:145`: a granted Pod that has
  not started and whose Node is gone blocks all grants.

### Manager

* `config/manager.go:238`: a watch the API server ends is not opened again; later edits
  are loaded after a restart only (`:178` says "running forever").  `lastHash` is never
  recorded.
* `manager/lead.go:71`: a lost init lease exits as after success.  `:82,86`: the ready
  flag is written by two goroutines, so a standby that takes over can be ready before
  its caches are synced, and a late callback can take the flag back.
* `config/bootstrap.go:200`: a merge into a Config without metadata panics; `:217`: an
  empty list of pull secrets is lost; `:225`: a stop-signal setting of false is
  overwritten.
* `manager/initconfig.go:177`: the ConfigMap is deleted by name, so one that an upgrade
  brought meanwhile goes unread (`overlaps`).

### Nodes and planning

* `controllers/node/planner.go:177`: a lost input ConfigMap is not made again
  (`InputLost`).
* A Deployment cache that is behind lets the garbage collection of a pass remove
  mounted ConfigMaps; a ConfigMap cache behind the Deployment cache turns a live Link
  change into a replacement.  `MountsKept` and `ReplacedForReason` are about passes that
  read the current Deployment.
* `controllers/node/directstatus.go:878`: Stopped can be true while the Pod still runs.
* `controllers/node/plannerpool.go:112`: the pool persists transient failures as
  permanent (`planner.go:293` treats the same conditions as transient); a manager that stops during a session of a
  disposable Pod does so, too (`cut`).
* `controllers/node/planner.go:319`: an evicted planner Pod whose log ends with a
  request is not deleted.
* `controllers/node/workeroutput.go:226,241`: the sweep deletes a NetworkPolicy right
  after its Pod, without waiting for the Pod's end.  A planner process that runs may be
  without its policy for the grace period (`plannerpod.go:144`: a second).
* The acceptance of a result is an annotation: it may be missed when the Pod's end is
  seen first, or land on the next Pod of the name; then planning is done again.

### Sidecar

* A live rewire that reuses the name of a wire or host Link for a local one, swaps
  the names of two wires, exchanges a host and a wire under a name, or moves a
  wire whose leg the device has taken into its own namespace, is never applied
  (the order of `reconcileLocalInterfaces` and the transport sweep;
  `fabric_linux.go:170`).  An interface renamed in place counts as adopted and is not
  created.  A changed host interface of a host Link is not applied.
* A crash between creating and marking an interface strands it (`Wedged`): the next
  process refuses what it does not recognize.  So does a failing call in
  `ensureFabricPair` (`fabric_linux.go:241`), which deletes nothing.  A synthetic leg that
  was never brought up stays down.
* An adoption of a fabric or host pair that is cut off, and whose Link is then no longer
  wanted, leaves two ends that no pass puts right (`CalledOff`): a wire's device leg has
  "lost its sidecar leg" (`fabric_linux.go:202`), and a host pair whose Pod end carries the
  owner is taken for realized whatever its worker end is called (`:529`).
* `interposition_linux.go:418`: a crash or a failed rename between taking the transport
  down and recording its routes loses them (`RoutesLost`).
* `connectivity.go:1642`: the periodic pass renews the accepts of the Pod's first plan;
  a port of a wire added live is not among them.
* The hosts file is remembered as written even when the write failed.

### Device Pods

* A preparation that is cut off after publishing a file and before writing the ledger
  makes the next one take the file for the device's; later edits do not reach it
  (`hist.cut`; `staging_policy.go:22` says they keep propagating).
* The ledger is written in place: after a crash in that write the acknowledged reset
  is forgotten and carried out again (`hist.torn`; `staging_ledger.go:26`).
* Post-start and save re-render embedded startup configuration over what the device
  wrote (`Rewritten`; `postdeploy.go:385` takes it to be idempotent).
* Post-start keys its randomness by the input with runtime management in it,
  preparation by the input without (`postdeploy.go:51`, `preparer.go:283`); replays
  that draw random bytes differ (`Unrepeatable`).
* A device that changes a file its deployment copies cannot have its container
  restarted in place: the digest differs for good (`CopiedFileTouched`).
* `mapper.go:1038`: reserved paths are checked for the target of a bind, not for the
  files below it.  `renderer.go:2072`: device mounts are added after the check for two
  mounts at one path.

## Not modelled

* **Compiler of containerlab definitions** (`compiler/`): a function from a text to
  objects, thousands of lines of copying and formatting fields.  What it yields is
  the constant `Compiled`.  There is no state, order or failure to explore.
* **Node services, exposure, aliases, namespaces, volume claims**: rendered objects kept
  by compare and update one at a time; the Deployment and ConfigMaps of
  `NodeController` stand for that shape.
* **Peer directory controller**: one ConfigMap rewritten from a list; its reader is in
  `Sidecar`.
* **Image metadata and registries, packet capture, log broker, terminals, command line,
  health endpoint**: input and output without a protocol of their own.
* **API types, generated clients, conformance and test helpers**: declarations and
  tests.
* Inside modelled parts: byte encodings of headers; MTU, MAC and alias texts of
  interfaces; IPv6; owners, modes and extended attributes of files; resource
  quantities, labels and annotations of rendered objects; bridges; certificates and
  keys; `SweepLinks` and `Close` of a wire as steps of their own; the fast retries of
  failed dependencies; deletion of Nodes with planning under way.

About a third of the implementation's lines are behind a definition of a model.
Most of the rest is the compiler, rendering, generated and declarative code above.
