------------------------------ MODULE Manager -------------------------------
(***************************************************************************)
(* The life of the manager's Pods: init container, leader election, start  *)
(* of the controllers, the ready flag and the Config manager               *)
(* (manager/*.go, manager/election, config/manager.go), composed with the  *)
(* initialization of the Config resource (ConfigBootstrap).                *)
(*                                                                         *)
(* Leader election is client-go's: it runs the callbacks OnStartedLeading  *)
(* and OnNewLeader in goroutines of their own, so they interleave with     *)
(* each other.  Losing a lease ends the process.                           *)
(***************************************************************************)
EXTENDS Naturals, Sequences, FiniteSets

CONSTANTS
    Pods,      \* the Pods of the manager's Deployment
    None,      \* no holder of a lease
    Scalars, Maps, Metadata, Keys, Charts, \* as in ConfigBootstrap
    MaxUpgrades,
    Worlds     \* the settings a behaviour may have

EditKinds == {"scalar", "key", "omit"}
FaultKinds == {"call", "initLease", "lease", "watch"}

\* pods: how many of the Pods there are; charts: what charts bring; upgrades:
\* installs and upgrades; edits: kinds of edits of the Config, of which one
\* happens; faults: kinds of faults, of which one happens.
World == [pods : SUBSET Pods, charts : SUBSET Charts, upgrades : 1..MaxUpgrades,
          edits : SUBSET EditKinds, faults : SUBSET FaultKinds]

ASSUME PodsAssumption == None \notin Pods
ASSUME FieldsAssumption == Metadata \subseteq Maps
ASSUME WorldsAssumption == MaxUpgrades \in Nat /\ Worlds \subseteq World

VARIABLES
    map, cr, init, merged, overlaps, \* as in ConfigBootstrap
    initLease, lease,  \* holders of the two leases
    crds,              \* the custom resource definitions are installed
    proc,              \* the process of each Pod
    edited,            \* a user has edited the Config
    faults,            \* the fault there was, if any
    world              \* the settings

bootstrap == <<map, cr, init, merged, overlaps>>
managerVars == <<map, cr, init, merged, overlaps, initLease, lease, crds, proc, edited, faults, world>>

Boot == INSTANCE ConfigBootstrap

\* told: the leader last reported; calls: newLeader callbacks not yet run;
\* loaded, watch, events: the Config manager, with versions of the Config.
Process == [pc : {"init", "crds", "config", "standby", "prestart", "sync", "register", "owner", "serve"},
            told : Pods \cup {None}, calls : SUBSET Pods, ready : BOOLEAN,
            loaded : Nat, watch : {"none", "open", "ended"}, events : Seq(Nat)]
NewProcess(pc) == [pc |-> pc, told |-> None, calls |-> {}, ready |-> FALSE,
              loaded |-> 0, watch |-> "none", events |-> <<>>]

ManagerTypeOK ==
    /\ Boot!TypeOK
    /\ initLease \in Pods \cup {None} /\ lease \in Pods \cup {None}
    /\ crds \in BOOLEAN
    /\ proc \in [Pods -> Process]
    /\ edited \in BOOLEAN /\ faults \in SUBSET FaultKinds
    /\ world \in World

ManagerInit ==
    /\ world \in Worlds
    /\ Boot!Init /\ map.chart \in world.charts
    /\ initLease = None /\ lease = None /\ crds = FALSE
    /\ proc = [p \in Pods |-> NewProcess("init")]
    /\ edited = FALSE /\ faults = {}

Fault(kind) ==
    /\ kind \in world.faults /\ faults = {}
    /\ faults' = {kind}

\* Every open watch on the Config tells of a version.
Told(ps, version) ==
    [p \in Pods |-> IF ps[p].watch = "open" THEN [ps[p] EXCEPT !.events = Append(@, version)] ELSE ps[p]]

-----------------------------------------------------------------------------
(***************************************************************************)
(* The init container: startInitLeaderElection, init.                      *)
(***************************************************************************)

AcquireInit(p) ==
    /\ proc[p].pc = "init" /\ initLease = None
    /\ initLease' = p
    /\ proc' = [proc EXCEPT ![p].pc = "crds"]
    /\ UNCHANGED <<bootstrap, lease, crds, edited, faults, world>>

InitializeCrds(p) ==
    /\ proc[p].pc = "crds"
    /\ crds' = TRUE
    /\ proc' = [proc EXCEPT ![p].pc = "config"] /\ Boot!Start
    /\ UNCHANGED <<initLease, lease, edited, faults, world>>

\* A step of initializeConfig; the Config it writes is told to the watches.
InitializeConfig(p) ==
    /\ proc[p].pc = "config" /\ Boot!Steps
    /\ proc' = IF cr' = cr THEN proc ELSE Told(proc, cr'.version)
    /\ UNCHANGED <<initLease, lease, crds, edited, faults, world>>

CallFails(p) ==
    /\ proc[p].pc = "config" /\ init.pc # "done" /\ Fault("call")
    /\ Boot!Fail(Boot!Finished)
    /\ UNCHANGED <<initLease, lease, crds, proc, edited, world>>

\* The init container ends with a panic, and the kubelet starts it anew.
InitPanics(p) ==
    /\ proc[p].pc = "config" /\ init.pc = "write" /\ Boot!Panics
    /\ Boot!Fail(Boot!Idle)
    /\ initLease' = None /\ proc' = [proc EXCEPT ![p] = NewProcess("init")]
    /\ UNCHANGED <<lease, crds, edited, faults, world>>

\* init is done and cancels the context: the lease is released and the
\* process exits, and the manager starts.
ExitInit(p) ==
    /\ proc[p].pc = "config" /\ init.pc = "done"
    /\ Boot!Fail(Boot!Idle)
    /\ initLease' = None /\ proc' = [proc EXCEPT ![p] = NewProcess("standby")]
    /\ UNCHANGED <<lease, crds, edited, faults, world>>

\* The init lease is lost: stopLeading exits as after a complete run.
LoseInitLease(p) ==
    /\ proc[p].pc \in {"crds", "config"} /\ Fault("initLease")
    /\ Boot!Fail(Boot!Idle)
    /\ initLease' = None /\ proc' = [proc EXCEPT ![p] = NewProcess("standby")]
    /\ UNCHANGED <<lease, crds, edited, world>>

-----------------------------------------------------------------------------
(***************************************************************************)
(* The manager: startLeaderElection, startLeading, newLeader.              *)
(***************************************************************************)

\* The election reports a holder it has not reported last.
Reported(q, holder) ==
    IF q.told = holder THEN q ELSE [q EXCEPT !.told = holder, !.calls = @ \cup {holder}]

\* A standby sees who holds the lease.
Observe(p) ==
    /\ proc[p].pc = "standby" /\ lease \notin {None, p} /\ proc[p].told # lease
    /\ proc' = [proc EXCEPT ![p] = Reported(@, lease)]
    /\ UNCHANGED <<bootstrap, initLease, lease, crds, edited, faults, world>>

Acquire(p) ==
    /\ proc[p].pc = "standby" /\ lease = None
    /\ lease' = p
    /\ proc' = [proc EXCEPT ![p] = [Reported(@, p) EXCEPT !.pc = "prestart"]]
    /\ UNCHANGED <<bootstrap, initLease, crds, edited, faults, world>>

\* newLeader
NewLeader(p) ==
    \E q \in proc[p].calls :
        /\ proc' = [proc EXCEPT ![p].calls = @ \ {q}, ![p].ready = (q # p)]
        /\ UNCHANGED <<bootstrap, initLease, lease, crds, edited, faults, world>>

\* preStart: the Config is read and loaded; its watch is opened after that.
PreStart(p) ==
    /\ proc[p].pc = "prestart"
    /\ proc' = [proc EXCEPT ![p].pc = "sync", ![p].loaded = cr.version]
    /\ UNCHANGED <<bootstrap, initLease, lease, crds, edited, faults, world>>

WaitForCacheSync(p) ==
    /\ proc[p].pc = "sync"
    /\ proc' = [proc EXCEPT ![p].pc = "register"]
    /\ UNCHANGED <<bootstrap, initLease, lease, crds, edited, faults, world>>

\* The controllers are registered and the manager is ready.
Register(p) ==
    /\ proc[p].pc = "register"
    /\ proc' = [proc EXCEPT ![p].pc = "owner", ![p].ready = TRUE]
    /\ UNCHANGED <<bootstrap, initLease, lease, crds, edited, faults, world>>

\* enforceConfigOwnerReference: a Config that is missing, or newer than the
\* cached one, is left alone.
PostStart(p) ==
    /\ proc[p].pc = "owner"
    /\ \/ /\ cr.exists /\ ~cr.owned
          /\ cr' = [cr EXCEPT !.owned = TRUE, !.version = @ + 1, !.spec = Boot!Encoded(@)]
          /\ proc' = [Told(proc, cr'.version) EXCEPT ![p].pc = "serve"]
       \/ proc' = [proc EXCEPT ![p].pc = "serve"] /\ UNCHANGED cr
    /\ UNCHANGED <<map, init, merged, overlaps, initLease, lease, crds, edited, faults, world>>

Leading(p) == proc[p].pc \in {"prestart", "sync", "register", "owner", "serve"}

LeaseReleased(p) == IF lease = p THEN None ELSE lease

\* stopLeading: the process exits and the kubelet starts the container anew.
LoseLease(p) ==
    /\ Leading(p) /\ Fault("lease")
    /\ lease' = LeaseReleased(p) /\ proc' = [proc EXCEPT ![p] = NewProcess("standby")]
    /\ UNCHANGED <<bootstrap, initLease, crds, edited, world>>

\* A Pod of the manager is replaced, as in a rollout of the chart.
Replace(p) ==
    /\ map.exists /\ proc[p].pc \in {"standby", "serve"}
    /\ lease' = LeaseReleased(p) /\ proc' = [proc EXCEPT ![p] = NewProcess("init")]
    /\ UNCHANGED <<bootstrap, initLease, crds, edited, faults, world>>

-----------------------------------------------------------------------------
(***************************************************************************)
(* The Config manager's watch.                                             *)
(***************************************************************************)

\* Mutant: the watch is only opened for a Config that was found.
OpenWhenFound(p) ==
    /\ Leading(p) /\ proc[p].pc # "prestart" /\ proc[p].watch = "none" /\ proc[p].loaded # 0
    /\ proc' = [proc EXCEPT ![p].watch = "open", ![p].events = <<cr.version>>]
    /\ UNCHANGED <<bootstrap, initLease, lease, crds, edited, faults, world>>

\* watchConfig: a watch without a resource version starts with the Config.
OpenWatch(p) ==
    /\ Leading(p) /\ proc[p].pc # "prestart" /\ proc[p].watch = "none"
    /\ proc' = [proc EXCEPT ![p].watch = "open", ![p].events = IF cr.exists THEN <<cr.version>> ELSE <<>>]
    /\ UNCHANGED <<bootstrap, initLease, lease, crds, edited, faults, world>>

\* load: the hash that would spare a reload is never recorded.
Load(p) ==
    /\ proc[p].events # <<>>
    /\ proc' = [proc EXCEPT ![p].loaded = Head(proc[p].events), ![p].events = Tail(@)]
    /\ UNCHANGED <<bootstrap, initLease, lease, crds, edited, faults, world>>

\* The API server ends the watch, as it does with every watch in time; the
\* events sent are still read, then the goroutine of watchConfig returns.
WatchEnds(p) ==
    /\ proc[p].watch = "open" /\ Fault("watch")
    /\ proc' = [proc EXCEPT ![p].watch = "ended"]
    /\ UNCHANGED <<bootstrap, initLease, lease, crds, edited, world>>

\* A user's edit of the Config, or a Config of their own without metadata.
Edits(spec) == cr' = [cr EXCEPT !.exists = TRUE, !.version = @ + 1, !.spec = spec]
Edit ==
    /\ ~edited /\ edited' = TRUE
    /\ \/ "scalar" \in world.edits /\ \E s \in Scalars : Edits([cr.spec EXCEPT !.scalar[s] = "user"])
       \/ /\ "key" \in world.edits
          /\ \E f \in Maps, k \in Keys :
               Edits([cr.spec EXCEPT !.keyed[f] = [made |-> TRUE, by |-> [@.by EXCEPT ![k] = "user"]]])
       \/ "omit" \in world.edits /\ Edits([cr.spec EXCEPT !.keyed = Boot!Nothing.keyed])
    /\ proc' = Told(proc, cr'.version)
    /\ UNCHANGED <<map, init, merged, overlaps, initLease, lease, crds, faults, world>>

Upgrade ==
    /\ map.number < world.upgrades /\ Boot!Upgrade /\ map'.chart \in world.charts
    /\ UNCHANGED <<initLease, lease, crds, proc, edited, faults, world>>

Step(p) ==
    \/ AcquireInit(p) \/ InitializeCrds(p) \/ InitializeConfig(p) \/ InitPanics(p) \/ ExitInit(p)
    \/ Observe(p) \/ Acquire(p) \/ PreStart(p) \/ WaitForCacheSync(p) \/ Register(p) \/ PostStart(p)
Faults(p) == CallFails(p) \/ LoseInitLease(p) \/ LoseLease(p) \/ WatchEnds(p)

ManagerNext ==
    \/ Edit \/ Upgrade
    \/ \E p \in world.pods : Step(p) \/ NewLeader(p) \/ OpenWatch(p) \/ Load(p) \/ Replace(p) \/ Faults(p)

ManagerSpec == ManagerInit /\ [][ManagerNext]_managerVars

\* Every goroutine of every process runs, and while a ConfigMap waits, Pods
\* are replaced sooner or later.
ManagerFairSpec ==
    /\ ManagerSpec
    /\ \A p \in Pods : /\ WF_managerVars(p \in world.pods /\ Step(p))
                       /\ SF_managerVars(p \in world.pods /\ Replace(p))
                       /\ WF_managerVars(NewLeader(p)) /\ WF_managerVars(OpenWatch(p)) /\ WF_managerVars(Load(p))

-----------------------------------------------------------------------------
(***************************************************************************)
(* What is promised.                                                       *)
(***************************************************************************)

\* Merging leaves every field and key the Config has as it is, also when a
\* user edits the Config while the init container is between its read and its
\* write (mergeFromBootstrapConfigMerge, the resource version of the update).
UserDataKept == [][Boot!KeepsUserData]_managerVars

\* Unless an upgrade comes during an initialization, a ConfigMap goes away only
\* after its data was merged, whichever call fails and whichever Pod loses its
\* lease (initializeConfig; values.yaml: "once complete, the configmap will be
\* deleted").
DeletedWhenMerged == [][overlaps \/ Boot!DeletesMerged]_managerVars

\* As long as its watch stays open the leader loads, in the end, every edit of
\* the Config and every merge, also after a take-over (watchConfig, load).
ConfigFollowed ==
    <>[]("watch" \notin faults => \A p \in Pods : proc[p].pc = "serve" => proc[p].loaded = cr.version)

=============================================================================
