-------------------------- MODULE ConfigBootstrap ---------------------------
(***************************************************************************)
(* The init container's merge of the chart's bootstrap ConfigMap into the  *)
(* Config resource (manager/initconfig.go, config/bootstrap.go).           *)
(*                                                                         *)
(* A field is modelled by who has set it.  Scalars are optional fields     *)
(* (rollout, pull policy, default resources); Maps are the fields with     *)
(* keys (annotations and labels, node selectors, the registry lists), of   *)
(* which the ones in Metadata are written without making the map first.    *)
(* secrets is a list that can be set and empty, stop a Boolean.            *)
(***************************************************************************)
EXTENDS Naturals

CONSTANTS
    Scalars,    \* optional fields
    Maps,       \* keyed fields
    Metadata,   \* the keyed fields of spec.metadata
    Keys,       \* keys of a keyed field
    Charts,     \* what charts may bring
    MaxUpgrades \* bound: Helm installs and upgrades

VARIABLES
    map,      \* the bootstrap ConfigMap
    cr,       \* the Config resource
    init,     \* the initialization under way
    merged,   \* history: the number of the last ConfigMap whose data was merged
    overlaps  \* history: a ConfigMap was replaced during an initialization

vars == <<map, cr, init, merged, overlaps>>

Setter == {"unset", "user", "chart"}
\* made: the map is not nil.
Keyed == [made : BOOLEAN, by : [Keys -> Setter]]
ConfigSpec == [scalar : [Scalars -> Setter], keyed : [Maps -> Keyed],
          secrets : Setter \cup {"empty"}, stop : {"unset", "off", "on"}]
\* What a chart sets; an invalid one does not parse.
Bootstrap == [mode : {"merge", "overwrite"}, valid : BOOLEAN, scalar : SUBSET Scalars,
              keys : SUBSET Keys, secrets : BOOLEAN, stop : BOOLEAN]

Nothing == [scalar |-> [s \in Scalars |-> "unset"],
            keyed |-> [f \in Maps |-> [made |-> FALSE, by |-> [k \in Keys |-> "unset"]]],
            secrets |-> "unset", stop |-> "unset"]
NoChart == [mode |-> "merge", valid |-> TRUE, scalar |-> {}, keys |-> {},
            secrets |-> FALSE, stop |-> FALSE]

Idle == [pc |-> "idle", number |-> 0, chart |-> NoChart, found |-> FALSE, version |-> 0, spec |-> Nothing]

TypeOK ==
    /\ map \in [exists : BOOLEAN, number : 0..MaxUpgrades, chart : Bootstrap]
    /\ cr \in [exists : BOOLEAN, owned : BOOLEAN, version : Nat, spec : ConfigSpec]
    /\ init \in [pc : {"idle", "get", "config", "write", "delete", "done"}, number : 0..MaxUpgrades,
                 chart : Bootstrap, found : BOOLEAN, version : Nat, spec : ConfigSpec]
    /\ merged \in 0..MaxUpgrades /\ overlaps \in BOOLEAN

\* The first install.
Init ==
    /\ map \in {[exists |-> TRUE, number |-> 1, chart |-> b] : b \in Charts}
    /\ cr = [exists |-> FALSE, owned |-> FALSE, version |-> 0, spec |-> Nothing]
    /\ init = Idle /\ merged = 0 /\ overlaps = FALSE

-----------------------------------------------------------------------------
(***************************************************************************)
(* config/bootstrap.go.                                                    *)
(***************************************************************************)

\* mergeFromBootstrapConfigReplace.  The chart writes each map into the ConfigMap, {} if it
\* is empty (charts/clabernetes/templates/configmap.yaml), so that none of them is nil.
Replaced(b) ==
    [scalar |-> [s \in Scalars |-> IF s \in b.scalar THEN "chart" ELSE "unset"],
     keyed |-> [f \in Maps |-> [made |-> TRUE,
                                by |-> [k \in Keys |-> IF k \in b.keys THEN "chart" ELSE "unset"]]],
     secrets |-> IF b.secrets THEN "chart" ELSE "empty",
     stop |-> IF b.stop THEN "on" ELSE "off"]

\* The keys of the chart that the Config does not have.
Filled(keyed, b) ==
    [made |-> keyed.made \/ b.keys # {},
     by |-> [k \in Keys |-> IF k \in b.keys /\ keyed.by[k] = "unset" THEN "chart" ELSE keyed.by[k]]]

\* mergeFromBootstrapConfigMerge
Merged(spec, b) ==
    [scalar |-> [s \in Scalars |-> IF spec.scalar[s] = "unset" /\ s \in b.scalar THEN "chart"
                                   ELSE spec.scalar[s]],
     keyed |-> [f \in Maps |-> Filled(spec.keyed[f], b)],
     secrets |-> IF spec.secrets = "unset" /\ b.secrets THEN "chart" ELSE spec.secrets,
     stop |-> IF spec.stop \in {"unset", "off"} THEN (IF b.stop THEN "on" ELSE "off") ELSE spec.stop]

Overwrites(b, found) == b.mode = "overwrite" \/ ~found

\* A key written to a map of spec.metadata that is nil
WritesNilMap(spec, b) == b.valid /\ b.keys # {} /\ \E f \in Metadata : ~spec.keyed[f].made

\* The merge at hand panics.
Panics == ~Overwrites(init.chart, init.found) /\ WritesNilMap(init.spec, init.chart)

\* MergeFromBootstrapConfig of a chart that parses.
MergeFromBootstrapConfig(spec, b, found) ==
    IF Overwrites(b, found) THEN Replaced(b) ELSE Merged(spec, b)

\* What is written: omitempty drops an empty list and a false.
Encoded(spec) ==
    [spec EXCEPT !.secrets = IF @ = "empty" THEN "unset" ELSE @,
                 !.stop = IF @ = "off" THEN "unset" ELSE @]

\* The typed Config cannot tell an absent Boolean from a false one.
Same(s, t) ==
    [s EXCEPT !.stop = (s.stop = "on")] = [t EXCEPT !.stop = (t.stop = "on")]

-----------------------------------------------------------------------------
(***************************************************************************)
(* manager/initconfig.go: initializeConfig, one step per API call.  Every  *)
(* error is logged and ends the initialization.                            *)
(***************************************************************************)

\* A Helm upgrade brings another ConfigMap.
Upgrade ==
    /\ map.number < MaxUpgrades
    /\ \E b \in Charts : map' = [exists |-> TRUE, number |-> map.number + 1, chart |-> b]
    /\ overlaps' = (overlaps \/ init.pc \notin {"idle", "done"})
    /\ UNCHANGED <<cr, init, merged>>

Start ==
    /\ init.pc = "idle" /\ init' = [Idle EXCEPT !.pc = "get"]
    /\ UNCHANGED <<map, cr, merged, overlaps>>

Finished == [Idle EXCEPT !.pc = "done"]

\* A call to the API server fails, or the process is gone.
Fail(to) ==
    /\ init' = to
    /\ UNCHANGED <<map, cr, merged, overlaps>>

GetBootstrapConfigmap ==
    /\ init.pc = "get"
    /\ init' = IF map.exists THEN [init EXCEPT !.pc = "config", !.number = map.number, !.chart = map.chart]
               ELSE Finished
    /\ UNCHANGED <<map, cr, merged, overlaps>>

GetConfigCR ==
    /\ init.pc = "config"
    /\ init' = [init EXCEPT !.pc = "write", !.found = cr.exists, !.version = cr.version,
                            !.spec = IF cr.exists THEN cr.spec ELSE Nothing]
    /\ UNCHANGED <<map, cr, merged, overlaps>>

\* Mutant: the update does not carry the resource version it has read.
AcceptsStale == init.found = cr.exists

\* The API server takes the write: nobody wrote the Config since it was read.
Accepts == init.found = cr.exists /\ (init.found => init.version = cr.version)

\* Mutant: the ConfigMap is deleted whatever became of the write.
AfterErrorDeletes == [init EXCEPT !.pc = "delete"]

\* An error of the write leaves the ConfigMap for another initialization.
AfterError == Finished

\* initConfigCreateOrUpdateConfig, unless it panics.
CreateOrUpdateConfig ==
    LET b == init.chart
        spec == MergeFromBootstrapConfig(init.spec, b, init.found)
        done == [init EXCEPT !.pc = "delete"]
    IN  /\ init.pc = "write"
        /\ \/ /\ ~b.valid
              /\ init' = AfterError /\ UNCHANGED <<cr, merged>>
           \/ /\ b.valid /\ ~Panics /\ Same(spec, init.spec)
              /\ init' = done /\ merged' = init.number /\ UNCHANGED cr
           \/ /\ b.valid /\ ~Panics /\ ~Same(spec, init.spec) /\ Accepts
              /\ cr' = [cr EXCEPT !.exists = TRUE, !.version = @ + 1, !.spec = Encoded(spec)]
              /\ init' = done /\ merged' = init.number
           \/ /\ b.valid /\ ~Panics /\ ~Same(spec, init.spec) /\ ~Accepts
              /\ init' = AfterError /\ UNCHANGED <<cr, merged>>
        /\ UNCHANGED <<map, overlaps>>

\* initBootstrapConfigDelete deletes by name.
DeleteBootstrapConfigmap ==
    /\ init.pc = "delete"
    /\ map' = [map EXCEPT !.exists = FALSE]
    /\ init' = Finished
    /\ UNCHANGED <<cr, merged, overlaps>>

Steps == GetBootstrapConfigmap \/ GetConfigCR \/ CreateOrUpdateConfig \/ DeleteBootstrapConfigmap

-----------------------------------------------------------------------------
(***************************************************************************)
(* What a step may do.                                                     *)
(***************************************************************************)

\* A write of the init container in merge mode.
MergeWrites == init.pc = "write" /\ init' # init /\ cr' # cr /\ init.chart.mode = "merge" /\ cr.exists

\* It leaves every field and key the Config has as it is.
KeepsUserData ==
    MergeWrites =>
        /\ \A s \in Scalars : cr.spec.scalar[s] # "unset" => cr'.spec.scalar[s] = cr.spec.scalar[s]
        /\ \A f \in Maps, k \in Keys :
             cr.spec.keyed[f].by[k] # "unset" => cr'.spec.keyed[f].by[k] = cr.spec.keyed[f].by[k]

\* Only a ConfigMap that was merged goes away.
DeletesMerged == map.exists /\ ~map'.exists => merged = map.number

=============================================================================
