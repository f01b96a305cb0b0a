----------------------------- MODULE MCManager ------------------------------
(***************************************************************************)
(* An instance of Manager: two Pods, an optional field and the annotations *)
(* as fields of the Config, and three charts.                              *)
(***************************************************************************)
EXTENDS Manager

CONSTANTS p1, p2, none

Chart(mode, valid, scalars, keys) ==
    [mode |-> mode, valid |-> valid, scalar |-> scalars, keys |-> keys, secrets |-> FALSE, stop |-> FALSE]

Merging == Chart("merge", TRUE, Scalars, Keys)
Overwriting == Chart("overwrite", TRUE, Scalars, {})
Unparsable == Chart("merge", FALSE, {}, {})
SomeCharts == {Merging, Overwriting, Unparsable}

AWorld(ps, cs, upgrades, es, fs) ==
    [pods |-> ps, charts |-> cs, upgrades |-> upgrades, edits |-> es, faults |-> fs]

Installs ==
    {\* One Pod through two charts of any kind, an edit at any time
     AWorld({p1}, Charts, 2, EditKinds, FaultKinds),
     \* Two Pods that initialize, take over and follow an edit
     AWorld(Pods, {Merging}, 1, {"scalar"}, FaultKinds),
     \* Two Pods through an upgrade
     AWorld(Pods, {Merging}, 2, {"key"}, {})}

=============================================================================
