---------------------------- MODULE Connectivity ----------------------------
(***************************************************************************)
(* Connectivity revisions (internal/directruntime/connectivity.go): the    *)
(* controller projects the interfaces of a newly planned Pod over the plan *)
(* the running Pod was created from, and the sidecar reproduces the result *)
(* and refuses everything else.                                            *)
(*                                                                         *)
(* An input is [cold, ifs]: what is not connectivity, and the interfaces   *)
(* of the Pod.  A plan is [planner, input, cold, ifs, waits]: the planner's *)
(* identity, the input it was made for, its creation-time sections, its    *)
(* interfaces (with the mode in which each takes a change) and the wait    *)
(* actions, one per interface.  A digest is the value it is taken of.      *)
(***************************************************************************)
EXTENDS Naturals, FiniteSets, FiniteSetsExt

(* linkApplyModeRank *)
Rank(mode) == CASE mode = "live" -> 0 [] mode = "restart" -> 1 [] mode = "recreate" -> 2
                [] OTHER -> 3

Ids(ifs) == {i.id : i \in ifs}
WithId(ifs, id) == {i \in ifs : i.id = id}

(* validateIdentity: the plan is of this input, interface by interface. *)
ValidIdentity(input, plan) ==
  /\ plan.input = input
  /\ Ids(plan.ifs) = Ids(input.ifs)
  /\ \A i \in plan.ifs : \E j \in input.ifs :
        i.id = j.id /\ i.link = j.link /\ i.kind = j.kind /\ i.peer = j.peer /\ i.host = j.host

(* projectLiveConnectivity: the base with other interfaces and waits. *)
ProjectInput(base, ifs) == [base EXCEPT !.ifs = ifs]
ProjectPlan(base, input, ifs, waits) ==
  [base EXCEPT !.input = input, !.ifs = ifs, !.waits = waits]

(* changedConnectivityInterfaces *)
ChangedInterfaces(baseInput, basePlan, input, plan) ==
  {id \in Ids(baseInput.ifs) \cup Ids(input.ifs) :
     \/ WithId(baseInput.ifs, id) # WithId(input.ifs, id)
     \/ WithId(basePlan.ifs, id) # WithId(plan.ifs, id)
     \/ (id \in basePlan.waits) # (id \in plan.waits)}

(* evaluateNormalizedConnectivityTransition: the most disruptive mode of any *)
(* interface, before or after, of any Link a changed interface is of.        *)
RequiredMode(baseInput, basePlan, input, plan) ==
  LET changed == ChangedInterfaces(baseInput, basePlan, input, plan)
      all == basePlan.ifs \cup plan.ifs
      links == {i.link : i \in {j \in all : j.id \in changed}}
               \cup {i.link : i \in {j \in baseInput.ifs \cup input.ifs : j.id \in changed}}
      modes == {"live"} \cup {i.mode : i \in {j \in all : j.link \in links}}
  IN CHOOSE m \in modes : \A n \in modes : Rank(n) <= Rank(m)

Refused == [ok |-> FALSE]

(* normalizeConnectivityRevision *)
ValidRevision(r) ==
  /\ r.mode \in {"live", "restart"}
  /\ Ids(r.ifs) = Ids(r.inputs)
  /\ Cardinality(r.ifs) = Cardinality(Ids(r.ifs))
  /\ r.waits = Ids(r.ifs)

(* ApplyConnectivityRevision *)
ApplyRevision(baseInput, basePlan, r) ==
  LET input == ProjectInput(baseInput, r.inputs)
      plan == ProjectPlan(basePlan, input, r.ifs, r.waits)
  IN IF /\ ValidRevision(r)
        /\ ValidIdentity(baseInput, basePlan)
        /\ r.base = basePlan
        /\ r.desired = plan
        /\ ValidIdentity(input, plan)
        /\ r.mode = RequiredMode(baseInput, basePlan, input, plan)
     THEN [ok |-> TRUE, plan |-> plan] ELSE Refused

(* NewConnectivityRevisionForMode *)
NewRevision(baseInput, basePlan, desiredInput, desiredPlan, maximum) ==
  LET input == ProjectInput(baseInput, desiredInput.ifs)
      plan == ProjectPlan(basePlan, input, desiredPlan.ifs, desiredPlan.waits)
      mode == RequiredMode(baseInput, basePlan, input, plan)
      revision == [base |-> basePlan, desired |-> plan, mode |-> mode,
                   inputs |-> desiredInput.ifs, ifs |-> desiredPlan.ifs,
                   waits |-> desiredPlan.waits]
  IN IF /\ maximum \in {"live", "restart"}
        /\ ValidIdentity(baseInput, basePlan)
        /\ ValidIdentity(desiredInput, desiredPlan)
        /\ baseInput.cold = desiredInput.cold
        /\ basePlan.planner = desiredPlan.planner
        /\ Rank(mode) <= Rank(maximum)
        /\ ApplyRevision(baseInput, basePlan, revision).ok
     THEN [ok |-> TRUE, revision |-> revision] ELSE Refused
=============================================================================
