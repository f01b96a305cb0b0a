------------------------ MODULE NodeControllerProofs ------------------------
(***************************************************************************)
(* What a pass over one Node may write, for every number of specs, Links,  *)
(* generations and restart tokens, however far each cache lags.            *)
(*                                                                         *)
(* A pass decides from copies that were read at different times.  Aged     *)
(* says what a copy of the Node is worth, Chosen what the pass decided and *)
(* why, LiveRevisions what a revision of a plan may be, and Tokens say     *)
(* that restart tokens are used in the order of their requests.            *)
(***************************************************************************)
EXTENDS NodeController, TLAPS

\* A copy of the Node is older, or has its spec and run state.
Aged(n, now) == n.gen <= now.gen /\ (n.gen = now.gen => n.spec = now.spec /\ n.up = now.up)

Generations ==
    /\ Aged(seen.node, node)
    /\ pass.pc # "idle" => pass.node \in Node /\ Aged(pass.node, node)
    /\ status.og <= node.gen

\* A pass, and an observation, have the plan of the spec they read.
PlanOf(p, n) == p \in Plans /\ p.spec = n.spec

Planned == {"observe", "read", "decide", "revise", "record", "store", "apply", "report", "sweep", "settle"}

PlansMatch ==
    /\ pass.pc \in Planned => PlanOf(pass.plan, pass.node)
    /\ obs.valid => PlanOf(obs.plan, obs.node)

\* A revision of a plan is one a Pod of that plan can be moved to.
LiveRevisions(c) == \A p \in Plans : c.revisions[p] # NoPlan => Live(p, c.revisions[p])

\* Why a pass replaces a Pod it could have kept
Reason(p) ==
    \/ ~Live(p.dep.plan, p.plan)
    \/ ~Conforms(p.dep, [plan |-> p.dep.plan, token |-> p.token, sched |-> p.sched, up |-> p.node.up])

\* What a pass decided, and the Deployment it goes by.
Chosen(p) ==
    /\ p.pc \in {"plan", "read", "decide", "clear"} => p.dep = NoDep
    /\ p.pc \in {"revise", "store", "apply"} => p.token = RestartToken(p.node, p.dep)
    /\ p.pc = "revise" /\ p.live => p.retain
    /\ p.pc = "record" => p.retain
    /\ p.pc \in {"revise", "record", "report", "sweep"} /\ p.retain => p.dep # NoDep /\ Live(p.dep.plan, p.plan)
    /\ p.pc \in {"revise", "store", "apply"} /\ p.cold /\ ~p.retain /\ p.node.up => Reason(p)
    /\ p.pc \in {"store", "apply"} => ~p.retain
    /\ p.pc \in {"report", "sweep"} /\ ~p.retain => p.dep.plan = p.plan

\* Restart tokens are used in the order of their requests: what a Deployment
\* carries is not newer than a request that was read since.
Used == {dep.token, seen.dep.token, pass.dep.token, pass.token}

Ordered(r) == r # 0 => \A t \in Used : t <= r

TokensOrdered ==
    /\ \A t \in Used : t <= world.tokens
    /\ node.restart \in {0, world.tokens}
    /\ seen.node.restart <= world.tokens /\ Ordered(seen.node.restart)
    /\ pass.pc # "idle" => /\ Ordered(pass.node.restart)
                           /\ pass.node.restart <= world.tokens
                           /\ seen.node.restart # 0 => pass.node.restart <= seen.node.restart

NodeInv ==
    /\ TypeOK /\ Generations /\ PlansMatch /\ LiveRevisions(cms) /\ LiveRevisions(seen.cms)
    /\ Chosen(pass) /\ TokensOrdered

-----------------------------------------------------------------------------
(* The constants and the records *)

LEMMA Shapes ==
    /\ NoPlan \notin Plans /\ 0 \in Tokens /\ Tokens \subseteq Nat
    /\ NoStatus \in Status /\ NoDep \in Deployment /\ NoPod \in Pod /\ NoConfigMaps \in ConfigMaps
    /\ IdlePass \in Pass /\ InvalidObs \in Observation
  <1>1. NoPlan \notin Plans
    BY SpecsAssumption, Zenon DEF NoPlan, Plans, Grouped
  <1>2. 0 \in Tokens /\ Tokens \subseteq Nat /\ 0 \in 0..MaxGen
    BY BoundsAssumption DEF Tokens
  <1>3. NoStatus \in Status
    BY <1>2, Zenon DEF NoStatus, Status
  <1>4. NoDep \in Deployment /\ NoPod \in Pod
    BY Zenon DEF Deployment, Pod
  <1>5. NoConfigMaps \in ConfigMaps
    BY Zenon DEF NoConfigMaps, ConfigMaps, NoRevisions
  <1>6. IdlePass \in Pass
    BY <1>2, <1>3, <1>4, Zenon DEF IdlePass, Pass, Steps, Scheduling
  <1>7. InvalidObs \in Observation
    BY <1>4, Zenon DEF InvalidObs, Observation
  <1>. QED
    BY <1>1, <1>2, <1>3, <1>4, <1>5, <1>6, <1>7, Zenon

LEMMA DeploymentFields ==
    ASSUME NEW d \in Deployment
    PROVE  /\ d.token \in Tokens /\ d.sched \in Scheduling /\ d.up \in BOOLEAN
           /\ d.plan \in Plans \cup {NoPlan} /\ (d # NoDep => d.plan \in Plans)
           /\ d.plan = NoPlan => d = NoDep
  <1>1. CASE d = NoDep
    BY <1>1, Shapes, Zenon DEF NoDep, Scheduling
  <1>2. CASE d \in [plan : Plans, token : Tokens, sched : Scheduling, up : BOOLEAN]
    <2>1. d.token \in Tokens /\ d.sched \in Scheduling /\ d.up \in BOOLEAN /\ d.plan \in Plans
      BY <1>2, Zenon
    <2>. QED
      BY <2>1, Shapes, Zenon
  <1>. QED
    BY <1>1, <1>2, Zenon DEF Deployment

LEMMA NodeFields ==
    ASSUME NEW n \in Node
    PROVE  n.gen \in Nat /\ n.gen \in 1..MaxGen /\ n.up \in BOOLEAN /\ n.restart \in Nat /\ n.restart \in Tokens
  <1>1. n.gen \in 1..MaxGen /\ n.restart \in Tokens
    BY Zenon DEF Node
  <1>2. n.up \in BOOLEAN
    BY Zenon DEF Node
  <1>3. 1..MaxGen \subseteq Nat
    BY BoundsAssumption
  <1>. QED
    BY <1>1, <1>2, <1>3, Shapes, Zenon

LEMMA PendingFields ==
    ASSUME NEW st \in Status, NEW n \in Node
    PROVE  /\ PendingStatus(st, n) \in Status
           /\ PendingStatus(st, n).og = n.gen /\ ~PendingStatus(st, n).applied
  <1>1. n.gen \in 0..MaxGen
    BY NodeFields, BoundsAssumption
  <1>. QED
    BY <1>1, Zenon DEF PendingStatus, Status

LEMMA ObservedFields ==
    ASSUME seen.pod \in Pod, NEW st \in Status, NEW n \in Node, NEW d \in Deployment, NEW plan \in Plans
    PROVE  LET new == ObservedStatus(st, n, d, plan) IN
           /\ new \in Status /\ new.og = n.gen /\ new.plan = plan
           /\ new.ready = "Ready" => n.up
  <1> DEFINE new == ObservedStatus(st, n, d, plan)
  <1>1. n.gen \in 0..MaxGen /\ n.up \in BOOLEAN
    BY NodeFields, BoundsAssumption
  <1>2. CurrentPod(d).token \in Tokens /\ st.restart \in Tokens
    BY Shapes DEF CurrentPod, Pod, NoPod, Status
  <1>3. new.ready \in {"Ready", "NotReady", "Unknown"} /\ (new.ready = "Ready" => n.up)
    BY <1>1, Zenon DEF ObservedStatus
  <1>4. new.stopped \in BOOLEAN
    BY Zenon DEF ObservedStatus
  <1>5. new.restart \in Tokens /\ new.og = n.gen /\ new.plan = plan /\ new.applied = TRUE
    BY <1>2, Zenon DEF ObservedStatus
  <1>6. new = [ready |-> new.ready, applied |-> new.applied, og |-> new.og, plan |-> new.plan,
               restart |-> new.restart, stopped |-> new.stopped]
    BY Zenon DEF ObservedStatus
  <1>. HIDE DEF new
  <1>7. new \in Status
    BY <1>1, <1>3, <1>4, <1>5, <1>6, Zenon DEF Status
  <1>. QED
    BY <1>3, <1>5, <1>7, Zenon DEF new

\* updateNodeStatus writes for the current generation, or not at all.
LEMMA WriteEffect ==
    ASSUME TypeOK, status.og <= node.gen, NEW n \in Node, NEW old, NEW new \in Status, new.og = n.gen,
           status' = WrittenStatus(n, old, new)
    PROVE  /\ status' \in Status /\ status'.og <= node.gen /\ status.og <= status'.og
           /\ status' = status \/ (status' = new /\ n.gen = node.gen)
  BY NodeFields DEF TypeOK, WrittenStatus, Status

LEMMA LiveTransitive ==
    ASSUME NEW p \in Plans, NEW q \in Plans, NEW r \in Plans, Live(p, q)
    PROVE  Live(q, p) /\ (Live(q, r) <=> Live(p, r))
  BY Zenon DEF Live

-----------------------------------------------------------------------------
(* The steps of a pass *)

LEMMA PassFields ==
    ASSUME NEW p \in Pass
    PROVE  /\ p.status \in Status /\ p.dep \in Deployment /\ p.token \in Tokens /\ p.sched \in Scheduling
           /\ p.retain \in BOOLEAN /\ p.cold \in BOOLEAN /\ p.plan \in Plans \cup {NoPlan}
  BY Zenon DEF Pass

LEMMA IdleFields ==
    /\ IdlePass.pc = "idle" /\ IdlePass.dep = NoDep /\ IdlePass.token = 0 /\ NoDep.token = 0
    /\ Chosen(IdlePass) /\ ~InvalidObs.valid
  BY Zenon DEF IdlePass, Chosen, InvalidObs, NoDep

\* A step of a pass that has begun: it goes on with the Node it read, or ends.
GoesOn ==
    /\ pass.pc # "idle" /\ UNCHANGED <<node, seen, world>>
    /\ pass'.pc # "idle" => pass'.node = pass.node

\* The tokens such a step uses are ones it read.
LEMMA GoesOnTokens ==
    ASSUME NodeInv, GoesOn, dep'.token \in Used \cup {0}, pass'.dep.token \in Used \cup {0},
           pass'.token \in Used \cup {0, pass.node.restart}
    PROVE  TokensOrdered'
  <1>1. /\ node \in Node /\ seen.node \in Node /\ pass.node \in Node /\ world.tokens \in Nat
        /\ dep \in Deployment /\ seen.dep \in Deployment /\ pass.dep \in Deployment /\ pass.token \in Nat
    BY Shapes, Zenon DEF NodeInv, TypeOK, Generations, GoesOn, Seen, Pass, World
  <1>2. /\ dep.token \in Nat /\ seen.dep.token \in Nat /\ pass.dep.token \in Nat
        /\ seen.node.restart \in Nat /\ pass.node.restart \in Nat
    BY <1>1, Shapes, NodeFields, DeploymentFields, Zenon
  <1>3. TokensOrdered /\ pass.pc # "idle"
    BY Zenon DEF NodeInv, GoesOn
  <1>4. \A t \in Used' : t \in Used \cup {0, pass.node.restart}
    BY Zenon DEF Used, GoesOn
  <1>5. Used \subseteq Nat
    BY <1>1, <1>2, Zenon DEF Used
  <1>6. \A t \in Used \cup {0, pass.node.restart} :
           /\ t <= world.tokens
           /\ seen.node.restart # 0 => t <= seen.node.restart
           /\ pass.node.restart # 0 => t <= pass.node.restart
    <2>1. /\ \A t \in Used : /\ t <= world.tokens
                             /\ seen.node.restart # 0 => t <= seen.node.restart
                             /\ pass.node.restart # 0 => t <= pass.node.restart
          /\ pass.node.restart <= world.tokens
          /\ seen.node.restart # 0 => pass.node.restart <= seen.node.restart
      BY <1>3, Zenon DEF TokensOrdered, Ordered
    <2>2. /\ 0 <= world.tokens /\ 0 <= seen.node.restart /\ 0 <= pass.node.restart
          /\ pass.node.restart <= pass.node.restart
      BY <1>1, <1>2
    <2>. QED
      BY <2>1, <2>2, Zenon
  <1>7. (\A t \in Used : t <= world.tokens)' /\ Ordered(seen.node.restart)'
        /\ (pass'.pc # "idle" => Ordered(pass.node.restart)')
    BY <1>4, <1>6, Zenon DEF Ordered, GoesOn
  <1>. QED
    BY <1>3, <1>7, Zenon DEF TokensOrdered, GoesOn

LEMMA GoesOnGenerations ==
    ASSUME NodeInv, GoesOn, status'.og <= node.gen
    PROVE  Generations'
  BY Zenon DEF NodeInv, Generations, GoesOn

LEMMA BeginKeeps ==
    ASSUME NodeInv, Begin
    PROVE  NodeInv'
  <1> DEFINE n == seen.node
             pending == PendingStatus(seen.status, n)
             start == [IdlePass EXCEPT !.current = TRUE, !.node = n]
  <1>0. /\ TypeOK /\ Generations /\ n \in Node /\ seen.status \in Status /\ obs \in Observation
        /\ UNCHANGED <<node, inputs, dep, pod, cms, worker, seen, marking, obs, world>>
        /\ queued' = FALSE
    BY Zenon DEF NodeInv, TypeOK, Seen, Begin
  <1>1. pending \in Status /\ pending.og = n.gen
    BY <1>0, PendingFields, Zenon
  <1>2. HeldStatus(n, seen.status, pending) \in Status
    BY <1>0, <1>1, Zenon DEF HeldStatus, WrittenStatus, TypeOK
  <1>3. /\ start \in Pass /\ start.node = n /\ start.dep = NoDep /\ start.token = 0
        /\ start.retain = FALSE /\ start.cold = FALSE
    BY <1>0, Shapes, Zenon DEF IdlePass, Pass
  <1>4. \/ status' = status
        \/ status' = WrittenStatus(n, seen.status, pending)
    BY Zenon DEF Begin
  <1>5. status' \in Status /\ status'.og <= node.gen
    BY <1>0, <1>1, <1>4, WriteEffect, Zenon DEF Generations, TypeOK
  <1>6. \/ \E st \in Status : pass' = [start EXCEPT !.pc = "plan", !.status = st]
        \/ /\ obs.valid /\ obs.node = n /\ obs.dep = seen.dep
           /\ pass' = [start EXCEPT !.pc = "observe", !.status = seen.status,
                                    !.plan = obs.plan, !.dep = obs.dep]
    BY <1>0, <1>2, Zenon DEF Begin
  <1>. HIDE DEF start, n, pending
  <1>7. /\ pass' \in Pass /\ pass'.node = n /\ pass'.token = 0 /\ pass'.pc # "idle"
        /\ \/ pass'.pc = "plan" /\ pass'.dep = NoDep
           \/ /\ pass'.pc = "observe" /\ pass'.dep = seen.dep
              /\ obs.valid /\ obs.node = n /\ pass'.plan = obs.plan
    <2>0. "plan" \in Steps /\ "observe" \in Steps
      BY Zenon DEF Steps
    <2>1. CASE \E st \in Status : pass' = [start EXCEPT !.pc = "plan", !.status = st]
      <3>1. PICK st \in Status : pass' = [start EXCEPT !.pc = "plan", !.status = st]
        BY <2>1, Zenon
      <3>. QED
        BY <1>3, <2>0, <3>1, Zenon DEF Pass
    <2>2. CASE /\ obs.valid /\ obs.node = n /\ obs.dep = seen.dep
               /\ pass' = [start EXCEPT !.pc = "observe", !.status = seen.status,
                                        !.plan = obs.plan, !.dep = obs.dep]
      BY <1>0, <1>3, <2>0, <2>2, Zenon DEF Pass, Observation
    <2>. QED
      BY <1>6, <2>1, <2>2, Zenon
  <1>8. TypeOK'
    BY <1>0, <1>5, <1>7, Zenon DEF TypeOK
  <1>9. Generations'
    BY <1>0, <1>5, <1>7, Zenon DEF Generations, n
  <1>10. PlansMatch'
    BY <1>0, <1>7, Zenon DEF NodeInv, PlansMatch, Planned
  <1>11. Chosen(pass')
    BY <1>7, Zenon DEF Chosen
  <1>12. TokensOrdered'
    <2>1. TokensOrdered /\ n.restart \in Nat
      BY <1>0, NodeFields, Zenon DEF NodeInv
    <2>2. pass'.dep.token \in Used \cup {0} /\ NoDep.token = 0
      BY <1>7 DEF Used, NoDep
    <2>3. dep.token \in Nat /\ seen.dep.token \in Nat /\ world.tokens \in Nat
      BY <1>0, Shapes, DeploymentFields, Zenon DEF TypeOK, Seen, World
    <2>. QED
      BY <1>0, <1>7, <2>1, <2>2, <2>3 DEF TokensOrdered, Used, Ordered, n
  <1>. QED
    BY <1>0, <1>8, <1>9, <1>10, <1>11, <1>12, Zenon DEF NodeInv

\* Planning starts, is retried, or gives the plan of the spec and the Links.
LEMMA PlanKeeps ==
    ASSUME NodeInv, Plan
    PROVE  NodeInv'
  <1> DEFINE desired == [spec |-> pass.node.spec, link |-> seen.inputs.link]
             planned == [pass EXCEPT !.pc = "read", !.plan = desired, !.sched = seen.inputs.sched]
  <1>0. /\ TypeOK /\ Generations /\ pass.pc = "plan" /\ pass.node \in Node /\ pass \in Pass
        /\ seen.inputs \in Inputs /\ pass.node.spec # Grouped
        /\ UNCHANGED <<node, status, inputs, dep, pod, seen, marking, queued, obs, world>>
    BY Zenon DEF NodeInv, TypeOK, Seen, Plan, Generations
  <1>1. PlanOf(desired, pass.node)
    BY <1>0, Zenon DEF PlanOf, Plans, Node, Inputs
  <1>2. /\ planned \in Pass /\ planned.pc = "read" /\ planned.plan = desired
        /\ planned.node = pass.node /\ planned.dep = pass.dep /\ planned.token = pass.token
    BY <1>0, <1>1, Zenon DEF PlanOf, Pass, Steps, Inputs
  <1>3. pass' = IdlePass \/ pass' = planned
    BY Zenon DEF Plan
  <1>4. cms' = cms \/ cms' = [cms EXCEPT !.inputs = @ \cup {desired}, !.records = @ \cup {desired}]
    BY Zenon DEF Plan
  <1>5. worker' \in [Plans -> {"none", "running", "finished"}]
    BY <1>0, Zenon DEF Plan, TypeOK
  <1>. HIDE DEF planned, desired
  <1>6. cms' \in ConfigMaps /\ cms'.revisions = cms.revisions
    <2>1. desired \in Plans /\ cms \in ConfigMaps
      BY <1>0, <1>1, Zenon DEF TypeOK, PlanOf
    <2>2. cms.inputs \cup {desired} \in SUBSET Plans /\ cms.records \cup {desired} \in SUBSET Plans
      BY <2>1, Zenon DEF ConfigMaps
    <2>. QED
      BY <1>4, <2>1, <2>2, Zenon DEF ConfigMaps
  <1>7. GoesOn /\ pass' \in Pass
    BY <1>0, <1>2, <1>3, Shapes, IdleFields, Zenon DEF GoesOn
  <1>8. TypeOK'
    BY <1>0, <1>5, <1>6, <1>7, Zenon DEF TypeOK
  <1>9. Generations'
    BY <1>0, <1>7, GoesOnGenerations, Zenon DEF Generations
  <1>10. PlansMatch'
    BY <1>0, <1>1, <1>2, <1>3, IdleFields, Zenon DEF NodeInv, PlansMatch, Planned
  <1>11. Chosen(pass')
    BY <1>0, <1>2, <1>3, IdleFields, Zenon DEF NodeInv, Chosen
  <1>12. TokensOrdered'
    BY <1>0, <1>2, <1>3, <1>7, IdleFields, GoesOnTokens, Zenon DEF Used
  <1>. QED
    BY <1>0, <1>6, <1>8, <1>9, <1>10, <1>11, <1>12, Zenon DEF NodeInv, LiveRevisions
\* The pass keeps the Pod only where it can be moved to the plan; otherwise it
\* has a reason, as the revision of a plan is itself one the Pod can be moved to.
LEMMA DecideKeeps ==
    ASSUME NodeInv, Decide
    PROVE  NodeInv'
  <1> DEFINE token == RestartToken(pass.node, seen.dep)
             rendered == [Render(seen.dep.plan) EXCEPT !.token = token]
             cold == seen.dep # NoDep /\ ColdPlanAvailable(seen.dep.plan)
             retain == RetainsPod(seen.dep, rendered, pass.plan)
             live == retain /\ seen.cms.revisions[seen.dep.plan] # pass.plan
  <1>0. /\ TypeOK /\ pass.pc = "decide" /\ pass.node \in Node /\ pass \in Pass
        /\ seen.dep \in Deployment /\ seen.cms \in ConfigMaps
        /\ UNCHANGED <<node, status, inputs, dep, pod, cms, worker, seen, marking, queued, obs, world>>
    BY Zenon DEF NodeInv, TypeOK, Seen, Decide, Generations
  <1>1. token \in Tokens /\ token \in {pass.node.restart, seen.dep.token}
    BY <1>0, NodeFields, DeploymentFields, Zenon DEF RestartToken
  <1>2. cold \in BOOLEAN /\ retain \in BOOLEAN /\ live \in BOOLEAN /\ (live => retain)
    BY Zenon DEF ColdPlanAvailable, RetainsPod
  <1>3. pass' = [pass EXCEPT !.pc = "revise", !.dep = seen.dep, !.token = token, !.cold = cold,
                             !.retain = retain, !.live = live]
    BY Zenon DEF Decide
  <1>4. /\ pass' \in Pass /\ pass'.pc = "revise" /\ pass'.dep = seen.dep /\ pass'.token = token
        /\ pass'.node = pass.node /\ pass'.plan = pass.plan /\ pass'.sched = pass.sched
        /\ pass'.retain = retain /\ pass'.cold = cold /\ pass'.live = live
    <2>. HIDE DEF token, cold, retain, live
    <2>. QED
      BY <1>0, <1>1, <1>2, <1>3, Zenon DEF Pass, Steps
  <1>5. rendered = [plan |-> seen.dep.plan, token |-> token, sched |-> pass.sched, up |-> pass.node.up]
    BY DEF Render
  <1>6. GoesOn
    BY <1>0, <1>4, Zenon DEF GoesOn
  <1>7. retain => seen.dep # NoDep /\ Live(seen.dep.plan, pass.plan)
    BY Zenon DEF RetainsPod
  <1>8. ASSUME cold, ~retain, pass.node.up PROVE Reason(pass')
    <2>1. /\ seen.dep.plan \in Plans /\ pass.plan \in Plans
          /\ seen.cms.revisions[seen.dep.plan] \in Plans
      BY <1>0, <1>8, DeploymentFields, Zenon DEF ColdPlanAvailable, ConfigMaps, NodeInv, PlansMatch, Planned, PlanOf
    <2>2. Live(seen.dep.plan, seen.cms.revisions[seen.dep.plan])
      BY <1>8, <2>1, Zenon DEF ColdPlanAvailable, NodeInv, LiveRevisions
    <2>3. Live(seen.dep.plan, pass.plan) => Live(seen.cms.revisions[seen.dep.plan], pass.plan)
      BY <2>1, <2>2, LiveTransitive
    <2>4. rendered.up
      BY <1>5, <1>8, Zenon
    <2>5. ~Live(seen.dep.plan, pass.plan) \/ ~Conforms(seen.dep, rendered)
      BY <1>8, <2>3, <2>4, Zenon DEF RetainsPod
    <2>. HIDE DEF token, rendered, cold, retain, live
    <2>. QED
      BY <1>4, <1>5, <2>5, Zenon DEF Reason
  <1>. HIDE DEF token, rendered, cold, retain, live
  <1>9. Chosen(pass')
    BY <1>2, <1>4, <1>7, <1>8, Zenon DEF Chosen, token
  <1>10. TypeOK'
    BY <1>0, <1>4, Zenon DEF TypeOK
  <1>11. Generations'
    BY <1>0, <1>6, GoesOnGenerations, Zenon DEF NodeInv, Generations
  <1>12. PlansMatch'
    BY <1>0, <1>4, Zenon DEF NodeInv, PlansMatch, Planned
  <1>13. TokensOrdered'
    BY <1>0, <1>1, <1>4, <1>6, GoesOnTokens, Zenon DEF Used
  <1>. QED
    BY <1>0, <1>9, <1>10, <1>11, <1>12, <1>13, Zenon DEF NodeInv

\* Steps that leave the pass what it decided and go on or end
LEMMA SamePass ==
    ASSUME NodeInv, NEW step \in Steps, pass' = IdlePass \/ pass' = [pass EXCEPT !.pc = step]
    PROVE  /\ pass' \in Pass
           /\ \/ pass' = IdlePass
              \/ /\ pass'.pc = step /\ pass'.node = pass.node /\ pass'.plan = pass.plan
                 /\ pass'.dep = pass.dep /\ pass'.token = pass.token /\ pass'.sched = pass.sched
                 /\ pass'.cold = pass.cold /\ pass'.retain = pass.retain
  <1>1. pass \in Pass
    BY Zenon DEF NodeInv, TypeOK
  <1>. QED
    BY <1>1, Shapes, Zenon DEF Pass

\* The input of the plan is read, and the pass goes on or is retried.
LEMMA ReadInputKeeps ==
    ASSUME NodeInv, ReadInput
    PROVE  NodeInv'
  <1>0. /\ TypeOK /\ pass.pc = "read" /\ pass.node \in Node /\ pass \in Pass /\ Chosen(pass)
        /\ UNCHANGED <<node, status, inputs, dep, pod, cms, worker, seen, marking, obs, world>>
    BY Zenon DEF NodeInv, TypeOK, ReadInput, Generations
  <1>1. pass' = IdlePass \/ pass' = [pass EXCEPT !.pc = "decide"]
    BY Zenon DEF ReadInput, Goto, Retry
  <1>2. queued' \in BOOLEAN /\ "decide" \in Steps
    BY <1>0, Zenon DEF ReadInput, Retry, TypeOK, Steps
  <1>3. /\ pass' \in Pass
        /\ \/ pass' = IdlePass
           \/ /\ pass'.pc = "decide" /\ pass'.node = pass.node /\ pass'.plan = pass.plan
              /\ pass'.dep = pass.dep /\ pass'.token = pass.token
    BY <1>1, <1>2, SamePass, Zenon
  <1>4. GoesOn
    BY <1>0, <1>3, IdleFields, Zenon DEF GoesOn
  <1>5. TypeOK'
    BY <1>0, <1>2, <1>3, Zenon DEF TypeOK
  <1>6. Generations'
    BY <1>0, <1>4, GoesOnGenerations, Zenon DEF NodeInv, Generations
  <1>7. PlansMatch'
    BY <1>0, <1>3, IdleFields, Zenon DEF NodeInv, PlansMatch, Planned
  <1>8. Chosen(pass')
    BY <1>0, <1>3, IdleFields, Zenon DEF Chosen
  <1>9. TokensOrdered'
    BY <1>0, <1>3, <1>4, IdleFields, GoesOnTokens, Zenon DEF Used
  <1>. QED
    BY <1>0, <1>5, <1>6, <1>7, <1>8, <1>9, Zenon DEF NodeInv

\* The move of a Pod that is kept is recorded, or the pass is retried.
LEMMA RecordKeeps ==
    ASSUME NodeInv, Record
    PROVE  NodeInv'
  <1>0. /\ TypeOK /\ pass.pc = "record" /\ pass.node \in Node /\ pass \in Pass /\ Chosen(pass)
        /\ UNCHANGED <<node, status, inputs, dep, pod, cms, worker, seen, marking, obs, world>>
    BY Zenon DEF NodeInv, TypeOK, Record, Generations
  <1>1. pass' = IdlePass \/ pass' = [pass EXCEPT !.pc = "report"]
    BY Zenon DEF Record, Goto, Retry
  <1>2. queued' \in BOOLEAN /\ "report" \in Steps
    BY <1>0, Zenon DEF Record, Retry, TypeOK, Steps
  <1>3. /\ pass' \in Pass
        /\ \/ pass' = IdlePass
           \/ /\ pass'.pc = "report" /\ pass'.node = pass.node /\ pass'.plan = pass.plan
              /\ pass'.dep = pass.dep /\ pass'.token = pass.token /\ pass'.retain = pass.retain
    BY <1>1, <1>2, SamePass, Zenon
  <1>4. GoesOn
    BY <1>0, <1>3, IdleFields, Zenon DEF GoesOn
  <1>5. TypeOK'
    BY <1>0, <1>2, <1>3, Zenon DEF TypeOK
  <1>6. Generations'
    BY <1>0, <1>4, GoesOnGenerations, Zenon DEF NodeInv, Generations
  <1>7. PlansMatch'
    BY <1>0, <1>3, IdleFields, Zenon DEF NodeInv, PlansMatch, Planned
  <1>8. Chosen(pass')
    BY <1>0, <1>3, IdleFields, Zenon DEF Chosen
  <1>9. TokensOrdered'
    BY <1>0, <1>3, <1>4, IdleFields, GoesOnTokens, Zenon DEF Used
  <1>. QED
    BY <1>0, <1>5, <1>6, <1>7, <1>8, <1>9, Zenon DEF NodeInv

LEMMA ReviseKeeps ==
    ASSUME NodeInv, Revise
    PROVE  NodeInv'
  <1> DEFINE cold == IF pass.retain THEN pass.dep.plan ELSE pass.plan
             step == IF pass.live THEN "record" ELSE IF pass.retain THEN "report" ELSE "store"
  <1>0. /\ TypeOK /\ pass.pc = "revise" /\ pass.node \in Node /\ pass \in Pass /\ cms \in ConfigMaps
        /\ Chosen(pass) /\ pass.plan \in Plans
        /\ UNCHANGED <<node, status, inputs, dep, pod, worker, seen, marking, obs, world>>
    BY Zenon DEF NodeInv, TypeOK, Revise, Generations, PlansMatch, Planned, PlanOf
  <1>1. cold \in Plans /\ Live(cold, pass.plan)
    <2>1. Live(pass.plan, pass.plan)
      BY Zenon DEF Live
    <2>2. pass.retain => pass.dep # NoDep /\ Live(pass.dep.plan, pass.plan)
      BY <1>0, Zenon DEF Chosen
    <2>. QED
      BY <1>0, <2>1, <2>2, PassFields, DeploymentFields, Zenon
  <1>2. pass' = IdlePass \/ pass' = [pass EXCEPT !.pc = step]
    BY Zenon DEF Revise, Goto, Retry
  <1>3. cms' = cms \/ cms' = [cms EXCEPT !.revisions[cold] = pass.plan]
    BY Zenon DEF Revise
  <1>4. /\ step \in Steps /\ (pass.retain => step \in {"record", "report"})
        /\ (~pass.retain => step = "store")
    BY <1>0, Zenon DEF Steps, Chosen
  <1>5. queued' \in BOOLEAN
    BY <1>0, Zenon DEF Revise, Retry, TypeOK
  <1>. HIDE DEF cold, step
  <1>6. /\ pass' \in Pass
        /\ \/ pass' = IdlePass
           \/ /\ pass'.pc = step /\ pass'.node = pass.node /\ pass'.plan = pass.plan
              /\ pass'.dep = pass.dep /\ pass'.token = pass.token /\ pass'.sched = pass.sched
              /\ pass'.cold = pass.cold /\ pass'.retain = pass.retain
    BY <1>2, <1>4, SamePass, Zenon
  <1>7. /\ cms' \in ConfigMaps
        /\ \A p \in Plans : cms'.revisions[p] = cms.revisions[p] \/ (p = cold /\ cms'.revisions[p] = pass.plan)
    BY <1>0, <1>1, <1>3, Zenon DEF ConfigMaps
  <1>8. LiveRevisions(cms')
    BY <1>1, <1>7, Zenon DEF NodeInv, LiveRevisions
  <1>9. GoesOn
    BY <1>0, <1>6, IdleFields, Zenon DEF GoesOn
  <1>10. TypeOK'
    BY <1>0, <1>5, <1>6, <1>7, Zenon DEF TypeOK
  <1>11. Generations'
    BY <1>0, <1>9, GoesOnGenerations, Zenon DEF NodeInv, Generations
  <1>12. PlansMatch'
    BY <1>0, <1>6, IdleFields, Zenon DEF NodeInv, PlansMatch, Planned
  <1>13. Chosen(pass')
    BY <1>0, <1>4, <1>6, IdleFields, PassFields, Zenon DEF Chosen, Reason
  <1>14. TokensOrdered'
    BY <1>0, <1>6, <1>9, IdleFields, GoesOnTokens, Zenon DEF Used
  <1>. QED
    BY <1>0, <1>8, <1>10, <1>11, <1>12, <1>13, <1>14, Zenon DEF NodeInv

LEMMA StoreKeeps ==
    ASSUME NodeInv, Store
    PROVE  NodeInv'
  <1>0. /\ TypeOK /\ pass.pc = "store" /\ pass.node \in Node /\ pass \in Pass /\ cms \in ConfigMaps
        /\ Chosen(pass) /\ pass.plan \in Plans
        /\ UNCHANGED <<node, status, inputs, dep, pod, worker, seen, marking, obs, world>>
    BY Zenon DEF NodeInv, TypeOK, Store, Generations, PlansMatch, Planned, PlanOf
  <1>1. pass' = IdlePass \/ pass' = [pass EXCEPT !.pc = "apply"]
    BY Zenon DEF Store, Goto, Retry
  <1>2. cms' = cms \/ cms' = [cms EXCEPT !.plans = @ \cup {pass.plan}]
    BY Zenon DEF Store
  <1>3. queued' \in BOOLEAN /\ "apply" \in Steps
    BY <1>0, Zenon DEF Store, Retry, TypeOK, Steps
  <1>4. /\ pass' \in Pass
        /\ \/ pass' = IdlePass
           \/ /\ pass'.pc = "apply" /\ pass'.node = pass.node /\ pass'.plan = pass.plan
              /\ pass'.dep = pass.dep /\ pass'.token = pass.token /\ pass'.sched = pass.sched
              /\ pass'.cold = pass.cold /\ pass'.retain = pass.retain
    BY <1>1, <1>3, SamePass, Zenon
  <1>5. cms' \in ConfigMaps /\ cms'.revisions = cms.revisions
    <2>1. cms.plans \cup {pass.plan} \in SUBSET Plans
      BY <1>0, Zenon DEF ConfigMaps
    <2>. QED
      BY <1>0, <1>2, <2>1, Zenon DEF ConfigMaps
  <1>6. GoesOn
    BY <1>0, <1>4, IdleFields, Zenon DEF GoesOn
  <1>7. TypeOK'
    BY <1>0, <1>3, <1>4, <1>5, Zenon DEF TypeOK
  <1>8. Generations'
    BY <1>0, <1>6, GoesOnGenerations, Zenon DEF NodeInv, Generations
  <1>9. PlansMatch'
    BY <1>0, <1>4, IdleFields, Zenon DEF NodeInv, PlansMatch, Planned
  <1>10. Chosen(pass')
    BY <1>0, <1>4, IdleFields, Zenon DEF Chosen, Reason
  <1>11. TokensOrdered'
    BY <1>0, <1>4, <1>6, IdleFields, GoesOnTokens, Zenon DEF Used
  <1>. QED
    BY <1>0, <1>5, <1>7, <1>8, <1>9, <1>10, <1>11, Zenon DEF NodeInv, LiveRevisions
LEMMA ApplyKeeps ==
    ASSUME NodeInv, Apply
    PROVE  NodeInv'
  <1> DEFINE rendered == Render(pass.plan)
             failed == PendingStatus(pass.status, pass.node)
  <1>0. /\ TypeOK /\ Generations /\ pass.pc = "apply" /\ pass.node \in Node /\ pass \in Pass
        /\ Chosen(pass) /\ pass.plan \in Plans /\ seen.dep \in Deployment /\ pass.status \in Status
        /\ UNCHANGED <<node, inputs, pod, cms, worker, seen, marking, obs, world>>
    BY PassFields, Zenon DEF NodeInv, TypeOK, Apply, Generations, PlansMatch, Planned, PlanOf, Seen
  <1>1. failed \in Status /\ failed.og = pass.node.gen
    BY <1>0, PendingFields, Zenon
  <1>2. status' = status \/ status' = WrittenStatus(pass.node, pass.status, failed)
    BY Zenon DEF Apply
  <1>3. status' \in Status /\ status'.og <= node.gen
    <2>1. status \in Status /\ status.og <= node.gen
      BY <1>0, Zenon DEF TypeOK, Generations
    <2>. QED
      BY <1>0, <1>1, <1>2, <2>1, WriteEffect, Zenon
  <1>4. /\ rendered \in Deployment /\ rendered.token = pass.token /\ rendered.plan = pass.plan
        /\ rendered # NoDep
    <2>1. pass.node.up \in BOOLEAN /\ pass.token \in Tokens /\ pass.sched \in Scheduling
      BY <1>0, NodeFields, PassFields, Zenon
    <2>. QED
      BY <1>0, <2>1, Shapes, Zenon DEF Render, Deployment, NoDep
  <1>5. Conforms(seen.dep, rendered) => seen.dep.plan = pass.plan
    BY <1>4, Zenon DEF Conforms
  <1>6. /\ dep' = dep \/ dep' = rendered
        /\ \/ pass' = IdlePass
           \/ /\ Conforms(seen.dep, rendered)
              /\ pass' = [pass EXCEPT !.pc = "report", !.dep = seen.dep]
           \/ pass' = [pass EXCEPT !.pc = "report", !.dep = rendered]
        /\ queued' \in BOOLEAN
    BY <1>0, Zenon DEF Apply, Retry, TypeOK
  <1>. HIDE DEF rendered, failed
  <1>7. /\ pass' \in Pass
        /\ \/ pass' = IdlePass
           \/ /\ pass'.pc = "report" /\ pass'.node = pass.node /\ pass'.plan = pass.plan
              /\ pass'.token = pass.token /\ pass'.retain = pass.retain
              /\ pass'.dep.plan = pass.plan /\ pass'.dep \in {seen.dep, rendered}
    <2>1. ASSUME NEW d \in Deployment, pass' = [pass EXCEPT !.pc = "report", !.dep = d]
          PROVE  /\ pass' \in Pass /\ pass'.pc = "report" /\ pass'.node = pass.node
                 /\ pass'.plan = pass.plan /\ pass'.token = pass.token /\ pass'.retain = pass.retain
                 /\ pass'.dep = d
      BY <1>0, <2>1, Zenon DEF Pass, Steps
    <2>. QED
      BY <1>0, <1>4, <1>5, <1>6, <2>1, Shapes, Zenon
  <1>8. GoesOn
    BY <1>0, <1>7, IdleFields, Zenon DEF GoesOn
  <1>9. TypeOK'
    BY <1>0, <1>3, <1>4, <1>6, <1>7, Zenon DEF TypeOK
  <1>10. Generations'
    BY <1>3, <1>8, GoesOnGenerations, Zenon
  <1>11. PlansMatch'
    BY <1>0, <1>7, IdleFields, Zenon DEF NodeInv, PlansMatch, Planned
  <1>12. Chosen(pass')
    <2>1. ~pass.retain
      BY <1>0, Zenon DEF Chosen
    <2>. QED
      BY <1>7, <2>1, IdleFields, Zenon DEF Chosen
  <1>13. TokensOrdered'
    BY <1>4, <1>6, <1>7, <1>8, IdleFields, GoesOnTokens, Zenon DEF Used
  <1>. QED
    BY <1>0, <1>9, <1>10, <1>11, <1>12, <1>13, Zenon DEF NodeInv

LEMMA ReportKeeps ==
    ASSUME NodeInv, Report
    PROVE  NodeInv'
  <1> DEFINE new == ObservedStatus(pass.status, pass.node, pass.dep, pass.plan)
  <1>0. /\ TypeOK /\ Generations /\ pass.pc \in {"report", "observe"} /\ pass.node \in Node /\ pass \in Pass
        /\ Chosen(pass) /\ pass.plan \in Plans /\ seen.pod \in Pod
        /\ pass.status \in Status /\ pass.dep \in Deployment
        /\ UNCHANGED <<node, inputs, dep, pod, cms, worker, seen, marking, queued, obs, world>>
    BY PassFields, Zenon DEF NodeInv, TypeOK, Report, Generations, PlansMatch, Planned, PlanOf, Seen
  <1>1. new \in Status /\ new.og = pass.node.gen
    BY <1>0, ObservedFields
  <1>2. status' = WrittenStatus(pass.node, pass.status, new)
    BY Zenon DEF Report
  <1>. HIDE DEF new
  <1>3. status' \in Status /\ status'.og <= node.gen
    BY <1>0, <1>1, <1>2, WriteEffect, Zenon DEF Generations
  <1>4. \/ pass' = IdlePass
        \/ pass.pc = "report" /\ pass' = [pass EXCEPT !.pc = "sweep", !.status = NoStatus]
    BY <1>0, Zenon DEF Report
  <1>5. /\ pass' \in Pass
        /\ \/ pass' = IdlePass
           \/ /\ pass.pc = "report" /\ pass'.pc = "sweep"
              /\ pass'.node = pass.node /\ pass'.plan = pass.plan
              /\ pass'.dep = pass.dep /\ pass'.token = pass.token /\ pass'.retain = pass.retain
    <2>1. "sweep" \in Steps /\ NoStatus \in Status /\ IdlePass \in Pass
      BY Shapes, Zenon DEF Steps
    <2>2. CASE pass.pc = "report" /\ pass' = [pass EXCEPT !.pc = "sweep", !.status = NoStatus]
      BY <1>0, <2>1, <2>2, Zenon DEF Pass
    <2>. QED
      BY <1>4, <2>1, <2>2, Zenon
  <1>6. GoesOn
    BY <1>0, <1>5, IdleFields, Zenon DEF GoesOn
  <1>7. TypeOK'
    BY <1>0, <1>3, <1>5, Zenon DEF TypeOK
  <1>8. Generations'
    BY <1>3, <1>6, GoesOnGenerations, Zenon
  <1>9. PlansMatch'
    BY <1>0, <1>5, IdleFields, Zenon DEF NodeInv, PlansMatch, Planned
  <1>10. Chosen(pass')
    BY <1>0, <1>5, IdleFields, Zenon DEF Chosen
  <1>11. TokensOrdered'
    BY <1>0, <1>5, <1>6, IdleFields, GoesOnTokens, Zenon DEF Used
  <1>. QED
    BY <1>0, <1>7, <1>8, <1>9, <1>10, <1>11, Zenon DEF NodeInv

\* What garbage collection leaves of the revisions
LEMMA WithoutFields ==
    ASSUME NEW c \in ConfigMaps, NEW plans, NEW revisions
    PROVE  LET w == Without(c, plans, revisions) IN
           /\ w \in ConfigMaps /\ w.plans = c.plans \ plans /\ w.inputs = c.inputs
           /\ \A p \in Plans : w.revisions[p] = IF p \in revisions THEN NoPlan ELSE c.revisions[p]
  <1> DEFINE rs == [p \in Plans |-> IF p \in revisions THEN NoPlan ELSE c.revisions[p]]
             w == Without(c, plans, revisions)
  <1>1. rs \in [Plans -> Plans \cup {NoPlan}]
    BY Zenon DEF ConfigMaps
  <1>2. w = [c EXCEPT !.plans = c.plans \ plans, !.revisions = rs]
    BY Zenon DEF Without, ConfigMaps
  <1>3. c.plans \ plans \in SUBSET Plans
    BY Zenon DEF ConfigMaps
  <1>. HIDE DEF rs, w
  <1>4. w \in ConfigMaps /\ w.plans = c.plans \ plans /\ w.inputs = c.inputs /\ w.revisions = rs
    BY <1>1, <1>2, <1>3, Zenon DEF ConfigMaps
  <1>. QED
    BY <1>4, Zenon DEF rs, w

LEMMA SweepKeeps ==
    ASSUME NodeInv, Sweep
    PROVE  NodeInv'
  <1> DEFINE mounted == IF pass.retain THEN pass.dep.plan ELSE pass.plan
             gone == seen.cms.inputs \ {pass.plan, mounted}
             left == Without(cms, seen.cms.plans \ {mounted}, SuperfluousRevisions({mounted}))
  <1>0. /\ TypeOK /\ Generations /\ pass.pc = "sweep" /\ pass.node \in Node /\ pass \in Pass
        /\ cms \in ConfigMaps
        /\ UNCHANGED <<node, status, inputs, dep, pod, seen, marking, queued, obs, world>>
    BY Zenon DEF NodeInv, TypeOK, Sweep, Generations
  <1>1. left \in ConfigMaps /\ \A p \in Plans : left.revisions[p] \in {NoPlan, cms.revisions[p]}
    BY <1>0, WithoutFields
  <1>2. /\ cms' = [left EXCEPT !.inputs = @ \ gone]
        /\ worker' = [p \in Plans |-> IF p = pass.plan THEN worker[p] ELSE "none"]
        /\ pass' = [pass EXCEPT !.pc = "settle"]
    BY Zenon DEF Sweep, Goto
  <1>. HIDE DEF mounted, gone, left
  <1>3. cms' \in ConfigMaps /\ cms'.revisions = left.revisions
    <2>1. left.inputs \ gone \in SUBSET Plans
      BY <1>1, Zenon DEF ConfigMaps
    <2>. QED
      BY <1>1, <1>2, <2>1, Zenon DEF ConfigMaps
  <1>4. worker' \in [Plans -> {"none", "running", "finished"}] /\ "settle" \in Steps
    BY <1>0, <1>2, Zenon DEF TypeOK, Steps
  <1>5. /\ pass' \in Pass /\ pass'.pc = "settle" /\ pass'.node = pass.node /\ pass'.plan = pass.plan
        /\ pass'.dep = pass.dep /\ pass'.token = pass.token
    BY <1>0, <1>2, <1>4, Zenon DEF Pass
  <1>6. LiveRevisions(cms')
    BY <1>1, <1>3, Zenon DEF NodeInv, LiveRevisions
  <1>7. GoesOn
    BY <1>0, <1>5, Zenon DEF GoesOn
  <1>8. TypeOK'
    BY <1>0, <1>3, <1>4, <1>5, Zenon DEF TypeOK
  <1>9. Generations'
    BY <1>0, <1>7, GoesOnGenerations, Zenon DEF Generations
  <1>10. PlansMatch'
    BY <1>0, <1>5, Zenon DEF NodeInv, PlansMatch, Planned
  <1>11. Chosen(pass')
    BY <1>5, Zenon DEF Chosen
  <1>12. TokensOrdered'
    BY <1>0, <1>5, <1>7, GoesOnTokens, Zenon DEF Used
  <1>. QED
    BY <1>0, <1>6, <1>8, <1>9, <1>10, <1>11, <1>12, Zenon DEF NodeInv

\* The steps that end a pass
LEMMA SettleKeeps ==
    ASSUME NodeInv, Settle
    PROVE  NodeInv'
  <1>0. /\ TypeOK /\ Generations /\ pass.pc = "settle" /\ pass.node \in Node /\ pass \in Pass
        /\ PlanOf(pass.plan, pass.node) /\ cms \in ConfigMaps /\ pass' = IdlePass
        /\ UNCHANGED <<node, status, inputs, dep, pod, worker, seen, marking, queued, world>>
    BY Zenon DEF NodeInv, TypeOK, Settle, Generations, PlansMatch, Planned
  <1>1. cms' = [cms EXCEPT !.records = @ \ (seen.cms.records \ {pass.plan})]
    BY Zenon DEF Settle
  <1>2. cms' \in ConfigMaps /\ cms'.revisions = cms.revisions
    <2>1. cms.records \ (seen.cms.records \ {pass.plan}) \in SUBSET Plans
      BY <1>0, Zenon DEF ConfigMaps
    <2>. QED
      BY <1>0, <1>1, <2>1, Zenon DEF ConfigMaps
  <1>3. \/ obs' = obs
        \/ obs' = [valid |-> TRUE, node |-> pass.node, dep |-> pass.dep, plan |-> pass.plan]
    BY Zenon DEF Settle
  <1>4. obs' \in Observation /\ (obs'.valid => PlanOf(obs'.plan, obs'.node))
    <2>1. CASE obs' = obs
      BY <1>0, <2>1, Zenon DEF NodeInv, PlansMatch, TypeOK
    <2>2. CASE obs' = [valid |-> TRUE, node |-> pass.node, dep |-> pass.dep, plan |-> pass.plan]
      BY <1>0, <2>2, PassFields, Zenon DEF Observation, PlanOf
    <2>. QED
      BY <1>3, <2>1, <2>2, Zenon
  <1>5. GoesOn
    BY <1>0, IdleFields, Zenon DEF GoesOn
  <1>6. TypeOK'
    BY <1>0, <1>2, <1>4, Shapes, Zenon DEF TypeOK
  <1>7. Generations'
    BY <1>0, <1>5, GoesOnGenerations, Zenon DEF Generations
  <1>8. PlansMatch'
    BY <1>0, <1>4, IdleFields, Zenon DEF PlansMatch, Planned
  <1>9. TokensOrdered'
    BY <1>0, <1>5, IdleFields, GoesOnTokens, Zenon DEF Used
  <1>. QED
    BY <1>0, <1>2, <1>6, <1>7, <1>8, <1>9, IdleFields, Zenon DEF NodeInv, LiveRevisions

LEMMA WithdrawKeeps ==
    ASSUME NodeInv, Withdraw \/ Clear
    PROVE  NodeInv'
  <1>0. /\ TypeOK /\ Generations /\ pass.pc \in {"plan", "clear"} /\ pass.node \in Node /\ pass \in Pass
        /\ Chosen(pass) /\ cms \in ConfigMaps
        /\ UNCHANGED <<node, status, inputs, pod, worker, seen, marking, queued, obs, world>>
    BY Zenon DEF NodeInv, TypeOK, Withdraw, Clear, Generations
  <1>1. pass' = IdlePass \/ pass' = [pass EXCEPT !.pc = "clear"]
    BY Zenon DEF Withdraw, Clear, Goto
  <1>2. dep' = dep \/ dep' = NoDep
    BY Zenon DEF Withdraw, Clear
  <1>3. cms' = cms \/ cms' = Without(cms, seen.cms.plans, SuperfluousRevisions({}))
    BY Zenon DEF Withdraw, Clear
  <1>4. cms' \in ConfigMaps /\ \A p \in Plans : cms'.revisions[p] \in {NoPlan, cms.revisions[p]}
    BY <1>0, <1>3, WithoutFields
  <1>5. "clear" \in Steps
    BY Zenon DEF Steps
  <1>6. /\ pass' \in Pass
        /\ \/ pass' = IdlePass
           \/ /\ pass'.pc = "clear" /\ pass'.node = pass.node
              /\ pass'.dep = pass.dep /\ pass'.token = pass.token
    BY <1>1, <1>5, SamePass, Zenon
  <1>7. GoesOn
    BY <1>0, <1>6, IdleFields, Zenon DEF GoesOn
  <1>8. TypeOK'
    BY <1>0, <1>2, <1>4, <1>6, Shapes, Zenon DEF TypeOK
  <1>9. Generations'
    BY <1>0, <1>7, GoesOnGenerations, Zenon DEF Generations
  <1>10. PlansMatch'
    BY <1>0, <1>6, IdleFields, Zenon DEF NodeInv, PlansMatch, Planned
  <1>11. Chosen(pass')
    BY <1>0, <1>6, IdleFields, Zenon DEF Chosen
  <1>12. TokensOrdered'
    BY <1>0, <1>2, <1>6, <1>7, IdleFields, GoesOnTokens, Zenon DEF Used
  <1>13. LiveRevisions(cms')
    BY <1>4, Zenon DEF NodeInv, LiveRevisions
  <1>. QED
    BY <1>0, <1>8, <1>9, <1>10, <1>11, <1>12, <1>13, Zenon DEF NodeInv
LEMMA PassStepKeeps ==
    ASSUME NodeInv, PassStep
    PROVE  NodeInv'
  BY BeginKeeps, PlanKeeps, ReadInputKeeps, DecideKeeps, ReviseKeeps, RecordKeeps, StoreKeeps, ApplyKeeps,
     ReportKeeps, SweepKeeps, SettleKeeps, WithdrawKeeps, Zenon DEF PassStep

-----------------------------------------------------------------------------
(* Events, the cluster, users and failures *)

\* The worker's pass goes on with what it has, or was ended.
StaysOrEnds(p, q) ==
    \/ q = IdlePass
    \/ q = [p EXCEPT !.current = FALSE]
    \/ q = p

LEMMA StaysOrEndsFields ==
    ASSUME NEW p \in Pass, NEW q, StaysOrEnds(p, q), Chosen(p)
    PROVE  /\ q \in Pass /\ Chosen(q)
           /\ q.dep.token \in {0, p.dep.token} /\ q.token \in {0, p.token}
           /\ q.pc # "idle" => q.pc = p.pc /\ q.node = p.node /\ q.plan = p.plan
  <1>1. CASE q = [p EXCEPT !.current = FALSE]
    <2>1. /\ q \in Pass /\ q.pc = p.pc /\ q.node = p.node /\ q.plan = p.plan /\ q.dep = p.dep
          /\ q.token = p.token /\ q.sched = p.sched /\ q.cold = p.cold /\ q.retain = p.retain
          /\ q.live = p.live
      BY <1>1, Zenon DEF Pass
    <2>. QED
      BY <2>1, Zenon DEF Chosen, Reason
  <1>2. CASE q = IdlePass
    BY <1>2, IdleFields, Shapes, Zenon
  <1>. QED
    BY <1>1, <1>2, Zenon DEF StaysOrEnds

\* A step that leaves what a pass decided alone: the pass stays or ends, caches
\* catch up or stay, observations go or stay; the Node may change.
Outside ==
    /\ node' \in Node /\ Aged(node, node') /\ node'.restart = node.restart
    /\ inputs' \in Inputs /\ worker' \in [Plans -> {"none", "running", "finished"}] /\ pod' \in Pod
    /\ dep' \in Deployment /\ dep'.token \in {0, dep.token}
    /\ cms' \in ConfigMaps /\ \A p \in Plans : cms'.revisions[p] \in {NoPlan, cms.revisions[p]}
    /\ world' \in World /\ world'.tokens = world.tokens
    /\ queued' \in BOOLEAN /\ marking' \in BOOLEAN /\ status' \in Status /\ status'.og <= node.gen
    /\ StaysOrEnds(pass, pass') /\ (obs' = obs \/ obs' = InvalidObs)
    /\ seen' \in Seen /\ seen'.node \in {seen.node, node} /\ seen'.dep \in {seen.dep, dep}
    /\ seen'.cms \in {seen.cms, cms}

LEMMA OutsideKeeps ==
    ASSUME NodeInv, Outside
    PROVE  NodeInv'
  <1>. USE DEF Outside
  <1>0. TypeOK /\ Generations /\ TokensOrdered /\ PlansMatch /\ pass \in Pass /\ node \in Node
    BY Zenon DEF NodeInv, TypeOK
  <1>1. /\ pass' \in Pass /\ Chosen(pass')
        /\ pass'.dep.token \in {0, pass.dep.token} /\ pass'.token \in {0, pass.token}
        /\ pass'.pc # "idle" => pass'.pc = pass.pc /\ pass'.node = pass.node /\ pass'.plan = pass.plan
    BY <1>0, StaysOrEndsFields, Zenon DEF NodeInv
  <1>2. TypeOK'
    BY <1>0, <1>1, Shapes, Zenon DEF TypeOK
  <1>3. Generations'
    <2>1. \A n \in Node : Aged(n, node) => Aged(n, node')
      BY <1>0, NodeFields DEF Aged
    <2>2. Aged(node, node) /\ seen.node \in Node /\ status'.og \in Nat /\ node.gen <= node'.gen
      BY <1>0, NodeFields DEF Aged, TypeOK, Seen, Status
    <2>3. status'.og <= node'.gen
      BY <1>0, <2>2, NodeFields
    <2>. QED
      BY <1>0, <1>1, <2>1, <2>2, <2>3, Zenon DEF Generations
  <1>4. PlansMatch'
    BY <1>0, <1>1, IdleFields, Zenon DEF PlansMatch, Planned
  <1>5. LiveRevisions(cms') /\ LiveRevisions(seen'.cms)
    BY Zenon DEF NodeInv, LiveRevisions
  <1>6. TokensOrdered'
    <2>1. /\ seen.node \in Node /\ seen.dep \in Deployment /\ pass.dep \in Deployment
          /\ dep \in Deployment /\ pass.token \in Nat /\ world.tokens \in Nat
      BY <1>0, Shapes, Zenon DEF TypeOK, Seen, Pass, World
    <2>2. dep.token \in Nat /\ seen.dep.token \in Nat /\ pass.dep.token \in Nat
      BY <2>1, Shapes, DeploymentFields, Zenon
    <2>3. Used' \subseteq Used \cup {0} /\ Used \subseteq Nat
      BY <1>1, <2>1, <2>2, Zenon DEF Used
    <2>4. seen.node.restart \in Nat /\ node.restart \in Nat
      BY <1>0, <2>1, NodeFields, Zenon
    <2>5. pass'.pc # "idle" => pass.node.restart \in Nat
      BY <1>0, <1>1, NodeFields, Zenon DEF Generations
    <2>6. \A t \in Used' : t <= world.tokens
      BY <1>0, <2>1, <2>3 DEF TokensOrdered
    <2>7. \A r \in Nat : Ordered(r) => Ordered(r)'
      BY <2>3 DEF Ordered
    <2>8. Ordered(node.restart)
      BY <1>0, <2>1, <2>3, Zenon DEF TokensOrdered, Ordered
    <2>9. Ordered(seen.node.restart)' /\ seen'.node.restart <= world.tokens
      <3>1. Ordered(seen.node.restart) /\ seen.node.restart <= world.tokens /\ node.restart <= world.tokens
        BY <1>0, <2>1 DEF TokensOrdered
      <3>2. CASE seen'.node = seen.node
        BY <3>1, <3>2, <2>3, <2>4 DEF Ordered
      <3>3. CASE seen'.node = node
        BY <3>1, <3>3, <2>3, <2>4, <2>8 DEF Ordered
      <3>. QED
        BY <3>2, <3>3, Zenon
    <2>10. ASSUME pass'.pc # "idle"
           PROVE  /\ Ordered(pass.node.restart)' /\ pass'.node.restart <= world.tokens
                  /\ seen'.node.restart # 0 => pass'.node.restart <= seen'.node.restart
      <3>1. /\ pass'.node = pass.node /\ Ordered(pass.node.restart) /\ pass.node.restart <= world.tokens
            /\ seen.node.restart # 0 => pass.node.restart <= seen.node.restart
        BY <1>0, <1>1, <2>10, Zenon DEF TokensOrdered
      <3>2. node.restart # 0 => node.restart = world.tokens
        BY <1>0, Zenon DEF TokensOrdered
      <3>3. Ordered(pass.node.restart)'
        BY <3>1, <2>3, <2>5, <2>10 DEF Ordered
      <3>. QED
        BY <3>1, <3>2, <3>3, Zenon
    <2>11. node.restart \in {0, world.tokens}
      BY <1>0, Zenon DEF TokensOrdered
    <2>. QED
      BY <2>6, <2>9, <2>10, <2>11, Zenon DEF TokensOrdered
  <1>. QED
    BY <1>1, <1>2, <1>3, <1>4, <1>5, <1>6, Zenon DEF NodeInv

\* The parts of Outside that a step leaves as they are.
LEMMA Untouched ==
    ASSUME NodeInv
    PROVE  /\ node \in Node /\ Aged(node, node) /\ inputs \in Inputs /\ pod \in Pod
           /\ worker \in [Plans -> {"none", "running", "finished"}]
           /\ dep \in Deployment /\ cms \in ConfigMaps /\ world \in World /\ seen \in Seen /\ pass \in Pass
           /\ queued \in BOOLEAN /\ marking \in BOOLEAN /\ status \in Status /\ status.og <= node.gen
           /\ obs \in Observation
  BY NodeFields DEF NodeInv, TypeOK, Generations, Aged

LEMMA EventsKeep ==
    ASSUME NodeInv, Events
    PROVE  NodeInv'
  <1>1. ASSUME NEW changed, Observe(changed)
        PROVE  queued' \in BOOLEAN /\ StaysOrEnds(pass, pass') /\ (obs' = obs \/ obs' = InvalidObs)
    BY <1>1, Zenon DEF Observe, Invalidate, StaysOrEnds
  <1>2. CASE Revalidate
    BY <1>2, Untouched, OutsideKeeps, Zenon DEF Revalidate, StaysOrEnds, Outside
  <1>3. CASE SyncNode
    <2>1. seen' \in Seen /\ seen'.node = node /\ seen'.dep = seen.dep /\ seen'.cms = seen.cms
      BY <1>3, Untouched, Zenon DEF SyncNode, Seen
    <2>. QED
      BY <1>1, <1>3, <2>1, Untouched, OutsideKeeps, Zenon DEF SyncNode, Outside
  <1>4. CASE SyncDep
    <2>1. seen' \in Seen /\ seen'.node = seen.node /\ seen'.dep = dep /\ seen'.cms = seen.cms
      BY <1>4, Untouched, Zenon DEF SyncDep, Seen
    <2>. QED
      BY <1>1, <1>4, <2>1, Untouched, OutsideKeeps, Zenon DEF SyncDep, Outside
  <1>5. CASE SyncPod
    <2>1. seen' \in Seen /\ seen'.node = seen.node /\ seen'.dep = seen.dep /\ seen'.cms = seen.cms
      BY <1>5, Untouched, Zenon DEF SyncPod, Seen
    <2>. QED
      BY <1>1, <1>5, <2>1, Untouched, OutsideKeeps, Zenon DEF SyncPod, Outside
  <1>6. CASE SyncConfigMaps
    <2>1. seen' \in Seen /\ seen'.node = seen.node /\ seen'.dep = seen.dep /\ seen'.cms = cms
      BY <1>6, Untouched, Zenon DEF SyncConfigMaps, Seen
    <2>. QED
      BY <1>1, <1>6, <2>1, Untouched, OutsideKeeps, Zenon DEF SyncConfigMaps, Outside
  <1>7. CASE SyncInputs
    <2>1. seen' \in Seen /\ seen'.node = seen.node /\ seen'.dep = seen.dep /\ seen'.cms = seen.cms
      BY <1>7, Untouched, Zenon DEF SyncInputs, Seen
    <2>. QED
      BY <1>7, <2>1, Untouched, OutsideKeeps, Zenon DEF SyncInputs, Invalidate, StaysOrEnds, Outside
  <1>8. CASE MarkPending
    <2>1. status' \in Status /\ status'.og <= node.gen
      BY <1>8, Untouched, PendingFields, NodeFields DEF MarkPending
    <2>. QED
      BY <1>8, <2>1, Untouched, OutsideKeeps, Zenon DEF MarkPending, StaysOrEnds, Outside
  <1>. QED
    BY <1>2, <1>3, <1>4, <1>5, <1>6, <1>7, <1>8, Zenon DEF Events

LEMMA PodKeeps ==
    ASSUME NodeInv, pod' \in Pod, world' \in World, world'.tokens = world.tokens,
           UNCHANGED <<node, status, inputs, dep, cms, worker, seen, marking, queued, obs, pass>>
    PROVE  NodeInv'
  BY Untouched, OutsideKeeps, Zenon DEF Outside, StaysOrEnds

LEMMA ClusterKeeps ==
    ASSUME NodeInv, Cluster
    PROVE  NodeInv'
  <1>1. CASE PodCreated
    <2>1. dep # NoDep
      BY <1>1 DEF PodCreated, NoDep
    <2>2. pod' \in Pod
      BY <1>1, <2>1, Untouched, Zenon DEF PodCreated, Pod, Deployment
    <2>. QED
      BY <1>1, <2>2, Untouched, PodKeeps, Zenon DEF PodCreated
  <1>2. CASE PodReady
    <2>1. pod' \in Pod
      BY <1>2, Untouched, Zenon DEF PodReady, Pod
    <2>. QED
      BY <1>2, <2>1, Untouched, PodKeeps, Zenon DEF PodReady
  <1>3. CASE PodDeleted
    <2>1. pod' \in Pod
      BY <1>3, Untouched, Zenon DEF PodDeleted, Pod
    <2>. QED
      BY <1>3, <2>1, Untouched, PodKeeps, Zenon DEF PodDeleted
  <1>4. CASE PodGone
    BY <1>4, Untouched, PodKeeps, Shapes, Zenon DEF PodGone
  <1>5. CASE WorkerFinishes
    <2>1. worker' \in [Plans -> {"none", "running", "finished"}]
      BY <1>5, Untouched, Zenon DEF WorkerFinishes
    <2>. QED
      BY <1>5, <2>1, Untouched, OutsideKeeps, Zenon DEF WorkerFinishes, Outside, StaysOrEnds
  <1>. QED
    BY <1>1, <1>2, <1>3, <1>4, <1>5, Zenon DEF Cluster
LEMMA HappensFields ==
    ASSUME NodeInv, NEW kind, Happens(kind)
    PROVE  world' \in World /\ world'.tokens = world.tokens
  BY Untouched DEF Happens, World

LEMMA EditFields ==
    ASSUME NodeInv, NEW kind, NEW new \in Node, new.gen = node.gen, new.restart = node.restart,
           Edit(kind, new)
    PROVE  /\ node' \in Node /\ node'.gen = node.gen + 1 /\ node'.restart = node.restart
           /\ UNCHANGED <<status, inputs, dep, pod, cms, worker, seen, marking, queued, obs, pass>>
           /\ world' \in World /\ world'.tokens = world.tokens
  <1>1. new.gen + 1 \in 1..MaxGen /\ node' = [new EXCEPT !.gen = @ + 1]
    BY Untouched, NodeFields, BoundsAssumption DEF Edit
  <1>2. node' \in Node /\ node'.gen = node.gen + 1 /\ node'.restart = node.restart
    BY <1>1, Zenon DEF Node
  <1>. QED
    BY <1>2, HappensFields, Zenon DEF Edit

\* Every edit of the spec or the run state makes a new generation.
LEMMA SpecEdits ==
    ASSUME NodeInv, EditSpec \/ Join \/ StopOrStart
    PROVE  /\ node' \in Node /\ node'.gen = node.gen + 1 /\ node'.restart = node.restart
           /\ UNCHANGED <<status, inputs, dep, pod, cms, worker, seen, marking, queued, obs, pass>>
           /\ world' \in World /\ world'.tokens = world.tokens
  <1>1. CASE EditSpec
    <2>1. PICK s \in Specs : Edit("spec", [node EXCEPT !.spec = s])
      BY <1>1, Zenon DEF EditSpec
    <2>2. /\ [node EXCEPT !.spec = s] \in Node /\ [node EXCEPT !.spec = s].gen = node.gen
          /\ [node EXCEPT !.spec = s].restart = node.restart
      BY Untouched, Zenon DEF Node
    <2>. QED
      BY <2>1, <2>2, EditFields, Zenon
  <1>2. CASE Join
    <2>1. Edit("join", [node EXCEPT !.spec = Grouped])
      BY <1>2, Zenon DEF Join
    <2>2. /\ [node EXCEPT !.spec = Grouped] \in Node /\ [node EXCEPT !.spec = Grouped].gen = node.gen
          /\ [node EXCEPT !.spec = Grouped].restart = node.restart
      BY Untouched, Zenon DEF Node
    <2>. QED
      BY <2>1, <2>2, EditFields, Zenon
  <1>3. CASE StopOrStart
    <2>1. Edit("run", [node EXCEPT !.up = ~@])
      BY <1>3, Zenon DEF StopOrStart
    <2>2. (~node.up) \in BOOLEAN
      BY Zenon
    <2>3. /\ [node EXCEPT !.up = ~@] \in Node /\ [node EXCEPT !.up = ~@].gen = node.gen
          /\ [node EXCEPT !.up = ~@].restart = node.restart
      BY <2>2, Untouched, Zenon DEF Node
    <2>. QED
      BY <2>1, <2>3, EditFields, Zenon
  <1>. QED
    BY <1>1, <1>2, <1>3, Zenon

\* A new token is newer than all that are in use.
LEMMA AnnotateKeeps ==
    ASSUME NodeInv, Annotate
    PROVE  NodeInv' /\ node'.gen = node.gen /\ node'.spec = node.spec /\ node'.up = node.up
  <1>1. PICK t \in Tokens : /\ t \in {0, world.tokens + 1}
                            /\ node' = [node EXCEPT !.restart = t]
                            /\ world' = [world EXCEPT !.left = @ - 1, !.tokens = IF t = 0 THEN @ ELSE t]
    BY Zenon DEF Annotate
  <1>2. /\ node' \in Node /\ node'.gen = node.gen /\ node'.spec = node.spec /\ node'.up = node.up
        /\ node'.restart = t
    BY <1>1, Untouched, Zenon DEF Node
  <1>3. world.left - 1 \in Nat /\ t \in Nat
    BY Untouched, Shapes DEF Annotate, World
  <1>4. world' \in World /\ world'.tokens = IF t = 0 THEN world.tokens ELSE t
    BY <1>1, <1>3, Untouched, Zenon DEF World
  <1>5. UNCHANGED <<status, inputs, dep, pod, cms, worker, seen, marking, queued, obs, pass>>
    BY Zenon DEF Annotate
  <1>6. TypeOK' /\ Generations' /\ PlansMatch'
    BY <1>2, <1>4, <1>5, Zenon DEF NodeInv, TypeOK, Generations, PlansMatch, Aged
  <1>7. TokensOrdered'
    <2>1. /\ Used' = Used /\ world.tokens \in Nat /\ world.tokens <= world'.tokens /\ world'.tokens \in Nat
          /\ node'.restart \in {0, world'.tokens}
      BY <1>1, <1>2, <1>3, <1>4, <1>5, Untouched DEF Used, World
    <2>2. seen.node.restart \in Nat /\ (pass.pc # "idle" => pass.node.restart \in Nat) /\ TokensOrdered
      BY Untouched, NodeFields, Zenon DEF NodeInv, Seen, Generations
    <2>3. Used \subseteq Nat
      <3>1. dep.token \in Nat /\ seen.dep.token \in Nat /\ pass.dep.token \in Nat /\ pass.token \in Nat
        BY Untouched, Shapes, DeploymentFields, PassFields, Zenon DEF Seen
      <3>. QED
        BY <3>1, Zenon DEF Used
    <2>4. Ordered(seen.node.restart)' <=> Ordered(seen.node.restart)
      BY <1>5, <2>1, Zenon DEF Ordered
    <2>5. Ordered(pass.node.restart)' <=> Ordered(pass.node.restart)
      BY <1>5, <2>1, Zenon DEF Ordered
    <2>6. \A u \in Used' : u <= world'.tokens
      <3>1. \A u \in Used : u \in Nat /\ u <= world.tokens
        BY <2>2, <2>3, Zenon DEF TokensOrdered
      <3>. QED
        BY <2>1, <3>1
    <2>7. seen'.node.restart <= world'.tokens /\ (pass'.pc # "idle" => pass'.node.restart <= world'.tokens)
      BY <1>5, <2>1, <2>2 DEF TokensOrdered
    <2>. QED
      BY <1>5, <2>1, <2>2, <2>4, <2>5, <2>6, <2>7, Zenon DEF TokensOrdered
  <1>. QED
    BY <1>2, <1>5, <1>6, <1>7, Zenon DEF NodeInv

LEMMA EnvironmentKeeps ==
    ASSUME NodeInv, Environment
    PROVE  NodeInv'
  <1>1. CASE EditSpec \/ Join \/ StopOrStart
    <2>1. Aged(node, node')
      BY <1>1, SpecEdits, Untouched, NodeFields DEF Aged
    <2>. QED
      BY <1>1, <2>1, SpecEdits, Untouched, OutsideKeeps, Zenon DEF Outside, StaysOrEnds
  <1>2. CASE EditLink \/ EditProfile
    <2>1. inputs' \in Inputs
      BY <1>2, Untouched, Zenon DEF EditLink, EditProfile, Inputs
    <2>. QED
      BY <1>2, <2>1, Untouched, HappensFields, OutsideKeeps, Zenon DEF EditLink, EditProfile, Outside, StaysOrEnds
  <1>3. CASE Drift
    <2>1. dep' \in Deployment /\ dep'.token \in {0, dep.token}
      <3>1. CASE dep # NoDep /\ dep' = [dep EXCEPT !.up = ~@]
        <4>1. (~dep.up) \in BOOLEAN
          BY Zenon
        <4>. QED
          BY <3>1, <4>1, Untouched, Zenon DEF Deployment
      <3>. QED
        BY <1>3, <3>1, Untouched, Shapes, IdleFields, Zenon DEF Drift
    <2>2. cms' \in ConfigMaps /\ \A p \in Plans : cms'.revisions[p] \in {NoPlan, cms.revisions[p]}
      BY <1>3, Untouched DEF Drift, ConfigMaps
    <2>. QED
      BY <1>3, <2>1, <2>2, Untouched, HappensFields, OutsideKeeps, Zenon DEF Drift, Outside, StaysOrEnds
  <1>4. CASE LoseInput
    <2>1. cms' \in ConfigMaps /\ cms'.revisions = cms.revisions
      BY <1>4, Untouched, Zenon DEF LoseInput, ConfigMaps
    <2>. QED
      BY <1>4, <2>1, Untouched, HappensFields, OutsideKeeps, Zenon DEF LoseInput, Outside, StaysOrEnds
  <1>5. CASE PodFails
    <2>0. pod # NoPod
      BY <1>5 DEF PodFails, NoPod
    <2>1. pod' \in Pod
      BY <1>5, <2>0, Untouched, Zenon DEF PodFails, Pod
    <2>. QED
      BY <1>5, <2>1, Untouched, HappensFields, PodKeeps, Zenon DEF PodFails
  <1>6. CASE PassFails \/ SweepFails
    BY <1>6, Untouched, HappensFields, OutsideKeeps, Zenon DEF PassFails, SweepFails, Retry, Outside, StaysOrEnds
  <1>7. CASE Restart
    <2>1. seen' \in Seen /\ seen'.node = node /\ seen'.dep = dep /\ seen'.cms = cms
      BY <1>7, Untouched, Zenon DEF Restart, Seen
    <2>. QED
      BY <1>7, <2>1, Untouched, HappensFields, OutsideKeeps, Zenon DEF Restart, Outside, StaysOrEnds
  <1>. QED
    BY <1>1, <1>2, <1>3, <1>4, <1>5, <1>6, <1>7, AnnotateKeeps, Zenon DEF Environment
LEMMA InitKeeps == Init => NodeInv
  <1>. SUFFICES ASSUME Init PROVE NodeInv
    BY Zenon
  <1>1. node \in Node /\ node.restart = 0 /\ node.gen = 1
    <2>1. 1 \in 1..MaxGen /\ 0 \in Tokens /\ (CHOOSE s \in Specs : TRUE) \in Specs
      BY BoundsAssumption, SpecsAssumption, Shapes
    <2>. QED
      BY <2>1, Zenon DEF Init, Node
  <1>2. inputs \in Inputs /\ world \in World /\ world.tokens = 0
    BY LiveLinksAssumption, WorldsAssumption, Zenon DEF Init, Inputs, FirstLink, Scheduling
  <1>3. worker \in [Plans -> {"none", "running", "finished"}]
    BY Zenon DEF Init
  <1>4. /\ status = NoStatus /\ dep = NoDep /\ pod = NoPod /\ cms = NoConfigMaps
        /\ pass = IdlePass /\ obs = InvalidObs
    BY Zenon DEF Init
  <1>5. seen \in Seen /\ seen.node = node /\ seen.dep = NoDep /\ seen.cms = NoConfigMaps
    BY <1>1, <1>2, <1>4, Shapes, Zenon DEF Init, Seen
  <1>6. TypeOK
    BY <1>1, <1>2, <1>3, <1>4, <1>5, Shapes, Zenon DEF Init, TypeOK
  <1>7. Generations /\ PlansMatch
    BY <1>1, <1>4, <1>5, IdleFields, NodeFields DEF Generations, Aged, PlansMatch, Planned, NoStatus
  <1>8. LiveRevisions(NoConfigMaps)
    BY Zenon DEF LiveRevisions, NoConfigMaps, NoRevisions
  <1>9. TokensOrdered
    <2>1. Used = {0}
      BY <1>4, <1>5, IdleFields, Zenon DEF Used
    <2>2. node.restart = 0 /\ seen.node.restart = 0 /\ world.tokens = 0 /\ pass.pc = "idle"
      BY <1>1, <1>2, <1>4, <1>5, IdleFields, Zenon
    <2>. QED
      BY <2>1, <2>2 DEF TokensOrdered, Ordered
  <1>. QED
    BY <1>4, <1>5, <1>6, <1>7, <1>8, <1>9, IdleFields, Zenon DEF NodeInv

LEMMA NextKeeps ==
    ASSUME NodeInv, [Next]_vars
    PROVE  NodeInv'
  <1>1. CASE UNCHANGED vars
    BY <1>1, Zenon DEF vars, NodeInv, TypeOK, Generations, PlansMatch, TokensOrdered, Ordered, Used
  <1>. QED
    BY <1>1, PassStepKeeps, EventsKeep, ClusterKeeps, EnvironmentKeeps, Zenon DEF Next

LEMMA NodeInvariant == Spec => []NodeInv
  BY InitKeeps, NextKeeps, PTL DEF Spec

-----------------------------------------------------------------------------
(* What is written to the status *)

\* Who writes the status: a pass, and the handler of an input's event.
LEMMA StatusWriters ==
    ASSUME NodeInv, [Next]_vars, status' # status
    PROVE  Begin \/ Apply \/ Report \/ MarkPending
  <1>1. ~(Cluster \/ Environment \/ UNCHANGED vars)
    BY Zenon DEF Cluster, PodCreated, PodReady, PodDeleted, PodGone, WorkerFinishes, Environment, EditSpec, Join,
       StopOrStart, Edit, Annotate, EditLink, EditProfile, Drift, LoseInput, PodFails, PassFails, SweepFails,
       Restart, vars
  <1>2. ~(Revalidate \/ SyncNode \/ SyncDep \/ SyncPod \/ SyncConfigMaps \/ SyncInputs)
    BY Zenon DEF Revalidate, SyncNode, SyncDep, SyncPod, SyncConfigMaps, SyncInputs
  <1>3. ~(Plan \/ ReadInput \/ Decide \/ Revise \/ Record \/ Store \/ Sweep \/ Settle \/ Withdraw \/ Clear)
    BY Zenon DEF Plan, ReadInput, Decide, Revise, Record, Store, Sweep, Settle, Withdraw, Clear
  <1>. QED
    BY <1>1, <1>2, <1>3, Zenon DEF Next, PassStep, Events

\* A written status is of the Node's generation, and has PlanApplied only when
\* the writer had that generation's plan.
LEMMA StatusWritten ==
    ASSUME NodeInv, [Next]_vars, status' # status
    PROVE  /\ status'.og = node.gen /\ UNCHANGED node
           /\ status'.applied => /\ status'.plan.spec = node.spec
                                 /\ status'.ready = "Ready" => node.up
  <1>0. TypeOK /\ Generations /\ PlansMatch
    BY Zenon DEF NodeInv
  <1>1. CASE Begin
    <2> DEFINE pending == PendingStatus(seen.status, seen.node)
    <2>1. status' = WrittenStatus(seen.node, seen.status, pending) /\ UNCHANGED node
      BY <1>1, Zenon DEF Begin
    <2>2. seen.node \in Node /\ seen.status \in Status
      BY Untouched, Zenon DEF Seen
    <2>3. pending.og = seen.node.gen /\ ~pending.applied
      BY <2>2, PendingFields, Zenon
    <2>. HIDE DEF pending
    <2>. QED
      BY <2>1, <2>3, Zenon DEF WrittenStatus
  <1>2. CASE Apply
    <2> DEFINE failed == PendingStatus(pass.status, pass.node)
    <2>1. status' = WrittenStatus(pass.node, pass.status, failed) /\ UNCHANGED node
      BY <1>2, Zenon DEF Apply
    <2>2. pass.node \in Node /\ pass.status \in Status
      BY <1>0, <1>2, Untouched, PassFields, Zenon DEF Apply, Generations
    <2>3. failed.og = pass.node.gen /\ ~failed.applied
      BY <2>2, PendingFields, Zenon
    <2>. HIDE DEF failed
    <2>. QED
      BY <2>1, <2>3, Zenon DEF WrittenStatus
  <1>3. CASE Report
    <2> DEFINE new == ObservedStatus(pass.status, pass.node, pass.dep, pass.plan)
    <2>1. /\ status' = WrittenStatus(pass.node, pass.status, new) /\ UNCHANGED node
          /\ pass.pc \in {"report", "observe"}
      BY <1>3, Zenon DEF Report
    <2>2. /\ pass.node \in Node /\ Aged(pass.node, node) /\ PlanOf(pass.plan, pass.node)
          /\ pass.status \in Status /\ pass.dep \in Deployment /\ seen.pod \in Pod
      BY <1>0, <2>1, Untouched, PassFields, Zenon DEF Generations, PlansMatch, Planned, Seen
    <2>3. /\ new.og = pass.node.gen /\ new.plan = pass.plan
          /\ new.ready = "Ready" => pass.node.up
      BY <2>2, ObservedFields DEF PlanOf
    <2>. HIDE DEF new
    <2>4. status' = new /\ node.gen = pass.node.gen
      BY <2>1, Zenon DEF WrittenStatus
    <2>. QED
      BY <2>1, <2>2, <2>3, <2>4, Zenon DEF Aged, PlanOf
  <1>4. CASE MarkPending
    <2>1. status' = PendingStatus(status, node) /\ UNCHANGED node
      BY <1>4, Zenon DEF MarkPending
    <2>. QED
      BY <2>1, Untouched, PendingFields, Zenon
  <1>. QED
    BY <1>1, <1>2, <1>3, <1>4, StatusWriters, Zenon

\* An edit of spec or run state makes a generation no status can have yet.
LEMMA NodeChanges ==
    ASSUME NodeInv, [Next]_vars, node' # node
    PROVE  /\ UNCHANGED status
           /\ \/ node'.gen = node.gen + 1
              \/ node'.gen = node.gen /\ node'.spec = node.spec /\ node'.up = node.up
  <1>1. ~(PassStep \/ Events \/ UNCHANGED vars)
    BY Zenon DEF PassStep, Begin, Plan, ReadInput, Decide, Revise, Record, Store, Apply, Report, Sweep, Settle, Withdraw,
       Clear, Events, Revalidate, SyncNode, SyncDep, SyncPod, SyncConfigMaps, SyncInputs, MarkPending, vars
  <1>2. ~(Cluster \/ EditLink \/ EditProfile \/ Drift \/ LoseInput \/ PodFails \/ PassFails \/ SweepFails
            \/ Restart)
    BY Zenon DEF Cluster, PodCreated, PodReady, PodDeleted, PodGone, WorkerFinishes, EditLink, EditProfile, Drift,
       LoseInput, PodFails, PassFails, SweepFails, Restart
  <1>3. EditSpec \/ Join \/ StopOrStart \/ Annotate
    BY <1>1, <1>2, Zenon DEF Next, Environment
  <1>4. CASE Annotate
    BY <1>4, AnnotateKeeps, Zenon DEF Annotate
  <1>. QED
    BY <1>3, <1>4, SpecEdits, Zenon

\* In every behaviour a PlanApplied status of the current generation tells of the
\* current spec, and not of Ready for a stopped Node: what a pass or a snapshot
\* planned for an older generation is not written over a newer one
\* (updateDirectStatuses, updateNodeStatus).
THEOREM AppliedStatusIsCurrent == Spec => []AppliedIsCurrent
  <1>1. Init => AppliedIsCurrent
    BY DEF Init, AppliedIsCurrent, NoStatus
  <1>2. ASSUME NodeInv, AppliedIsCurrent, [Next]_vars
        PROVE  AppliedIsCurrent'
    <2>1. CASE status' # status
      BY <1>2, <2>1, StatusWritten, Zenon DEF AppliedIsCurrent
    <2>2. CASE node' # node
      <3>1. node.gen \in Nat /\ status.og \in Nat /\ status.og <= node.gen
        BY <1>2, Untouched, NodeFields DEF Status
      <3>. QED
        BY <1>2, <2>2, <3>1, NodeChanges DEF AppliedIsCurrent
    <2>. QED
      BY <1>2, <2>1, <2>2, Zenon DEF AppliedIsCurrent
  <1>. QED
    BY <1>1, <1>2, NodeInvariant, PTL DEF Spec

\* The generation a status reports never goes back (updateNodeStatus).
THEOREM StatusGoesForward == Spec => ReportsForward
  <1>1. ASSUME NodeInv, [Next]_vars
        PROVE  [status'.og >= status.og]_vars
    <2>1. status.og \in Nat /\ status.og <= node.gen /\ node.gen \in Nat
      BY <1>1, Untouched, NodeFields DEF Status
    <2>. QED
      BY <1>1, <2>1, StatusWritten
  <1>. QED
    BY <1>1, NodeInvariant, PTL DEF Spec, ReportsForward
-----------------------------------------------------------------------------
(* What becomes of the Deployment, its Pod and its ConfigMaps *)

LEMMA DeploymentWriters ==
    ASSUME [Next]_vars, dep' # dep
    PROVE  Apply \/ Withdraw \/ Drift
  <1>1. ~(Begin \/ Plan \/ ReadInput \/ Decide \/ Revise \/ Record \/ Store \/ Report \/ Sweep \/ Settle \/ Clear
            \/ UNCHANGED vars)
    BY Zenon DEF Begin, Plan, ReadInput, Decide, Revise, Record, Store, Report, Sweep, Settle, Clear, vars
  <1>2. ~(Events \/ Cluster)
    BY Zenon DEF Events, Revalidate, SyncNode, SyncDep, SyncPod, SyncConfigMaps, SyncInputs, MarkPending, Cluster,
       PodCreated, PodReady, PodDeleted, PodGone, WorkerFinishes
  <1>3. ~(EditSpec \/ Join \/ StopOrStart \/ Annotate \/ EditLink \/ EditProfile \/ LoseInput \/ PodFails
            \/ PassFails \/ SweepFails \/ Restart)
    BY Zenon DEF EditSpec, Join, StopOrStart, Edit, Annotate, EditLink, EditProfile, LoseInput, PodFails, PassFails,
       SweepFails, Restart
  <1>. QED
    BY <1>1, <1>2, <1>3, Zenon DEF Next, PassStep, Environment

\* A Pod that runs from a Deployment the pass knows is replaced only for a plan
\* that is not live from its own, a newer restart token or other scheduling
\* (directConnectivityRevision, directRestartTokens, reconcileDirectDeployment).
THEOREM PodsReplacedForReason == Spec => ReplacedForReason
  <1>1. ASSUME NodeInv, [Next]_vars, dep.up, dep'.up, Template(dep') # Template(dep), pass.dep = dep, pass.cold
        PROVE  ~Live(dep.plan, dep'.plan) \/ dep'.token > dep.token \/ dep'.sched # dep.sched
    <2>1. ~Withdraw /\ ~Drift
      <3>1. dep # NoDep /\ dep' # NoDep
        BY <1>1 DEF NoDep
      <3>2. ASSUME dep' = [dep EXCEPT !.up = ~@]
            PROVE  FALSE
        <4>1. Template(dep') = Template(dep)
          BY <3>1, <3>2, Untouched, <1>1, Zenon DEF Deployment, Template
        <4>. QED
          BY <4>1, <1>1, Zenon
      <3>3. dep' # dep
        BY <1>1, Zenon
      <3>. QED
        BY <3>1, <3>2, <3>3, Zenon DEF Withdraw, Drift
    <2>2. Apply
      BY <1>1, <2>1, DeploymentWriters, Zenon
    <2>3. dep' = Render(pass.plan) /\ pass.pc = "apply"
      BY <1>1, <2>2, Zenon DEF Apply
    <2>4. /\ dep'.plan = pass.plan /\ dep'.token = pass.token /\ dep'.sched = pass.sched
          /\ pass.node.up
      BY <1>1, <2>3, Zenon DEF Render
    <2>5. Reason(pass) /\ pass.token = RestartToken(pass.node, dep)
      BY <1>1, <2>3, <2>4, Zenon DEF NodeInv, Chosen
    <2>6. CASE ~Live(dep.plan, pass.plan)
      BY <2>4, <2>6, Zenon
    <2>7. CASE pass.token \notin {0, dep.token}
      <3>1. pass.token = pass.node.restart /\ pass.node.restart # 0
        BY <2>5, <2>7, Zenon DEF RestartToken
      <3>2. dep.token <= pass.node.restart
        BY <1>1, <2>3, <3>1, Zenon DEF NodeInv, TokensOrdered, Ordered, Used
      <3>3. dep.token \in Nat /\ pass.token \in Nat
        BY <1>1, Untouched, DeploymentFields, PassFields, Shapes, Zenon
      <3>. QED
        BY <2>4, <2>7, <3>1, <3>2, <3>3
    <2>8. CASE pass.sched \notin {0, dep.sched}
      BY <2>4, <2>8, Zenon
    <2>9. dep.up = pass.node.up
      <3>1. pass.node \in Node /\ dep \in Deployment
        BY <1>1, <2>3, Untouched, Zenon DEF NodeInv, Generations
      <3>2. pass.node.up \in BOOLEAN /\ dep.up \in BOOLEAN
        BY <3>1, NodeFields, DeploymentFields, Zenon
      <3>. QED
        BY <1>1, <2>4, <3>2, Zenon
    <2>. QED
      BY <1>1, <2>5, <2>6, <2>7, <2>8, <2>9, Zenon DEF Reason, Conforms
  <1>2. ASSUME NodeInv, [Next]_vars
        PROVE  [(dep.up /\ dep'.up /\ Template(dep') # Template(dep) /\ pass.dep = dep /\ pass.cold) =>
                   \/ ~Live(dep.plan, dep'.plan)
                   \/ dep'.token > dep.token
                   \/ dep'.sched # dep.sched]_vars
    BY <1>1, <1>2, Zenon
  <1>. QED
    BY <1>2, NodeInvariant, PTL DEF Spec, ReplacedForReason

LEMMA ConfigMapWriters ==
    ASSUME NodeInv, [Next]_vars, cms' # cms, world' = world
    PROVE  Plan \/ Revise \/ Store \/ Sweep \/ Settle \/ Clear
  <1>1. ~(Begin \/ ReadInput \/ Decide \/ Record \/ Apply \/ Report \/ Withdraw \/ UNCHANGED vars)
    BY Zenon DEF Begin, ReadInput, Decide, Record, Apply, Report, Withdraw, vars
  <1>2. ~(Events \/ Cluster)
    BY Zenon DEF Events, Revalidate, SyncNode, SyncDep, SyncPod, SyncConfigMaps, SyncInputs, MarkPending, Cluster,
       PodCreated, PodReady, PodDeleted, PodGone, WorkerFinishes
  <1>3. ~(EditSpec \/ Join \/ StopOrStart \/ Annotate \/ EditLink \/ EditProfile \/ PodFails
            \/ PassFails \/ SweepFails \/ Restart)
    BY Zenon DEF EditSpec, Join, StopOrStart, Edit, Annotate, EditLink, EditProfile, PodFails, PassFails,
       SweepFails, Restart
  <1>4. ~(Drift \/ LoseInput)
    <2>1. ASSUME NEW kind, Happens(kind)
          PROVE  FALSE
      <3>1. world.left \in Nat /\ world'.left = world.left - 1
        BY <2>1, Untouched, Zenon DEF Happens, World
      <3>. QED
        BY <3>1
    <2>. QED
      BY <2>1, Zenon DEF Drift, LoseInput
  <1>. QED
    BY <1>1, <1>2, <1>3, <1>4, Zenon DEF Next, PassStep, Environment

\* A pass that read the current Deployment leaves the plan, the input and the
\* revision that the Deployment mounts, whatever the caches show of the
\* ConfigMaps (reconcileDirect and the garbage collections it ends with).
THEOREM MountsAreKept == Spec => MountsKept
  <1>1. ASSUME NodeInv, [Next]_vars, dep # NoDep, pass.dep = dep, world' = world, Mounts(cms, dep.plan)
        PROVE  Mounts(cms', dep.plan)
    <2>0. /\ cms \in ConfigMaps /\ pass \in Pass /\ Chosen(pass) /\ PlansMatch /\ dep.plan \in Plans
          /\ dep.plan \in cms.plans /\ dep.plan \in cms.inputs /\ cms.revisions[dep.plan] # NoPlan
      BY <1>1, Untouched, DeploymentFields, Zenon DEF NodeInv, Mounts
    <2>1. CASE Plan \/ Store \/ Settle
      <3>1. CASE Plan
        <4>1. \/ cms' = cms
              \/ \E p : cms' = [cms EXCEPT !.inputs = @ \cup {p}, !.records = @ \cup {p}]
          BY <3>1, Zenon DEF Plan
        <4>2. cms'.plans = cms.plans /\ cms'.revisions = cms.revisions /\ cms.inputs \subseteq cms'.inputs
          BY <2>0, <4>1, Zenon DEF ConfigMaps
        <4>. QED
          BY <2>0, <4>2, Zenon DEF Mounts
      <3>2. CASE Store
        BY <2>0, <3>2, Zenon DEF Store, ConfigMaps, Mounts
      <3>3. CASE Settle
        BY <2>0, <3>3, Zenon DEF Settle, ConfigMaps, Mounts
      <3>. QED
        BY <2>1, <3>1, <3>2, <3>3, Zenon
    <2>2. CASE Revise
      <3>1. pass.plan # NoPlan
        BY <2>0, <2>2, Shapes, Zenon DEF Revise, PlansMatch, Planned, PlanOf
      <3>2. /\ cms'.plans = cms.plans /\ cms'.inputs = cms.inputs
            /\ cms'.revisions[dep.plan] \in {cms.revisions[dep.plan], pass.plan}
        BY <2>0, <2>2, Zenon DEF Revise, ConfigMaps
      <3>. QED
        BY <2>0, <3>1, <3>2, Zenon DEF Mounts
    <2>3. CASE Sweep
      <3> DEFINE mounted == IF pass.retain THEN pass.dep.plan ELSE pass.plan
                 gone == seen.cms.inputs \ {pass.plan, mounted}
                 plans == seen.cms.plans \ {mounted}
                 revisions == SuperfluousRevisions({mounted})
                 left == Without(cms, plans, revisions)
      <3>1. mounted = dep.plan
        BY <1>1, <2>0, <2>3, Zenon DEF Sweep, Chosen
      <3>2. cms' = [left EXCEPT !.inputs = @ \ gone]
        BY <2>3, Zenon DEF Sweep
      <3>3. dep.plan \notin gone /\ dep.plan \notin plans /\ dep.plan \notin revisions
        BY <3>1, Zenon DEF SuperfluousRevisions
      <3>. HIDE DEF gone, plans, revisions
      <3>4. /\ left \in ConfigMaps /\ left.plans = cms.plans \ plans /\ left.inputs = cms.inputs
            /\ \A p \in Plans : left.revisions[p] = IF p \in revisions THEN NoPlan ELSE cms.revisions[p]
        BY <2>0, WithoutFields
      <3>. HIDE DEF left
      <3>5. /\ cms'.plans = left.plans /\ cms'.revisions = left.revisions
            /\ cms'.inputs = left.inputs \ gone
        BY <3>2, <3>4, Zenon DEF ConfigMaps
      <3>6. dep.plan \in left.plans /\ left.revisions[dep.plan] = cms.revisions[dep.plan]
        BY <2>0, <3>3, <3>4, Zenon
      <3>. QED
        BY <2>0, <3>3, <3>4, <3>5, <3>6, Zenon DEF Mounts
    <2>4. ~Clear
      BY <1>1, <2>0, Zenon DEF Clear, Chosen
    <2>. QED
      BY <1>1, <2>1, <2>2, <2>3, <2>4, ConfigMapWriters, Zenon
  <1>2. ASSUME NodeInv, [Next]_vars
        PROVE  [(dep # NoDep /\ dep' = dep /\ pass.dep = dep /\ world' = world /\ Mounts(cms, dep.plan))
                   => Mounts(cms', dep.plan)]_vars
    BY <1>1, <1>2, Zenon
  <1>. QED
    BY <1>2, NodeInvariant, PTL DEF Spec, MountsKept
=============================================================================
