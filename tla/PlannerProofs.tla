--------------------------- MODULE PlannerProofs ---------------------------
(***************************************************************************)
(* What planning persists, and what it runs behind, for every number of    *)
(* Nodes, attempts, workers and images, and whatever planning asks for.    *)
(*                                                                         *)
(* PlannerSessionProofs has the invariant, the steps of the processes and  *)
(* of what happens around planning.                                        *)
(* Here are those of the passes: that a process is behind its policy needs *)
(* to know what a pass has put up or taken down before its step.           *)
(***************************************************************************)
EXTENDS PlannerSessionProofs

-----------------------------------------------------------------------------
(* The pass of a Node. *)

FactsSet == [images : Nat \ {0}, cert : Nat, next : Nat \ {0}]
InputSet == [a : Attempts \cup {0}, facts : FactSet]

LEMMA TalkStill ==
    ASSUME PlanInv, UNCHANGED <<proc, out, sess, pods, seen, world, cut>> PROVE TalkStep
  <1>1. Stands
    BY WorldStands, Zenon
  <1>2. SlotsOK' /\ PodsOK'
    BY <1>1, SlotsKept, PodsKept, Zenon DEF PlanInv, Sound
  <1>3. RunsOK'
    BY Zenon DEF PlanInv, Sound, RunsOK
  <1> QED
    BY <1>2, <1>3, Zenon DEF TalkStep, ProcStep, PlanInv, Types

\* Only the pass of n moves, and not to where it starts a Pod or deletes a policy.
Moves(n) ==
    /\ pass' \in [Nodes -> PassSet]
    /\ \A m \in Nodes : m # n => pass'[m] = pass[m]
    /\ PassOK(world, cut, n, pass'[n])

Harmless(n) == pass'[n].pc \notin {"pod", "open", "policies"}

\* A step of one pass keeps the invariant, if what it touches does.
LEMMA PassKeeps ==
    ASSUME PlanInv, UNCHANGED <<want, world, cut, seen>>, TalkStep, NEW n \in Nodes, Moves(n),
           records' \in [Attempts -> RecordSet], RecordsOK', inputs' \subseteq InputSet,
           policies' \subseteq Attempts, busy' \subseteq Workers, facts' \in FactsSet, Guarded'
    PROVE  PlanInv'
  <1>1. Types'
    BY Zenon DEF PlanInv, Types, TalkStep, ProcStep, Moves, FactsSet, InputSet
  <1>2. Stands
    BY WorldStands, Zenon
  <1>3. PassesOK'
    BY <1>2, OnePassOK, Zenon DEF PlanInv, Sound, Moves
  <1> QED
    BY <1>1, <1>3, Zenon DEF PlanInv, Sound, TalkStep, ProcStep

\* A pass that moves elsewhere leaves what runs behind its policies.
LEMMA PassGuard ==
    ASSUME PlanInv, UNCHANGED <<world, cut>>, TalkStep, NEW n \in Nodes, Moves(n), Harmless(n),
           policies \subseteq policies'
    PROVE  Guarded'
  <1>1. \A m \in Nodes : pass[m].pc = "open" => pass[m].a \in Attempts
    <2>1. ASSUME NEW m \in Nodes, pass[m].pc = "open" PROVE pass[m].pc # "idle"
      BY <2>1, SMT
    <2> QED
      BY <2>1, Zenon DEF PlanInv, Sound, PassesOK, PassOK
  <1>2. \A a \in Attempts : Serving(pods'[a]) => Serving(pods[a])
    BY Zenon DEF ProcStep, TalkStep
  <1>3. \A m \in Nodes : pass'[m].pc \in {"pod", "open", "policies"} =>
                             pass'[m].pc = pass[m].pc /\ pass'[m].a = pass[m].a
    BY Zenon DEF Moves, Harmless
  <1>4. Stands
    BY WorldStands, Zenon
  <1> QED
    BY <1>1, <1>2, <1>3, <1>4, GuardKept, Zenon DEF PlanInv

\* A step of a pass that touches neither records nor policies nor processes
LEMMA PassOnly ==
    ASSUME PlanInv, UNCHANGED <<want, records, policies, pods, seen, proc, out, sess, busy, facts, cut, world>>,
           NEW n \in Nodes, Moves(n), Harmless(n), inputs' \subseteq InputSet
    PROVE  PlanInv'
  <1>1. TalkStep
    BY TalkStill, Zenon
  <1>2. Guarded'
    BY <1>1, PassGuard, Zenon
  <1>3. Stands
    BY WorldStands, Zenon
  <1>4. RecordsOK'
    BY <1>3, RecordsKept, Zenon DEF PlanInv, Sound
  <1>5. /\ records' \in [Attempts -> RecordSet] /\ policies' \subseteq Attempts /\ busy' \subseteq Workers
        /\ facts' \in FactsSet
    BY Zenon DEF PlanInv, Types, FactsSet
  <1> QED
    BY <1>1, <1>2, <1>4, <1>5, PassKeeps, Zenon

LEMMA EndPassMoves ==
    ASSUME PlanInv, NEW n \in Nodes, EndPass(n)
    PROVE  Moves(n) /\ Harmless(n) /\ pass'[n].pc = "idle"
  <1>1. pass' = [pass EXCEPT ![n] = IdlePass] /\ pass \in [Nodes -> PassSet]
    BY Zenon DEF EndPass, PlanInv, Types
  <1>2. /\ pass' \in [Nodes -> PassSet] /\ pass'[n] = IdlePass
        /\ \A m \in Nodes : m # n => pass'[m] = pass[m]
    BY <1>1, NoneOK, Zenon
  <1>3. IdlePass.pc = "idle"
    BY Zenon DEF IdlePass
  <1>4. IdlePass.pc \notin {"talk", "store", "persist", "pod", "open", "policies"}
    BY <1>3, SMT
  <1>5. PassOK(world, cut, n, IdlePass)
    BY <1>3, <1>4, Zenon DEF PassOK
  <1> QED
    BY <1>2, <1>3, <1>4, <1>5, Zenon DEF Moves, Harmless

LEMMA GotoMoves ==
    ASSUME PlanInv, NEW n \in Nodes, pass[n].pc # "idle",
           NEW pc \in {"policy", "pod", "harvest", "delete", "open", "final", "pods", "policies", "maps"},
           Goto(n, pc)
    PROVE  Moves(n) /\ pass'[n].pc = pc /\ pass'[n].a = pass[n].a /\ pass'[n].w = pass[n].w
  <1> DEFINE q == [pass[n] EXCEPT !.pc = pc]
  <1>1. pass' = [pass EXCEPT ![n] = q] /\ pass \in [Nodes -> PassSet] /\ pass[n] \in PassSet
    BY PassFacts, Zenon DEF Goto
  <1>2. q.pc = pc /\ q.a = pass[n].a /\ q.w = pass[n].w
    BY <1>1, Zenon DEF PassSet
  <1>3. q \in PassSet
    BY <1>1, Zenon DEF PassSet
  <1> HIDE DEF q
  <1>4. pass' \in [Nodes -> PassSet] /\ pass'[n] = q /\ \A m \in Nodes : m # n => pass'[m] = pass[m]
    BY <1>1, <1>3, Zenon
  <1>5. pc \notin {"talk", "store", "persist"}
    BY SMT
  <1>6. PassOK(world, cut, n, q)
    BY <1>2, <1>5, PassFacts, Zenon DEF PassOK
  <1> QED
    BY <1>2, <1>4, <1>6, Zenon DEF Moves

LEMMA StepLookup ==
    ASSUME PlanInv, NEW n \in Nodes, Lookup(n) PROVE PlanInv'
  <1> DEFINE found == seen.records[want[n]] # NoRecord
             pc == CASE found -> "final"
                     [] ~found /\ world.pool -> "acquire"
                     [] ~found /\ ~world.pool -> "input"
             q == [IdlePass EXCEPT !.a = want[n], !.pc = pc]
  <1>1. /\ want[n] # 0 /\ pass' = [pass EXCEPT ![n] = q]
        /\ UNCHANGED <<want, inputs, records, policies, pods, seen, proc, out, sess, busy, facts, cut, world>>
    BY Zenon DEF Lookup, objects, planning
  <1>2. /\ want[n] \in Attempts /\ world.owner[want[n]] = n /\ world.pool \in BOOLEAN
        /\ inputs \subseteq InputSet /\ pass \in [Nodes -> PassSet]
    BY <1>1, Zenon DEF PlanInv, Types, Sound, PassesOK, World, InputSet
  <1>3. pc \in {"final", "acquire", "input"}
    BY <1>2, Zenon
  <1> HIDE DEF pc
  <1>4. q.pc = pc /\ q.a = want[n] /\ q.w = 0
    BY Zenon DEF IdlePass
  <1>5. q \in PassSet
    BY <1>2, <1>3, NoneOK, Zenon DEF PassSet
  <1> HIDE DEF q
  <1>6. pass' \in [Nodes -> PassSet] /\ pass'[n] = q /\ \A m \in Nodes : m # n => pass'[m] = pass[m]
    BY <1>1, <1>2, <1>5, Zenon
  <1>7. q.pc \notin {"idle", "talk", "store", "persist", "pod", "open", "policies"}
    BY <1>3, <1>4, SMT
  <1>8. PassOK(world, cut, n, q)
    BY <1>2, <1>4, <1>7, Zenon DEF PassOK
  <1>9. Moves(n) /\ Harmless(n)
    BY <1>6, <1>7, <1>8, Zenon DEF Moves, Harmless
  <1> QED
    BY <1>1, <1>2, <1>9, PassOnly, Zenon

\* An input is stored or not, and the pass ends or goes on.
LEMMA EnsureInputMoves ==
    ASSUME PlanInv, NEW n \in Nodes, pass[n].pc # "idle", NEW i \in InputSet,
           EnsureInput(n, i, "policy")
    PROVE  Moves(n) /\ Harmless(n) /\ inputs' \subseteq InputSet
  <1>1. inputs \subseteq InputSet
    BY Zenon DEF PlanInv, Types, InputSet
  <1>2. inputs' \subseteq InputSet
    BY <1>1, Zenon DEF EnsureInput
  <1>3. CASE EndPass(n)
    BY <1>2, <1>3, EndPassMoves, Zenon
  <1>4. CASE Goto(n, "policy")
    <2>1. Moves(n) /\ pass'[n].pc = "policy"
      BY <1>4, GotoMoves, Zenon
    <2>2. Harmless(n)
      BY <2>1, SMT DEF Harmless
    <2> QED
      BY <1>2, <2>1, <2>2, Zenon
  <1> QED
    BY <1>3, <1>4, Zenon DEF EnsureInput

LEMMA StepStoreInput ==
    ASSUME PlanInv, NEW n \in Nodes, StoreInput(n) PROVE PlanInv'
  <1>1. /\ pass[n].pc = "input" /\ EnsureInput(n, Initial(pass[n].a), "policy")
        /\ UNCHANGED <<want, records, policies, pods, seen, proc, out, sess, busy, facts, cut, world>>
    BY Zenon DEF StoreInput, planning
  <1>2. pass[n].pc # "idle"
    BY <1>1, SMT
  <1>3. Initial(pass[n].a) \in InputSet
    <2>1. pass[n].a \in Attempts
      BY <1>2, PassFacts, Zenon
    <2> QED
      BY <2>1, NoFactsKnown, Zenon DEF Initial, InputSet
  <1>4. Moves(n) /\ Harmless(n) /\ inputs' \subseteq InputSet
    BY <1>1, <1>2, <1>3, EnsureInputMoves, Zenon
  <1> QED
    BY <1>1, <1>4, PassOnly, Zenon

\* Caches that are not behind show what is.
LEMMA CachesShow ==
    ASSUME CachesServe, world.lag \cap {"pods", "policies"} = {}
    PROVE  seen.pods = pods /\ seen.policies = policies
  <1>1. "pods" \in Caches \ world.lag /\ "policies" \in Caches \ world.lag
    BY Zenon DEF Caches
  <1>2. Current("pods") /\ Current("policies")
    BY <1>1, Zenon DEF CachesServe
  <1>3. "pods" # "maps" /\ "policies" # "maps" /\ "policies" # "pods"
    BY SMT
  <1> QED
    BY <1>2, <1>3, Zenon DEF Current

\* What is guarded stays so when one pass moves and nothing else loosens.
LEMMA MoveGuard ==
    ASSUME PlanInv, UNCHANGED <<world, cut>>, NEW n \in Nodes, Moves(n),
           \A a \in Attempts : Serving(pods'[a]) => Serving(pods[a]),
           policies \subseteq policies',
           world.lag \cap {"pods", "policies"} = {} => Fenced(world', n, pass'[n], policies', pods')
    PROVE  Guarded'
  <1>1. SUFFICES ASSUME world.lag \cap {"pods", "policies"} = {}
                 PROVE  /\ \A a \in Attempts : Serving(pods'[a]) => a \in policies'
                        /\ \A m \in Nodes : Fenced(world', m, pass'[m], policies', pods')
    BY Zenon DEF Guarded
  <1>2. \A a \in Attempts : Serving(pods'[a]) => a \in policies'
    BY <1>1, Zenon DEF PlanInv, Guarded
  <1>3. ASSUME NEW m \in Nodes, m # n PROVE Fenced(world', m, pass'[m], policies', pods')
    <2>1. Fenced(world, m, pass[m], policies, pods) /\ pass'[m] = pass[m]
      BY <1>1, <1>3, Zenon DEF PlanInv, Guarded, Moves
    <2>2. pass[m].pc = "open" => pass[m].pc # "idle"
      BY SMT
    <2>3. pass[m].pc = "open" => pass[m].a \in Attempts
      BY <1>3, <2>2, PassFacts, Zenon
    <2> QED
      BY <2>1, <2>3, Zenon DEF Fenced
  <1> QED
    BY <1>1, <1>2, <1>3, Zenon

LEMMA StepEnsurePolicy ==
    ASSUME PlanInv, NEW n \in Nodes, CachesServe, EnsurePolicy(n) PROVE PlanInv'
  <1>1. /\ pass[n].pc = "policy"
        /\ UNCHANGED <<want, inputs, records, pods, seen, proc, out, sess, busy, facts, cut, world>>
    BY Zenon DEF EnsurePolicy, planning
  <1>2. pass[n].pc # "idle"
    BY <1>1, SMT
  <1>3. pass[n].a \in Attempts
    BY <1>2, PassFacts, Zenon
  <1>4. TalkStep /\ Stands
    BY <1>1, TalkStill, WorldStands, Zenon
  <1>5. RecordsOK'
    BY <1>1, <1>4, RecordsKept, Zenon DEF PlanInv, Sound
  <1>6. /\ records' \in [Attempts -> RecordSet] /\ policies \subseteq Attempts /\ busy' \subseteq Workers
        /\ facts' \in FactsSet /\ inputs' \subseteq InputSet
    BY <1>1, Zenon DEF PlanInv, Types, FactsSet, InputSet
  <1>7. CASE pass[n].a \in seen.policies /\ Goto(n, "pod") /\ UNCHANGED policies
    <2>1. Moves(n) /\ pass'[n].pc = "pod" /\ pass'[n].a = pass[n].a
      BY <1>2, <1>7, GotoMoves, Zenon
    <2>2. pass'[n].pc # "open" /\ pass'[n].pc # "policies"
      BY <2>1, SMT
    <2>3. world.lag \cap {"pods", "policies"} = {} => Fenced(world', n, pass'[n], policies', pods')
      BY <1>7, <2>1, <2>2, CachesShow, Zenon DEF Fenced
    <2>4. Guarded'
      BY <1>1, <1>7, <2>1, <2>3, MoveGuard, Zenon
    <2> QED
      BY <1>1, <1>4, <1>5, <1>6, <1>7, <2>1, <2>4, PassKeeps, Zenon
  <1>8. CASE EndPass(n) /\ policies' = policies \cup {pass[n].a}
    <2>1. Moves(n) /\ Harmless(n)
      BY <1>8, EndPassMoves, Zenon
    <2>2. policies \subseteq policies' /\ policies' \subseteq Attempts
      BY <1>3, <1>6, <1>8, Zenon
    <2>3. Guarded'
      BY <1>1, <1>4, <2>1, <2>2, PassGuard, Zenon
    <2> QED
      BY <1>1, <1>4, <1>5, <1>6, <2>1, <2>2, <2>3, PassKeeps, Zenon
  <1> QED
    BY <1>7, <1>8, Zenon DEF EnsurePolicy

\* A process that starts in a Pod starts behind its policy, and no other pass
\* counts on it.
LEMMA StartGuard ==
    ASSUME PlanInv, UNCHANGED <<world, policies>>, NEW n \in Nodes, Moves(n), Harmless(n), pass[n].pc = "pod",
           \A a \in Attempts : a # pass[n].a => pods'[a] = pods[a]
    PROVE  Guarded'
  <1>1. SUFFICES ASSUME world.lag \cap {"pods", "policies"} = {}
                 PROVE  /\ \A a \in Attempts : Serving(pods'[a]) => a \in policies'
                        /\ \A m \in Nodes : Fenced(world', m, pass'[m], policies', pods')
    BY Zenon DEF Guarded
  <1>2. /\ \A a \in Attempts : Serving(pods[a]) => a \in policies
        /\ \A m \in Nodes : Fenced(world, m, pass[m], policies, pods)
    BY <1>1, Zenon DEF PlanInv, Guarded
  <1>3. pass[n].a \in policies
    BY <1>2, Zenon DEF Fenced
  <1>4. pass[n].pc # "idle"
    BY SMT
  <1>5. world.owner[pass[n].a] = n
    BY <1>4, PassFacts, Zenon
  <1>6. \A a \in Attempts : Serving(pods'[a]) => a \in policies'
    BY <1>2, <1>3, Zenon
  <1>7. ASSUME NEW m \in Nodes PROVE Fenced(world', m, pass'[m], policies', pods')
    <2>1. CASE m = n
      BY <2>1, Zenon DEF Harmless, Fenced
    <2>2. CASE m # n
      <3>1. pass'[m] = pass[m] /\ Fenced(world, m, pass[m], policies, pods)
        BY <1>2, <1>7, <2>2, Zenon DEF Moves
      <3>2. pass[m].pc = "open" => pass[m].pc # "idle"
        BY SMT
      <3>3. pass[m].pc = "open" => pass[m].a \in Attempts /\ world.owner[pass[m].a] = m
        BY <1>7, <3>2, PassFacts, Zenon
      <3>4. pass[m].pc = "open" => ~Serving(pods'[pass[m].a])
        BY <1>5, <2>2, <3>1, <3>3, Zenon DEF Fenced
      <3>5. \A a \in Attempts : world.owner[a] = m => pods'[a] = pods[a]
        BY <1>5, <2>2, Zenon
      <3>6. pass[m].pc = "policies" =>
                \A a \in Attempts : world'.owner[a] = m /\ a # pass[m].a => ~Serving(pods'[a])
        BY <3>1, <3>5, Zenon DEF Fenced
      <3>7. pass[m].pc = "pod" => pass[m].a \in policies'
        BY <3>1, Zenon DEF Fenced
      <3> QED
        BY <3>1, <3>4, <3>6, <3>7, Zenon DEF Fenced
    <2> QED
      BY <2>1, <2>2, Zenon
  <1> QED
    BY <1>1, <1>6, <1>7, Zenon

\* ensurePlannerPod creates the Pod.
LEMMA PodStarted ==
    ASSUME PlanInv, NEW n \in Nodes, pass[n].pc = "pod", EndPass(n),
           pods' = [pods EXCEPT ![pass[n].a] = StartedPod],
           proc' = [proc EXCEPT ![pass[n].a] = [NoProc EXCEPT !.st = "reading"]],
           UNCHANGED <<want, inputs, records, policies, seen, out, sess, busy, facts, cut, world>>
    PROVE  PlanInv'
  <1> DEFINE a == pass[n].a
             r == [NoProc EXCEPT !.st = "reading"]
  <1>1. pass[n].pc # "idle"
    BY SMT
  <1>2. a \in Attempts /\ a \in Slots
    BY <1>1, PassFacts, Zenon DEF Slots
  <1>3. proc \in [Slots -> ProcSet] /\ pods \in [Attempts -> PodSet]
    BY Zenon DEF PlanInv, Types
  <1>4. r \in ProcSet /\ r.st = "reading"
    BY ReadingProc, Zenon
  <1>5. SlotOK(world, cut, a, r, sess[a], out[a])
    BY <1>2, SlotFacts, SlotStarted, Zenon
  <1>16. proc' = [proc EXCEPT ![a] = r]
    BY Zenon
  <1> HIDE DEF r
  <1>6. /\ proc' \in [Slots -> ProcSet] /\ proc'[a] = r /\ \A t \in Slots : t # a => proc'[t] = proc[t]
    BY <1>2, <1>3, <1>4, <1>16, Zenon
  <1>7. /\ pods' \in [Attempts -> PodSet] /\ pods'[a] = StartedPod
        /\ \A b \in Attempts : b # a => pods'[b] = pods[b]
    BY <1>2, <1>3, NoneOK, Zenon
  <1> HIDE DEF a
  <1>8. Stands
    BY WorldStands, Zenon
  <1>9. SlotsOK'
    BY <1>2, <1>5, <1>6, <1>8, OneSlot, Zenon DEF PlanInv, Sound
  <1>10. PodsOK'
    <2>1. PodOK(world', cut', StartedPod)
      BY NoneOK, Zenon
    <2>2. PodOK(world', cut', pods'[a]) /\ PodsOK
      BY <1>7, <2>1, Zenon DEF PlanInv, Sound
    <2> QED
      BY <1>2, <1>7, <1>8, <2>2, OnePod, Zenon
  <1>11. RunsOK'
    <2>1. StartedPod.phase = "running"
      BY Zenon DEF StartedPod, NoPod
    <2>2. r.st # "none"
      BY <1>4, SMT
    <2>3. Runs(pods'[a], proc'[a])
      BY <1>6, <1>7, <2>1, <2>2, Zenon DEF Runs
    <2> QED
      BY <1>6, <1>7, <2>3, Zenon DEF RunsOK, PlanInv, Sound, Slots
  <1>12. Moves(n) /\ Harmless(n)
    BY EndPassMoves, Zenon
  <1>13. Guarded'
    BY <1>7, <1>12, StartGuard, Zenon DEF a
  <1>14. RecordsOK' /\ PassesOK'
    BY <1>8, <1>12, RecordsKept, OnePassOK, Zenon DEF PlanInv, Sound, Moves
  <1>15. Types'
    BY <1>6, <1>7, <1>12, Zenon DEF PlanInv, Types, Moves
  <1> QED
    BY <1>9, <1>10, <1>11, <1>13, <1>14, <1>15, Zenon DEF PlanInv, Sound

LEMMA StepEnsurePod ==
    ASSUME PlanInv, NEW n \in Nodes, EnsurePod(n) PROVE PlanInv'
  <1>1. /\ pass[n].pc = "pod"
        /\ UNCHANGED <<want, inputs, records, policies, seen, out, sess, busy, facts, cut, world>>
    BY Zenon DEF EnsurePod
  <1>2. pass[n].pc # "idle"
    BY <1>1, SMT
  <1>3. inputs' \subseteq InputSet
    BY <1>1, Zenon DEF PlanInv, Types, InputSet
  <1>4. CASE /\ pods' = [pods EXCEPT ![pass[n].a] = StartedPod]
             /\ proc' = [proc EXCEPT ![pass[n].a] = [NoProc EXCEPT !.st = "reading"]]
             /\ EndPass(n)
    BY <1>1, <1>4, PodStarted, Zenon
  <1>5. CASE Goto(n, "harvest") /\ UNCHANGED <<pods, proc>>
    <2>1. Moves(n) /\ pass'[n].pc = "harvest"
      BY <1>2, <1>5, GotoMoves, Zenon
    <2>2. Harmless(n)
      BY <2>1, SMT DEF Harmless
    <2> QED
      BY <1>1, <1>3, <1>5, <2>1, <2>2, PassOnly, Zenon
  <1>6. CASE EndPass(n) /\ UNCHANGED <<pods, proc>>
    BY <1>1, <1>3, <1>6, EndPassMoves, PassOnly, Zenon
  <1> QED
    BY <1>4, <1>5, <1>6, Zenon DEF EnsurePod

\* A pass that goes on to persist what it has
LEMMA CarriesMoves ==
    ASSUME PlanInv, NEW n \in Nodes, pass[n].pc # "idle", NEW pc \in {"store", "persist"}, NEW f \in FrameSet,
           pass' = [pass EXCEPT ![n].pc = pc, ![n].frame = f],
           pc = "store" => f.type = "result",
           \/ f.type = "result" /\ Complete(world, f.facts)
           \/ f.type = "error" /\ Excused(world, cut)
    PROVE  Moves(n) /\ Harmless(n)
  <1> DEFINE q == [pass[n] EXCEPT !.pc = pc, !.frame = f]
  <1>1. pass' = [pass EXCEPT ![n] = q] /\ pass \in [Nodes -> PassSet] /\ pass[n] \in PassSet
    BY PassFacts, Zenon
  <1>2. q.pc = pc /\ q.a = pass[n].a /\ q.w = pass[n].w /\ q.frame = f
    BY <1>1, Zenon DEF PassSet
  <1>3. q \in PassSet
    BY <1>1, Zenon DEF PassSet
  <1> HIDE DEF q
  <1>4. pass' \in [Nodes -> PassSet] /\ pass'[n] = q /\ \A m \in Nodes : m # n => pass'[m] = pass[m]
    BY <1>1, <1>3, Zenon
  <1>5. pc \notin {"talk", "pod", "open", "policies"}
    BY SMT
  <1>6. PassOK(world, cut, n, q)
    BY <1>2, <1>5, PassFacts, Zenon DEF PassOK
  <1> QED
    BY <1>2, <1>4, <1>5, <1>6, Zenon DEF Moves, Harmless

\* A pass deletes the Pod of its attempt and ends.
LEMMA PodDropped ==
    ASSUME PlanInv, NEW n \in Nodes, pass[n].pc # "idle", DeletePod(pass[n].a), EndPass(n),
           UNCHANGED <<want, inputs, records, policies, seen, proc, out, sess, busy, facts, cut, world>>
    PROVE  PlanInv'
  <1>1. pass[n].a \in Attempts /\ Stands
    BY PassFacts, WorldStands, Zenon
  <1>2. ProcStep
    BY <1>1, DeletePodStep, Zenon DEF PlanInv
  <1>3. TalkStep
    BY <1>2, Zenon DEF TalkStep, PlanInv, Types
  <1>4. Moves(n) /\ Harmless(n)
    BY EndPassMoves, Zenon
  <1>5. policies \subseteq policies'
    BY Zenon
  <1>6. Guarded'
    BY <1>3, <1>4, <1>5, PassGuard, Zenon
  <1>7. RecordsOK'
    BY <1>1, RecordsKept, Zenon DEF PlanInv, Sound
  <1>8. /\ records' \in [Attempts -> RecordSet] /\ policies' \subseteq Attempts /\ busy' \subseteq Workers
        /\ facts' \in FactsSet /\ inputs' \subseteq InputSet
    BY Zenon DEF PlanInv, Types, FactsSet, InputSet
  <1> QED
    BY <1>3, <1>4, <1>6, <1>7, <1>8, PassKeeps, Zenon

LEMMA StepHarvest ==
    ASSUME PlanInv, NEW n \in Nodes, Harvest(n) PROVE PlanInv'
  <1> DEFINE a == pass[n].a
             log == pods[a].log
  <1>1. /\ pass[n].pc = "harvest"
        /\ UNCHANGED <<want, records, policies, seen, proc, out, sess, busy, facts, cut, world>>
    BY Zenon DEF Harvest, planning
  <1>2. pass[n].pc # "idle"
    BY <1>1, SMT
  <1>3. a \in Attempts
    BY <1>2, PassFacts, Zenon
  <1>4. inputs \subseteq InputSet
    BY Zenon DEF PlanInv, Types, InputSet
  <1>5. log \in FrameSet \cup {NoFrame} /\ PodOK(world, cut, pods[a]) /\ PodOK(world, cut, seen.pods[a])
    BY <1>3, Zenon DEF PlanInv, Types, Sound, PodsOK, PodSet
  <1>6. CASE DeletePod(a) /\ EndPass(n) /\ UNCHANGED inputs
    BY <1>1, <1>2, <1>6, PodDropped, Zenon
  <1>7. CASE EndPass(n) /\ UNCHANGED <<inputs, pods>>
    BY <1>1, <1>4, <1>7, EndPassMoves, PassOnly, Zenon
  <1>8. CASE /\ log.type = "error" /\ pass' = [pass EXCEPT ![n].pc = "persist", ![n].frame = log]
             /\ UNCHANGED <<inputs, pods>>
    <2>1. NoFrame.type = "none"
      BY Zenon DEF NoFrame
    <2>2. log # NoFrame /\ "persist" # "store"
      BY <1>8, <2>1, SMT
    <2>3. Excused(world, cut) /\ log \in FrameSet
      BY <1>5, <1>8, <2>2, Zenon DEF PodOK, FrameOK
    <2>4. Moves(n) /\ Harmless(n)
      BY <1>2, <1>8, <2>2, <2>3, CarriesMoves, Zenon
    <2> QED
      BY <1>1, <1>4, <1>8, <2>4, PassOnly, Zenon
  <1>9. CASE /\ log.type = "result" /\ seen.pods[a].accepted = log
             /\ pass' = [pass EXCEPT ![n].pc = "store", ![n].frame = log]
             /\ UNCHANGED <<inputs, pods>>
    <2>1. NoFrame.type = "none"
      BY Zenon DEF NoFrame
    <2>2. log # NoFrame
      BY <1>9, <2>1, SMT
    <2>3. Complete(world, log.facts) /\ log \in FrameSet
      BY <1>5, <1>9, <2>2, Zenon DEF PodOK
    <2>4. Moves(n) /\ Harmless(n)
      BY <1>2, <1>9, <2>3, CarriesMoves, Zenon
    <2> QED
      BY <1>1, <1>4, <1>9, <2>4, PassOnly, Zenon
  <1> QED
    BY <1>6, <1>7, <1>8, <1>9, Zenon DEF Harvest

\* A result has facts.
LEMMA ResultFields ==
    ASSUME NEW f \in FrameSet \cup {NoFrame}, f.type = "result" PROVE f.facts \in FactSet /\ f \in FrameSet
  <1>1. NoFrame.type = "none" /\ Diagnostic.type = "error"
    BY Zenon DEF NoFrame, Diagnostic
  <1>2. f # NoFrame /\ f # Diagnostic
    BY <1>1, SMT
  <1>3. f \notin [type : {"images"}, set : SUBSET Images, seq : Nat]
    BY SMT
  <1>4. f \notin [type : {"certs"}, seq : Nat]
    BY SMT
  <1>5. f \in [type : {"result"}, facts : FactSet, seq : Nat]
    BY <1>2, <1>3, <1>4, Zenon DEF FrameSet
  <1> QED
    BY <1>5, Zenon DEF FrameSet

-----------------------------------------------------------------------------
(* What a pass persists, deletes and sweeps. *)

\* Only workers are released, and a released worker is no one's.
LEMMA ReleaseStep ==
    ASSUME PlanInv, NEW n \in Nodes, Release(n), UNCHANGED <<proc, out, pods, seen, world, cut>>
    PROVE  TalkStep /\ busy' \subseteq Workers
  <1>1. sess' = [s \in Slots |-> IF s = pass[n].w THEN NoSess ELSE sess[s]] /\ sess \in [Slots -> SessSet]
    BY Zenon DEF Release, PlanInv, Types
  <1>2. sess' \in [Slots -> SessSet]
    BY <1>1, NoneOK, Zenon
  <1>3. pass[n].w \in Workers \cup {0}
    BY PassFacts, Zenon DEF PassSet
  <1>4. Stands
    BY WorldStands, Zenon
  <1>5. ASSUME NEW s \in Slots PROVE SlotOK(world', cut', s, proc'[s], sess'[s], out'[s])
    <2>1. SlotOK(world, cut, s, proc[s], sess[s], out[s])
      BY <1>5, SlotFacts, Zenon
    <2>2. CASE s = pass[n].w
      <3>1. ~(s \in Attempts)
        BY <1>3, <1>5, <2>2, SlotsAssumption, Zenon DEF Slots
      <3>2. SlotOK(world, cut, s, proc[s], NoSess, out[s])
        BY <2>1, <3>1, SlotReleased, Zenon
      <3> QED
        BY <1>1, <1>5, <2>2, <3>2, Zenon
    <2>3. CASE s # pass[n].w
      BY <1>1, <1>5, <2>1, <2>3, Zenon
    <2> QED
      BY <2>2, <2>3, Zenon
  <1>6. SlotsOK'
    BY <1>5, Zenon DEF SlotsOK
  <1>7. PodsOK'
    BY <1>4, PodsKept, Zenon DEF PlanInv, Sound
  <1>8. RunsOK'
    BY Zenon DEF PlanInv, Sound, RunsOK
  <1>9. ProcStep
    BY <1>6, <1>7, <1>8, Zenon DEF ProcStep, PlanInv, Types
  <1> QED
    BY <1>2, <1>9, Zenon DEF TalkStep, Release, PlanInv, Types

LEMMA StepStoreFinal ==
    ASSUME PlanInv, NEW n \in Nodes, StoreFinal(n) PROVE PlanInv'
  <1> DEFINE i == [a |-> pass[n].a, facts |-> pass[n].frame.facts]
  <1>1. /\ pass[n].pc = "store" /\ EnsureInput(n, i, "persist")
        /\ Release(n) \/ UNCHANGED <<busy, sess>>
        /\ UNCHANGED <<want, records, policies, pods, seen, proc, out, facts, cut, world>>
    BY Zenon DEF StoreFinal
  <1>2. pass[n].pc # "idle" /\ "persist" # "store"
    BY <1>1, SMT
  <1>3. /\ pass[n].a \in Attempts /\ pass[n].frame.type = "result"
        /\ pass[n].frame \in FrameSet \cup {NoFrame}
        /\ \/ pass[n].frame.type = "result" /\ Complete(world, pass[n].frame.facts)
           \/ pass[n].frame.type = "error" /\ Excused(world, cut)
    BY <1>1, <1>2, PassFacts, Zenon DEF PassOK, PassSet
  <1>4. pass[n].frame.facts \in FactSet /\ pass[n].frame \in FrameSet
    BY <1>3, ResultFields, Zenon
  <1>5. i \in InputSet
    BY <1>3, <1>4, Zenon DEF InputSet
  <1> HIDE DEF i
  <1>6. inputs' \subseteq InputSet
    BY <1>1, <1>5, Zenon DEF EnsureInput, PlanInv, Types, InputSet
  <1>7. Moves(n) /\ Harmless(n)
    <2>1. CASE EndPass(n)
      BY <2>1, EndPassMoves, Zenon
    <2>2. CASE Goto(n, "persist")
      <3>1. pass[n] \in PassSet /\ pass \in [Nodes -> PassSet]
        BY PassFacts, Zenon
      <3>2. [pass[n] EXCEPT !.pc = "persist"] = [pass[n] EXCEPT !.pc = "persist", !.frame = pass[n].frame]
        BY <3>1, Zenon DEF PassSet
      <3>3. pass' = [pass EXCEPT ![n].pc = "persist", ![n].frame = pass[n].frame]
        BY <2>2, <3>1, <3>2, Zenon DEF Goto
      <3> QED
        BY <1>2, <1>3, <1>4, <3>3, CarriesMoves, Zenon
    <2> QED
      BY <1>1, <2>1, <2>2, Zenon DEF EnsureInput
  <1>8. TalkStep /\ busy' \subseteq Workers
    <2>1. CASE Release(n)
      BY <1>1, <2>1, ReleaseStep, Zenon
    <2>2. CASE UNCHANGED <<busy, sess>>
      BY <1>1, <2>2, TalkStill, Zenon DEF PlanInv, Types
    <2> QED
      BY <1>1, <2>1, <2>2, Zenon
  <1>9. policies \subseteq policies'
    BY <1>1, Zenon
  <1>10. Guarded'
    BY <1>1, <1>7, <1>8, <1>9, PassGuard, Zenon
  <1>11. Stands
    BY <1>1, WorldStands, Zenon
  <1>12. RecordsOK'
    BY <1>1, <1>11, RecordsKept, Zenon DEF PlanInv, Sound
  <1>13. records' \in [Attempts -> RecordSet] /\ policies' \subseteq Attempts /\ facts' \in FactsSet
    BY <1>1, Zenon DEF PlanInv, Types, FactsSet
  <1> QED
    BY <1>1, <1>6, <1>7, <1>8, <1>10, <1>12, <1>13, PassKeeps, Zenon

\* What is persisted for a frame.
LEMMA RecordForm ==
    ASSUME NEW f \in FrameSet \cup {NoFrame}
    PROVE  /\ AsRecord(f) \in RecordSet
           /\ f.type = "result" => AsRecord(f).kind = "plan" /\ AsRecord(f).facts = f.facts
           /\ f.type # "result" => AsRecord(f).kind = "error"
  <1>1. CASE f.type = "result"
    <2>1. AsRecord(f) = [kind |-> "plan", facts |-> f.facts] /\ f.facts \in FactSet
      BY <1>1, ResultFields, Zenon DEF AsRecord
    <2>2. [kind |-> "plan", facts |-> f.facts] \in [kind : {"plan"}, facts : FactSet]
      BY <2>1, Zenon
    <2>3. AsRecord(f).kind = "plan" /\ AsRecord(f).facts = f.facts
      BY <2>1, SMT
    <2> QED
      BY <1>1, <2>1, <2>2, <2>3, Zenon DEF RecordSet
  <1>2. CASE f.type # "result"
    <2>1. AsRecord(f) = [kind |-> "error"]
      BY <1>2, Zenon DEF AsRecord
    <2>2. AsRecord(f).kind = "error"
      BY <2>1, SMT
    <2> QED
      BY <1>2, <2>1, <2>2, Zenon DEF RecordSet
  <1> QED
    BY <1>1, <1>2, Zenon

\* One record changes, to one that is sound.
LEMMA OneRecord ==
    ASSUME PlanInv, UNCHANGED <<world, cut>>, NEW a \in Attempts, NEW r \in RecordSet, RecordOK(world, cut, r),
           records' = [records EXCEPT ![a] = r]
    PROVE  RecordsOK' /\ records' \in [Attempts -> RecordSet]
  <1>1. records \in [Attempts -> RecordSet] /\ \A b \in Attempts : RecordOK(world, cut, records[b])
    BY Zenon DEF PlanInv, Types, Sound, RecordsOK
  <1>2. /\ records' \in [Attempts -> RecordSet] /\ records'[a] = r
        /\ \A b \in Attempts : b # a => records'[b] = records[b]
    BY <1>1, Zenon
  <1>3. \A b \in Attempts : RecordOK(world', cut', records'[b])
    BY <1>1, <1>2, Zenon
  <1> QED
    BY <1>2, <1>3, Zenon DEF RecordsOK

LEMMA StepPersist ==
    ASSUME PlanInv, NEW n \in Nodes, Persist(n) PROVE PlanInv'
  <1> DEFINE a == pass[n].a
             new == AsRecord(pass[n].frame)
             pc == IF world.pool THEN "final" ELSE "delete"
             r == IF seen.records[a] = new THEN records[a] ELSE new
  <1>1. /\ pass[n].pc = "persist" /\ Release(n)
        /\ UNCHANGED <<want, inputs, policies, pods, seen, proc, out, facts, cut, world>>
        /\ \/ records' = [records EXCEPT ![a] = r] /\ Goto(n, pc)
           \/ EndPass(n) /\ UNCHANGED records
    BY Zenon DEF Persist
  <1>2. pass[n].pc # "idle"
    BY <1>1, SMT
  <1>3. /\ a \in Attempts /\ pass[n].frame \in FrameSet \cup {NoFrame}
        /\ \/ pass[n].frame.type = "result" /\ Complete(world, pass[n].frame.facts)
           \/ pass[n].frame.type = "error" /\ Excused(world, cut)
    BY <1>1, <1>2, PassFacts, Zenon DEF PassOK, PassSet
  <1>4. pc \in {"final", "delete"}
    BY Zenon
  <1>5. new \in RecordSet /\ RecordOK(world, cut, new)
    <2>1. "plan" # "error" /\ "result" # "error"
      BY SMT
    <2>2. CASE pass[n].frame.type = "result" /\ Complete(world, pass[n].frame.facts)
      <3>1. new \in RecordSet /\ new.kind = "plan" /\ new.facts = pass[n].frame.facts
        BY <1>3, <2>2, RecordForm, Zenon
      <3> QED
        BY <2>1, <2>2, <3>1, Zenon DEF RecordOK
    <2>3. CASE pass[n].frame.type = "error" /\ Excused(world, cut)
      <3>1. new \in RecordSet /\ new.kind = "error"
        BY <1>3, <2>1, <2>3, RecordForm, Zenon
      <3> QED
        BY <2>1, <2>3, <3>1, Zenon DEF RecordOK
    <2> QED
      BY <1>3, <2>2, <2>3, Zenon
  <1> HIDE DEF new, pc
  <1>6. r \in RecordSet /\ RecordOK(world, cut, r)
    BY <1>3, <1>5, Zenon DEF PlanInv, Types, Sound, RecordsOK
  <1> HIDE DEF r
  <1>7. TalkStep /\ busy' \subseteq Workers
    BY <1>1, ReleaseStep, Zenon
  <1>8. Moves(n) /\ Harmless(n)
    <2>1. CASE EndPass(n)
      BY <2>1, EndPassMoves, Zenon
    <2>2. CASE Goto(n, pc)
      <3>1. Moves(n) /\ pass'[n].pc = pc
        BY <1>2, <1>4, <2>2, GotoMoves, Zenon
      <3>2. pc \notin {"pod", "open", "policies"}
        BY <1>4, SMT
      <3> QED
        BY <3>1, <3>2, Zenon DEF Harmless
    <2> QED
      BY <1>1, <2>1, <2>2, Zenon
  <1>9. RecordsOK' /\ records' \in [Attempts -> RecordSet]
    <2>1. CASE records' = [records EXCEPT ![a] = r]
      BY <1>1, <1>3, <1>6, <2>1, OneRecord, Zenon
    <2>2. CASE UNCHANGED records
      BY <1>1, <2>2, WorldStands, RecordsKept, Zenon DEF PlanInv, Types, Sound
    <2> QED
      BY <1>1, <2>1, <2>2, Zenon
  <1>10. policies \subseteq policies'
    BY <1>1, Zenon
  <1>11. Guarded'
    BY <1>1, <1>7, <1>8, <1>10, PassGuard, Zenon
  <1>12. inputs' \subseteq InputSet /\ policies' \subseteq Attempts /\ facts' \in FactsSet
    BY <1>1, Zenon DEF PlanInv, Types, FactsSet, InputSet
  <1> QED
    BY <1>1, <1>7, <1>8, <1>9, <1>11, <1>12, PassKeeps, Zenon

LEMMA StepDeleteAttemptPod ==
    ASSUME PlanInv, NEW n \in Nodes, DeleteAttemptPod(n) PROVE PlanInv'
  <1>1. /\ pass[n].pc = "delete" /\ DeletePod(pass[n].a) /\ Goto(n, "open")
        /\ UNCHANGED <<want, inputs, records, policies, seen, proc, out, sess, busy, facts, cut, world>>
    BY Zenon DEF DeleteAttemptPod, planning
  <1>2. pass[n].pc # "idle" /\ "open" # "pod" /\ "open" # "policies"
    BY <1>1, SMT
  <1>3. pass[n].a \in Attempts /\ Stands
    BY <1>1, <1>2, PassFacts, WorldStands, Zenon
  <1>4. ProcStep /\ ~Serving(pods'[pass[n].a])
    BY <1>1, <1>3, DeletePodStep, Zenon DEF PlanInv
  <1>5. TalkStep
    BY <1>1, <1>4, Zenon DEF TalkStep, PlanInv, Types
  <1>6. Moves(n) /\ pass'[n].pc = "open" /\ pass'[n].a = pass[n].a
    BY <1>1, <1>2, GotoMoves, Zenon
  <1>7. ~Serving(pods'[pass'[n].a])
    BY <1>4, <1>6, Zenon
  <1>8. Fenced(world', n, pass'[n], policies', pods')
    BY <1>2, <1>6, <1>7, Zenon DEF Fenced
  <1>9. policies \subseteq policies' /\ \A a \in Attempts : Serving(pods'[a]) => Serving(pods[a])
    BY <1>1, <1>4, Zenon DEF ProcStep
  <1>10. Guarded'
    BY <1>1, <1>6, <1>8, <1>9, MoveGuard, Zenon
  <1>11. RecordsOK'
    BY <1>1, <1>3, RecordsKept, Zenon DEF PlanInv, Sound
  <1>12. /\ records' \in [Attempts -> RecordSet] /\ policies' \subseteq Attempts /\ busy' \subseteq Workers
         /\ facts' \in FactsSet /\ inputs' \subseteq InputSet
    BY <1>1, Zenon DEF PlanInv, Types, FactsSet, InputSet
  <1> QED
    BY <1>1, <1>5, <1>6, <1>10, <1>11, <1>12, PassKeeps, Zenon

\* A pass deletes only policies of its own Node, of Pods that do not serve.
LEMMA PoliciesDropped ==
    ASSUME PlanInv, NEW n \in Nodes, Moves(n), Harmless(n), NEW S, policies' = policies \ S,
           \A a \in Attempts : a \in S => world.owner[a] = n,
           world.lag \cap {"pods", "policies"} = {} => \A a \in Attempts : a \in S => ~Serving(pods[a]),
           UNCHANGED <<want, inputs, records, pods, seen, proc, out, sess, busy, facts, cut, world>>
    PROVE  PlanInv'
  <1>1. TalkStep /\ Stands
    BY TalkStill, WorldStands, Zenon
  <1>2. Guarded'
    <2>1. SUFFICES ASSUME world.lag \cap {"pods", "policies"} = {}
                   PROVE  /\ \A a \in Attempts : Serving(pods'[a]) => a \in policies'
                          /\ \A m \in Nodes : Fenced(world', m, pass'[m], policies', pods')
      BY Zenon DEF Guarded
    <2>2. /\ \A a \in Attempts : Serving(pods[a]) => a \in policies
          /\ \A m \in Nodes : Fenced(world, m, pass[m], policies, pods)
      BY <2>1, Zenon DEF PlanInv, Guarded
    <2>3. \A a \in Attempts : Serving(pods'[a]) => a \in policies'
      BY <2>1, <2>2, Zenon
    <2>4. ASSUME NEW m \in Nodes PROVE Fenced(world', m, pass'[m], policies', pods')
      <3>1. CASE m = n
        BY <3>1, Zenon DEF Harmless, Fenced
      <3>2. CASE m # n
        <4>1. pass'[m] = pass[m] /\ Fenced(world, m, pass[m], policies, pods)
          BY <2>2, <2>4, <3>2, Zenon DEF Moves
        <4>2. pass[m].pc = "pod" => pass[m].pc # "idle"
          BY SMT
        <4>3. pass[m].pc = "pod" => pass[m].a \in Attempts /\ world.owner[pass[m].a] = m
          BY <2>4, <4>2, PassFacts, Zenon
        <4>4. pass[m].pc = "pod" => pass[m].a \in policies'
          BY <3>2, <4>1, <4>3, Zenon DEF Fenced
        <4> QED
          BY <4>1, <4>4, Zenon DEF Fenced
      <3> QED
        BY <3>1, <3>2, Zenon
    <2> QED
      BY <2>1, <2>3, <2>4, Zenon
  <1>3. RecordsOK'
    BY <1>1, RecordsKept, Zenon DEF PlanInv, Sound
  <1>4. /\ records' \in [Attempts -> RecordSet] /\ policies' \subseteq Attempts /\ busy' \subseteq Workers
        /\ facts' \in FactsSet /\ inputs' \subseteq InputSet
    BY Zenon DEF PlanInv, Types, FactsSet, InputSet
  <1> QED
    BY <1>1, <1>2, <1>3, <1>4, PassKeeps, Zenon

LEMMA StepDeleteAttemptPolicy ==
    ASSUME PlanInv, NEW n \in Nodes, DeleteAttemptPolicy(n) PROVE PlanInv'
  <1>1. /\ pass[n].pc = "open" /\ policies' = policies \ {pass[n].a} /\ Goto(n, "final")
        /\ UNCHANGED <<want, inputs, records, pods, seen, proc, out, sess, busy, facts, cut, world>>
    BY Zenon DEF DeleteAttemptPolicy, planning
  <1>2. pass[n].pc # "idle"
    BY <1>1, SMT
  <1>3. Moves(n) /\ pass'[n].pc = "final"
    BY <1>1, <1>2, GotoMoves, Zenon
  <1>4. Harmless(n)
    BY <1>3, SMT DEF Harmless
  <1>5. \A a \in Attempts : a \in {pass[n].a} => world.owner[a] = n
    BY <1>2, PassFacts, Zenon
  <1>6. world.lag \cap {"pods", "policies"} = {} => \A a \in Attempts : a \in {pass[n].a} => ~Serving(pods[a])
    BY <1>1, Zenon DEF PlanInv, Guarded, Fenced
  <1> QED
    BY <1>1, <1>3, <1>4, <1>5, <1>6, PoliciesDropped, Zenon

LEMMA StepSweepPolicies ==
    ASSUME PlanInv, NEW n \in Nodes, SweepPolicies(n) PROVE PlanInv'
  <1> DEFINE S == Swept(n) \cap seen.policies
  <1>1. /\ pass[n].pc = "policies" /\ policies' = policies \ S /\ Goto(n, "maps")
        /\ UNCHANGED <<want, inputs, records, pods, seen, proc, out, sess, busy, facts, cut, world>>
    BY Zenon DEF SweepPolicies, planning
  <1>2. pass[n].pc # "idle"
    BY <1>1, SMT
  <1>3. Moves(n) /\ pass'[n].pc = "maps"
    BY <1>1, <1>2, GotoMoves, Zenon
  <1>4. Harmless(n)
    BY <1>3, SMT DEF Harmless
  <1>5. \A a \in Attempts : a \in S => world.owner[a] = n /\ a # pass[n].a
    BY Zenon DEF Swept, Mine
  <1> HIDE DEF S
  <1>6. world.lag \cap {"pods", "policies"} = {} => \A a \in Attempts : a \in S => ~Serving(pods[a])
    BY <1>1, <1>5, Zenon DEF PlanInv, Guarded, Fenced
  <1> QED
    BY <1>1, <1>3, <1>4, <1>5, <1>6, PoliciesDropped, Zenon

LEMMA StepFinal ==
    ASSUME PlanInv, NEW n \in Nodes, Final(n) PROVE PlanInv'
  <1> DEFINE rec == IF pass[n].frame = NoFrame THEN seen.records[pass[n].a] ELSE AsRecord(pass[n].frame)
             f == Result(rec.facts, 0)
             q == [pass[n] EXCEPT !.pc = "check", !.frame = f]
  <1>1. /\ pass[n].pc = "final"
        /\ \/ rec.kind = "plan" /\ pass' = [pass EXCEPT ![n].pc = "check", ![n].frame = f]
           \/ EndPass(n)
        /\ UNCHANGED <<want, inputs, records, policies, pods, seen, proc, out, sess, busy, facts, cut, world>>
    BY Zenon DEF Final, objects, planning
  <1>2. pass[n].pc # "idle"
    BY <1>1, SMT
  <1>3. /\ pass[n] \in PassSet /\ pass \in [Nodes -> PassSet] /\ pass[n].a \in Attempts
        /\ pass[n].frame \in FrameSet \cup {NoFrame}
    BY <1>2, PassFacts, Zenon DEF PassSet
  <1>4. rec \in RecordSet
    BY <1>3, RecordForm, Zenon DEF PlanInv, Types
  <1>5. inputs' \subseteq InputSet
    BY <1>1, Zenon DEF PlanInv, Types, InputSet
  <1> HIDE DEF rec
  <1>6. CASE EndPass(n)
    BY <1>1, <1>5, <1>6, EndPassMoves, PassOnly, Zenon
  <1>7. CASE rec.kind = "plan" /\ pass' = [pass EXCEPT ![n].pc = "check", ![n].frame = f]
    <2>1. rec.facts \in FactSet
      <3>1. rec # NoRecord /\ rec # [kind |-> "error"]
        BY <1>7, SMT DEF NoRecord
      <3>2. rec \in [kind : {"plan"}, facts : FactSet]
        BY <1>4, <3>1, Zenon DEF RecordSet
      <3> QED
        BY <3>2, Zenon
    <2>2. f \in FrameSet
      BY <2>1, ResultForm, SMT
    <2> HIDE DEF f
    <2>3. pass' = [pass EXCEPT ![n] = q]
      BY <1>3, <1>7, Zenon
    <2>4. q.pc = "check" /\ q.a = pass[n].a /\ q.w = pass[n].w
      BY <1>3, Zenon DEF PassSet
    <2>5. q \in PassSet
      BY <1>3, <2>2, Zenon DEF PassSet
    <2> HIDE DEF q
    <2>6. pass' \in [Nodes -> PassSet] /\ pass'[n] = q /\ \A m \in Nodes : m # n => pass'[m] = pass[m]
      BY <1>3, <2>3, <2>5, Zenon
    <2>7. q.pc \notin {"idle", "talk", "store", "persist", "pod", "open", "policies"}
      BY <2>4, SMT
    <2>8. PassOK(world, cut, n, q)
      BY <1>2, <2>4, <2>7, PassFacts, Zenon DEF PassOK
    <2>9. Moves(n) /\ Harmless(n)
      BY <2>6, <2>7, <2>8, Zenon DEF Moves, Harmless
    <2> QED
      BY <1>1, <1>5, <2>9, PassOnly, Zenon
  <1> QED
    BY <1>1, <1>6, <1>7, Zenon

LEMMA StepCheck ==
    ASSUME PlanInv, NEW n \in Nodes, Check(n) PROVE PlanInv'
  <1>1. /\ pass[n].pc = "check"
        /\ facts' = facts \/ facts' = Issued(facts)
        /\ \/ EndPass(n) /\ records' = [records EXCEPT ![pass[n].a] = NoRecord]
           \/ Goto(n, "pods") /\ UNCHANGED records
        /\ UNCHANGED <<want, inputs, policies, pods, seen, proc, out, sess, busy, cut, world>>
    BY Zenon DEF Check, planning
  <1>2. pass[n].pc # "idle"
    BY <1>1, SMT
  <1>3. pass[n].a \in Attempts
    BY <1>2, PassFacts, Zenon
  <1>4. facts' \in FactsSet
    <2>1. facts \in [images : Nat \ {0}, cert : Nat, next : Nat \ {0}]
      BY Zenon DEF PlanInv, Types
    <2>2. Issued(facts) \in [images : Nat \ {0}, cert : Nat, next : Nat \ {0}]
      BY <2>1, IssuedFacts, Zenon
    <2> QED
      BY <1>1, <2>1, <2>2, Zenon DEF FactsSet
  <1>5. TalkStep /\ Stands
    BY <1>1, TalkStill, WorldStands, Zenon
  <1>6. Moves(n) /\ Harmless(n)
    <2>1. CASE EndPass(n)
      BY <2>1, EndPassMoves, Zenon
    <2>2. CASE Goto(n, "pods")
      <3>1. Moves(n) /\ pass'[n].pc = "pods"
        BY <1>2, <2>2, GotoMoves, Zenon
      <3>2. Harmless(n)
        BY <3>1, SMT DEF Harmless
      <3> QED
        BY <3>1, <3>2, Zenon
    <2> QED
      BY <1>1, <2>1, <2>2, Zenon
  <1>7. RecordsOK' /\ records' \in [Attempts -> RecordSet]
    <2>1. CASE records' = [records EXCEPT ![pass[n].a] = NoRecord]
      <3>1. NoRecord \in RecordSet /\ RecordOK(world, cut, NoRecord)
        BY NoneOK, Zenon
      <3> QED
        BY <1>1, <1>3, <2>1, <3>1, OneRecord, Zenon
    <2>2. CASE UNCHANGED records
      BY <1>5, <2>2, RecordsKept, Zenon DEF PlanInv, Types, Sound
    <2> QED
      BY <1>1, <2>1, <2>2, Zenon
  <1>8. policies \subseteq policies'
    BY <1>1, Zenon
  <1>9. Guarded'
    BY <1>1, <1>5, <1>6, <1>8, PassGuard, Zenon
  <1>10. inputs' \subseteq InputSet /\ policies' \subseteq Attempts /\ busy' \subseteq Workers
    BY <1>1, Zenon DEF PlanInv, Types, InputSet
  <1> QED
    BY <1>1, <1>4, <1>5, <1>6, <1>7, <1>9, <1>10, PassKeeps, Zenon

LEMMA StepSweepPods ==
    ASSUME PlanInv, NEW n \in Nodes, CachesServe, SweepPods(n) PROVE PlanInv'
  <1> DEFINE gone == {a \in Swept(n) : seen.pods[a] # NoPod}
  <1>1. /\ pass[n].pc = "pods" /\ Goto(n, "policies")
        /\ pods' = [a \in Attempts |-> IF a \in gone THEN Deleted(pods[a]) ELSE pods[a]]
        /\ UNCHANGED <<want, inputs, records, policies, seen, proc, out, sess, busy, facts, cut, world>>
    BY Zenon DEF SweepPods, planning
  <1>2. pass[n].pc # "idle" /\ "policies" # "pod" /\ "policies" # "open"
    BY <1>1, SMT
  <1>3. gone \in SUBSET Attempts
    BY Zenon DEF Swept
  <1>4. \A a \in Attempts : world.owner[a] = n /\ a # pass[n].a /\ ~(a \in gone) => seen.pods[a] = NoPod
    BY Zenon DEF Swept, Mine
  <1> HIDE DEF gone
  <1>5. Stands
    BY <1>1, WorldStands, Zenon
  <1>6. ProcStep /\ \A a \in gone : ~Serving(pods'[a])
    BY <1>1, <1>3, <1>5, DeletePodsStep, Zenon DEF PlanInv
  <1>7. NoPod.phase # "running"
    BY SMT DEF NoPod
  <1>8. TalkStep
    BY <1>1, <1>6, Zenon DEF TalkStep, PlanInv, Types
  <1>9. Moves(n) /\ pass'[n].pc = "policies" /\ pass'[n].a = pass[n].a
    BY <1>1, <1>2, GotoMoves, Zenon
  <1>10. policies \subseteq policies' /\ \A a \in Attempts : Serving(pods'[a]) => Serving(pods[a])
    BY <1>1, <1>6, Zenon DEF ProcStep
  <1>11. ASSUME world.lag \cap {"pods", "policies"} = {}
         PROVE  Fenced(world', n, pass'[n], policies', pods')
    <2>1. seen.pods = pods
      BY <1>11, CachesShow, Zenon
    <2>2. ASSUME NEW a \in Attempts, world.owner[a] = n, a # pass[n].a PROVE ~Serving(pods'[a])
      <3>1. CASE a \in gone
        BY <1>6, <3>1, Zenon
      <3>2. CASE ~(a \in gone)
        <4>1. pods[a] = NoPod
          BY <1>4, <2>1, <2>2, <3>2, Zenon
        <4>2. ~Serving(pods[a])
          BY <1>7, <4>1, Zenon DEF Serving
        <4> QED
          BY <1>10, <2>2, <4>2, Zenon
      <3> QED
        BY <3>1, <3>2, Zenon
    <2> QED
      BY <1>1, <1>2, <1>9, <2>2, Zenon DEF Fenced
  <1>12. Guarded'
    BY <1>1, <1>9, <1>10, <1>11, MoveGuard, Zenon
  <1>13. RecordsOK'
    BY <1>1, <1>5, RecordsKept, Zenon DEF PlanInv, Sound
  <1>14. /\ records' \in [Attempts -> RecordSet] /\ policies' \subseteq Attempts /\ busy' \subseteq Workers
         /\ facts' \in FactsSet /\ inputs' \subseteq InputSet
    BY <1>1, Zenon DEF PlanInv, Types, FactsSet, InputSet
  <1> QED
    BY <1>1, <1>8, <1>9, <1>12, <1>13, <1>14, PassKeeps, Zenon

LEMMA StepSweepMaps ==
    ASSUME PlanInv, NEW n \in Nodes, SweepMaps(n) PROVE PlanInv'
  <1>1. /\ EndPass(n) /\ inputs' \subseteq inputs
        /\ records' = [a \in Attempts |->
                          IF a \in Swept(n) /\ seen.records[a] # NoRecord THEN NoRecord ELSE records[a]]
        /\ UNCHANGED <<want, policies, pods, seen, proc, out, sess, busy, facts, cut, world>>
    BY Zenon DEF SweepMaps, planning
  <1>2. TalkStep /\ Stands
    BY <1>1, TalkStill, WorldStands, Zenon
  <1>3. Moves(n) /\ Harmless(n)
    BY <1>1, EndPassMoves, Zenon
  <1>4. policies \subseteq policies'
    BY <1>1, Zenon
  <1>5. Guarded'
    BY <1>1, <1>2, <1>3, <1>4, PassGuard, Zenon
  <1>6. records \in [Attempts -> RecordSet] /\ \A a \in Attempts : RecordOK(world, cut, records[a])
    BY Zenon DEF PlanInv, Types, Sound, RecordsOK
  <1>7. NoRecord \in RecordSet /\ RecordOK(world, cut, NoRecord)
    BY NoneOK, Zenon
  <1>8. records' \in [Attempts -> RecordSet] /\ \A a \in Attempts : records'[a] \in {NoRecord, records[a]}
    BY <1>1, <1>6, <1>7, Zenon
  <1>9. \A a \in Attempts : RecordOK(world', cut', records'[a])
    BY <1>1, <1>6, <1>7, <1>8, Zenon
  <1>10. RecordsOK'
    BY <1>9, Zenon DEF RecordsOK
  <1>11. /\ policies' \subseteq Attempts /\ busy' \subseteq Workers /\ facts' \in FactsSet
         /\ inputs' \subseteq InputSet
    BY <1>1, Zenon DEF PlanInv, Types, FactsSet, InputSet
  <1> QED
    BY <1>1, <1>2, <1>3, <1>5, <1>8, <1>10, <1>11, PassKeeps, Zenon

-----------------------------------------------------------------------------
(* The pool. *)

\* A pass takes a worker and talks to it.
LEMMA WorkerTaken ==
    ASSUME PlanInv, NEW n \in Nodes, NEW w \in Workers, pass[n].pc # "idle",
           UNCHANGED <<want, inputs, records, policies, pods, seen, facts, world>>,
           cut => cut', cut' \in BOOLEAN, busy' = busy \cup {w},
           pass' = [pass EXCEPT ![n].pc = "talk", ![n].w = w],
           proc' \in [Slots -> ProcSet], sess' \in [Slots -> SessSet], out' \in [Slots -> Seq(FrameSet)],
           \A t \in Slots : t # w => proc'[t] = proc[t] /\ sess'[t] = sess[t] /\ out'[t] = out[t],
           SlotOK(world', cut', w, proc'[w], sess'[w], out'[w])
    PROVE  PlanInv'
  <1> DEFINE q == [pass[n] EXCEPT !.pc = "talk", !.w = w]
  <1>1. pass' = [pass EXCEPT ![n] = q] /\ pass \in [Nodes -> PassSet] /\ pass[n] \in PassSet
    BY PassFacts, Zenon
  <1>2. q.pc = "talk" /\ q.a = pass[n].a /\ q.w = w
    BY <1>1, Zenon DEF PassSet
  <1>3. q \in PassSet
    BY <1>1, Zenon DEF PassSet
  <1> HIDE DEF q
  <1>4. pass' \in [Nodes -> PassSet] /\ pass'[n] = q /\ \A m \in Nodes : m # n => pass'[m] = pass[m]
    BY <1>1, <1>3, Zenon
  <1>5. q.pc \notin {"store", "persist", "pod", "open", "policies"}
    BY <1>2, SMT
  <1>6. PassOK(world', cut', n, q)
    BY <1>2, <1>5, PassFacts, Zenon DEF PassOK
  <1>7. Stands /\ w \in Slots
    BY Zenon DEF Stands, Same, Slots
  <1>8. SlotsOK'
    BY <1>7, OneSlot, Zenon DEF PlanInv, Sound
  <1>9. PodsOK' /\ RecordsOK'
    BY <1>7, PodsKept, RecordsKept, Zenon DEF PlanInv, Sound
  <1>10. \A a \in Attempts : proc'[a] = proc[a]
    BY SlotsAssumption, Zenon DEF Slots
  <1>11. RunsOK'
    BY <1>10, Zenon DEF PlanInv, Sound, RunsOK
  <1>12. PassesOK'
    BY <1>4, <1>6, <1>7, OnePassOK, Zenon DEF PlanInv, Sound
  <1>13. Types'
    BY <1>4, Zenon DEF PlanInv, Types
  <1>14. \A m \in Nodes : pass'[m].pc \in {"pod", "open", "policies"} =>
                              pass'[m].pc = pass[m].pc /\ pass'[m].a = pass[m].a
    BY <1>4, <1>5, Zenon
  <1>15. \A m \in Nodes : pass[m].pc = "open" => pass[m].a \in Attempts
    <2>1. ASSUME NEW m \in Nodes, pass[m].pc = "open" PROVE pass[m].pc # "idle"
      BY <2>1, SMT
    <2> QED
      BY <2>1, PassFacts, Zenon
  <1>16. policies \subseteq policies' /\ \A a \in Attempts : Serving(pods'[a]) => Serving(pods[a])
    BY Zenon
  <1>17. Guarded'
    BY <1>7, <1>14, <1>15, <1>16, GuardKept, Zenon DEF PlanInv
  <1> QED
    BY <1>8, <1>9, <1>11, <1>12, <1>13, <1>17, Zenon DEF PlanInv, Sound

LEMMA StepAcquire ==
    ASSUME PlanInv, NEW n \in Nodes, Acquire(n) PROVE PlanInv'
  <1>1. pass[n].pc = "acquire" /\ UNCHANGED <<want, inputs, records, policies, pods, seen, facts, world>>
    BY Zenon DEF Acquire, objects
  <1>2. pass[n].pc # "idle"
    BY <1>1, SMT
  <1>3. pass[n].a \in Attempts
    BY <1>2, PassFacts, Zenon
  <1>4. CASE EndPass(n) /\ UNCHANGED <<busy, sess, proc, out, cut>>
    <2>1. inputs' \subseteq InputSet
      BY <1>1, Zenon DEF PlanInv, Types, InputSet
    <2> QED
      BY <1>1, <1>4, <2>1, EndPassMoves, PassOnly, Zenon
  <1>5. CASE \E w \in Workers \ busy :
               /\ busy' = busy \cup {w}
               /\ pass' = [pass EXCEPT ![n].pc = "talk", ![n].w = w]
               /\ IF ~Locked(w)
                  THEN /\ proc' = [proc EXCEPT ![w] = [NoProc EXCEPT !.st = "planning", !.a = pass[n].a,
                                                                     !.seq = 1, !.heard = TRUE, !.fed = TRUE]]
                       /\ sess' = [sess EXCEPT ![w] = [NoSess EXCEPT !.st = "talk", !.a = pass[n].a, !.seq = 1]]
                       /\ UNCHANGED cut
                  ELSE /\ sess' = [sess EXCEPT ![w] = [NoSess EXCEPT !.st = "lost", !.a = pass[n].a]]
                       /\ cut' = TRUE
                       /\ UNCHANGED proc
               /\ out' = [out EXCEPT ![w] = <<>>]
    <2> DEFINE r == [NoProc EXCEPT !.st = "planning", !.a = pass[n].a, !.seq = 1, !.heard = TRUE, !.fed = TRUE]
               t == [NoSess EXCEPT !.st = "talk", !.a = pass[n].a, !.seq = 1]
               l == [NoSess EXCEPT !.st = "lost", !.a = pass[n].a]
    <2>1. PICK w \in Workers :
             /\ busy' = busy \cup {w} /\ pass' = [pass EXCEPT ![n].pc = "talk", ![n].w = w]
             /\ \/ proc' = [proc EXCEPT ![w] = r] /\ sess' = [sess EXCEPT ![w] = t] /\ UNCHANGED cut
                \/ sess' = [sess EXCEPT ![w] = l] /\ cut' = TRUE /\ UNCHANGED proc
             /\ out' = [out EXCEPT ![w] = <<>>]
      BY <1>5, Zenon
    <2>2. /\ r.st = "planning" /\ r.facts = NoFacts /\ r.seq = 1 /\ r.heard /\ r.fed
          /\ t.st = "talk" /\ t.facts = NoFacts /\ t.seq = 1
          /\ l.st = "lost" /\ l.facts = NoFacts /\ l.seq = 0
      BY Zenon DEF NoProc, NoSess
    <2>3. 1 \in Nat /\ 0 \in Nat
      BY SMT
    <2>4. r \in ProcSet
      BY <1>3, <2>3, NoFactsKnown, Zenon DEF NoProc, ProcSet
    <2>5. t \in SessSet
      BY <1>3, <2>3, NoFactsKnown, Zenon DEF NoSess, SessSet
    <2>6. l \in SessSet
      BY <1>3, <2>3, NoFactsKnown, Zenon DEF NoSess, SessSet
    <2> HIDE DEF r, t, l
    <2>7. proc \in [Slots -> ProcSet] /\ sess \in [Slots -> SessSet] /\ out \in [Slots -> Seq(FrameSet)]
      BY Zenon DEF PlanInv, Types
    <2>8. w \in Slots
      BY Zenon DEF Slots
    <2>9. /\ out' \in [Slots -> Seq(FrameSet)] /\ out'[w] = <<>>
          /\ \A s \in Slots : s # w => out'[s] = out[s]
      BY <2>1, <2>7, <2>8, EmptyStream, Zenon
    <2>10. CASE proc' = [proc EXCEPT ![w] = r] /\ sess' = [sess EXCEPT ![w] = t] /\ UNCHANGED cut
      <3>1. /\ proc' \in [Slots -> ProcSet] /\ proc'[w] = r /\ \A s \in Slots : s # w => proc'[s] = proc[s]
            /\ sess' \in [Slots -> SessSet] /\ sess'[w] = t /\ \A s \in Slots : s # w => sess'[s] = sess[s]
        BY <2>4, <2>5, <2>7, <2>8, <2>10, Zenon
      <3>2. world' \in World /\ cut' \in BOOLEAN /\ (cut => cut')
        BY <1>1, <2>10, Zenon DEF PlanInv, Types
      <3>3. SlotOK(world', cut', w, r, t, <<>>)
        BY <2>2, <3>2, SlotFresh, Zenon
      <3>4. SlotOK(world', cut', w, proc'[w], sess'[w], out'[w])
        BY <2>9, <3>1, <3>3, Zenon
      <3> QED
        BY <1>1, <1>2, <2>1, <2>9, <3>1, <3>2, <3>4, WorkerTaken, Zenon
    <2>11. CASE sess' = [sess EXCEPT ![w] = l] /\ cut' = TRUE /\ UNCHANGED proc
      <3>1. /\ sess' \in [Slots -> SessSet] /\ sess'[w] = l /\ \A s \in Slots : s # w => sess'[s] = sess[s]
            /\ proc' \in [Slots -> ProcSet] /\ proc'[w] = proc[w]
        BY <2>6, <2>7, <2>8, <2>11, Zenon
      <3>2. cut' \in BOOLEAN /\ (cut => cut') /\ Excused(world', cut')
        BY <2>11, Zenon DEF Excused
      <3>3. Same(world, world')
        BY <1>1, Zenon DEF Same
      <3>4. SlotOK(world', cut', w, proc[w], sess[w], out[w])
        BY <2>8, <3>2, <3>3, SlotFacts, SlotKept, Zenon
      <3>5. SlotOK(world', cut', w, proc[w], l, <<>>)
        BY <2>2, <3>2, <3>4, SlotLost, Zenon
      <3>6. SlotOK(world', cut', w, proc'[w], sess'[w], out'[w])
        BY <2>9, <3>1, <3>5, Zenon
      <3>7. \A s \in Slots : s # w => proc'[s] = proc[s]
        BY <2>11, Zenon
      <3> QED
        BY <1>1, <1>2, <2>1, <2>9, <3>1, <3>2, <3>6, <3>7, WorkerTaken, Zenon
    <2> QED
      BY <2>1, <2>10, <2>11, Zenon
  <1> QED
    BY <1>4, <1>5, Zenon DEF Acquire

\* A pass gives its worker back and ends.
LEMMA WorkerReleased ==
    ASSUME PlanInv, NEW n \in Nodes, EndPass(n), Release(n),
           UNCHANGED <<want, inputs, records, policies, pods, seen, proc, out, facts, cut, world>>
    PROVE  PlanInv'
  <1>1. TalkStep /\ busy' \subseteq Workers
    BY ReleaseStep, Zenon
  <1>2. Moves(n) /\ Harmless(n)
    BY EndPassMoves, Zenon
  <1>3. policies \subseteq policies'
    BY Zenon
  <1>4. Guarded'
    BY <1>1, <1>2, <1>3, PassGuard, Zenon
  <1>5. RecordsOK'
    BY WorldStands, RecordsKept, Zenon DEF PlanInv, Sound
  <1>6. /\ records' \in [Attempts -> RecordSet] /\ policies' \subseteq Attempts
        /\ facts' \in FactsSet /\ inputs' \subseteq InputSet
    BY Zenon DEF PlanInv, Types, FactsSet, InputSet
  <1> QED
    BY <1>1, <1>2, <1>4, <1>5, <1>6, PassKeeps, Zenon

LEMMA StepConclude ==
    ASSUME PlanInv, NEW n \in Nodes, Conclude(n) PROVE PlanInv'
  <1> DEFINE w == pass[n].w
             over == out[w] = <<>> /\ ~proc[w].heard
  <1>1. pass[n].pc = "talk" /\ UNCHANGED <<want, inputs, records, policies, pods, seen, proc, out, facts, cut, world>>
    BY Zenon DEF Conclude, objects
  <1>2. pass[n].pc # "idle" /\ "persist" # "store"
    BY <1>1, SMT
  <1>3. w \in Workers /\ w \in Slots
    BY <1>1, PassFacts, Zenon DEF PassOK, Slots
  <1>4. /\ sess[w].facts \in FactSet /\ SessOK(world, cut, sess[w])
        /\ PoolOK(world, cut, proc[w], sess[w], out[w])
    BY <1>3, SlotFacts, Zenon DEF SlotOK
  <1>5. inputs' \subseteq InputSet
    BY <1>1, Zenon DEF PlanInv, Types, InputSet
  <1>6. CASE /\ sess[w].st = "drain"
             /\ pass' = [pass EXCEPT ![n].pc = "store", ![n].frame = Result(sess[w].facts, 0)]
             /\ UNCHANGED <<busy, sess>>
    <2> DEFINE f == Result(sess[w].facts, 0)
    <2>1. 0 \in Nat
      BY SMT
    <2>2. f \in FrameSet /\ f.type = "result" /\ f.facts = sess[w].facts
      BY <1>4, <2>1, ResultForm, Zenon
    <2>3. Complete(world, f.facts)
      BY <1>4, <1>6, <2>2, Zenon DEF SessOK
    <2>4. pass' = [pass EXCEPT ![n].pc = "store", ![n].frame = f]
      BY <1>6, Zenon
    <2> HIDE DEF f
    <2>5. Moves(n) /\ Harmless(n)
      BY <1>2, <2>2, <2>3, <2>4, CarriesMoves, Zenon
    <2> QED
      BY <1>1, <1>5, <1>6, <2>5, PassOnly, Zenon
  <1>7. CASE /\ sess[w].st \in {"reported", "lost"} \/ (sess[w].st = "talk" /\ over)
             /\ pass' = [pass EXCEPT ![n].pc = "persist", ![n].frame = Diagnostic]
             /\ UNCHANGED <<busy, sess>>
    <2>1. Excused(world, cut)
      <3>1. CASE sess[w].st \in {"reported", "lost"}
        BY <1>4, <3>1, Zenon DEF SessOK
      <3>2. CASE sess[w].st = "talk" /\ over
        <4>1. 1..Len(out[w]) = {}
          BY <3>2, SMT
        <4> QED
          BY <1>4, <3>2, <4>1, Zenon DEF PoolOK
      <3> QED
        BY <1>7, <3>1, <3>2, Zenon
    <2>2. Moves(n) /\ Harmless(n)
      BY <1>2, <1>7, <2>1, DiagnosticForm, CarriesMoves, Zenon
    <2> QED
      BY <1>1, <1>5, <1>7, <2>2, PassOnly, Zenon
  <1>8. CASE EndPass(n) /\ Release(n)
    BY <1>1, <1>8, WorkerReleased, Zenon
  <1> QED
    BY <1>6, <1>7, <1>8, Zenon DEF Conclude

-----------------------------------------------------------------------------
(* The invariant, and what it says. *)

LEMMA StepPass ==
    ASSUME PlanInv, NEW n \in Nodes, PassStep(n) PROVE PlanInv'
  <1>1. CachesServe
    BY Zenon DEF PassStep
  <1>2. CASE Lookup(n) \/ StoreInput(n) \/ EnsurePolicy(n) \/ EnsurePod(n) \/ Harvest(n)
    BY <1>1, <1>2, StepLookup, StepStoreInput, StepEnsurePolicy, StepEnsurePod, StepHarvest, Zenon
  <1>3. CASE StoreFinal(n) \/ Persist(n) \/ DeleteAttemptPod(n) \/ DeleteAttemptPolicy(n) \/ Final(n)
    BY <1>3, StepStoreFinal, StepPersist, StepDeleteAttemptPod, StepDeleteAttemptPolicy, StepFinal, Zenon
  <1>4. CASE Check(n) \/ SweepPods(n) \/ SweepPolicies(n) \/ SweepMaps(n)
    BY <1>1, <1>4, StepCheck, StepSweepPods, StepSweepPolicies, StepSweepMaps, Zenon
  <1>5. CASE Acquire(n) \/ Conclude(n)
    BY <1>5, StepAcquire, StepConclude, Zenon
  <1> QED
    BY <1>2, <1>3, <1>4, <1>5, Zenon DEF PassStep

LEMMA NextPlanInv == PlanInv /\ [Next]_vars => PlanInv'
  <1>1. ASSUME PlanInv, Next PROVE PlanInv'
    <2>1. CASE \E n \in Nodes : PassStep(n)
      BY <1>1, <2>1, StepPass, Zenon
    <2>2. CASE \E s \in Slots : SlotStep(s)
      BY <1>1, <2>2, StepSlot, Zenon
    <2>3. CASE \E c \in Caches : Sync(c)
      BY <1>1, <2>3, StepSync, Zenon
    <2>4. CASE \E a \in Attempts : Terminate(a)
      BY <1>1, <2>4, StepTerminate, Zenon
    <2>5. CASE Environment
      BY <1>1, <2>5, StepEnvironment, Zenon
    <2> QED
      BY <1>1, <2>1, <2>2, <2>3, <2>4, <2>5, Zenon DEF Next
  <1>2. ASSUME PlanInv, UNCHANGED vars PROVE PlanInv'
    <2>1. UNCHANGED <<want, pass, inputs, records, policies, pods, seen, proc, out, sess, busy, facts, cut, world>>
      BY <1>2, Zenon DEF vars
    <2>2. TalkStep /\ Stands
      BY <1>2, <2>1, TalkStill, WorldStands, Zenon
    <2>3. world' \in World /\ cut' \in BOOLEAN /\ facts' \in [images : Nat \ {0}, cert : Nat, next : Nat \ {0}]
      BY <1>2, <2>1, Zenon DEF PlanInv, Types
    <2> QED
      BY <1>2, <2>1, <2>2, <2>3, TalkKeeps, Zenon
  <1> QED
    BY <1>1, <1>2, Zenon

\* The invariant holds in every state planning reaches.
THEOREM PlanningKeepsItsInvariant == Spec => []PlanInv
  BY InitPlanInv, NextPlanInv, PTL DEF Spec

\* Every plan that is persisted was computed from exactly the facts planning asks
\* for, whatever process, Pod, pool, cache or manager goes away in between
\* (validateControllerSessionResult, executeWorkerAttempt, PlannerPool.converse).
THEOREM PlansAreComplete == Spec => []PlansAreSound
  <1>1. PlanInv => PlansAreSound
    <2>1. ASSUME PlanInv, NEW a \in Attempts, records[a].kind = "plan"
          PROVE  world.ok /\ Known(records[a].facts) = Needed /\ (records[a].facts.cert # 0) = world.certs
      <3>1. Complete(world, records[a].facts)
        BY <2>1, Zenon DEF PlanInv, Sound, RecordsOK, RecordOK
      <3>2. world.certs \in BOOLEAN
        BY <2>1, Zenon DEF PlanInv, Types, World
      <3>3. (records[a].facts.cert # 0) = world.certs
        BY <3>1, <3>2, Zenon DEF Complete
      <3> QED
        BY <3>1, <3>3, Zenon DEF Complete, Needs, Needed
    <2> QED
      BY <2>1, Zenon DEF PlansAreSound
  <1> QED
    BY <1>1, PlanningKeepsItsInvariant, PTL

\* A failure is persisted only for a request that planning cannot satisfy, or after
\* a conversation was cut off (SessionWorker.Run, workerOutputStore.Persist).
THEOREM FailuresHaveCauses == Spec => []FailuresAreReported
  <1>1. PlanInv => FailuresAreReported
    BY Zenon DEF PlanInv, Sound, RecordsOK, RecordOK, Excused, FailuresAreReported, Rounds
  <1> QED
    BY <1>1, PlanningKeepsItsInvariant, PTL

\* Where the caches of Pods and policies are not behind, a planner process runs
\* without its NetworkPolicy only while its deleted Pod terminates
\* (executeWorkerAttempt, deleteWorkerAttemptArtifacts, garbageCollectWorkerArtifacts).
THEOREM ProcessesAreIsolated == Spec => []Isolated
  <1>1. PlanInv => Isolated
    BY Zenon DEF PlanInv, Sound, RunsOK, Runs, Guarded, Serving, Isolated
  <1> QED
    BY <1>1, PlanningKeepsItsInvariant, PTL

=============================================================================
