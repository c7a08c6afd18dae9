-------------------------- MODULE SupervisorDispatch --------------------------
(* SupervisorDispatcher.dispatch() of src/supervisor/supervisor-dispatcher.ts: *)
(* the nodes of a plan run in waves, at most MaxParallel at a time, until      *)
(* MaxFailureBudget of them have failed or the whole run is aborted. One       *)
(* dispatch of one plan. The dispatch loop and the runs of the nodes take      *)
(* turns wherever one of them awaits. In production a worker's run ends ok or  *)
(* failed; everything it writes meanwhile is left out, but not that a run may  *)
(* go on after the dispatcher has stopped listening to it.                     *)
EXTENDS Naturals, FiniteSets, FiniteSetsExt

CONSTANTS Nodes,   \* numbered in the order of the plan
          Deps,
          MaxParallel, MaxFailureBudget

ASSUME SupAssumption ==
  /\ Nodes \subseteq Nat \ {0} /\ IsFiniteSet(Nodes)
  /\ Deps \in [Nodes -> SUBSET Nodes]
  /\ MaxParallel \in Nat \ {0} /\ MaxFailureBudget \in Nat \ {0}

\* computeWaves: what can be scheduled in the first i waves. What never can is
\* in a cycle or depends on one.
Scheduled[i \in 0..Cardinality(Nodes)] ==
  IF i = 0 THEN {}
  ELSE LET before == Scheduled[i - 1] IN {n \in Nodes : Deps[n] \subseteq before}
Waves == {i \in 1..Cardinality(Nodes) : Scheduled[i] # Scheduled[i - 1]}
Wave(i) == Scheduled[i] \ Scheduled[i - 1]
Unschedulable == Nodes \ Scheduled[Cardinality(Nodes)]

VARIABLES result,    \* of each node, "none" until it is pushed
          phase,     \* of each node's run
          retried,   \* the nodes on their second attempt
          wave, stage, \* the loop: "head" of a wave, "launch", "returned"
          todo,      \* nodes of this wave the loop has not come to
          waiting,   \* the node it waits for a slot with
          aborted,   \* the signal
          abandoned, \* runs nobody listens to that still go on, while dispatch waits for them
          forgotten  \* and after it gave up waiting

svars == <<result, phase, retried, wave, stage, todo, waiting, aborted, abandoned, forgotten>>

SupInit ==
  /\ result = [n \in Nodes |-> IF n \in Unschedulable THEN "failed" ELSE "none"]
  /\ phase = [n \in Nodes |-> "idle"] /\ retried = {}
  /\ wave = 1 /\ stage = "head" /\ todo = {} /\ waiting = {}
  /\ aborted = FALSE /\ abandoned = {} /\ forgotten = {}

\* The counter of the failure budget, the count of failures and the flag in the
\* loop always agree: the failures of nodes that ran.
Failures == Cardinality({n \in Nodes \ Unschedulable : result[n] = "failed"})
Exhausted == Failures >= MaxFailureBudget
Unsatisfied(n) == \E d \in Deps[n] : result[d] \in {"failed", "skipped"}
Busy == {n \in Nodes : phase[n] \in {"running", "grace", "backoff"}}

---------------------------------------------------------------------------
(* The loop.                                                                 *)

Returns ==
  /\ stage = "head" /\ (wave \notin Waves \/ aborted)
  /\ stage' = "returned"
  /\ UNCHANGED <<result, phase, retried, wave, todo, waiting, aborted, abandoned, forgotten>>

\* Mutant of DrainWave: the loop is left without results for the rest.
DrainWave_Breaks ==
  /\ stage = "head" /\ wave \in Waves /\ ~aborted /\ Exhausted
  /\ stage' = "returned"
  /\ UNCHANGED <<result, phase, retried, wave, todo, waiting, aborted, abandoned, forgotten>>

\* A wave after the budget is spent is drained at once.
DrainWave ==
  /\ stage = "head" /\ wave \in Waves /\ ~aborted /\ Exhausted
  /\ result' = [n \in Nodes |-> IF n \in Wave(wave) THEN "skipped" ELSE result[n]]
  /\ wave' = wave + 1
  /\ UNCHANGED <<phase, retried, stage, todo, waiting, aborted, abandoned, forgotten>>

StartWave ==
  /\ stage = "head" /\ wave \in Waves /\ ~aborted /\ ~Exhausted
  /\ stage' = "launch" /\ todo' = Wave(wave)
  /\ UNCHANGED <<result, phase, retried, wave, waiting, aborted, abandoned, forgotten>>

\* What becomes of a node the loop does not launch.
Refused(n) ==
  IF Unsatisfied(n) THEN "skipped" ELSE IF aborted THEN "cancelled" ELSE "skipped"

\* The loop comes to the next node: it gets its result, or waits for a slot.
ComeTo(n) ==
  /\ stage = "launch" /\ waiting = {} /\ todo # {} /\ n = Min(todo)
  /\ todo' = todo \ {n}
  /\ IF Unsatisfied(n) \/ aborted \/ Exhausted
     THEN result' = [result EXCEPT ![n] = Refused(n)] /\ UNCHANGED waiting
     ELSE waiting' = {n} /\ UNCHANGED result
  /\ UNCHANGED <<phase, retried, wave, stage, aborted, abandoned, forgotten>>

\* Mutant of SlotTaken: no slot is waited for.
SlotTaken_Unbounded(n) ==
  /\ n \in waiting
  /\ waiting' = {}
  /\ IF aborted \/ Exhausted
     THEN /\ result' = [result EXCEPT ![n] = IF aborted THEN "cancelled" ELSE "skipped"]
          /\ UNCHANGED phase
     ELSE phase' = [phase EXCEPT ![n] = "running"] /\ UNCHANGED result
  /\ UNCHANGED <<retried, wave, stage, todo, aborted, abandoned, forgotten>>

\* With the slot in hand it looks again.
SlotTaken(n) ==
  /\ n \in waiting /\ Cardinality(Busy) < MaxParallel
  /\ waiting' = {}
  /\ IF aborted \/ Exhausted
     THEN /\ result' = [result EXCEPT ![n] = IF aborted THEN "cancelled" ELSE "skipped"]
          /\ UNCHANGED phase
     ELSE phase' = [phase EXCEPT ![n] = "running"] /\ UNCHANGED result
  /\ UNCHANGED <<retried, wave, stage, todo, aborted, abandoned, forgotten>>

\* All runs of the wave have answered. Abandoned ones are waited for, until the
\* grace is over.
WaveSettled == stage = "launch" /\ todo = {} /\ waiting = {} /\ Busy = {}
EndWave ==
  /\ WaveSettled
  /\ stage' = "head" /\ wave' = wave + 1
  /\ UNCHANGED <<result, phase, retried, todo, waiting, aborted>>

\* Mutant of AllHome: abandoned runs are not waited for.
AllHome_Impatient == EndWave /\ UNCHANGED <<abandoned, forgotten>>

AllHome == EndWave /\ abandoned = {} /\ UNCHANGED <<abandoned, forgotten>>
GraceOver ==
  /\ EndWave /\ abandoned # {}
  /\ forgotten' = forgotten \cup abandoned /\ abandoned' = {}

---------------------------------------------------------------------------
(* The run of a node: two attempts, a time budget, and a grace after it.     *)

Answers(n, r) ==
  /\ result' = [result EXCEPT ![n] = r]
  /\ phase' = [phase EXCEPT ![n] = "over"]

Loop == UNCHANGED <<wave, stage, todo, waiting, aborted>>

WorkerEnds(n, r) ==
  /\ phase[n] = "running" /\ r \in {"ok", "failed"}
  /\ Answers(n, r) /\ Loop
  /\ UNCHANGED <<retried, abandoned, forgotten>>

\* A throw no worker made. The first one is tried again if it is transient and
\* some provider is not cooling down.
WorkerThrows(n) ==
  /\ phase[n] = "running"
  /\ \/ Answers(n, "failed") /\ UNCHANGED retried
     \/ n \notin retried /\ retried' = retried \cup {n}
          /\ phase' = [phase EXCEPT ![n] = "backoff"] /\ UNCHANGED result
  /\ Loop /\ UNCHANGED <<abandoned, forgotten>>

BackoffEnds(n) ==
  /\ phase[n] = "backoff"
  /\ IF aborted THEN Answers(n, "cancelled")
     ELSE phase' = [phase EXCEPT ![n] = "running"] /\ UNCHANGED result
  /\ Loop /\ UNCHANGED <<retried, abandoned, forgotten>>

\* The run is aborted and listed; whether it obeys is its own affair.
TimesOut(n) ==
  /\ phase[n] = "running"
  /\ phase' = [phase EXCEPT ![n] = "grace"]
  /\ abandoned' = abandoned \cup {n}
  /\ Loop /\ UNCHANGED <<result, retried, forgotten>>

\* It settles within the grace, with its work or without, or the grace ends.
LateAnswer(n, kept, settles) ==
  /\ phase[n] = "grace" /\ (kept => settles)
  /\ Answers(n, IF kept THEN "ok" ELSE IF aborted THEN "cancelled" ELSE "failed")
  /\ abandoned' = IF settles THEN abandoned \ {n} ELSE abandoned
  /\ Loop /\ UNCHANGED <<retried, forgotten>>

StraySettles(n) ==
  /\ n \in abandoned \cup forgotten /\ phase[n] = "over"
  /\ abandoned' = abandoned \ {n} /\ forgotten' = forgotten \ {n}
  /\ Loop /\ UNCHANGED <<result, phase, retried>>

\* The abort wins the race against every run that has not answered; a run that
\* waits for its grace or its retry notices when that is over.
Abort ==
  /\ stage # "returned" /\ ~aborted
  /\ LET cut == {n \in Nodes : phase[n] = "running"} IN
       /\ result' = [n \in Nodes |-> IF n \in cut THEN "cancelled" ELSE result[n]]
       /\ phase' = [n \in Nodes |-> IF n \in cut THEN "over" ELSE phase[n]]
       /\ abandoned' = abandoned \cup cut
  /\ aborted' = TRUE
  /\ UNCHANGED <<retried, wave, stage, todo, waiting, forgotten>>

SupNext ==
  \/ Returns \/ DrainWave \/ StartWave \/ AllHome \/ GraceOver \/ Abort
  \/ \E n \in Nodes : ComeTo(n) \/ SlotTaken(n)
  \/ \E n \in Nodes, r \in {"ok", "failed"} : WorkerEnds(n, r)
  \/ \E n \in Nodes : WorkerThrows(n) \/ BackoffEnds(n) \/ TimesOut(n) \/ StraySettles(n)
  \/ \E n \in Nodes, kept, settles \in BOOLEAN : LateAnswer(n, kept, settles)

SupSpec == SupInit /\ [][SupNext]_svars

---------------------------------------------------------------------------
(* What it promises.                                                         *)

\* Types; never more runs than slots, and a node is over exactly when its run
\* has pushed a result.
SupTypeOK ==
  /\ result \in [Nodes -> {"none", "ok", "failed", "skipped", "cancelled"}]
  /\ phase \in [Nodes -> {"idle", "running", "grace", "backoff", "over"}]
  /\ stage \in {"head", "launch", "returned"} /\ wave \in 1..Cardinality(Nodes) + 1
  /\ todo \cup waiting \cup retried \cup abandoned \cup forgotten \subseteq Nodes
  /\ abandoned \cap forgotten = {}
  /\ Cardinality(Busy) <= MaxParallel
  /\ \A n \in Nodes : (phase[n] \in {"running", "grace", "backoff"} => result[n] = "none")
                        /\ (phase[n] = "over" => result[n] \in {"ok", "failed", "cancelled"})

\* A node has run only on the finished work of everything it depends on; a
\* cut-off run that left its work counts as finished, a skipped one never.
DepsHonoured ==
  \A n \in Nodes : phase[n] # "idle" => \A d \in Deps[n] : result[d] = "ok"

\* Once the budget is spent nothing new starts: what was in flight then may
\* still fail, so the overshoot is less than the width.
FailuresBounded == Failures < MaxFailureBudget + MaxParallel

\* Unless the run is aborted every node of the plan has its result when
\* dispatch returns, and none was skipped without cause.
EveryNodeAccounted ==
  /\ stage = "returned" /\ ~aborted => \A n \in Nodes : result[n] # "none"
  /\ \A n \in Nodes : result[n] = "skipped" => Unsatisfied(n) \/ Exhausted
  /\ stage = "returned" => Busy = {}

\* What a plan comes to: a result for every node, within the failure budget.
PlanAccounted == EveryNodeAccounted /\ FailuresBounded

\* No wave starts, and nothing is returned, while a run of an earlier wave goes
\* on that dispatch has not waited its grace for.
WavesDoNotOverlap ==
  /\ stage # "launch" => abandoned = {}
  /\ \A n \in Busy, m \in abandoned : {m, n} \subseteq Wave(wave)

\* Waves and dependencies together: the order in which dispatch runs a plan.
DispatchInOrder == DepsHonoured /\ WavesDoNotOverlap

=============================================================================
