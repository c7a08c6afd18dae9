------------------------------ MODULE Heartbeat ------------------------------
(* The daemon's heartbeat (src/daemon/heartbeat-loop.ts) and its triggers:   *)
(* which occurrence becomes which task, one task of a trigger at a time, and *)
(* what a trigger's breaker learns from them. A tick evaluates the triggers  *)
(* one after the other; each evaluation is a step. Kinds: a "cron" consumes  *)
(* an occurrence by looking at it, a "checklist" item fires once in its      *)
(* life, a "webhook" drains its buffer. The first two are durable. Tasks     *)
(* settle on their own; their rows are the task manager's.                   *)
EXTENDS CircuitBreaker, FiniteSets

CONSTANTS Triggers,
          Kind,           \* of a trigger: "cron", "checklist" or "webhook"
          MaxTasks,       \* bound: tasks submitted
          MaxOccurrences  \* bound: occurrences of one trigger

ASSUME HeartAssumption ==
  /\ Kind \in [Triggers -> {"cron", "checklist", "webhook"}]
  /\ MaxTasks \in Nat \ {0} /\ MaxOccurrences \in Nat \ {0}

VARIABLES loop,     \* "running", "paused" by stop(), or "down"
          due,      \* an occurrence not yet consumed
          activeTask,  \* activeTriggerTasks, 0 for none
          heardFrom,   \* triggerByTask, inverted: one task per trigger
          breaker,  \* in memory
          saved,    \* circuit states in the database
          fresh,    \* the deduplicator remembers a fire of this process
          task,     \* rows: status, trigger, "mine" for this process's own,
                    \* "byHand" for a manual fire
          occurred, \* history: occurrences of a trigger so far
          fate,     \* history: what became of the last of them
          streak    \* history: failures in a row, as they happened

hvars == <<loop, due, activeTask, heardFrom, breaker, saved, fresh, task, occurred, fate, streak>>

Tasks == 1..MaxTasks
NoTask == [status |-> "none"]
Submitted(k) == task[k].status # "none"
TaskStatus == {"active", "completed", "failed", "blocked", "cancelled"}

HeartInit ==
  /\ loop = "running"
  /\ due = [t \in Triggers |-> Kind[t] = "checklist"]
  /\ activeTask = [t \in Triggers |-> 0] /\ heardFrom = [t \in Triggers |-> 0]
  /\ breaker = [t \in Triggers |-> Closed] /\ saved = breaker
  /\ fresh = FALSE
  /\ task = [k \in Tasks |-> NoTask]
  /\ occurred = [t \in Triggers |-> IF Kind[t] = "checklist" THEN 1 ELSE 0]
  /\ fate = [t \in Triggers |-> IF Kind[t] = "checklist" THEN "waits" ELSE "none"]
  /\ streak = [t \in Triggers |-> 0]

\* A schedule goes on while the daemon is down, a webhook needs its process.
Occurs(t) ==
  /\ Kind[t] = "cron" \/ (Kind[t] = "webhook" /\ loop # "down")
  /\ occurred[t] < MaxOccurrences
  /\ occurred' = [occurred EXCEPT ![t] = @ + 1]
  /\ due' = [due EXCEPT ![t] = TRUE]
  /\ fate' = [fate EXCEPT ![t] = "waits"]
  /\ UNCHANGED <<loop, activeTask, heardFrom, breaker, saved, fresh, task, streak>>

---------------------------------------------------------------------------
(* evaluateTrigger: the gates in their order, the look, the deduplicator,    *)
(* the fire and its submission, in one synchronous step.                     *)

\* recordTaskOutcome and the failure of an evaluation: every outcome is saved.
Learns(t, b) ==
  /\ breaker' = [breaker EXCEPT ![t] = b]
  /\ saved' = [saved EXCEPT ![t] = b]

StillActive(t) == activeTask[t] # 0 /\ task[activeTask[t]].status = "active"

\* The breaker lets it pass, which a half-open breaker remembers unsaved.
Evaluates(t, elapsed) ==
  loop = "running" /\ ~Blocks(breaker[t], elapsed) /\ (elapsed => breaker[t].state = "OPEN")
Asks(t, elapsed) == breaker' = [breaker EXCEPT ![t] = Asked(@, elapsed)]

\* A budget, an active task, a foreground task or nothing due: no fire. The
\* overlap gate forgets a task it finds settled.
Refuses(t, elapsed, cleans) ==
  /\ Evaluates(t, elapsed) /\ Asks(t, elapsed)
  /\ cleans => activeTask[t] # 0 /\ ~StillActive(t)
  /\ activeTask' = IF cleans THEN [activeTask EXCEPT ![t] = 0] ELSE activeTask
  /\ UNCHANGED <<loop, due, heardFrom, saved, fresh, task, occurred, fate, streak>>

Cleared(t) == [activeTask EXCEPT ![t] = 0]

EvaluationThrows(t, elapsed) ==
  /\ Evaluates(t, elapsed) /\ ~StillActive(t)
  /\ activeTask' = Cleared(t)
  /\ Learns(t, Failed(Asked(breaker[t], elapsed)))
  /\ streak' = [streak EXCEPT ![t] = OneMore(@)]
  /\ UNCHANGED <<loop, due, heardFrom, fresh, task, occurred, fate>>

\* A cron has consumed its occurrence by looking; the others keep theirs.
Suppresses(t, elapsed) ==
  /\ Evaluates(t, elapsed) /\ Asks(t, elapsed) /\ ~StillActive(t)
  /\ due[t] /\ fresh
  /\ activeTask' = Cleared(t)
  /\ due' = [due EXCEPT ![t] = Kind[t] # "cron"]
  /\ fate' = [fate EXCEPT ![t] = IF Kind[t] = "cron" THEN "suppressed" ELSE @]
  /\ UNCHANGED <<loop, heardFrom, saved, fresh, task, occurred, streak>>

\* An operator may fire a cron that is not due.
Fires(t, elapsed, byHand) ==
  /\ Evaluates(t, elapsed) /\ ~StillActive(t)
  /\ IF byHand THEN ~due[t] /\ Kind[t] = "cron" ELSE due[t]

\* Mutant of SubmitThrows: what the fire consumed is not given back.
SubmitThrows_KeepsConsumed(t, elapsed, byHand) ==
  /\ Fires(t, elapsed, byHand) /\ Asks(t, elapsed)
  /\ activeTask' = Cleared(t)
  /\ due' = [due EXCEPT ![t] = FALSE]
  /\ UNCHANGED <<loop, heardFrom, saved, fresh, task, occurred, fate, streak>>

\* What the fire consumed is given back, except by a webhook.
SubmitThrows(t, elapsed, byHand) ==
  /\ Fires(t, elapsed, byHand) /\ Asks(t, elapsed)
  /\ activeTask' = Cleared(t)
  /\ due' = [due EXCEPT ![t] = @ /\ Kind[t] # "webhook"]
  /\ fate' = [fate EXCEPT ![t] = IF Kind[t] = "webhook" THEN "dropped" ELSE @]
  /\ UNCHANGED <<loop, heardFrom, saved, fresh, task, occurred, streak>>

NewTask(k, t, s, byHand) ==
  /\ ~Submitted(k) /\ \A j \in Tasks : j < k => Submitted(j)
  /\ task' = [task EXCEPT ![k] = [status |-> s, of |-> t, mine |-> TRUE, byHand |-> byHand]]
  /\ activeTask' = [activeTask EXCEPT ![t] = k]
  /\ due' = [due EXCEPT ![t] = FALSE]
  /\ fate' = [fate EXCEPT ![t] = IF due[t] THEN "task" ELSE @]
  /\ fresh' = TRUE

Submits(t, elapsed, byHand, k) ==
  /\ Fires(t, elapsed, byHand) /\ Asks(t, elapsed)
  /\ NewTask(k, t, "active", byHand)
  /\ heardFrom' = [heardFrom EXCEPT ![t] = k]
  /\ UNCHANGED <<loop, saved, occurred, streak>>

\* Mutant of SubmitsFailed: a task that failed unheard is not counted.
SubmitsFailed_Unheard(t, elapsed, byHand, k) ==
  /\ Fires(t, elapsed, byHand) /\ Asks(t, elapsed)
  /\ NewTask(k, t, "failed", byHand)
  /\ heardFrom' = [heardFrom EXCEPT ![t] = k]
  /\ streak' = [streak EXCEPT ![t] = OneMore(@)]
  /\ UNCHANGED <<loop, saved, occurred>>

\* The submission returned a task that could not be queued and has failed,
\* before anyone listened for it.
SubmitsFailed(t, elapsed, byHand, k) ==
  /\ Fires(t, elapsed, byHand)
  /\ NewTask(k, t, "failed", byHand)
  /\ heardFrom' = [heardFrom EXCEPT ![t] = 0]
  /\ Learns(t, Failed(Asked(breaker[t], elapsed)))
  /\ streak' = [streak EXCEPT ![t] = OneMore(@)]
  /\ UNCHANGED <<loop, occurred>>

---------------------------------------------------------------------------
(* Tasks settle while the loop runs and while it is paused. A blocked task   *)
(* says nothing to the breaker and may be cancelled later.                   *)

Outcome(t, s) ==
  CASE s = "completed" -> Learns(t, Succeeded(breaker[t])) /\ streak' = [streak EXCEPT ![t] = 0]
    [] s = "failed" -> Learns(t, Failed(breaker[t])) /\ streak' = [streak EXCEPT ![t] = OneMore(@)]
    [] OTHER -> UNCHANGED <<breaker, saved, streak>>

Settles(k, s) ==
  /\ loop # "down" /\ Submitted(k)
  /\ task[k].status = "active" \/ (task[k].status = "blocked" /\ s = "cancelled")
  /\ task' = [task EXCEPT ![k].status = s]
  /\ LET t == task[k].of heard == heardFrom[t] = k IN
       /\ heardFrom' = IF heard /\ s # "blocked" THEN [heardFrom EXCEPT ![t] = 0] ELSE heardFrom
       /\ IF heard THEN Outcome(t, s)
          ELSE /\ UNCHANGED <<breaker, saved>>
               /\ streak' = IF ~task[k].mine THEN streak
                            ELSE [streak EXCEPT ![t] = CASE s = "completed" -> 0
                                                         [] s = "failed" -> OneMore(@)
                                                         [] OTHER -> @]
  /\ UNCHANGED <<loop, due, activeTask, fresh, occurred, fate>>

---------------------------------------------------------------------------
(* Pause, resume, crash and restart.                                         *)

Stops ==
  /\ loop = "running" /\ loop' = "paused"
  /\ saved' = breaker
  /\ UNCHANGED <<due, activeTask, heardFrom, breaker, fresh, task, occurred, fate, streak>>

Starts ==
  /\ loop = "paused" /\ loop' = "running"
  /\ breaker' = saved
  /\ UNCHANGED <<due, activeTask, heardFrom, saved, fresh, task, occurred, fate, streak>>

\* The process dies, between two evaluations or inside the fire of one: what
\* it consumed durably then never becomes a task.
HeartCrash(cut) ==
  /\ loop # "down" /\ loop' = "down"
  /\ cut \subseteq {t \in Triggers : loop = "running" /\ due[t] /\ ~StillActive(t)}
  /\ Cardinality(cut) <= 1
  /\ due' = [t \in Triggers |-> due[t] /\ t \notin cut /\ Kind[t] # "webhook"]
  /\ fate' = [t \in Triggers |->
       IF due[t] /\ ~due'[t] THEN (IF Kind[t] = "webhook" THEN "dropped" ELSE "cut") ELSE fate[t]]
  /\ activeTask' = [t \in Triggers |-> 0] /\ heardFrom' = [t \in Triggers |-> 0]
  /\ breaker' = saved /\ fresh' = FALSE
  /\ task' = [k \in Tasks |-> IF Submitted(k) THEN [task[k] EXCEPT !.mine = FALSE] ELSE NoTask]
  /\ UNCHANGED <<saved, occurred, streak>>

\* Recovery keeps, fails or blocks what was running before the loop starts.
HeartBoot(failed, blocked) ==
  /\ loop = "down" /\ loop' = "running"
  /\ failed \cap blocked = {}
  /\ \A k \in failed \cup blocked : task[k].status = "active"
  /\ task' = [k \in Tasks |-> IF k \in failed THEN [task[k] EXCEPT !.status = "failed"]
                             ELSE IF k \in blocked THEN [task[k] EXCEPT !.status = "blocked"]
                             ELSE task[k]]
  /\ UNCHANGED <<due, activeTask, heardFrom, breaker, saved, fresh, occurred, fate, streak>>

HeartNext ==
  \/ \E t \in Triggers : Occurs(t)
  \/ \E t \in Triggers, e \in BOOLEAN : EvaluationThrows(t, e) \/ Suppresses(t, e)
  \/ \E t \in Triggers, e, b \in BOOLEAN : Refuses(t, e, b) \/ SubmitThrows(t, e, b)
  \/ \E t \in Triggers, e, b \in BOOLEAN, k \in Tasks : Submits(t, e, b, k) \/ SubmitsFailed(t, e, b, k)
  \/ \E k \in Tasks, s \in TaskStatus \ {"active"} : Settles(k, s)
  \/ Stops \/ Starts
  \/ \E cut \in SUBSET Triggers : HeartCrash(cut)
  \/ \E failed, blocked \in SUBSET Tasks : HeartBoot(failed, blocked)

HeartSpec == HeartInit /\ [][HeartNext]_hvars

---------------------------------------------------------------------------
(* What it promises.                                                         *)

\* Types; the task a trigger is heard from is the one it holds as active, or it
\* has settled and the overlap gate has let it go.
HeartTypeOK ==
  /\ loop \in {"running", "paused", "down"}
  /\ fresh \in BOOLEAN /\ due \in [Triggers -> BOOLEAN]
  /\ {activeTask, heardFrom} \subseteq [Triggers -> 0..MaxTasks]
  /\ {breaker, saved} \subseteq [Triggers -> Breaker]
  /\ task \in [Tasks -> {NoTask} \cup [status : TaskStatus, of : Triggers, mine : BOOLEAN, byHand : BOOLEAN]]
  /\ streak \in [Triggers -> 0..FailureThreshold]
  /\ \A t \in Triggers : heardFrom[t] # 0 =>
       task[heardFrom[t]].of = t /\ (activeTask[t] = heardFrom[t] \/ task[heardFrom[t]].status # "active")

\* Two tasks of one trigger are never active together, in the process that
\* submitted them.
NoOverlap ==
  LET under == {k \in Tasks : Submitted(k) /\ task[k].mine /\ task[k].status = "active"}
  IN \A j, k \in under : j # k => task[j].of # task[k].of

\* A scheduled occurrence or a checklist item becomes one task: while it became
\* neither a task nor a duplicate it is still due, through failed submissions,
\* pauses and restarts, and it never becomes two; nor do the tasks of two
\* occurrences run side by side.
NothingLost ==
  \A t \in Triggers : Kind[t] # "webhook" /\ fate[t] = "waits" => due[t]
NoDoubleFire ==
  \A t \in Triggers :
    Cardinality({k \in Tasks : Submitted(k) /\ task[k].of = t /\ ~task[k].byHand}) <= occurred[t]
ExactlyOneTask == NothingLost /\ NoDoubleFire /\ NoOverlap

\* Each failure and each success of a process's own tasks reached the breaker
\* exactly once, and the database knows the count.
StreakIsReal ==
  \A t \in Triggers : breaker[t].fails = streak[t] /\ saved[t].fails = streak[t]

=============================================================================
