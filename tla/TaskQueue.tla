----------------------------- MODULE TaskQueue -----------------------------
(***************************************************************************)
(* The task core of Strada.Brain: the durable task rows (TaskStorage), the *)
(* operations on them (TaskManager) and the executor that runs them        *)
(* (BackgroundExecutor: queue, conversation locks, concurrency limit, the  *)
(* steps of a run, its watchdog and reapers, shutdown), with crashes and   *)
(* restarts of the process.                                                *)
(*                                                                         *)
(* The process is one JavaScript thread: an action is the code between two *)
(* awaits, and it includes every call it makes, processQueue among them.   *)
(* Task ids are allocated in order, so an id stands for the created_at     *)
(* order of its row, and the queue, which only ever appends a task just    *)
(* created, is the set of its ids: its first entry is the smallest id.     *)
(***************************************************************************)
EXTENDS Naturals, FiniteSets

CONSTANTS
  MaxTasks,     (* bound: tasks ever created                               *)
  Chats,        (* conversations (getTaskConversationKey)                  *)
  DaemonChats,  (* those on the daemon's own channel, whose tasks have     *)
                (* origin "daemon"; the others carry user tasks            *)
  NoChat,       (* the conversation of a task not created yet              *)
  Limit,        (* concurrencyLimit                                        *)
  MaxQueue,     (* MAX_QUEUE_SIZE                                          *)
  MaxSettle,    (* how often a completion that could not be written is     *)
                (* tried again                                             *)
  Workspaces,   (* where runs work: in a workspace of the "task", in one   *)
                (* of the worker's "own", or in the project itself, "none" *)
  MaxStops,     (* bound: how often the process is shut down or crashes    *)
  LateReap      (* TRUE: a reaper tick may meet a run that was told to     *)
                (* stop (cancelled, paused, timed out) and is still        *)
                (* unwinding. FALSE: every stopped run unwinds before that *)

ASSUME QueueAssumption ==
  /\ MaxTasks \in Nat /\ Limit \in Nat /\ MaxQueue \in Nat /\ MaxSettle \in Nat
  /\ MaxStops \in Nat /\ Workspaces \subseteq {"none", "task", "own"}
  /\ DaemonChats \subseteq Chats
  /\ NoChat \notin Chats
  /\ LateReap \in BOOLEAN

Tasks == 1..MaxTasks
NoTask == 0

Foreground == {"pending", "executing"}
Active     == Foreground \cup {"paused"}
Terminal   == {"completed", "failed", "blocked", "cancelled"}

VARIABLES
  (* durable: the tasks table, and the workspaces on disk                  *)
  status,    (* of each row; "absent" until it is saved                    *)
  chat,
  parent,    (* parent_id: the row a resume or a retry continues           *)
  lease,     (* the run's workspace: none, the task's or the worker's own  *)
             (* lease while it is held; released; kept because its commit  *)
             (* failed; lost (directory gone); left by a dead process      *)
  landed,    (* the run's files are in the project                         *)
  (* volatile: lost with the process                                       *)
  phase,     (* "up", "draining" (shutdown), "down", "booting"             *)
  queue,
  running,   (* the executor's slot counter                                *)
  active,    (* activeConversations                                        *)
  paused,    (* pausedConversations                                        *)
  aborted,   (* tasks whose external abort signal fired, as long as code   *)
             (* that reads it is left: queued, running, or settling        *)
  hung,      (* runs stopped through the executor's own controller alone   *)
  reaped,    (* reapedInflight                                             *)
  pc,        (* where the run of a task is; "idle" when it has none        *)
  result,    (* what the run is about to report                            *)
  settling,  (* tasks whose completion waits on a retry timer              *)
  tries,     (* ... and how often it was tried                             *)
  mine,      (* submittedHere: what this process submitted before recovery *)
  stops      (* ghost: processes shut down or crashed so far               *)

rowVars  == <<status, chat, parent>>
diskVars == <<lease, landed>>
lockVars == <<queue, running, active, paused>>
runVars  == <<aborted, hung, reaped, pc, result, settling, tries>>
procVars == <<mine, stops>>
vars     == <<rowVars, diskVars, phase, lockVars, runVars, procVars>>

Statuses == {"absent"} \cup Active \cup Terminal
Leases   == {"none", "task", "own", "released", "kept", "lost", "left"}
Results  == {"none", "completed", "failed", "blocked"}

\* The type invariant.
TypeOK ==
  /\ status \in [Tasks -> Statuses]
  /\ chat \in [Tasks -> Chats \cup {NoChat}]
  /\ \A t \in Tasks : status[t] # "absent" => chat[t] \in Chats
  /\ parent \in [Tasks -> Tasks \cup {NoTask}]
  /\ lease \in [Tasks -> Leases]
  /\ landed \in [Tasks -> BOOLEAN]
  /\ phase \in {"up", "draining", "down", "booting"}
  /\ queue \subseteq Tasks
  /\ running \in Nat
  /\ active \subseteq Chats
  /\ paused \subseteq Chats
  /\ aborted \subseteq Tasks /\ hung \subseteq Tasks /\ reaped \subseteq Tasks
  /\ pc \in [Tasks -> {"idle", "admit", "work", "envelope", "publish", "settle"}]
  /\ result \in [Tasks -> Results]
  /\ settling \subseteq Tasks
  /\ tries \in [Tasks -> Nat]
  /\ mine \subseteq Tasks
  /\ stops \in Nat

InFlight  == {t \in Tasks : pc[t] # "idle"}
Daemon(t) == chat[t] \in DaemonChats
Told(t)   == t \in aborted \cup hung        (* signal.aborted of the run *)

-----------------------------------------------------------------------------
(* processQueue. It works on a view of the state, because every handler    *)
(* ends by calling it on the state the handler has just written.           *)

Now == [queue |-> queue, running |-> running, active |-> active,
        paused |-> paused, aborted |-> aborted,
        status |-> status, chat |-> chat, pc |-> pc]

\* Mutant of Deferred: a person's pending task is not counted.
Deferred_ExecutingOnly(w) ==
  \E t \in Tasks : w.status[t] = "executing" /\ w.chat[t] \notin DaemonChats

\* hasActiveForegroundTasks: rows on a user channel, pending or executing.
Deferred(w) ==
  \E t \in Tasks : w.status[t] \in Foreground /\ w.chat[t] \notin DaemonChats

Runnable(w) ==
  {t \in w.queue \ w.aborted :
     /\ w.chat[t] \notin w.paused \cup w.active
     /\ w.chat[t] \in DaemonChats => ~Deferred(w)}

\* Mutant of Heads: a conversation's newest entry goes first.
Heads_Newest(w) == {t \in Runnable(w) :
                      \A u \in Runnable(w) : w.chat[u] = w.chat[t] => u <= t}

\* Of each conversation its oldest entry: starting it takes the conversation.
Heads(w) == {t \in Runnable(w) :
               \A u \in Runnable(w) : w.chat[u] = w.chat[t] => t <= u}

\* What one processQueue starts: the oldest heads, as many as slots are free.
Starts(w) ==
  {S \in SUBSET Heads(w) :
     /\ \A t \in S, u \in Heads(w) \ S : t < u
     /\ w.running + Cardinality(S) <= Limit \/ S = {}
     /\ S = Heads(w) \/ w.running + Cardinality(S) >= Limit}

\* Mutant of Skips: the scan drops cancelled entries with every slot taken.
Skips_All(w, S) == w.queue \cap w.aborted

\* The cancelled entries the scan meets, and drops, while a slot is free.
Skips(w, S) ==
  {k \in w.queue \cap w.aborted :
     /\ w.running < Limit
     /\ Deferred(w) => w.running + Cardinality({u \in S : u < k}) < Limit}

After(w, S) ==
  [queue   |-> (w.queue \ S) \ Skips(w, S),
   running |-> w.running + Cardinality(S),
   active  |-> w.active \cup {w.chat[t] : t \in S},
   paused  |-> w.paused,
   aborted |-> w.aborted \ Skips(w, S),
   status  |-> [t \in Tasks |-> IF t \in S THEN "executing" ELSE w.status[t]],
   chat    |-> w.chat,
   pc      |-> [t \in Tasks |-> IF t \in S THEN "admit" ELSE w.pc[t]]]

Becomes(w) ==
  /\ queue' = w.queue /\ running' = w.running /\ active' = w.active
  /\ paused' = w.paused /\ aborted' = w.aborted
  /\ status' = w.status /\ chat' = w.chat /\ pc' = w.pc

ProcessQueue(w) == \E S \in Starts(w) : Becomes(After(w, S))

-----------------------------------------------------------------------------
(* Submitting: a row, an abort controller and a place in the queue. A full *)
(* queue fails the row and the task is returned without running.           *)

Fresh(t) == status[t] = "absent" /\ \A u \in Tasks : u < t => status[u] # "absent"

\* Mutant of Enqueue: a refused task is not failed.
Enqueue_LeavesPending(w, t, c) ==
  IF Cardinality(w.queue) >= MaxQueue
  THEN [w EXCEPT !.chat[t] = c, !.status[t] = "pending"]
  ELSE [w EXCEPT !.chat[t] = c, !.status[t] = "pending", !.queue = @ \cup {t}]

Enqueue(w, t, c) ==
  IF Cardinality(w.queue) >= MaxQueue
  THEN [w EXCEPT !.chat[t] = c, !.status[t] = "failed"]
  ELSE [w EXCEPT !.chat[t] = c, !.status[t] = "pending", !.queue = @ \cup {t}]

\* enqueue throws before it reaches processQueue when the queue is full.
Submitted(w, t, c) ==
  IF Cardinality(w.queue) >= MaxQueue
  THEN Becomes(Enqueue(w, t, c))
  ELSE ProcessQueue(Enqueue(w, t, c))

Serving == phase \in {"up", "booting"}

Submit(t, c) ==
  /\ Serving /\ Fresh(t)
  /\ Submitted(Now, t, c)
  /\ mine' = IF phase = "booting" THEN mine \cup {t} ELSE mine
  /\ UNCHANGED <<parent, diskVars, phase, hung, reaped, result, settling, tries, stops>>

-----------------------------------------------------------------------------
(* Lineage: the rows that continue a row, directly or not.                 *)

Descendants(t) ==
  LET ancestors[d \in 0..MaxTasks] ==
        IF d = 0 THEN {}
        ELSE IF parent[d] = NoTask \/ parent[d] >= d THEN {}
        ELSE {parent[d]} \cup ancestors[parent[d]]
  IN {d \in Tasks : t \in ancestors[d]}

\* findLatestDescendant, by created_at, and the test retireIfSuperseded makes.
Superseded(t, st) ==
  \E d \in Descendants(t) :
    /\ \A e \in Descendants(t) : e <= d
    /\ st[d] \in Active \cup {"completed"}

-----------------------------------------------------------------------------
(* The person's operations.                                                *)

\* Mutant of Abortable: the controller is dropped once the task is started.
Abortable_QueuedOnly(t) == {t} \cap queue

\* Its abort controller exists as long as the row is live and this process
\* queues or runs the task.
Abortable(t) == {t} \cap (queue \cup InFlight \cup settling)

\* Mutant of Cancel: cancelling a paused task leaves its conversation locked.
Cancel_KeepsLock(t) ==
  /\ Serving
  /\ status[t] \in Active \cup {"blocked"}
  /\ Becomes([Now EXCEPT !.status[t] = "cancelled",
                         !.aborted = IF status[t] \in Foreground
                                     THEN @ \cup Abortable(t) ELSE @])
  /\ UNCHANGED <<parent, diskVars, phase, hung, reaped, result, settling, tries, procVars>>

\* Why it was cancelled (cancel_reason) is not told apart here: only the
\* keep-alive of missions reads it.
Cancel(t) ==
  /\ Serving
  /\ status[t] \in Active \cup {"blocked"}
  /\ LET gone == [Now EXCEPT !.status[t] = "cancelled",
                             !.aborted = IF status[t] \in Foreground
                                         THEN @ \cup Abortable(t) ELSE @]
     IN IF status[t] = "paused"
        THEN ProcessQueue([gone EXCEPT !.paused = @ \ {chat[t]}])
        ELSE Becomes(gone)
  /\ UNCHANGED <<parent, diskVars, phase, hung, reaped, result, settling, tries, procVars>>

PauseTask(t) ==
  /\ phase = "up"
  /\ status[t] = "executing"
  /\ status' = [status EXCEPT ![t] = "paused"]
  /\ paused' = paused \cup {chat[t]}
  /\ aborted' = aborted \cup Abortable(t)
  /\ UNCHANGED <<chat, parent, diskVars, phase, queue, running, active,
                 hung, reaped, pc, result, settling, tries, procVars>>

\* resumeConversation, then retireIfSuperseded, else a child is submitted and
\* retireResumedParent retires the row, unless the queue refused the child.
ResumeTask(t) ==
  /\ phase = "up"
  /\ status[t] = "paused"
  /\ \E S \in Starts([Now EXCEPT !.paused = @ \ {chat[t]}]) :
       LET open == After([Now EXCEPT !.paused = @ \ {chat[t]}], S)
       IN \/ /\ Superseded(t, open.status)
             /\ Becomes([open EXCEPT !.status[t] = "cancelled"])
             /\ UNCHANGED parent
          \/ /\ ~Superseded(t, open.status)
             /\ \E c \in Tasks :
                  LET refused == Cardinality(open.queue) >= MaxQueue
                      kept    == IF refused THEN open
                                 ELSE [open EXCEPT !.status[t] = "cancelled"]
                  IN /\ Fresh(c)
                     /\ Submitted(kept, c, chat[t])
                     /\ parent' = [parent EXCEPT ![c] = t]
  /\ UNCHANGED <<diskVars, phase, hung, reaped, result, settling, tries, procVars>>

\* A person's /retry, or a keep-alive timer.
RetryTask(t) ==
  /\ phase = "up"
  /\ status[t] \in {"failed", "blocked", "cancelled"}
  /\ \E c \in Tasks :
       /\ Fresh(c)
       /\ Submitted(Now, c, chat[t])
       /\ parent' = [parent EXCEPT ![c] = t]
  /\ UNCHANGED <<diskVars, phase, hung, reaped, result, settling, tries, procVars>>

-----------------------------------------------------------------------------
(* One run: executeTask, with the awaits at which other handlers run.      *)
(*   admit     acquiring a workspace                                       *)
(*   work      the agent (supervisor or worker) runs                       *)
(*   envelope  the worker's own workspace is committed                     *)
(*   publish   the task's workspace is committed                           *)
(*   settle    the workspace is released, milestone branches are merged    *)

Alive == phase # "down"

\* What fail() leaves on a row once the mission keep-alive had its say: a user
\* mission it takes over is blocked with a retry marker.
FailRows(t) == IF Daemon(t) THEN {"failed"} ELSE {"failed", "blocked"}

StartWork(t) ==
  /\ Alive /\ pc[t] = "admit"
  /\ pc' = [pc EXCEPT ![t] = "work"]
  /\ \E l \in Workspaces : lease' = [lease EXCEPT ![t] = l]
  /\ UNCHANGED <<rowVars, landed, phase, lockVars, aborted, hung, reaped,
                 result, settling, tries, procVars>>

\* Mutant of AbortRow: a person's stop is recorded as a block like the others.
AbortRow_AlwaysBlocks(t) == "blocked"

\* settleWatchdogAbortIfHung: a person's stop and a reaper have written the row
\* already; any other abort is recorded as blocked.
AbortRow(t) ==
  IF t \in aborted \cup reaped THEN status[t] ELSE "blocked"

\* How executeTask takes the outcome o of its run, before its finally.
Outcome(t, o) ==
  /\ IF Told(t)
     THEN /\ status' = [status EXCEPT ![t] = AbortRow(t)]
          /\ result' = [result EXCEPT ![t] = "none"]
          /\ reaped' = IF t \in aborted THEN reaped ELSE reaped \ {t}
     ELSE /\ \E s \in CASE o = "completed" -> {status[t]}
                        [] o = "blocked"   -> {"blocked"}
                        [] OTHER           -> FailRows(t) :
               status' = [status EXCEPT ![t] = s]
          /\ result' = [result EXCEPT ![t] = IF o = "completed" THEN o ELSE "none"]
          /\ UNCHANGED reaped
  /\ UNCHANGED <<chat, parent, phase, lockVars, aborted, hung, settling, tries, procVars>>

\* The agent returns, or throws ("failed"); acquiring the workspace may throw
\* too. A worker's own workspace is committed before anything is made of it.
WorkEnds(t) ==
  /\ Alive /\ pc[t] \in {"admit", "work"}
  /\ \E o \in {"completed", "failed", "blocked"} :
       /\ pc[t] = "admit" => o = "failed"
       /\ IF lease[t] = "own"
          THEN /\ pc' = [pc EXCEPT ![t] = "envelope"]
               /\ result' = [result EXCEPT ![t] = o]
               /\ UNCHANGED <<rowVars, diskVars, phase, lockVars, aborted, hung,
                              reaped, settling, tries, procVars>>
          ELSE /\ Outcome(t, o)
               /\ pc' = [pc EXCEPT ![t] = IF lease[t] = "none" THEN "settle" ELSE "publish"]
               /\ landed' = [landed EXCEPT ![t] = pc[t] = "work" /\ lease[t] = "none"]
               /\ UNCHANGED lease

\* judgePublication: the commit reached the project and the lease is released,
\* or the lease is kept and the worker failed, whatever it reported.
EnvelopeCommit(t) ==
  /\ Alive /\ pc[t] = "envelope"
  /\ \E ok \in BOOLEAN :
       /\ lease'  = [lease  EXCEPT ![t] = IF ok THEN "released" ELSE "kept"]
       /\ landed' = [landed EXCEPT ![t] = ok]
       /\ Outcome(t, IF ok THEN result[t] ELSE "failed")
  /\ pc' = [pc EXCEPT ![t] = "settle"]

\* stoppedDuringSettle: a person's stop or a reaper withholds the terminal.
Withheld(t) == t \in aborted \cup reaped

\* Mutants of EndRun: the conversation is freed but not the slot; the slot is
\* freed twice; the queue is not moved.
EndRun_KeepsSlot(t, st) ==
  /\ ProcessQueue([Now EXCEPT !.status = st, !.pc[t] = "idle",
                              !.active = @ \ {chat[t]}, !.aborted = @ \ {t}])
  /\ result' = [result EXCEPT ![t] = "none"]
  /\ hung' = hung \ {t}
  /\ reaped' = reaped \ {t}
  /\ UNCHANGED <<parent, phase, procVars>>

EndRun_FreesTwice(t, st) ==
  /\ ProcessQueue([Now EXCEPT !.status = st, !.pc[t] = "idle", !.running = @ - 2,
                              !.active = @ \ {chat[t]}, !.aborted = @ \ {t}])
  /\ result' = [result EXCEPT ![t] = "none"]
  /\ hung' = hung \ {t}
  /\ reaped' = reaped \ {t}
  /\ UNCHANGED <<parent, phase, procVars>>

EndRun_NoPump(t, st) ==
  /\ Becomes([Now EXCEPT !.status = st, !.pc[t] = "idle", !.running = @ - 1,
                         !.active = @ \ {chat[t]}, !.aborted = @ \ {t}])
  /\ result' = [result EXCEPT ![t] = "none"]
  /\ hung' = hung \ {t}
  /\ reaped' = reaped \ {t}
  /\ UNCHANGED <<parent, phase, procVars>>

\* The run is over: its slot and its conversation are free, the queue moves.
\* st is what the run's last write left in the status column.
EndRun(t, st) ==
  /\ ProcessQueue([Now EXCEPT !.status = st, !.pc[t] = "idle", !.running = @ - 1,
                              !.active = @ \ {chat[t]}, !.aborted = @ \ {t}])
  /\ result' = [result EXCEPT ![t] = "none"]
  /\ hung' = hung \ {t}
  /\ reaped' = reaped \ {t}
  /\ UNCHANGED <<parent, phase, procVars>>

CommitLands(t) ==
  /\ Alive /\ pc[t] = "publish" /\ lease[t] = "task"
  /\ lease' = [lease EXCEPT ![t] = "released"]
  /\ landed' = [landed EXCEPT ![t] = TRUE]
  /\ pc' = [pc EXCEPT ![t] = "settle"]
  /\ UNCHANGED <<rowVars, phase, lockVars, aborted, hung, reaped, result,
                 settling, tries, procVars>>

\* Mutant of CommitLost: the completion is reported before publication.
CommitLost_Reported(t) ==
  /\ Alive /\ pc[t] = "publish"
  /\ lease' = [lease EXCEPT ![t] = IF @ = "lost" THEN @ ELSE "kept"]
  /\ EndRun(t, IF result[t] = "completed" /\ ~Withheld(t)
               THEN [status EXCEPT ![t] = "completed"] ELSE status)
  /\ UNCHANGED <<landed, settling, tries>>

\* The lease is kept, and a completion that was waiting becomes a failure.
CommitLost(t) ==
  /\ Alive /\ pc[t] = "publish"
  /\ lease' = [lease EXCEPT ![t] = IF @ = "lost" THEN @ ELSE "kept"]
  /\ EndRun(t, IF result[t] = "completed" /\ ~Withheld(t)
               THEN [status EXCEPT ![t] = "failed"] ELSE status)
  /\ UNCHANGED <<landed, settling, tries>>

\* complete() leaves a terminal row alone, and an UPDATE a row that is not there.
Completed(t) ==
  [status EXCEPT ![t] = IF @ \in Terminal \cup {"absent"} THEN @ ELSE "completed"]

\* Mutant of Settle: a completion that could not be written is not tried again.
Settle_Once(t) ==
  /\ Alive /\ pc[t] = "settle"
  /\ IF result[t] = "completed" /\ ~Withheld(t)
     THEN \/ EndRun(t, Completed(t)) /\ UNCHANGED <<settling, tries>>
          \/ /\ EndRun(t, status)
             /\ tries' = [tries EXCEPT ![t] = 1]
             /\ UNCHANGED settling
     ELSE EndRun(t, status) /\ UNCHANGED <<settling, tries>>
  /\ UNCHANGED diskVars

\* The one terminal, after publication. Storage may refuse the write: it is
\* tried again on a timer, which shutdown no longer grants.
Settle(t) ==
  /\ Alive /\ pc[t] = "settle"
  /\ IF result[t] = "completed" /\ ~Withheld(t)
     THEN \/ EndRun(t, Completed(t)) /\ UNCHANGED <<settling, tries>>
          \/ /\ EndRun(t, status)
             /\ tries' = [tries EXCEPT ![t] = 1]
             /\ settling' = IF Serving /\ MaxSettle > 0 THEN settling \cup {t} ELSE settling
     ELSE EndRun(t, status) /\ UNCHANGED <<settling, tries>>
  /\ UNCHANGED diskVars

SettleRetry(t) ==
  /\ Serving /\ t \in settling
  /\ \/ /\ settling' = settling \ {t}
        /\ status' = IF Withheld(t) THEN status ELSE Completed(t)
        /\ tries' = [tries EXCEPT ![t] = 0]
     \/ /\ ~Withheld(t)
        /\ tries' = [tries EXCEPT ![t] = @ + 1]
        /\ settling' = IF tries[t] >= MaxSettle THEN settling \ {t} ELSE settling
        /\ UNCHANGED status
  /\ aborted' = aborted \ {t}
  /\ UNCHANGED <<chat, parent, diskVars, phase, lockVars, hung, reaped, pc, result, procVars>>

-----------------------------------------------------------------------------
(* The watchdog of a run, and the two reapers.                             *)

\* No progress for the inactivity window, until the run is settling.
Watchdog(t) ==
  /\ Alive /\ pc[t] \in {"admit", "work", "envelope"} /\ ~Told(t)
  /\ hung' = hung \cup {t}
  /\ UNCHANGED <<rowVars, diskVars, phase, lockVars, aborted, reaped, pc, result,
                 settling, tries, procVars>>

\* A run already told to stop is not marked, but its row is failed all the same.
Reap(t, rows) ==
  /\ Serving /\ t \in InFlight
  /\ LateReap \/ ~Told(t)
  /\ reaped' = IF Told(t) THEN reaped ELSE reaped \cup {t}
  /\ hung'   = IF Told(t) THEN hung ELSE hung \cup {t}
  /\ \E s \in rows : status' = [status EXCEPT ![t] = s]
  /\ UNCHANGED <<chat, parent, landed, phase, lockVars, aborted, pc, result,
                 settling, tries, procVars>>

\* No sign of life for an hour. A pending task of the chat is the continuation.
ReapStuckTask(t) ==
  /\ status[t] = "executing"
  /\ Reap(t, IF \E u \in Tasks : chat[u] = chat[t] /\ status[u] = "pending"
             THEN {"failed"} ELSE FailRows(t))
  /\ UNCHANGED lease

\* The workspace directory vanished. The row's status is not looked at.
ReapLostWorkspace(t) ==
  /\ pc[t] = "work" /\ lease[t] \in {"task", "own"}
  /\ Reap(t, FailRows(t))
  /\ lease' = [lease EXCEPT ![t] = "lost"]

-----------------------------------------------------------------------------
(* Shutdown, crash and boot.                                               *)

\* shutdown() stops the timers and aborts what is in flight, once.
BeginShutdown ==
  /\ phase = "up" /\ stops < MaxStops
  /\ phase' = "draining"
  /\ stops' = stops + 1
  /\ hung' = hung \cup {t \in InFlight : ~Told(t)}
  /\ settling' = {}
  /\ UNCHANGED <<rowVars, diskVars, lockVars, aborted, reaped, pc, result, tries, mine>>

Volatile ==
  /\ queue' = {} /\ running' = 0 /\ active' = {} /\ paused' = {}
  /\ aborted' = {} /\ hung' = {} /\ reaped' = {} /\ settling' = {} /\ mine' = {}
  /\ pc' = [t \in Tasks |-> "idle"]
  /\ result' = [t \in Tasks |-> "none"]
  /\ tries' = [t \in Tasks |-> 0]
  /\ phase' = "down"

Registered == {t \in Tasks : lease[t] \in {"task", "own", "kept"}}

\* The workspaces still registered are committed, or kept on disk.
Disposed ==
  \E done \in SUBSET Registered :
    /\ lease' = [t \in Tasks |-> IF t \in done THEN "released"
                                 ELSE IF t \in Registered THEN "left" ELSE lease[t]]
    /\ landed' = [t \in Tasks |-> landed[t] \/ t \in done]

\* The drain ends, or its ten seconds do: workspaces are disposed of, what is
\* unfinished is blocked (a daemon task fails), the process exits.
Exit ==
  /\ phase = "draining"
  /\ Disposed
  /\ status' = [t \in Tasks |-> IF status[t] \notin Active THEN status[t]
                                ELSE IF Daemon(t) THEN "failed" ELSE "blocked"]
  /\ Volatile
  /\ UNCHANGED <<chat, parent, stops>>

\* Rows and workspaces stay as they are on disk.
Dies ==
  /\ stops < MaxStops /\ stops' = stops + 1
  /\ lease' = [t \in Tasks |-> IF t \in Registered THEN "left" ELSE lease[t]]
  /\ Volatile
  /\ UNCHANGED landed

Crash == Alive /\ Dies /\ UNCHANGED rowVars

\* The process dies in resumeTask between its two writes: the child's row is
\* saved, the row it continues is not retired yet.
ResumeTorn(t) ==
  /\ phase = "up" /\ status[t] = "paused"
  /\ \E c \in Tasks, S \in Starts([Now EXCEPT !.paused = @ \ {chat[t]}]) :
       /\ Fresh(c)
       /\ LET open == After([Now EXCEPT !.paused = @ \ {chat[t]}], S)
          IN ~Superseded(t, open.status) /\ status' = [open.status EXCEPT ![c] = "pending"]
       /\ chat' = [chat EXCEPT ![c] = chat[t]]
       /\ parent' = [parent EXCEPT ![c] = t]
  /\ Dies

Boot ==
  /\ phase = "down"
  /\ phase' = "booting"
  /\ UNCHANGED <<rowVars, diskVars, lockVars, runVars, procVars>>

\* Mutant of Recover: a paused row is paused again, continued or not.
Recover_Repauses ==
  /\ phase = "booting"
  /\ status' = [t \in Tasks |-> IF t \in mine \/ status[t] \notin Active THEN status[t]
                                ELSE IF Daemon(t) THEN "failed" ELSE "paused"]
  /\ phase' = "up"
  /\ mine' = {}
  /\ UNCHANGED <<chat, parent, diskVars, lockVars, runVars, stops>>

\* recoverOnStartup: what this process submitted is live and left alone.
Recover ==
  /\ phase = "booting"
  /\ LET found   == {t \in Tasks \ mine : status[t] \in Active}
         retired == {t \in found : ~Daemon(t) /\ status[t] = "paused" /\ Superseded(t, status)}
     IN status' = [t \in Tasks |-> IF t \notin found THEN status[t]
                                  ELSE IF t \in retired THEN "cancelled"
                                  ELSE IF Daemon(t) THEN "failed" ELSE "paused"]
  /\ phase' = "up"
  /\ mine' = {}
  /\ UNCHANGED <<chat, parent, diskVars, lockVars, runVars, stops>>

-----------------------------------------------------------------------------
Init ==
  /\ status = [t \in Tasks |-> "absent"] /\ chat = [t \in Tasks |-> NoChat]
  /\ parent = [t \in Tasks |-> NoTask] 
  /\ lease = [t \in Tasks |-> "none"] /\ landed = [t \in Tasks |-> FALSE]
  /\ phase = "up" /\ queue = {} /\ running = 0 /\ active = {} /\ paused = {}
  /\ aborted = {} /\ hung = {} /\ reaped = {} /\ settling = {} /\ mine = {}
  /\ pc = [t \in Tasks |-> "idle"] /\ result = [t \in Tasks |-> "none"]
  /\ tries = [t \in Tasks |-> 0] /\ stops = 0

Person ==
  \/ \E t \in Tasks, c \in Chats : Submit(t, c)
  \/ \E t \in Tasks : Cancel(t) \/ PauseTask(t) \/ ResumeTask(t) \/ RetryTask(t)

\* The steps of a run that the process takes by itself.
Run(t) ==
  \/ StartWork(t) \/ WorkEnds(t) \/ EnvelopeCommit(t)
  \/ CommitLands(t) \/ CommitLost(t) \/ Settle(t)

Guard(t) == Watchdog(t) \/ ReapStuckTask(t) \/ ReapLostWorkspace(t)

Process ==
  \/ BeginShutdown \/ Exit \/ Crash \/ Boot \/ Recover
  \/ \E t \in Tasks : ResumeTorn(t)

Next == Person \/ Process \/ \E t \in Tasks : Run(t) \/ SettleRetry(t) \/ Guard(t)

Spec == Init /\ [][Next]_vars

(***************************************************************************)
(* Fairness: the event loop runs what is ready. A run gets on, because its *)
(* watchdog stops one that does not; a settle timer fires; a boot reaches  *)
(* recovery; a drain has a deadline. Nothing is assumed of persons, of     *)
(* reapers, or of crashes.                                                 *)
(***************************************************************************)
Fairness ==
  /\ \A t \in Tasks : WF_vars(Run(t)) /\ WF_vars(SettleRetry(t))
  /\ WF_vars(Recover) /\ WF_vars(Exit)

FairSpec == Spec /\ Fairness

-----------------------------------------------------------------------------
(* Properties.                                                             *)

\* Two runs never share a conversation, the locks are exactly the conversations
\* of the runs, the slot counter counts them and never passes the limit
\* (processQueue and its .finally, at every exit of a run).
ConversationExclusive ==
  /\ \A t, u \in InFlight : t # u => chat[t] # chat[u]
  /\ active = {chat[t] : t \in InFlight}
  /\ running = Cardinality(InFlight)
  /\ running <= Limit

\* A conversation is locked by a pause only while a row of it is paused, so
\* that a resume or a cancel can still open it (pauseTask, cancel, resumeTask).
NoOrphanPauseLock ==
  \A c \in paused : \E t \in Tasks : chat[t] = c /\ status[t] = "paused"

\* A run nobody stopped works on an executing row, a queued task nobody
\* cancelled is pending, and a completion about to be reported meets a row that
\* still takes it: complete() never drops an answer silently.
RunsMatchRows ==
  /\ \A t \in queue \ aborted : status[t] = "pending"
  /\ \A t \in Tasks : pc[t] \in {"admit", "work", "envelope"} /\ ~Told(t)
                        => status[t] = "executing"
  /\ \A t \in Tasks : (result[t] = "completed" \/ t \in settling) /\ ~Withheld(t)
                        => status[t] = "executing"

\* Nothing is forgotten while the process serves: a pending row is queued, an
\* executing one has its run, or a settle retry, or used them all up.
NoLostTask ==
  phase = "up" =>
    \A t \in Tasks :
      /\ status[t] = "pending" => t \in queue
      /\ status[t] = "executing" =>
           t \in InFlight \cup settling \/ tries[t] = MaxSettle + 1

\* A completed task's files are in the project and its workspace is not still
\* waiting to be published; a released workspace was published first.
CompletedWorkLanded ==
  \A t \in Tasks :
    /\ status[t] = "completed" => landed[t] /\ lease[t] \in {"none", "released"}
    /\ lease[t] = "released" => landed[t]

\* While a mission is parked no direct continuation of it lives or completed: a
\* resume retires the row it continues, and so does the boot after a resume
\* that died half-way (retireResumedParent, retireIfSuperseded).
ParkedHasNoContinuation ==
  phase = "up" =>
    \A p, d \in Tasks :
      status[p] = "paused" /\ parent[d] = p => status[d] \notin Active \cup {"completed"}

\* A daemon task never starts while a person's task is pending or executing,
\* whichever handler moved the queue (findNextRunnableIndex). The continuation
\* a resume or a retry submits does not count in the step that submits it: the
\* resume moves the queue once before.
DaemonYields ==
  [][\A t \in Tasks :
       pc[t] = "idle" /\ pc'[t] = "admit" /\ Daemon(t)' =>
         ~\E u \in Tasks : /\ status'[u] \in Foreground /\ ~Daemon(u)'
                            /\ (status[u] # "absent" \/ parent'[u] = NoTask)]_vars

\* Within a conversation tasks start in the order they were submitted: when one
\* starts, no older one of its conversation is left waiting.
ConversationFIFO ==
  [][\A t \in Tasks :
       pc[t] = "idle" /\ pc'[t] = "admit" =>
         ~\E u \in queue' \ aborted' : u < t /\ chat'[u] = chat'[t]]_vars

\* The promise to whoever submits a task: see TaskService.
Service == INSTANCE TaskService WITH busy <- InFlight

\* The queue, the locks, the run's steps and the restarts keep that promise.
ImplementsService == Service!ServiceSpec

\* A run whose shutdown began is told to stop: "abort in-flight executions
\* FIRST and give them a bounded window to settle" (shutdown).
DrainingRunsAreStopped ==
  phase = "draining" => \A t \in InFlight : Told(t)

\* A row a person or the system cancelled stays cancelled.
StopIsFinal ==
  [][\A t \in Tasks : status[t] = "cancelled" => status'[t] = "cancelled"]_vars

\* A person's task that waits leaves the queue, unless its conversation is
\* paused or the process stops serving: nothing else may hold it for ever.
ForegroundServed ==
  \A t \in Tasks :
    t \in queue /\ ~Daemon(t) ~>
      t \notin queue \/ chat[t] \in paused \/ phase # "up"

\* A run ends: its row does not stay executing while the process serves,
\* except when every attempt to record its completion failed.
ExecutingEnds ==
  \A t \in Tasks :
    status[t] = "executing" ~>
      status[t] # "executing" \/ tries[t] > MaxSettle \/ phase # "up"

=============================================================================
