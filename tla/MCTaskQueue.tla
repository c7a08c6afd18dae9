---------------------------- MODULE MCTaskQueue ----------------------------
(* TaskQueue on small instances, and its queue scan against a transcription *)
(* of the loop in processQueue.                                             *)
EXTENDS TaskQueue

\* findNextRunnableIndex: the entry it returns, or NoTask.
First(S) == CHOOSE k \in S : \A j \in S : k <= j

NextRunnable(w) ==
  LET open  == {k \in w.queue : w.chat[k] \notin w.paused \cup w.active}
      ahead == (w.queue \cap w.aborted) \cup {k \in open : w.chat[k] \notin DaemonChats}
  IN CASE ahead # {}                     -> First(ahead)
       [] open # {} /\ ~Deferred(w)      -> First(open)
       [] OTHER                          -> NoTask

\* The while loop of processQueue, one entry at a time.
RECURSIVE Loop(_)
Loop(w) ==
  LET k == NextRunnable(w)
  IN IF w.running >= Limit \/ k = NoTask THEN w
     ELSE IF k \in w.aborted THEN Loop([w EXCEPT !.queue = @ \ {k}, !.aborted = @ \ {k}])
     ELSE Loop([w EXCEPT !.queue = @ \ {k}, !.running = @ + 1,
                         !.active = @ \cup {w.chat[k]},
                         !.status[k] = "executing", !.pc[k] = "admit"])

\* The states in which the handlers call processQueue.
Views ==
  {Now}
    \cup {[Now EXCEPT !.paused = @ \ {c}] : c \in Chats}
    \cup {[Now EXCEPT !.running = @ - 1, !.active = @ \ {chat[t]},
                      !.pc[t] = "idle", !.status[t] = s] :
            t \in InFlight, s \in {"completed", "failed"}}

\* What Starts and Skips say a scan does is what the loop does, entry by entry
\* (processQueue, findNextRunnableIndex).
StartsMatchLoop ==
  \A w \in Views : {After(w, S) : S \in Starts(w)} = {Loop(w)}

=============================================================================
