-------------------------- MODULE TaskRows_proofs --------------------------
(***************************************************************************)
(* For every number of tasks, conversations, slots, retries and restarts:  *)
(* the rows of TaskQueue agree with the queue, the runs, the workspaces    *)
(* and the locks. No task is forgotten, no completion is reported before   *)
(* its files are in the project, starts are in turn, and the whole         *)
(* implements TaskService.                                                 *)
(*                                                                         *)
(* Every handler writes a view of the state and lets processQueue act on   *)
(* it. Good says of a view that it is typed, and that the locks and the    *)
(* slot counter are those of the runs in flight; one lemma shows that      *)
(* processQueue keeps it, and each handler only has to show that the view  *)
(* it hands over is good.                                                  *)
(*                                                                         *)
(* Row is the invariant, said of one task in a view of the state: every    *)
(* conjunct relates the row of the task to where its run, its workspace,   *)
(* its result, its retry and its stops are. A handler only has to show     *)
(* that the view it hands over has sound rows; PumpRows does the rest.     *)
(* Change then says what a step may do to one row, and the order of the    *)
(* rows, the locks of the pauses and the refinement follow from it, and    *)
(* Lineage, which keeps a parked mission without a continuation.           *)
(*                                                                         *)
(* Three theorems assume LateReap = FALSE: a reaper that meets a stopped   *)
(* run which is still unwinding breaks them, as MCTaskLateReap shows.      *)
(***************************************************************************)
EXTENDS TaskQueue, TLAPS, FiniteSetTheorems

PCs == {"idle", "admit", "work", "envelope", "publish", "settle"}

View == [queue : SUBSET Tasks, running : Nat, active : SUBSET Chats,
         paused : SUBSET Chats, aborted : SUBSET Tasks,
         status : [Tasks -> Statuses], chat : [Tasks -> Chats \cup {NoChat}],
         pc : [Tasks -> PCs]]

Busy(w) == {t \in Tasks : w.pc[t] # "idle"}

\* The locks and the counter of a view are those of its runs.
Locks(w) ==
  /\ \A t, u \in Busy(w) : t # u => w.chat[t] # w.chat[u]
  /\ w.active = {w.chat[t] : t \in Busy(w)}
  /\ w.running = Cardinality(Busy(w))
  /\ w.running <= Limit

\* A queued task has no run, and only saved rows are queued or run.
Queued(w) ==
  /\ w.queue \cap Busy(w) = {}
  /\ \A t \in w.queue \cup Busy(w) : w.status[t] # "absent"
  /\ \A t \in Tasks : w.status[t] # "absent" => w.chat[t] \in Chats

Good(w) == w \in View /\ Locks(w) /\ Queued(w)

\* The variables no view holds are typed.
RestTyped ==
  /\ parent \in [Tasks -> Tasks \cup {NoTask}]
  /\ lease \in [Tasks -> Leases]
  /\ landed \in [Tasks -> BOOLEAN]
  /\ phase \in {"up", "draining", "down", "booting"}
  /\ hung \subseteq Tasks /\ reaped \subseteq Tasks
  /\ result \in [Tasks -> Results]
  /\ settling \subseteq Tasks
  /\ tries \in [Tasks -> Nat]
  /\ mine \subseteq Tasks
  /\ stops \in Nat

IInv == RestTyped /\ Good(Now)

-----------------------------------------------------------------------------
(* Sets of tasks are finite.                                               *)

\* The tasks, and every set of them, can be counted.
LEMMA TasksFinite == \A S \in SUBSET Tasks : IsFiniteSet(S) /\ Cardinality(S) \in Nat
<1>1. MaxTasks \in Int /\ IsFiniteSet(1..MaxTasks)
  BY QueueAssumption, FS_Interval
<1> QED
  BY <1>1, FS_Subset, FS_CardinalityType DEF Tasks

\* Adding tasks that are not there adds their number.
LEMMA CountUnion ==
  ASSUME NEW A \in SUBSET Tasks, NEW B \in SUBSET Tasks, A \cap B = {}
  PROVE  Cardinality(A \cup B) = Cardinality(A) + Cardinality(B)
<1>1. IsFiniteSet(A) /\ IsFiniteSet(B) /\ Cardinality(A) \in Nat /\ Cardinality(B) \in Nat
  BY TasksFinite
<1>2. Cardinality(A \cup B) = Cardinality(A) + Cardinality(B) - Cardinality(A \cap B)
  BY <1>1, FS_Union
<1>3. Cardinality(A \cap B) = 0
  BY FS_EmptySet
<1> QED
  BY <1>1, <1>2, <1>3

\* Removing a task that is there removes one.
LEMMA CountRemove ==
  ASSUME NEW A \in SUBSET Tasks, NEW t \in A
  PROVE  /\ Cardinality(A \ {t}) = Cardinality(A) - 1
         /\ Cardinality(A) \in Nat /\ Cardinality(A) - 1 \in Nat
<1>1. IsFiniteSet(A) /\ Cardinality(A) \in Nat
  BY TasksFinite
<1>2. Cardinality(A \ {t}) = Cardinality(A) - 1
  BY <1>1, FS_RemoveElement
<1>3. Cardinality(A \ {t}) \in Nat
  BY TasksFinite
<1> QED
  BY <1>1, <1>2, <1>3

-----------------------------------------------------------------------------
(* processQueue.                                                           *)

\* What one scan starts: queued tasks that were not cancelled, in conversations
\* that neither run nor are paused, one per conversation, as slots are free.
LEMMA StartsSound ==
  ASSUME NEW w \in View, NEW S \in Starts(w)
  PROVE  /\ S \subseteq w.queue
         /\ \A t \in S : w.chat[t] \notin w.active
         /\ \A t, u \in S : t # u => w.chat[t] # w.chat[u]
         /\ w.running + Cardinality(S) <= Limit \/ S = {}
<1>1. S \subseteq Heads(w) /\ (w.running + Cardinality(S) <= Limit \/ S = {})
  BY DEF Starts
<1>2. \A t \in Heads(w) : t \in w.queue /\ w.chat[t] \notin w.active
  BY DEF Heads, Runnable
<1>3. ASSUME NEW t \in Heads(w), NEW u \in Heads(w), w.chat[t] = w.chat[u]
      PROVE  t = u
  <2>1. t \in Nat /\ u \in Nat
    BY <1>2, QueueAssumption DEF View, Tasks
  <2>2. t <= u /\ u <= t
    BY <1>3 DEF Heads
  <2> QED
    BY <2>1, <2>2
<1> QED
  BY <1>1, <1>2, <1>3

\* A scan keeps the locks and the counter in step with the runs.
LEMMA AfterGood ==
  ASSUME NEW w, Good(w), NEW S \in Starts(w)
  PROVE  Good(After(w, S))
<1> DEFINE v == After(w, S)
<1>0. w \in View
  BY DEF Good
<1>1. /\ S \subseteq w.queue
      /\ \A t \in S : w.chat[t] \notin w.active
      /\ \A t, u \in S : t # u => w.chat[t] # w.chat[u]
      /\ w.running + Cardinality(S) <= Limit \/ S = {}
  BY <1>0, StartsSound
<1>2. S \in SUBSET Tasks /\ Busy(w) \in SUBSET Tasks /\ Busy(w) \cap S = {}
  BY <1>0, <1>1 DEF Good, Queued, View, Busy
<1>3. /\ v.queue = (w.queue \ S) \ Skips(w, S)
      /\ v.running = w.running + Cardinality(S)
      /\ v.active = w.active \cup {w.chat[t] : t \in S}
      /\ v.paused = w.paused /\ v.aborted = w.aborted \ Skips(w, S)
      /\ v.status = [t \in Tasks |-> IF t \in S THEN "executing" ELSE w.status[t]]
      /\ v.pc = [t \in Tasks |-> IF t \in S THEN "admit" ELSE w.pc[t]]
      /\ v.chat = w.chat
  BY DEF After
<1>4. Busy(v) = Busy(w) \cup S
  BY <1>2, <1>3 DEF Busy
<1>5. Cardinality(S) \in Nat /\ w.running \in Nat
  BY <1>0, <1>2, TasksFinite DEF View
<1>6. \A t \in S : w.chat[t] \in Chats
  BY <1>1, <1>2 DEF Good, Queued
<1>7. v \in View
  <2>1. v.queue \in SUBSET Tasks /\ v.aborted \in SUBSET Tasks /\ v.paused \in SUBSET Chats
    BY <1>0, <1>3 DEF View
  <2>2. v.running \in Nat /\ v.active \in SUBSET Chats
    BY <1>0, <1>3, <1>5, <1>6 DEF View
  <2>3. v.status \in [Tasks -> Statuses] /\ v.pc \in [Tasks -> PCs]
    BY <1>0, <1>3 DEF View, Statuses, PCs, Active, Foreground
  <2>4. v.chat \in [Tasks -> Chats \cup {NoChat}]
    BY <1>0, <1>3 DEF View
  <2> QED
    BY <2>1, <2>2, <2>3, <2>4 DEF View, After
<1>8. Locks(v)
  <2>1. \A t, u \in Busy(v) : t # u => v.chat[t] # v.chat[u]
    BY <1>1, <1>3, <1>4 DEF Good, Locks
  <2>2. v.active = {v.chat[t] : t \in Busy(v)}
    BY <1>3, <1>4 DEF Good, Locks
  <2>3. v.running = Cardinality(Busy(v))
    BY <1>2, <1>3, <1>4, CountUnion DEF Good, Locks
  <2>4. v.running <= Limit
    <3>1. CASE S = {}
      BY <3>1, <1>3, <1>5, FS_EmptySet DEF Good, Locks
    <3>2. CASE S # {}
      BY <3>2, <1>1, <1>3
    <3> QED
      BY <3>1, <3>2
  <2> QED
    BY <2>1, <2>2, <2>3, <2>4 DEF Locks
<1>9. Queued(v)
  <2>1. v.queue \cap Busy(v) = {}
    BY <1>3, <1>4 DEF Good, Queued
  <2>2. \A t \in v.queue \cup Busy(v) : v.status[t] # "absent"
    BY <1>2, <1>3, <1>4 DEF Good, Queued, Busy, View
  <2>3. \A t \in Tasks : v.status[t] # "absent" => v.chat[t] \in Chats
    BY <1>3, <1>6 DEF Good, Queued
  <2> QED
    BY <2>1, <2>2, <2>3 DEF Queued
<1> QED
  BY <1>7, <1>8, <1>9 DEF Good

\* A step that writes a good view leads to a good state.
LEMMA BecomesGood ==
  ASSUME NEW w, Good(w), Becomes(w)
  PROVE  Good(Now)'
<1>1. Now' = w
  BY DEF Becomes, Now, Good, View
<1> QED
  BY <1>1

\* ... and so does one that hands a good view to processQueue.
LEMMA ProcessQueueGood ==
  ASSUME NEW w, Good(w), ProcessQueue(w)
  PROVE  Good(Now)'
<1>1. PICK S \in Starts(w) : Becomes(After(w, S))
  BY DEF ProcessQueue
<1> QED
  BY <1>1, AfterGood, BecomesGood

-----------------------------------------------------------------------------
(* The views the handlers hand over.                                       *)

\* A new status for a saved row.
LEMMA StatusGood ==
  ASSUME NEW w, Good(w), NEW t \in Tasks, w.status[t] # "absent",
         NEW s \in Statuses \ {"absent"}
  PROVE  Good([w EXCEPT !.status[t] = s])
<1> DEFINE v == [w EXCEPT !.status[t] = s]
<1>1. w \in View
  BY DEF Good
<1>2. /\ v.queue = w.queue /\ v.running = w.running /\ v.active = w.active
      /\ v.paused = w.paused /\ v.aborted = w.aborted
      /\ v.chat = w.chat /\ v.pc = w.pc
      /\ v.status = [w.status EXCEPT ![t] = s]
  BY <1>1 DEF View
<1>3. v \in View
  BY <1>1 DEF View
<1>4. Locks(v)
  BY <1>2 DEF Good, Locks, Busy
<1>5. Queued(v)
  BY <1>1, <1>2 DEF Good, Queued, Busy, View
<1> QED
  BY <1>3, <1>4, <1>5 DEF Good

\* Another set of paused conversations.
LEMMA PausedGood ==
  ASSUME NEW w, Good(w), NEW P \in SUBSET Chats
  PROVE  Good([w EXCEPT !.paused = P])
<1> DEFINE v == [w EXCEPT !.paused = P]
<1>1. w \in View
  BY DEF Good
<1>2. /\ v.queue = w.queue /\ v.running = w.running /\ v.active = w.active
      /\ v.aborted = w.aborted /\ v.chat = w.chat /\ v.pc = w.pc
      /\ v.status = w.status
  BY <1>1 DEF View
<1>3. v \in View
  BY <1>1 DEF View
<1>4. Locks(v) /\ Queued(v)
  BY <1>2 DEF Good, Locks, Queued, Busy
<1> QED
  BY <1>3, <1>4 DEF Good

\* Another set of aborted tasks.
LEMMA AbortedGood ==
  ASSUME NEW w, Good(w), NEW A \in SUBSET Tasks
  PROVE  Good([w EXCEPT !.aborted = A])
<1> DEFINE v == [w EXCEPT !.aborted = A]
<1>1. w \in View
  BY DEF Good
<1>2. /\ v.queue = w.queue /\ v.running = w.running /\ v.active = w.active
      /\ v.chat = w.chat /\ v.pc = w.pc /\ v.status = w.status
  BY <1>1 DEF View
<1>3. v \in View
  BY <1>1 DEF View
<1>4. Locks(v) /\ Queued(v)
  BY <1>2 DEF Good, Locks, Queued, Busy
<1> QED
  BY <1>3, <1>4 DEF Good

\* A new row, in the queue or refused by it.
LEMMA EnqueueGood ==
  ASSUME NEW w, Good(w), NEW t \in Tasks, w.status[t] = "absent", NEW c \in Chats
  PROVE  Good(Enqueue(w, t, c))
<1> DEFINE v == Enqueue(w, t, c)
<1>1. w \in View
  BY DEF Good
<1>2. t \notin w.queue \cup Busy(w)
  BY DEF Good, Queued
<1>3. /\ v.running = w.running /\ v.active = w.active /\ v.pc = w.pc
      /\ v.chat = [w.chat EXCEPT ![t] = c]
      /\ v.queue \in {w.queue, w.queue \cup {t}}
      /\ \E s \in {"failed", "pending"} : v.status = [w.status EXCEPT ![t] = s]
  BY <1>1 DEF Enqueue, View
<1>4. v \in View
  BY <1>1 DEF Enqueue, View, Statuses, Active, Foreground, Terminal
<1>5. Busy(v) = Busy(w) /\ Busy(w) \subseteq Tasks
  BY <1>3 DEF Busy
<1>6. \A u \in Busy(w) : v.chat[u] = w.chat[u]
  BY <1>1, <1>2, <1>3, <1>5 DEF View
<1>7. Locks(v)
  BY <1>3, <1>5, <1>6 DEF Good, Locks
<1>8. Queued(v)
  <2>1. v.queue \cap Busy(v) = {}
    BY <1>2, <1>3, <1>5 DEF Good, Queued
  <2>2. \A u \in Tasks : v.status[u] # "absent" => v.chat[u] \in Chats
    BY <1>1, <1>3 DEF Good, Queued, View
  <2>3. \A u \in v.queue \cup Busy(v) : v.status[u] # "absent"
    BY <1>1, <1>3, <1>5 DEF Good, Queued, View
  <2> QED
    BY <2>1, <2>2, <2>3 DEF Queued
<1> QED
  BY <1>4, <1>7, <1>8 DEF Good

\* submit, on whatever view it meets.
LEMMA SubmittedGood ==
  ASSUME NEW w, Good(w), NEW t \in Tasks, w.status[t] = "absent", NEW c \in Chats,
         Submitted(w, t, c)
  PROVE  Good(Now)'
<1>1. Good(Enqueue(w, t, c))
  BY EnqueueGood
<1>2. Becomes(Enqueue(w, t, c)) \/ ProcessQueue(Enqueue(w, t, c))
  BY DEF Submitted
<1> QED
  BY <1>1, <1>2, BecomesGood, ProcessQueueGood

\* A run that ends gives back its slot and its conversation, and only those.
LEMMA EndGood ==
  ASSUME NEW w, Good(w), NEW t \in Busy(w), NEW st \in [Tasks -> Statuses],
         \A u \in Tasks : st[u] = "absent" <=> w.status[u] = "absent"
  PROVE  Good([w EXCEPT !.status = st, !.pc[t] = "idle", !.running = @ - 1,
                        !.active = @ \ {w.chat[t]}, !.aborted = @ \ {t}])
<1> DEFINE v == [w EXCEPT !.status = st, !.pc[t] = "idle", !.running = @ - 1,
                          !.active = @ \ {w.chat[t]}, !.aborted = @ \ {t}]
<1>1. w \in View /\ t \in Tasks
  BY DEF Good, Busy
<1>2. /\ v.queue = w.queue /\ v.running = w.running - 1
      /\ v.active = w.active \ {w.chat[t]}
      /\ v.paused = w.paused /\ v.aborted = w.aborted \ {t}
      /\ v.status = st /\ v.chat = w.chat
      /\ v.pc = [w.pc EXCEPT ![t] = "idle"]
  BY <1>1 DEF View
<1>3. Busy(v) = Busy(w) \ {t} /\ Busy(w) \in SUBSET Tasks
  BY <1>1, <1>2 DEF Busy, View
<1>4. /\ Cardinality(Busy(v)) = Cardinality(Busy(w)) - 1
      /\ Cardinality(Busy(w)) \in Nat /\ Cardinality(Busy(w)) - 1 \in Nat
  BY <1>3, CountRemove
<1>5. v \in View
  BY <1>1, <1>4 DEF View, PCs, Good, Locks
<1>6. Locks(v)
  <2>1. /\ \A a, b \in Busy(w) : a # b => w.chat[a] # w.chat[b]
        /\ w.active = {w.chat[u] : u \in Busy(w)}
        /\ w.running = Cardinality(Busy(w)) /\ w.running <= Limit
    BY DEF Good, Locks
  <2>2. v.active = {w.chat[u] : u \in Busy(w) \ {t}}
    BY <1>2, <2>1
  <2>3. v.running = Cardinality(Busy(v)) /\ v.running <= Limit
    BY <1>2, <1>4, <2>1, QueueAssumption
  <2>4. \A a, b \in Busy(v) : a # b => v.chat[a] # v.chat[b]
    BY <1>2, <1>3, <2>1
  <2> QED
    BY <1>2, <1>3, <2>2, <2>3, <2>4 DEF Locks
<1>7. Queued(v)
  BY <1>1, <1>2, <1>3 DEF Good, Queued, View
<1> QED
  BY <1>5, <1>6, <1>7 DEF Good

\* A step that neither starts nor ends a run, nor saves a row, nor moves the
\* queue, keeps the state good.
LEMMA KeepGood ==
  ASSUME Good(Now),
         queue' = queue, running' = running, active' = active, chat' = chat,
         paused' \in SUBSET Chats, aborted' \in SUBSET Tasks,
         status' \in [Tasks -> Statuses], pc' \in [Tasks -> PCs],
         \A t \in Tasks : /\ status'[t] = "absent" <=> status[t] = "absent"
                          /\ pc'[t] = "idle" <=> pc[t] = "idle"
  PROVE  Good(Now)'
<1>1. Busy(Now)' = Busy(Now)
  BY DEF Busy, Now
<1>2. Locks(Now)'
  <2>1. /\ \A t, u \in Busy(Now) : t # u => chat[t] # chat[u]
        /\ active = {chat[t] : t \in Busy(Now)}
        /\ running = Cardinality(Busy(Now)) /\ running <= Limit
    BY DEF Good, Locks, Now
  <2>2. /\ \A t, u \in Busy(Now)' : t # u => chat'[t] # chat'[u]
        /\ active' = {chat'[t] : t \in Busy(Now)'}
        /\ running' = Cardinality(Busy(Now)') /\ running' <= Limit
    BY <1>1, <2>1
  <2> QED
    BY <2>2 DEF Locks, Now
<1>3. Queued(Now)'
  <2>1. /\ queue \cap Busy(Now) = {}
        /\ \A t \in queue \cup Busy(Now) : t \in Tasks /\ status[t] # "absent"
        /\ \A t \in Tasks : status[t] # "absent" => chat[t] \in Chats
    BY DEF Good, Queued, Now, Busy, View
  <2>2. /\ queue' \cap Busy(Now)' = {}
        /\ \A t \in queue' \cup Busy(Now)' : status'[t] # "absent"
        /\ \A t \in Tasks : status'[t] # "absent" => chat'[t] \in Chats
    BY <1>1, <2>1
  <2> QED
    BY <2>2 DEF Queued, Now
<1>4. (Now \in View)'
  BY DEF Good, Now, View
<1> QED
  BY <1>2, <1>3, <1>4 DEF Good

-----------------------------------------------------------------------------
(* The steps.                                                              *)

\* What a good state says of each variable.
LEMMA Unfold ==
  ASSUME Good(Now)
  PROVE  /\ queue \in SUBSET Tasks /\ running \in Nat /\ active \in SUBSET Chats
         /\ paused \in SUBSET Chats /\ aborted \in SUBSET Tasks
         /\ status \in [Tasks -> Statuses] /\ chat \in [Tasks -> Chats \cup {NoChat}]
         /\ pc \in [Tasks -> PCs]
         /\ \A t \in Tasks : status[t] # "absent" => chat[t] \in Chats
         /\ InFlight = Busy(Now)
         /\ \A t \in queue \cup InFlight : t \in Tasks /\ status[t] # "absent"
  BY DEF Good, Now, View, Queued, Busy, InFlight

\* The process forgets everything but the rows.
LEMMA VolatileGood ==
  ASSUME Volatile, status' \in [Tasks -> Statuses],
         chat' \in [Tasks -> Chats \cup {NoChat}],
         \A t \in Tasks : status'[t] # "absent" => chat'[t] \in Chats
  PROVE  Good(Now)'
<1>1. Busy(Now)' = {}
  BY DEF Volatile, Busy, Now
<1>2. (Now \in View)'
  BY DEF Volatile, Now, View, PCs
<1>3. Locks(Now)'
  <2>1. active' = {chat'[t] : t \in {}} /\ running' = Cardinality({}) /\ running' <= Limit
    BY FS_EmptySet, QueueAssumption DEF Volatile
  <2> QED
    BY <1>1, <2>1 DEF Locks, Now
<1>4. Queued(Now)'
  BY <1>1 DEF Queued, Now, Volatile
<1> QED
  BY <1>2, <1>3, <1>4 DEF Good

\* ... and what it forgets is reset to typed values.
LEMMA VolatileRest ==
  ASSUME RestTyped, Volatile,
         parent' \in [Tasks -> Tasks \cup {NoTask}], lease' \in [Tasks -> Leases],
         landed' \in [Tasks -> BOOLEAN], stops' \in Nat
  PROVE  RestTyped'
  BY DEF RestTyped, Volatile, Results

\* Before anything is submitted nothing runs.
LEMMA InitIInv == Init => IInv
<1> SUFFICES ASSUME Init PROVE IInv
  OBVIOUS
<1>1. RestTyped
  BY DEF Init, RestTyped, Leases, Results
<1>2. Busy(Now) = {}
  BY DEF Init, Busy, Now
<1>3. Now \in View
  BY DEF Init, Now, View, PCs, Statuses
<1>4. Locks(Now)
  <2>1. active = {chat[t] : t \in {}} /\ running = Cardinality({}) /\ running <= Limit
    BY FS_EmptySet, QueueAssumption DEF Init
  <2> QED
    BY <1>2, <2>1 DEF Locks, Now
<1>5. Queued(Now)
  BY <1>2 DEF Queued, Now, Init
<1> QED
  BY <1>1, <1>3, <1>4, <1>5 DEF IInv, Good

\* A submission.
LEMMA SubmitStep ==
  ASSUME IInv, NEW t \in Tasks, NEW c \in Chats, Submit(t, c)
  PROVE  IInv'
<1>1. Good(Now)'
  <2>1. Good(Now) /\ Now.status[t] = "absent" /\ Submitted(Now, t, c)
    BY DEF IInv, Submit, Fresh, Now
  <2> QED
    BY <2>1, SubmittedGood
<1>2. RestTyped'
  BY DEF IInv, RestTyped, Submit, diskVars
<1> QED
  BY <1>1, <1>2 DEF IInv

\* A cancellation; a paused row's opens its conversation and moves the queue.
LEMMA CancelStep ==
  ASSUME IInv, NEW t \in Tasks, Cancel(t)
  PROVE  IInv'
<1> DEFINE struck == [Now EXCEPT !.status[t] = "cancelled"]
           A == IF status[t] \in Foreground THEN aborted \cup Abortable(t) ELSE aborted
           gone == [Now EXCEPT !.status[t] = "cancelled",
                               !.aborted = IF status[t] \in Foreground
                                           THEN @ \cup Abortable(t) ELSE @]
           P == paused \ {chat[t]}
<1>1. Good(Now) /\ Now.status[t] # "absent"
  BY DEF IInv, Cancel, Now, Active, Foreground
<1>2. A \in SUBSET Tasks /\ P \in SUBSET Chats
  BY <1>1, Unfold DEF Abortable
<1>3. Good(struck)
  BY <1>1, StatusGood DEF Statuses, Terminal
<1>4. Good([struck EXCEPT !.aborted = A])
  BY <1>2, <1>3, AbortedGood
<1>5. [struck EXCEPT !.aborted = A] = gone
  BY DEF Now
<1>6. Good(gone) /\ Good([gone EXCEPT !.paused = P])
  BY <1>2, <1>4, <1>5, PausedGood
<1>7. [gone EXCEPT !.paused = @ \ {chat[t]}] = [gone EXCEPT !.paused = P]
  BY DEF Now
<1>8. Good(Now)'
  <2>1. CASE status[t] = "paused"
    <3>1. ProcessQueue([gone EXCEPT !.paused = @ \ {chat[t]}])
      BY <2>1 DEF Cancel
    <3> QED
      BY <3>1, <1>6, <1>7, ProcessQueueGood
  <2>2. CASE status[t] # "paused"
    <3>1. Becomes(gone)
      BY <2>2 DEF Cancel
    <3> QED
      BY <3>1, <1>6, BecomesGood
  <2> QED
    BY <2>1, <2>2
<1>9. RestTyped'
  BY DEF IInv, RestTyped, Cancel, diskVars, procVars
<1> QED
  BY <1>8, <1>9 DEF IInv

\* A pause.
LEMMA PauseStep ==
  ASSUME IInv, NEW t \in Tasks, PauseTask(t)
  PROVE  IInv'
<1>1. Good(Now)
  BY DEF IInv
<1>2. Good(Now)'
  <2>1. chat[t] \in Chats
    BY <1>1, Unfold DEF PauseTask
  <2> QED
    BY <1>1, <2>1, Unfold, KeepGood DEF PauseTask, Abortable, Statuses, Active
<1>3. RestTyped'
  BY DEF IInv, RestTyped, PauseTask, diskVars, procVars
<1> QED
  BY <1>2, <1>3 DEF IInv

\* A retry.
LEMMA RetryStep ==
  ASSUME IInv, NEW t \in Tasks, RetryTask(t)
  PROVE  IInv'
<1>1. PICK c \in Tasks : /\ Fresh(c) /\ Submitted(Now, c, chat[t])
                         /\ parent' = [parent EXCEPT ![c] = t]
  BY DEF RetryTask
<1>2. Good(Now)'
  <2>1. Good(Now) /\ Now.status[c] = "absent"
    BY <1>1 DEF IInv, Fresh, Now
  <2>2. chat[t] \in Chats
    BY <2>1, Unfold DEF RetryTask
  <2> QED
    BY <1>1, <2>1, <2>2, SubmittedGood
<1>3. RestTyped'
  BY <1>1 DEF IInv, RestTyped, RetryTask, diskVars, procVars
<1> QED
  BY <1>2, <1>3 DEF IInv

\* A resume: the conversation opens, the queue moves, and either the row is
\* retired or its continuation is submitted.
LEMMA ResumeStep ==
  ASSUME IInv, NEW t \in Tasks, ResumeTask(t)
  PROVE  IInv'
<1> DEFINE shut == [Now EXCEPT !.paused = @ \ {chat[t]}]
<1>1. Good(Now) /\ status[t] = "paused"
  BY DEF IInv, ResumeTask
<1>2. Good(shut)
  <2>1. shut = [Now EXCEPT !.paused = paused \ {chat[t]}]
    BY DEF Now
  <2>2. paused \ {chat[t]} \in SUBSET Chats
    BY <1>1, Unfold
  <2> QED
    BY <1>1, <2>1, <2>2, PausedGood
<1>3. PICK S \in Starts(shut) :
        LET open == After(shut, S)
        IN \/ /\ Superseded(t, open.status)
              /\ Becomes([open EXCEPT !.status[t] = "cancelled"])
              /\ UNCHANGED parent
           \/ /\ ~Superseded(t, open.status)
              /\ \E c \in Tasks :
                   LET refused == Cardinality(open.queue) >= MaxQueue
                       kept    == IF refused THEN open
                                  ELSE [open EXCEPT !.status[t] = "cancelled"]
                   IN /\ Fresh(c)
                      /\ Submitted(kept, c, chat[t])
                      /\ parent' = [parent EXCEPT ![c] = t]
  BY DEF ResumeTask
<1> DEFINE open == After(shut, S)
           retired == [open EXCEPT !.status[t] = "cancelled"]
<1>4. Good(open)
  BY <1>2, AfterGood
<1>5. open.status = [u \in Tasks |-> IF u \in S THEN "executing" ELSE status[u]]
  BY DEF After, Now
<1>6. Good(retired) /\ retired.status = [open.status EXCEPT ![t] = "cancelled"]
  <2>1. open.status[t] # "absent"
    BY <1>1, <1>5
  <2>2. open \in View
    BY <1>4 DEF Good
  <2> QED
    BY <1>4, <2>1, <2>2, StatusGood DEF Statuses, Terminal, View
<1> HIDE DEF open, retired
<1>7. Good(Now)' /\ parent' \in [Tasks -> Tasks \cup {NoTask}]
  <2>1. CASE Becomes(retired) /\ UNCHANGED parent
    BY <2>1, <1>6, BecomesGood DEF IInv, RestTyped
  <2>2. CASE \E c \in Tasks : /\ Fresh(c)
                              /\ Submitted(open, c, chat[t]) \/ Submitted(retired, c, chat[t])
                              /\ parent' = [parent EXCEPT ![c] = t]
    <3>1. PICK c \in Tasks : /\ Fresh(c)
                             /\ Submitted(open, c, chat[t]) \/ Submitted(retired, c, chat[t])
                             /\ parent' = [parent EXCEPT ![c] = t]
      BY <2>2
    <3>2. chat[t] \in Chats
      BY <1>1, Unfold
    <3>3. S \subseteq queue
      <4>1. shut \in View /\ shut.queue = queue
        BY <1>2 DEF Good, Now
      <4> QED
        BY <4>1, StartsSound
    <3>4. status[c] = "absent" /\ c \notin S /\ c # t
      BY <1>1, <3>1, <3>3, Unfold DEF Fresh
    <3>5. open.status[c] = "absent" /\ retired.status[c] = "absent"
      BY <1>5, <1>6, <3>4
    <3>6. Good(Now)'
      BY <1>4, <1>6, <3>1, <3>2, <3>5, SubmittedGood
    <3> QED
      BY <3>1, <3>6 DEF IInv, RestTyped
  <2> QED
    BY <1>3, <2>1, <2>2 DEF open, retired
<1>8. RestTyped'
  BY <1>7 DEF IInv, RestTyped, ResumeTask, diskVars, procVars
<1> QED
  BY <1>7, <1>8 DEF IInv

\* A run that goes on: it neither ends nor changes whether its row is saved.
LEMMA OutcomeGood ==
  ASSUME IInv, NEW t \in Tasks, NEW o, pc[t] # "idle", Outcome(t, o),
         NEW p \in PCs \ {"idle"}, pc' = [pc EXCEPT ![t] = p]
  PROVE  Good(Now)' /\ result' \in [Tasks -> Results] /\ reaped' \subseteq Tasks
<1>1. Good(Now)
  BY DEF IInv
<1>2. t \in InFlight /\ status[t] \in Statuses \ {"absent"}
  BY <1>1, Unfold DEF InFlight
<1>3. \E s \in Statuses \ {"absent"} : status' = [status EXCEPT ![t] = s]
  <2>1. CASE Told(t)
    BY <2>1, <1>2 DEF Outcome, AbortRow, Statuses, Terminal
  <2>2. CASE ~Told(t)
    <3>1. PICK s \in CASE o = "completed" -> {status[t]}
                       [] o = "blocked"   -> {"blocked"}
                       [] OTHER           -> FailRows(t) :
            status' = [status EXCEPT ![t] = s]
      BY <2>2 DEF Outcome
    <3>2. s \in {status[t], "blocked", "failed"}
      BY <3>1 DEF FailRows
    <3> QED
      BY <1>2, <3>1, <3>2 DEF Statuses, Terminal
  <2> QED
    BY <2>1, <2>2
<1>4. Good(Now)'
  <2>1. /\ queue' = queue /\ running' = running /\ active' = active /\ chat' = chat
        /\ paused' = paused /\ aborted' = aborted
    BY DEF Outcome, lockVars
  <2> QED
    BY <1>1, <1>2, <1>3, <2>1, Unfold, KeepGood
<1>5. result' \in [Tasks -> Results] /\ reaped' \subseteq Tasks
  BY DEF Outcome, IInv, RestTyped, Results
<1> QED
  BY <1>4, <1>5

\* The steps of a run before it settles.
LEMMA RunStep ==
  ASSUME IInv, NEW t \in Tasks,
         StartWork(t) \/ WorkEnds(t) \/ EnvelopeCommit(t) \/ CommitLands(t)
  PROVE  IInv'
<1>1. Good(Now)
  BY DEF IInv
<1>2. CASE StartWork(t)
  <2>1. Good(Now)'
    BY <1>1, <1>2, Unfold, KeepGood DEF StartWork, rowVars, lockVars, PCs
  <2>2. RestTyped'
    BY <1>2, QueueAssumption DEF IInv, RestTyped, StartWork, rowVars, procVars, Leases
  <2> QED
    BY <2>1, <2>2 DEF IInv
<1>3. CASE WorkEnds(t)
  <2>1. PICK o \in {"completed", "failed", "blocked"} :
          IF lease[t] = "own"
          THEN /\ pc' = [pc EXCEPT ![t] = "envelope"]
               /\ result' = [result EXCEPT ![t] = o]
               /\ UNCHANGED <<rowVars, diskVars, phase, lockVars, aborted, hung,
                              reaped, settling, tries, procVars>>
          ELSE /\ Outcome(t, o)
               /\ pc' = [pc EXCEPT ![t] = IF lease[t] = "none" THEN "settle" ELSE "publish"]
               /\ landed' = [landed EXCEPT ![t] = pc[t] = "work" /\ lease[t] = "none"]
               /\ UNCHANGED lease
    BY <1>3 DEF WorkEnds
  <2>2. pc[t] # "idle"
    BY <1>3 DEF WorkEnds
  <2>3. CASE lease[t] = "own"
    <3>1. Good(Now)'
      BY <1>1, <2>1, <2>2, <2>3, Unfold, KeepGood DEF rowVars, lockVars, PCs
    <3>2. RestTyped'
      BY <2>1, <2>3 DEF IInv, RestTyped, rowVars, diskVars, procVars, Results
    <3> QED
      BY <3>1, <3>2 DEF IInv
  <2>4. CASE lease[t] # "own"
    <3>1. Good(Now)' /\ result' \in [Tasks -> Results] /\ reaped' \subseteq Tasks
      <4>1. /\ Outcome(t, o)
            /\ \E p \in PCs \ {"idle"} : pc' = [pc EXCEPT ![t] = p]
        BY <2>1, <2>4 DEF PCs
      <4> QED
        BY <2>2, <4>1, OutcomeGood
    <3>2. RestTyped'
      BY <2>1, <2>4, <3>1 DEF IInv, RestTyped, Outcome, procVars
    <3> QED
      BY <3>1, <3>2 DEF IInv
  <2> QED
    BY <2>3, <2>4
<1>4. CASE EnvelopeCommit(t)
  <2>1. PICK ok \in BOOLEAN :
          /\ lease'  = [lease  EXCEPT ![t] = IF ok THEN "released" ELSE "kept"]
          /\ landed' = [landed EXCEPT ![t] = ok]
          /\ Outcome(t, IF ok THEN result[t] ELSE "failed")
    BY <1>4 DEF EnvelopeCommit
  <2>2. Good(Now)' /\ result' \in [Tasks -> Results] /\ reaped' \subseteq Tasks
    <3>1. pc[t] # "idle" /\ "settle" \in PCs \ {"idle"} /\ pc' = [pc EXCEPT ![t] = "settle"]
      BY <1>4 DEF EnvelopeCommit, PCs
    <3> QED
      BY <2>1, <3>1, OutcomeGood
  <2>3. RestTyped'
    BY <2>1, <2>2 DEF IInv, RestTyped, Outcome, procVars, Leases
  <2> QED
    BY <2>2, <2>3 DEF IInv
<1>5. CASE CommitLands(t)
  <2>1. Good(Now)'
    BY <1>1, <1>5, Unfold, KeepGood DEF CommitLands, rowVars, lockVars, PCs
  <2>2. RestTyped'
    BY <1>5 DEF IInv, RestTyped, CommitLands, rowVars, procVars, Leases
  <2> QED
    BY <2>1, <2>2 DEF IInv
<1> QED
  BY <1>2, <1>3, <1>4, <1>5

\* A run that ends, with any status column that saves and forgets no row.
LEMMA EndRunGood ==
  ASSUME IInv, NEW t \in Tasks, pc[t] # "idle",
         NEW st \in [Tasks -> Statuses], EndRun(t, st),
         \A u \in Tasks : st[u] = "absent" <=> status[u] = "absent"
  PROVE  /\ Good(Now)'
         /\ result' \in [Tasks -> Results]
         /\ hung' \subseteq Tasks /\ reaped' \subseteq Tasks
<1> DEFINE v == [Now EXCEPT !.status = st, !.pc[t] = "idle", !.running = @ - 1,
                            !.active = @ \ {Now.chat[t]}, !.aborted = @ \ {t}]
<1>1. Good(Now) /\ t \in Busy(Now)
  BY DEF IInv, Busy, Now
<1>2. Good(v)
  <2>1. \A u \in Tasks : st[u] = "absent" <=> Now.status[u] = "absent"
    BY DEF Now
  <2> QED
    BY <1>1, <2>1, EndGood
<1>3. ProcessQueue(v)
  BY DEF EndRun, Now
<1>4. Good(Now)'
  BY <1>2, <1>3, ProcessQueueGood
<1> QED
  BY <1>4 DEF EndRun, IInv, RestTyped, Results

\* The two ways a run ends.
LEMMA EndStep ==
  ASSUME IInv, NEW t \in Tasks, CommitLost(t) \/ Settle(t)
  PROVE  IInv'
<1>1. /\ Good(Now) /\ pc[t] # "idle" /\ status \in [Tasks -> Statuses]
      /\ status[t] # "absent"
  BY Unfold DEF IInv, CommitLost, Settle, InFlight
<1>2. CASE CommitLost(t)
  <2> DEFINE st == IF result[t] = "completed" /\ ~Withheld(t)
                   THEN [status EXCEPT ![t] = "failed"] ELSE status
  <2>1. /\ EndRun(t, st) /\ st \in [Tasks -> Statuses]
        /\ \A u \in Tasks : st[u] = "absent" <=> status[u] = "absent"
    BY <1>1, <1>2 DEF CommitLost, Statuses, Terminal
  <2>2. /\ Good(Now)' /\ result' \in [Tasks -> Results]
        /\ hung' \subseteq Tasks /\ reaped' \subseteq Tasks
    BY <1>1, <2>1, EndRunGood
  <2>3. RestTyped'
    BY <1>2, <2>2 DEF IInv, RestTyped, CommitLost, EndRun, procVars, Leases
  <2> QED
    BY <2>2, <2>3 DEF IInv
<1>3. CASE Settle(t)
  <2>1. PICK st \in {status, Completed(t)} : EndRun(t, st)
    BY <1>3 DEF Settle
  <2>2. /\ st \in [Tasks -> Statuses]
        /\ \A u \in Tasks : st[u] = "absent" <=> status[u] = "absent"
    BY <1>1, <2>1 DEF Completed, Statuses, Terminal
  <2>3. /\ Good(Now)' /\ result' \in [Tasks -> Results]
        /\ hung' \subseteq Tasks /\ reaped' \subseteq Tasks
    BY <1>1, <2>1, <2>2, EndRunGood
  <2>4. settling' \subseteq Tasks /\ tries' \in [Tasks -> Nat]
    BY <1>3 DEF Settle, IInv, RestTyped
  <2>5. RestTyped'
    BY <1>3, <2>1, <2>3, <2>4 DEF IInv, RestTyped, Settle, EndRun, diskVars, procVars
  <2> QED
    BY <2>3, <2>5 DEF IInv
<1> QED
  BY <1>2, <1>3

\* A settle timer, the watchdog and the two reapers.
LEMMA GuardStep ==
  ASSUME IInv, NEW t \in Tasks, SettleRetry(t) \/ Guard(t)
  PROVE  IInv'
<1>1. Good(Now)
  BY DEF IInv
<1>2. CASE SettleRetry(t)
  <2>1. status' \in {status, Completed(t)} /\ aborted' = aborted \ {t}
    BY <1>2 DEF SettleRetry
  <2>2. /\ status' \in [Tasks -> Statuses]
        /\ \A u \in Tasks : status'[u] = "absent" <=> status[u] = "absent"
    BY <1>1, <2>1, Unfold DEF Completed, Statuses, Terminal
  <2>3. /\ queue' = queue /\ running' = running /\ active' = active /\ chat' = chat
        /\ paused' = paused /\ pc' = pc
    BY <1>2 DEF SettleRetry, lockVars
  <2>4. Good(Now)'
    BY <1>1, <2>1, <2>2, <2>3, Unfold, KeepGood
  <2>5. tries' \in [Tasks -> Nat] /\ settling' \subseteq Tasks
    BY <1>2 DEF SettleRetry, IInv, RestTyped
  <2>6. RestTyped'
    BY <1>2, <2>5 DEF IInv, RestTyped, SettleRetry, diskVars, procVars
  <2> QED
    BY <2>4, <2>6 DEF IInv
<1>3. CASE Watchdog(t)
  <2>1. Good(Now)'
    BY <1>1, <1>3, Unfold, KeepGood DEF Watchdog, rowVars, lockVars
  <2>2. RestTyped'
    BY <1>3 DEF IInv, RestTyped, Watchdog, rowVars, diskVars, procVars
  <2> QED
    BY <2>1, <2>2 DEF IInv
<1>4. ASSUME NEW rows \in SUBSET {"failed", "blocked"}, Reap(t, rows),
             lease' \in [Tasks -> Leases]
      PROVE  IInv'
  <2>1. PICK s \in {"failed", "blocked"} : status' = [status EXCEPT ![t] = s]
    BY <1>4 DEF Reap
  <2>2. t \in InFlight /\ status[t] # "absent" /\ s \in Statuses \ {"absent"}
    BY <1>1, <1>4, Unfold DEF Reap, Statuses, Terminal
  <2>3. Good(Now)'
    BY <1>1, <1>4, <2>1, <2>2, Unfold, KeepGood DEF Reap, lockVars
  <2>4. RestTyped'
    BY <1>4 DEF IInv, RestTyped, Reap, procVars
  <2> QED
    BY <2>3, <2>4 DEF IInv
<1>5. CASE ReapStuckTask(t)
  <2>1. PICK rows \in {{"failed"}, FailRows(t)} : Reap(t, rows)
    BY <1>5 DEF ReapStuckTask
  <2>2. rows \in SUBSET {"failed", "blocked"} /\ lease' \in [Tasks -> Leases]
    BY <1>5, <2>1 DEF ReapStuckTask, FailRows, IInv, RestTyped
  <2> QED
    BY <1>4, <2>1, <2>2
<1>6. CASE ReapLostWorkspace(t)
  <2>1. FailRows(t) \in SUBSET {"failed", "blocked"} /\ lease' \in [Tasks -> Leases]
    BY <1>6 DEF ReapLostWorkspace, FailRows, IInv, RestTyped, Leases
  <2>2. Reap(t, FailRows(t))
    BY <1>6 DEF ReapLostWorkspace
  <2> QED
    BY <1>4, <2>1, <2>2
<1> QED
  BY <1>2, <1>3, <1>5, <1>6 DEF Guard

\* Shutdown, exit, crashes, boot and recovery.
LEMMA ProcessStep ==
  ASSUME IInv, Process
  PROVE  IInv'
<1>1. Good(Now) /\ RestTyped
  BY DEF IInv
<1>2. CASE BeginShutdown
  <2>1. Good(Now)'
    BY <1>1, <1>2, Unfold, KeepGood DEF BeginShutdown, rowVars, lockVars
  <2>2. hung' \subseteq Tasks
    BY <1>1, <1>2 DEF BeginShutdown, InFlight, RestTyped
  <2>3. RestTyped'
    BY <1>1, <1>2, <2>2 DEF RestTyped, BeginShutdown, rowVars, diskVars
  <2> QED
    BY <2>1, <2>3 DEF IInv
<1>3. CASE Exit
  <2>1. /\ status' \in [Tasks -> Statuses] /\ chat' = chat
        /\ \A t \in Tasks : status'[t] # "absent" => status[t] # "absent"
    BY <1>1, <1>3, Unfold DEF Exit, Statuses, Terminal, Active, Foreground
  <2>2. Good(Now)'
    BY <1>1, <1>3, <2>1, Unfold, VolatileGood DEF Exit
  <2>3. lease' \in [Tasks -> Leases] /\ landed' \in [Tasks -> BOOLEAN]
    <3>1. PICK done \in SUBSET Registered :
            /\ lease' = [t \in Tasks |-> IF t \in done THEN "released"
                                         ELSE IF t \in Registered THEN "left" ELSE lease[t]]
            /\ landed' = [t \in Tasks |-> landed[t] \/ t \in done]
      BY <1>3 DEF Exit, Disposed
    <3> QED
      BY <1>1, <3>1 DEF RestTyped, Leases
  <2>4. RestTyped'
    BY <1>1, <1>3, <2>3, VolatileRest DEF Exit, RestTyped
  <2> QED
    BY <2>2, <2>4 DEF IInv
<1>4. ASSUME Dies, status' \in [Tasks -> Statuses],
             chat' \in [Tasks -> Chats \cup {NoChat}],
             \A t \in Tasks : status'[t] # "absent" => chat'[t] \in Chats,
             parent' \in [Tasks -> Tasks \cup {NoTask}]
      PROVE  IInv'
  <2>1. Good(Now)'
    BY <1>4, VolatileGood DEF Dies
  <2>2. lease' \in [Tasks -> Leases] /\ landed' \in [Tasks -> BOOLEAN] /\ stops' \in Nat
    BY <1>1, <1>4 DEF Dies, RestTyped, Leases
  <2>3. RestTyped'
    BY <1>1, <1>4, <2>2, VolatileRest DEF Dies
  <2> QED
    BY <2>1, <2>3 DEF IInv
<1>5. CASE Crash
  BY <1>1, <1>4, <1>5, Unfold DEF Crash, rowVars, RestTyped
<1>6. ASSUME NEW t \in Tasks, ResumeTorn(t)
      PROVE  IInv'
  <2> DEFINE shut == [Now EXCEPT !.paused = @ \ {chat[t]}]
  <2>1. PICK c \in Tasks, S \in Starts(shut) :
          /\ status' = [After(shut, S).status EXCEPT ![c] = "pending"]
          /\ chat' = [chat EXCEPT ![c] = chat[t]]
          /\ parent' = [parent EXCEPT ![c] = t]
    BY <1>6 DEF ResumeTorn
  <2>2. chat[t] \in Chats
    BY <1>1, <1>6, Unfold DEF ResumeTorn
  <2>3. S \subseteq queue
    <3>1. shut.queue = queue
      BY DEF Now
    <3> QED
      BY <3>1 DEF Starts, Heads, Runnable
  <2>4. After(shut, S).status = [u \in Tasks |-> IF u \in S THEN "executing" ELSE status[u]]
    BY DEF After, Now
  <2>5. status' \in [Tasks -> Statuses]
    BY <1>1, <2>1, <2>4, Unfold DEF Statuses, Active, Foreground
  <2>6. chat' \in [Tasks -> Chats \cup {NoChat}]
    BY <1>1, <2>1, <2>2, Unfold
  <2>7. \A u \in Tasks : status'[u] # "absent" => chat'[u] \in Chats
    BY <1>1, <2>1, <2>2, <2>3, <2>4, Unfold
  <2>8. parent' \in [Tasks -> Tasks \cup {NoTask}]
    BY <1>1, <2>1 DEF RestTyped
  <2> QED
    BY <1>4, <1>6, <2>5, <2>6, <2>7, <2>8 DEF ResumeTorn
<1>7. CASE Boot
  <2>1. Good(Now)'
    BY <1>1, <1>7, Unfold, KeepGood DEF Boot, rowVars, lockVars, runVars
  <2>2. RestTyped'
    BY <1>1, <1>7 DEF RestTyped, Boot, rowVars, diskVars, runVars, procVars
  <2> QED
    BY <2>1, <2>2 DEF IInv
<1>8. CASE Recover
  <2>1. /\ status' \in [Tasks -> Statuses]
        /\ \A t \in Tasks : status'[t] = "absent" <=> status[t] = "absent"
    BY <1>1, <1>8, Unfold DEF Recover, Statuses, Terminal, Active, Foreground
  <2>2. Good(Now)'
    BY <1>1, <1>8, <2>1, Unfold, KeepGood DEF Recover, lockVars, runVars
  <2>3. RestTyped'
    BY <1>1, <1>8 DEF RestTyped, Recover, diskVars, runVars
  <2> QED
    BY <2>2, <2>3 DEF IInv
<1> QED
  BY <1>2, <1>3, <1>5, <1>6, <1>7, <1>8 DEF Process

\* A step that changes nothing.
LEMMA StutterStep == IInv /\ UNCHANGED vars => IInv'
<1> SUFFICES ASSUME IInv, UNCHANGED vars PROVE IInv'
  OBVIOUS
<1>1. Now' = Now
  BY DEF Now, vars, rowVars, lockVars, runVars
<1>2. RestTyped'
  BY DEF IInv, RestTyped, vars, rowVars, diskVars, lockVars, runVars, procVars
<1> QED
  BY <1>1, <1>2 DEF IInv, Good, Locks, Queued, Busy

-----------------------------------------------------------------------------
(* The theorems.                                                           *)

\* Every step keeps the invariant.
LEMMA NextIInv == IInv /\ [Next]_vars => IInv'
<1> SUFFICES ASSUME IInv, [Next]_vars PROVE IInv'
  OBVIOUS
<1>1. CASE Person
  BY <1>1, SubmitStep, CancelStep, PauseStep, ResumeStep, RetryStep DEF Person
<1>2. CASE Process
  BY <1>2, ProcessStep
<1>3. CASE \E t \in Tasks : Run(t)
  BY <1>3, RunStep, EndStep DEF Run
<1>4. CASE \E t \in Tasks : SettleRetry(t) \/ Guard(t)
  BY <1>4, GuardStep
<1>5. CASE UNCHANGED vars
  BY <1>5, StutterStep
<1> QED
  BY <1>1, <1>2, <1>3, <1>4, <1>5 DEF Next

\* What the invariant says of the properties.
LEMMA IInvImplies == IInv => TypeOK /\ ConversationExclusive
<1> SUFFICES ASSUME IInv PROVE TypeOK /\ ConversationExclusive
  OBVIOUS
<1>1. Good(Now)
  BY DEF IInv
<1>2. TypeOK
  BY <1>1, Unfold DEF IInv, RestTyped, TypeOK, PCs
<1>3. ConversationExclusive
  BY <1>1, Unfold DEF ConversationExclusive, Good, Locks, Now
<1> QED
  BY <1>2, <1>3

\* The state stays typed: a conversation of every saved row, a slot counter
\* that never goes below zero, whatever handlers run (TaskStorage, executor).
THEOREM TypeCorrect == Spec => []TypeOK
<1>1. IInv => TypeOK
  BY IInvImplies
<1> QED
  BY <1>1, InitIInv, NextIInv, PTL DEF Spec

\* A conversation never runs two tasks, its lock is held exactly while one of
\* its tasks runs, and the slot counter is the number of runs, at most the
\* limit (processQueue and its .finally).
THEOREM Exclusive == Spec => []ConversationExclusive
<1>1. IInv => ConversationExclusive
  BY IInvImplies
<1> QED
  BY <1>1, InitIInv, NextIInv, PTL DEF Spec

---------------------------------------------------------------------------
\* The rows.

\* A queued row waits, or was cancelled and will be skipped.
Waits(w, t) ==
  t \in w.queue =>
    /\ w.pc[t] = "idle" /\ t \notin settling
    /\ w.status[t] = IF t \in w.aborted THEN "cancelled" ELSE "pending"

\* What is left of a stop, and what it did to the row.
Stopped(w, t) ==
  /\ t \in reaped => t \in hung
  /\ t \in hung => w.pc[t] # "idle"
  /\ t \in w.aborted \cup reaped => w.status[t] \notin {"absent"} \cup Foreground

\* The run, its workspace, and what it has brought into the project.
Works(w, t) ==
  /\ w.pc[t] # "idle" => w.status[t] \notin {"absent", "pending", "completed"}
  /\ w.status[t] \in {"absent", "pending"} \/ w.pc[t] = "admit" => lease[t] = "none"
  /\ w.status[t] \in {"absent", "pending"} \/ w.pc[t] \in {"admit", "work", "envelope", "publish"} => ~landed[t]
  /\ w.pc[t] = "work" => lease[t] \in {"none", "task", "own", "lost"}
  /\ w.pc[t] = "publish" => lease[t] \in {"task", "lost"}
  /\ lease[t] = "released" => landed[t]
  /\ w.status[t] = "completed" => landed[t] /\ lease[t] \in {"none", "released"}

\* What it is about to report.
Reports(w, t) ==
  /\ result[t] = "completed" => w.pc[t] \in {"envelope", "publish", "settle"}
  /\ result[t] = "completed" /\ w.pc[t] = "settle" => landed[t] /\ lease[t] \in {"none", "released"}
  /\ result[t] # "completed" /\ w.pc[t] \in {"publish", "settle"} => w.status[t] \notin Foreground

\* A completion that waits for its next attempt.
Settles(w, t) ==
  t \in settling =>
    /\ w.pc[t] = "idle" /\ tries[t] \in 1..MaxSettle
    /\ landed[t] /\ lease[t] \in {"none", "released"}
    /\ w.status[t] \notin {"absent", "pending"}

\* Nothing is forgotten, but for what recovery will find.
Kept(w, t) ==
  /\ t \in mine => phase = "booting"
  /\ phase \in {"down", "booting"} /\ (t \in w.queue \cup settling \/ w.pc[t] # "idle") => t \in mine
  /\ phase = "up" \/ t \in mine =>
       /\ w.status[t] = "pending" => t \in w.queue
       /\ w.status[t] = "executing" =>
            w.pc[t] # "idle" \/ t \in settling \/ tries[t] = MaxSettle + 1

\* Where no reaper meets a stopped run, a row leaves "executing" only by what
\* its run can see.
Seen(w, t) ==
  LateReap = FALSE =>
    /\ w.pc[t] \in {"admit", "work", "envelope"} /\ t \notin w.aborted \cup reaped
         => w.status[t] = "executing"
    /\ (result[t] = "completed" \/ t \in settling) /\ t \notin w.aborted \cup reaped
         => w.status[t] = "executing"
    /\ w.status[t] = "paused" /\ w.pc[t] # "idle" => t \in w.aborted

Row(w, t) ==
  /\ Waits(w, t) /\ Stopped(w, t) /\ Works(w, t) /\ Reports(w, t)
  /\ Settles(w, t) /\ Kept(w, t) /\ Seen(w, t)

Rows == \A t \in Tasks : Row(Now, t)

\* Rows are saved in the order of their ids.
InOrder == \A t, u \in Tasks : u < t /\ status[t] # "absent" => status[u] # "absent"

\* A lock of a pause has its row.
PauseLocks ==
  /\ phase \in {"down", "booting"} => paused = {}
  /\ LateReap = FALSE => \A c \in paused : \E t \in Tasks : chat[t] = c /\ status[t] = "paused"

RowsInv == IInv /\ Rows /\ InOrder /\ PauseLocks

-----------------------------------------------------------------------------
(* What processQueue does to a row, and what a handler leaves alone.       *)

\* It starts S and drops the entries K that were cancelled.
Pumped(w, S, K) ==
  /\ S \subseteq w.queue \ w.aborted /\ K \subseteq w.queue \cap w.aborted
  /\ queue' = (w.queue \ S) \ K /\ aborted' = w.aborted \ K
  /\ chat' = w.chat /\ paused' = w.paused
  /\ \A t \in Tasks : /\ status'[t] = IF t \in S THEN "executing" ELSE w.status[t]
                      /\ pc'[t] = IF t \in S THEN "admit" ELSE w.pc[t]

\* processQueue does only that to the rows.
LEMMA PumpEffect ==
  ASSUME NEW w, ProcessQueue(w)
  PROVE  \E S, K : S \in Starts(w) /\ Pumped(w, S, K)
<1>1. PICK S \in Starts(w) : Becomes(After(w, S))
  BY DEF ProcessQueue
<1>2. S \subseteq w.queue \ w.aborted
  BY DEF Starts, Heads, Runnable
<1>3. Skips(w, S) \subseteq w.queue \cap w.aborted
  BY DEF Skips
<1>4. Pumped(w, S, Skips(w, S))
  BY <1>1, <1>2, <1>3 DEF Pumped, Becomes, After
<1> QED
  BY <1>4

\* A handler that hands over sound rows leaves sound rows.
LEMMA PumpRows ==
  ASSUME NEW w, ProcessQueue(w), \A t \in Tasks : Row(w, t)'
  PROVE  Rows'
<1>1. PICK S, K : Pumped(w, S, K)
  BY PumpEffect
<1>2. SUFFICES ASSUME NEW t \in Tasks
               PROVE  Row(Now, t)'
  BY DEF Rows
<1>3. /\ queue' = (w.queue \ S) \ K /\ aborted' = w.aborted \ K
      /\ status'[t] = IF t \in S THEN "executing" ELSE w.status[t]
      /\ pc'[t] = IF t \in S THEN "admit" ELSE w.pc[t]
      /\ S \subseteq w.queue \ w.aborted /\ K \subseteq w.queue \cap w.aborted
  BY <1>1 DEF Pumped
<1>4. Row(w, t)'
  OBVIOUS
<1>5. Waits(Now, t)' /\ Stopped(Now, t)'
  BY <1>3, <1>4 DEF Row, Waits, Stopped, Now, Foreground
<1>6. Works(Now, t)' /\ Reports(Now, t)'
  BY <1>3, <1>4 DEF Row, Waits, Stopped, Works, Reports, Now, Foreground
<1>7. Settles(Now, t)' /\ Kept(Now, t)' /\ Seen(Now, t)'
  BY <1>3, <1>4 DEF Row, Waits, Stopped, Settles, Kept, Seen, Reports, Now, Foreground
<1> QED
  BY <1>5, <1>6, <1>7 DEF Row

\* Without a move of the queue the view is the next state.
LEMMA BecomesRows ==
  ASSUME NEW w, Becomes(w), \A t \in Tasks : Row(w, t)'
  PROVE  Rows'
<1>1. /\ queue' = w.queue /\ aborted' = w.aborted /\ status' = w.status /\ pc' = w.pc
  BY DEF Becomes
<1>2. SUFFICES ASSUME NEW t \in Tasks
               PROVE  Row(Now, t)'
  BY DEF Rows
<1>3. Row(w, t)'
  OBVIOUS
<1> QED
  BY <1>1, <1>3 DEF Row, Waits, Stopped, Works, Reports, Settles, Kept, Seen, Now

\* A handler that leaves a task alone, and what it has besides its view.
Untouched(t) ==
  /\ t \in hung' <=> t \in hung
  /\ t \in reaped' <=> t \in reaped
  /\ t \in settling' <=> t \in settling
  /\ t \in mine' <=> t \in mine
  /\ lease'[t] = lease[t] /\ landed'[t] = landed[t]
  /\ result'[t] = result[t] /\ tries'[t] = tries[t]
  /\ phase' = phase

SameIn(w, t) ==
  /\ t \in w.queue <=> t \in queue
  /\ t \in w.aborted <=> t \in aborted
  /\ w.status[t] = status[t] /\ w.pc[t] = pc[t]

\* Such a task keeps its row.
LEMMA RowKept ==
  ASSUME NEW w, NEW t \in Tasks, Row(Now, t), SameIn(w, t), Untouched(t)
  PROVE  Row(w, t)'
<1> USE DEF SameIn, Untouched, Now
<1>1. Waits(w, t)' /\ Stopped(w, t)' /\ Works(w, t)'
  BY DEF Row, Waits, Stopped, Works
<1>2. Reports(w, t)' /\ Settles(w, t)'
  BY DEF Row, Reports, Settles
<1>3. Kept(w, t)' /\ Seen(w, t)'
  BY DEF Row, Kept, Seen
<1> QED
  BY <1>1, <1>2, <1>3 DEF Row

\* A row does not depend on the locks.
LEMMA RowOf ==
  ASSUME NEW w, NEW x, NEW t \in Tasks, Row(w, t)',
         x.queue = w.queue, x.aborted = w.aborted, x.status = w.status, x.pc = w.pc
  PROVE  Row(x, t)'
  BY DEF Row, Waits, Stopped, Works, Reports, Settles, Kept, Seen

\* A step of one task that moves no queue.
Still(u) ==
  /\ u \in queue' <=> u \in queue
  /\ u \in aborted' <=> u \in aborted
  /\ status'[u] = status[u] /\ pc'[u] = pc[u]
  /\ Untouched(u)

\* ... and leaves the rows sound if it leaves that task sound.
LEMMA OneRow ==
  ASSUME RowsInv, NEW t, \A u \in Tasks \ {t} : Still(u), t \in Tasks => Row(Now, t)'
  PROVE  Rows'
<1>1. PICK w : w = Now'
  OBVIOUS
<1>2. ASSUME NEW u \in Tasks, u # t
      PROVE  Row(w, u)'
  <2>1. Row(Now, u) /\ SameIn(w, u) /\ Untouched(u)
    BY <1>1, <1>2 DEF RowsInv, Rows, Still, SameIn, Now
  <2> QED
    BY <2>1, RowKept
<1>3. t \in Tasks => Row(w, t)'
  <2>1. w.queue = queue' /\ w.aborted = aborted' /\ w.status = status' /\ w.pc = pc'
    BY <1>1 DEF Now
  <2> QED
    BY <2>1 DEF Row, Waits, Stopped, Works, Reports, Settles, Kept, Seen, Now
<1>4. Becomes(w)
  BY <1>1 DEF Becomes, Now
<1> QED
  BY <1>2, <1>3, <1>4, BecomesRows

\* A new row is sound, in the queue or refused by it.
LEMMA SubmittedRows ==
  ASSUME NEW v \in View, NEW t \in Tasks, NEW c, v.status[t] = "absent",
         \A u \in Tasks : Row(v, u)', Submitted(v, t, c),
         phase' = "up" \/ (phase' = "booting" /\ t \in mine')
  PROVE  Rows'
<1>1. PICK w : w = Enqueue(v, t, c)
  OBVIOUS
<1>2. /\ w.aborted = v.aborted /\ w.pc = v.pc
      /\ \/ w.queue = v.queue /\ w.status = [v.status EXCEPT ![t] = "failed"]
         \/ w.queue = v.queue \cup {t} /\ w.status = [v.status EXCEPT ![t] = "pending"]
  BY <1>1 DEF Enqueue, View
<1>3. ASSUME NEW u \in Tasks, u # t
      PROVE  Row(w, u)'
  <2>1. w.status[u] = v.status[u] /\ (u \in w.queue <=> u \in v.queue)
    BY <1>2, <1>3 DEF View
  <2> QED
    BY <1>2, <2>1 DEF Row, Waits, Stopped, Works, Reports, Settles, Kept, Seen
<1>4. Row(w, t)'
  <2>1. /\ t \notin v.queue \cup v.aborted \cup hung' \cup reaped' \cup settling'
        /\ v.pc[t] = "idle" /\ lease'[t] = "none" /\ ~landed'[t] /\ result'[t] # "completed"
    BY DEF Row, Waits, Stopped, Works, Reports, Settles
  <2>2. \/ t \notin w.queue /\ w.status[t] = "failed"
        \/ t \in w.queue /\ w.status[t] = "pending"
    BY <1>2, <2>1 DEF View
  <2>3. t \in mine' => phase' = "booting"
    BY DEF Row, Kept
  <2> QED
    BY <1>2, <2>1, <2>2, <2>3
    DEF Row, Waits, Stopped, Works, Reports, Settles, Kept, Seen, Foreground
<1> QED
  BY <1>1, <1>3, <1>4, PumpRows, BecomesRows DEF Submitted

-----------------------------------------------------------------------------
(* The handlers.                                                           *)

\* A submission: a row of this process is its own to recover.
LEMMA SubmitRows ==
  ASSUME RowsInv, NEW t \in Tasks, NEW c \in Chats, Submit(t, c)
  PROVE  Rows'
<1>1. PICK v : v = Now
  OBVIOUS
<1>2. v \in View /\ status[t] = "absent" /\ v.status[t] = "absent"
  BY <1>1 DEF RowsInv, IInv, Good, Submit, Fresh, Now
<1>3. /\ UNCHANGED <<lease, landed, phase, hung, reaped, result, settling, tries>>
      /\ mine' = IF phase = "booting" THEN mine \cup {t} ELSE mine
      /\ phase \in {"up", "booting"}
  BY DEF Submit, diskVars, Serving
<1>4. ASSUME NEW u \in Tasks, u # t
      PROVE  Row(v, u)'
  <2>1. Row(Now, u) /\ SameIn(v, u) /\ Untouched(u)
    BY <1>1, <1>3, <1>4 DEF RowsInv, Rows, SameIn, Untouched, Now
  <2> QED
    BY <2>1, RowKept
<1>5. Row(v, t)'
  <2>1. Row(v, t)
    BY <1>1 DEF RowsInv, Rows
  <2> QED
    BY <1>2, <1>3, <2>1 DEF Row, Waits, Stopped, Works, Reports, Settles, Kept, Seen
<1> QED
  BY <1>1, <1>2, <1>3, <1>4, <1>5, SubmittedRows DEF Submit

\* A cancelled task is never pending, and whoever reads its signal sees it.
LEMMA CancelRows ==
  ASSUME RowsInv, NEW t \in Tasks, Cancel(t)
  PROVE  Rows'
<1>1. PICK w : w = [Now EXCEPT !.status[t] = "cancelled",
                               !.aborted = IF status[t] \in Foreground
                                           THEN @ \cup Abortable(t) ELSE @]
  OBVIOUS
<1>2. PICK x : x = [w EXCEPT !.paused = @ \ {chat[t]}]
  OBVIOUS
<1>3. /\ UNCHANGED <<lease, landed, phase, hung, reaped, result, settling, tries, mine>>
      /\ status[t] \in Active \cup {"blocked"}
      /\ ProcessQueue(x) \/ Becomes(w)
  BY <1>1, <1>2 DEF Cancel, diskVars, procVars
<1>4. /\ w.queue = queue /\ w.pc = pc /\ w.status = [status EXCEPT ![t] = "cancelled"]
      /\ w.aborted = IF status[t] \in Foreground THEN aborted \cup Abortable(t) ELSE aborted
      /\ x.queue = w.queue /\ x.pc = w.pc /\ x.status = w.status /\ x.aborted = w.aborted
  BY <1>1, <1>2 DEF Now
<1>5. ASSUME NEW u \in Tasks, u # t
      PROVE  Row(w, u)'
  <2>1. Row(Now, u) /\ SameIn(w, u) /\ Untouched(u)
    BY <1>3, <1>4, <1>5 DEF RowsInv, Rows, SameIn, Untouched, Abortable
  <2> QED
    BY <2>1, RowKept
<1>6. Row(w, t)'
  <2>1. Row(Now, t) /\ w.status[t] = "cancelled"
    BY <1>4, Unfold DEF RowsInv, IInv, Rows
  <2>2. t \in w.aborted <=> t \in aborted \/ (status[t] \in Foreground /\ (t \in queue \cup settling \/ pc[t] # "idle"))
    BY <1>4 DEF Abortable, InFlight
  <2>3. Waits(w, t)' /\ Stopped(w, t)' /\ Works(w, t)'
    BY <1>3, <1>4, <2>1, <2>2 DEF Row, Waits, Stopped, Works, Now, Foreground, Active
  <2>4. Reports(w, t)' /\ Settles(w, t)' /\ Kept(w, t)'
    BY <1>3, <1>4, <2>1 DEF Row, Reports, Settles, Kept, Now, Foreground
  <2>5. Seen(w, t)'
    BY <1>3, <1>4, <2>1, <2>2 DEF Row, Seen, Reports, Stopped, Settles, Now, Foreground
  <2> QED
    BY <2>3, <2>4, <2>5 DEF Row
<1>7. \A u \in Tasks : Row(w, u)' /\ Row(x, u)'
  BY <1>4, <1>5, <1>6, RowOf
<1> QED
  BY <1>3, <1>7, PumpRows, BecomesRows

\* A pause tells the run, or the timer that still wants to complete the row.
LEMMA PauseRows ==
  ASSUME RowsInv, NEW t \in Tasks, PauseTask(t)
  PROVE  Rows'
<1>1. /\ UNCHANGED <<queue, pc, lease, landed, phase, hung, reaped, result, settling, tries, mine>>
      /\ status[t] = "executing" /\ status' = [status EXCEPT ![t] = "paused"]
      /\ aborted' = aborted \cup Abortable(t) /\ phase = "up"
  BY DEF PauseTask, diskVars, procVars
<1>2. \A u \in Tasks \ {t} : Still(u)
  BY <1>1 DEF Still, Untouched, Abortable
<1>3. Row(Now, t) /\ status'[t] = "paused"
  BY <1>1, Unfold DEF RowsInv, IInv, Rows
<1>4. t \in aborted' <=> t \in aborted \/ t \in queue \cup settling \/ pc[t] # "idle"
  BY <1>1 DEF Abortable, InFlight
<1>5. Waits(Now, t)' /\ Stopped(Now, t)' /\ Works(Now, t)'
  BY <1>1, <1>3, <1>4 DEF Row, Waits, Stopped, Works, Now, Foreground
<1>6. Reports(Now, t)' /\ Settles(Now, t)' /\ Kept(Now, t)'
  BY <1>1, <1>3 DEF Row, Reports, Settles, Kept, Now, Foreground
<1>7. Seen(Now, t)'
  BY <1>1, <1>3, <1>4 DEF Row, Seen, Reports, Stopped, Settles, Now, Foreground
<1> QED
  BY <1>2, <1>5, <1>6, <1>7, OneRow DEF Row

\* A resume opens the conversation and moves the queue, then retires the row and
\* submits its continuation, which moves the queue again.
Opened(p) == [Now EXCEPT !.paused = @ \ {chat[p]}]

\* It started S and went on with the view v.
Resumed(p, S, v) ==
  /\ S \in Starts(Opened(p)) /\ v \in View
  /\ v.queue = (queue \ S) \ Skips(Opened(p), S)
  /\ v.aborted = aborted \ Skips(Opened(p), S)
  /\ v.chat = chat /\ v.paused = paused \ {chat[p]}
  /\ v.pc = [t \in Tasks |-> IF t \in S THEN "admit" ELSE pc[t]]
  /\ \A t \in Tasks : t # p => v.status[t] = IF t \in S THEN "executing" ELSE status[t]
  /\ v.status[p] \in {"paused", "cancelled"} /\ p \notin S
  /\ \/ Becomes(v) /\ UNCHANGED parent
     \/ \E c \in Tasks : /\ Fresh(c) /\ Submitted(v, c, chat[p])
                         /\ parent' = [parent EXCEPT ![c] = p]
                         /\ v.status[p] = "cancelled" \/ Cardinality(v.queue) >= MaxQueue

\* A resume is such a step.
LEMMA ResumeViews ==
  ASSUME RowsInv, NEW p \in Tasks, ResumeTask(p)
  PROVE  \E S, v : Resumed(p, S, v)
<1>1. PICK shut : shut = Opened(p)
  OBVIOUS
<1>2. PICK S \in Starts(shut) :
        LET open == After(shut, S)
        IN \/ /\ Superseded(p, open.status)
              /\ Becomes([open EXCEPT !.status[p] = "cancelled"])
              /\ UNCHANGED parent
           \/ /\ ~Superseded(p, open.status)
              /\ \E c \in Tasks :
                   LET refused == Cardinality(open.queue) >= MaxQueue
                       kept    == IF refused THEN open
                                  ELSE [open EXCEPT !.status[p] = "cancelled"]
                   IN /\ Fresh(c)
                      /\ Submitted(kept, c, chat[p])
                      /\ parent' = [parent EXCEPT ![c] = p]
  BY <1>1 DEF ResumeTask, Opened
<1>3. PICK open : open = After(shut, S)
  OBVIOUS
<1>4. PICK retired : retired = [open EXCEPT !.status[p] = "cancelled"]
  OBVIOUS
<1>5. PICK v \in {open, retired} :
        \/ Becomes(v) /\ UNCHANGED parent
        \/ \E c \in Tasks : /\ Fresh(c) /\ Submitted(v, c, chat[p])
                            /\ parent' = [parent EXCEPT ![c] = p]
                            /\ v = retired \/ Cardinality(v.queue) >= MaxQueue
  BY <1>2, <1>3, <1>4
<1>6. shut \in View /\ Good(shut)
  <2>1. Good(Now) /\ shut = [Now EXCEPT !.paused = paused \ {chat[p]}] /\ paused \ {chat[p]} \in SUBSET Chats
    BY <1>1, Unfold DEF RowsInv, IInv, Now, Opened
  <2> QED
    BY <2>1, PausedGood DEF Good
<1>7. open \in View
  BY <1>3, <1>6, AfterGood DEF Good
<1>8. retired \in View
  BY <1>4, <1>7 DEF View, Statuses, Terminal
<1>9. /\ open.queue = (queue \ S) \ Skips(shut, S) /\ open.aborted = aborted \ Skips(shut, S)
      /\ open.status = [u \in Tasks |-> IF u \in S THEN "executing" ELSE status[u]]
      /\ open.pc = [u \in Tasks |-> IF u \in S THEN "admit" ELSE pc[u]]
      /\ open.chat = chat /\ open.paused = paused \ {chat[p]}
      /\ S \subseteq queue \ aborted
  BY <1>1, <1>3 DEF After, Now, Starts, Heads, Runnable, Opened
<1>10. p \notin S /\ open.status[p] = "paused"
  <2>1. status[p] = "paused"
    BY DEF ResumeTask
  <2> QED
    BY <1>9, <2>1 DEF RowsInv, Rows, Row, Waits, Now
<1>11. /\ retired.queue = open.queue /\ retired.aborted = open.aborted /\ retired.pc = open.pc
       /\ retired.chat = open.chat /\ retired.paused = open.paused
       /\ retired.status = [open.status EXCEPT ![p] = "cancelled"]
  BY <1>4, <1>7 DEF View
<1>12. \A t \in Tasks : t # p => v.status[t] = IF t \in S THEN "executing" ELSE status[t]
  BY <1>5, <1>9, <1>11
<1>13. v.status[p] \in {"paused", "cancelled"}
  BY <1>5, <1>10, <1>11, <1>9
<1>14. /\ v.queue = (queue \ S) \ Skips(shut, S) /\ v.aborted = aborted \ Skips(shut, S)
       /\ v.pc = [u \in Tasks |-> IF u \in S THEN "admit" ELSE pc[u]]
       /\ v.chat = chat /\ v.paused = paused \ {chat[p]} /\ v \in View
  BY <1>5, <1>7, <1>8, <1>9, <1>11
<1>15. S \in Starts(Opened(p)) /\ Skips(shut, S) = Skips(Opened(p), S)
  BY <1>1
<1>16. v = retired => v.status[p] = "cancelled"
  BY <1>9, <1>11
<1>17. Resumed(p, S, v)
  BY <1>5, <1>10, <1>12, <1>13, <1>14, <1>15, <1>16 DEF Resumed
<1> QED
  BY <1>17

\* A row is retired and its continuation submitted, or refused.
LEMMA ResumeRows ==
  ASSUME RowsInv, NEW p \in Tasks, ResumeTask(p)
  PROVE  Rows'
<1>1. PICK shut : shut = Opened(p)
  OBVIOUS
<1>2. PICK S, v : Resumed(p, S, v)
  BY ResumeViews
<1> USE <1>2 DEF Resumed
<1>3. /\ UNCHANGED <<lease, landed, phase, hung, reaped, result, settling, tries, mine>>
      /\ status[p] = "paused" /\ phase = "up"
  BY DEF ResumeTask, diskVars, procVars
<1>4. S \subseteq queue \ aborted /\ Skips(shut, S) \subseteq queue \cap aborted
  BY <1>1 DEF Starts, Heads, Runnable, Skips, Now, Opened
<1>5. ASSUME NEW t \in Tasks
      PROVE  Row(v, t)'
  <2>1. /\ t \in v.queue <=> t \in queue /\ t \notin S /\ t \notin Skips(shut, S)
        /\ t \in v.aborted <=> t \in aborted /\ t \notin Skips(shut, S)
        /\ v.pc[t] = IF t \in S THEN "admit" ELSE pc[t]
        /\ t \in S => t \in queue \ aborted
        /\ t \in Skips(shut, S) => t \in queue \cap aborted
    BY <1>1, <1>4
  <2>2. \/ v.status[t] = IF t \in S THEN "executing" ELSE status[t]
        \/ t \notin S /\ status[t] = "paused" /\ v.status[t] = "cancelled"
    BY <1>3
  <2>3. Row(Now, t)
    BY DEF RowsInv, Rows
  <2>4. Waits(v, t)' /\ Stopped(v, t)'
    BY <1>3, <2>1, <2>2, <2>3 DEF Row, Waits, Stopped, Now, Foreground
  <2>5. Works(v, t)' /\ Reports(v, t)'
    BY <1>3, <2>1, <2>2, <2>3 DEF Row, Waits, Stopped, Works, Reports, Now, Foreground
  <2>6. Settles(v, t)' /\ Kept(v, t)' /\ Seen(v, t)'
    BY <1>3, <2>1, <2>2, <2>3 DEF Row, Waits, Stopped, Settles, Kept, Seen, Reports, Now, Foreground
  <2> QED
    BY <2>4, <2>5, <2>6 DEF Row
<1>6. ASSUME NEW c \in Tasks, Fresh(c), Submitted(v, c, chat[p])
      PROVE  Rows'
  <2>1. status[c] = "absent" /\ c # p /\ c \notin S
    BY <1>3, <1>4, <1>6, Unfold DEF Fresh, RowsInv, IInv
  <2>2. v.status[c] = "absent"
    BY <2>1
  <2> QED
    BY <1>3, <1>5, <1>6, <2>2, SubmittedRows
<1> QED
  BY <1>5, <1>6, BecomesRows

\* A retry continues a row that is over; its own row stays as it is.
LEMMA RetryRows ==
  ASSUME RowsInv, NEW t \in Tasks, RetryTask(t)
  PROVE  Rows'
<1>1. PICK v : v = Now
  OBVIOUS
<1>2. PICK c \in Tasks : Fresh(c) /\ Submitted(v, c, chat[t])
  BY <1>1 DEF RetryTask
<1>3. v \in View /\ v.status[c] = "absent"
  BY <1>1, <1>2 DEF RowsInv, IInv, Good, Fresh, Now
<1>4. /\ UNCHANGED <<lease, landed, phase, hung, reaped, result, settling, tries, mine>>
      /\ phase = "up"
  BY DEF RetryTask, diskVars, procVars
<1>5. ASSUME NEW u \in Tasks
      PROVE  Row(v, u)'
  <2>1. Row(Now, u) /\ SameIn(v, u) /\ Untouched(u)
    BY <1>1, <1>4 DEF RowsInv, Rows, SameIn, Untouched, Now
  <2> QED
    BY <2>1, RowKept
<1> QED
  BY <1>2, <1>3, <1>4, <1>5, SubmittedRows

\* The agent starts to work, in whatever workspace it was given.
LEMMA StartWorkRows ==
  ASSUME RowsInv, NEW t \in Tasks, StartWork(t)
  PROVE  Rows'
<1>1. /\ UNCHANGED <<queue, aborted, status, landed, phase, hung, reaped, result, settling, tries, mine>>
      /\ pc[t] = "admit" /\ pc' = [pc EXCEPT ![t] = "work"]
      /\ \E l \in Workspaces : lease' = [lease EXCEPT ![t] = l]
  BY DEF StartWork, rowVars, lockVars, procVars
<1>2. /\ pc' \in [Tasks -> PCs] /\ pc \in [Tasks -> PCs]
      /\ lease \in [Tasks -> Leases] /\ Workspaces \subseteq {"none", "task", "own"}
  BY <1>1, Unfold, QueueAssumption DEF RowsInv, IInv, RestTyped, PCs
<1>3. \A u \in Tasks \ {t} : Still(u)
  BY <1>1, <1>2 DEF Still, Untouched
<1>4. Row(Now, t) /\ pc'[t] = "work" /\ lease'[t] \in {"none", "task", "own"}
  BY <1>1, <1>2 DEF RowsInv, Rows
<1>5. Waits(Now, t)' /\ Stopped(Now, t)' /\ Works(Now, t)'
  BY <1>1, <1>4 DEF Row, Waits, Stopped, Works, Now
<1>6. Reports(Now, t)' /\ Settles(Now, t)' /\ Kept(Now, t)' /\ Seen(Now, t)'
  BY <1>1, <1>4 DEF Row, Reports, Settles, Kept, Seen, Now
<1> QED
  BY <1>3, <1>5, <1>6, OneRow DEF Row

\* What a run that reports o leaves on its row.
LEMMA OutcomeRow ==
  ASSUME RowsInv, NEW t \in Tasks, NEW o \in Results, Outcome(t, o),
         pc[t] \in {"admit", "work", "envelope"}
  PROVE  /\ UNCHANGED <<queue, aborted, phase, hung, settling, tries, mine>>
         /\ \A u \in Tasks \ {t} : /\ status'[u] = status[u] /\ result'[u] = result[u]
                                   /\ u \in reaped' <=> u \in reaped
         /\ t \in reaped' => t \in reaped
         /\ t \in reaped => t \in reaped' \/ t \notin aborted
         /\ \/ /\ t \in aborted \cup reaped /\ result'[t] = "none" /\ status'[t] = status[t]
            \/ /\ t \notin aborted \cup reaped /\ result'[t] = "none"
               /\ status'[t] \in {"failed", "blocked"}
            \/ /\ t \notin aborted \cup reaped /\ o = "completed" /\ result'[t] = "completed"
               /\ status'[t] = status[t]
<1>0. status \in [Tasks -> Statuses] /\ result \in [Tasks -> Results]
  BY Unfold DEF RowsInv, IInv, RestTyped
<1>1. UNCHANGED <<queue, aborted, phase, hung, settling, tries, mine>>
  BY DEF Outcome, lockVars, procVars
<1>2. CASE Told(t)
  <2>1. /\ status' = [status EXCEPT ![t] = AbortRow(t)]
        /\ result' = [result EXCEPT ![t] = "none"]
        /\ reaped' = IF t \in aborted THEN reaped ELSE reaped \ {t}
    BY <1>2 DEF Outcome
  <2> QED
    BY <1>0, <1>1, <2>1 DEF AbortRow
<1>3. CASE ~Told(t)
  <2>1. PICK s \in CASE o = "completed" -> {status[t]}
                     [] o = "blocked"   -> {"blocked"}
                     [] OTHER           -> FailRows(t) :
          status' = [status EXCEPT ![t] = s]
    BY <1>3 DEF Outcome
  <2>2. /\ result' = [result EXCEPT ![t] = IF o = "completed" THEN o ELSE "none"]
        /\ reaped' = reaped /\ t \notin aborted \cup reaped
    BY <1>0, <1>3 DEF Outcome, Told, RowsInv, Rows, Row, Stopped
  <2>3. o # "completed" => s \in {"failed", "blocked"}
    BY <2>1 DEF FailRows
  <2>4. o = "completed" => s = status[t]
    BY <2>1
  <2>5. status'[t] = s /\ \A u \in Tasks \ {t} : status'[u] = status[u]
    BY <1>0, <2>1
  <2>6. result'[t] = (IF o = "completed" THEN o ELSE "none") /\ \A u \in Tasks \ {t} : result'[u] = result[u]
    BY <1>0, <2>2
  <2> QED
    BY <1>1, <2>2, <2>3, <2>4, <2>5, <2>6
<1> QED
  BY <1>2, <1>3

\* The row of a run whose outcome was taken: it is published or settled next,
\* with what it brought into the project.
LEMMA OutcomeRows ==
  ASSUME RowsInv, NEW t \in Tasks, NEW o \in Results, Outcome(t, o),
         pc[t] \in {"admit", "work", "envelope"}, NEW p, pc' = [pc EXCEPT ![t] = p],
         \A u \in Tasks \ {t} : lease'[u] = lease[u] /\ landed'[u] = landed[u],
         \/ p = "publish" /\ lease'[t] \in {"task", "lost"} /\ ~landed'[t]
         \/ p = "settle" /\ landed'[t] /\ lease'[t] \in {"none", "released"}
         \/ p = "settle" /\ ~landed'[t] /\ o # "completed" /\ lease'[t] # "released"
  PROVE  Rows'
<1>1. /\ UNCHANGED <<queue, aborted, phase, hung, settling, tries, mine>>
      /\ \A u \in Tasks \ {t} : /\ status'[u] = status[u] /\ result'[u] = result[u]
                                /\ u \in reaped' <=> u \in reaped
      /\ t \in reaped' => t \in reaped
      /\ t \in reaped => t \in reaped' \/ t \notin aborted
      /\ \/ /\ t \in aborted \cup reaped /\ result'[t] = "none" /\ status'[t] = status[t]
         \/ /\ t \notin aborted \cup reaped /\ result'[t] = "none"
            /\ status'[t] \in {"failed", "blocked"}
         \/ /\ t \notin aborted \cup reaped /\ o = "completed" /\ result'[t] = "completed"
            /\ status'[t] = status[t]
  BY OutcomeRow
<1>2. pc \in [Tasks -> PCs]
  BY Unfold DEF RowsInv, IInv
<1>3. \A u \in Tasks \ {t} : Still(u)
  BY <1>1, <1>2 DEF Still, Untouched
<1>4. Row(Now, t) /\ pc'[t] = p
  BY <1>2 DEF RowsInv, Rows
<1>5. Waits(Now, t)' /\ Stopped(Now, t)'
  BY <1>1, <1>4 DEF Row, Waits, Stopped, Now, Foreground
<1>6. Works(Now, t)'
  BY <1>1, <1>4 DEF Row, Waits, Stopped, Works, Now, Foreground
<1>7. Reports(Now, t)'
  BY <1>1, <1>4 DEF Row, Stopped, Reports, Now, Foreground
<1>8. Settles(Now, t)' /\ Kept(Now, t)'
  BY <1>1, <1>4 DEF Row, Settles, Kept, Now
<1>9. Seen(Now, t)'
  BY <1>1, <1>4 DEF Row, Settles, Seen, Now
<1> QED
  BY <1>3, <1>5, <1>6, <1>7, <1>8, <1>9, OneRow DEF Row

\* The agent returns or throws.
LEMMA WorkEndsRows ==
  ASSUME RowsInv, NEW t \in Tasks, WorkEnds(t)
  PROVE  Rows'
<1>1. PICK o \in {"completed", "failed", "blocked"} :
        /\ pc[t] = "admit" => o = "failed"
        /\ IF lease[t] = "own"
           THEN /\ pc' = [pc EXCEPT ![t] = "envelope"]
                /\ result' = [result EXCEPT ![t] = o]
                /\ UNCHANGED <<rowVars, diskVars, phase, lockVars, aborted, hung,
                               reaped, settling, tries, procVars>>
           ELSE /\ Outcome(t, o)
                /\ pc' = [pc EXCEPT ![t] = IF lease[t] = "none" THEN "settle" ELSE "publish"]
                /\ landed' = [landed EXCEPT ![t] = pc[t] = "work" /\ lease[t] = "none"]
                /\ UNCHANGED lease
  BY DEF WorkEnds
<1>2. /\ pc[t] \in {"admit", "work"} /\ Row(Now, t)
      /\ pc \in [Tasks -> PCs] /\ landed \in [Tasks -> BOOLEAN] /\ result \in [Tasks -> Results]
      /\ status[t] # "absent" /\ status[t] # "pending"
  BY Unfold DEF RowsInv, IInv, RestTyped, Rows, Row, Works, Now, WorkEnds, InFlight
<1>3. CASE lease[t] = "own"
  <2>1. /\ UNCHANGED <<queue, aborted, status, lease, landed, phase, hung, reaped, settling, tries, mine>>
        /\ pc' = [pc EXCEPT ![t] = "envelope"] /\ result' = [result EXCEPT ![t] = o]
    BY <1>1, <1>3 DEF rowVars, diskVars, lockVars, procVars
  <2>2. pc'[t] = "envelope" /\ result'[t] = o /\ pc[t] = "work"
    BY <1>2, <1>3, <2>1 DEF Row, Works, Now
  <2>3. \A u \in Tasks \ {t} : Still(u)
    BY <1>2, <2>1 DEF Still, Untouched
  <2>4. Waits(Now, t)' /\ Stopped(Now, t)' /\ Works(Now, t)'
    BY <1>2, <2>1, <2>2 DEF Row, Waits, Stopped, Works, Now
  <2>5. Reports(Now, t)' /\ Settles(Now, t)' /\ Kept(Now, t)' /\ Seen(Now, t)'
    BY <1>2, <2>1, <2>2 DEF Row, Reports, Settles, Kept, Seen, Now
  <2> QED
    BY <2>3, <2>4, <2>5, OneRow DEF Row
<1>4. CASE lease[t] # "own"
  <2>1. Outcome(t, o) /\ o \in Results /\ lease' = lease
    BY <1>1, <1>4 DEF Results
  <2>2. pc[t] = "admit" => lease[t] = "none"
    BY <1>2 DEF Row, Works, Now
  <2>3. pc[t] = "work" => lease[t] \in {"none", "task", "lost"}
    BY <1>2, <1>4 DEF Row, Works, Now
  <2>4. /\ \A u \in Tasks \ {t} : lease'[u] = lease[u] /\ landed'[u] = landed[u]
        /\ landed'[t] <=> pc[t] = "work" /\ lease[t] = "none"
    BY <1>1, <1>2, <1>4
  <2>5. PICK p : p = IF lease[t] = "none" THEN "settle" ELSE "publish"
    OBVIOUS
  <2>6. /\ pc' = [pc EXCEPT ![t] = p]
        /\ \/ p = "publish" /\ lease'[t] \in {"task", "lost"} /\ ~landed'[t]
           \/ p = "settle" /\ landed'[t] /\ lease'[t] \in {"none", "released"}
           \/ p = "settle" /\ ~landed'[t] /\ o # "completed" /\ lease'[t] # "released"
    BY <1>1, <1>2, <1>4, <2>1, <2>2, <2>3, <2>4, <2>5
  <2>7. pc[t] \in {"admit", "work", "envelope"}
    BY <1>2
  <2> QED
    BY <2>1, <2>4, <2>6, <2>7, OutcomeRows
<1> QED
  BY <1>3, <1>4

\* The worker's own workspace is committed, or kept.
LEMMA EnvelopeRows ==
  ASSUME RowsInv, NEW t \in Tasks, EnvelopeCommit(t)
  PROVE  Rows'
<1>1. PICK ok \in BOOLEAN :
        /\ lease'  = [lease  EXCEPT ![t] = IF ok THEN "released" ELSE "kept"]
        /\ landed' = [landed EXCEPT ![t] = ok]
        /\ Outcome(t, IF ok THEN result[t] ELSE "failed")
  BY DEF EnvelopeCommit
<1>2. PICK o \in Results : o = IF ok THEN result[t] ELSE "failed"
  BY DEF RowsInv, IInv, RestTyped, Results
<1>3. lease \in [Tasks -> Leases] /\ landed \in [Tasks -> BOOLEAN]
  BY DEF RowsInv, IInv, RestTyped
<1>4. pc[t] = "envelope" /\ pc' = [pc EXCEPT ![t] = "settle"]
  BY DEF EnvelopeCommit
<1>5. /\ \A u \in Tasks \ {t} : lease'[u] = lease[u] /\ landed'[u] = landed[u]
      /\ lease'[t] = (IF ok THEN "released" ELSE "kept") /\ landed'[t] = ok
  BY <1>1, <1>3
<1>6. Outcome(t, o) /\ pc[t] \in {"admit", "work", "envelope"}
  BY <1>1, <1>2, <1>4
<1>7. \/ landed'[t] /\ lease'[t] \in {"none", "released"}
      \/ ~landed'[t] /\ o # "completed" /\ lease'[t] # "released"
  BY <1>2, <1>5
<1> QED
  BY <1>4, <1>5, <1>6, <1>7, OutcomeRows

\* The task's workspace is in the project.
LEMMA CommitLandsRows ==
  ASSUME RowsInv, NEW t \in Tasks, CommitLands(t)
  PROVE  Rows'
<1>1. /\ UNCHANGED <<queue, aborted, status, phase, hung, reaped, result, settling, tries, mine>>
      /\ pc[t] = "publish" /\ pc' = [pc EXCEPT ![t] = "settle"]
      /\ lease' = [lease EXCEPT ![t] = "released"] /\ landed' = [landed EXCEPT ![t] = TRUE]
  BY DEF CommitLands, rowVars, lockVars, procVars
<1>2. pc \in [Tasks -> PCs] /\ lease \in [Tasks -> Leases] /\ landed \in [Tasks -> BOOLEAN]
  BY Unfold DEF RowsInv, IInv, RestTyped
<1>3. \A u \in Tasks \ {t} : Still(u)
  BY <1>1, <1>2 DEF Still, Untouched
<1>4. Row(Now, t) /\ pc'[t] = "settle" /\ lease'[t] = "released" /\ landed'[t]
  BY <1>1, <1>2 DEF RowsInv, Rows
<1>5. Waits(Now, t)' /\ Stopped(Now, t)' /\ Works(Now, t)'
  BY <1>1, <1>4, Unfold DEF Row, Waits, Stopped, Works, Now, RowsInv, IInv, InFlight
<1>6. Reports(Now, t)' /\ Settles(Now, t)' /\ Kept(Now, t)' /\ Seen(Now, t)'
  BY <1>1, <1>4 DEF Row, Reports, Settles, Kept, Seen, Now
<1> QED
  BY <1>3, <1>5, <1>6, OneRow DEF Row

\* A run that ends leaves a sound row, and the queue moves.
LEMMA EndRunRows ==
  ASSUME RowsInv, NEW t \in Tasks, pc[t] # "idle", NEW st \in [Tasks -> Statuses], EndRun(t, st),
         \A u \in Tasks \ {t} : /\ st[u] = status[u] /\ lease'[u] = lease[u]
                                /\ landed'[u] = landed[u] /\ tries'[u] = tries[u]
                                /\ u \in settling' <=> u \in settling,
         st[t] \notin {"absent", "pending"},
         st[t] = "completed" \/ t \in settling' => landed'[t] /\ lease'[t] \in {"none", "released"},
         lease'[t] = "released" => landed'[t],
         t \in settling' => tries'[t] \in 1..MaxSettle /\ (LateReap = FALSE => st[t] = "executing"),
         st[t] = "executing" /\ (phase = "up" \/ t \in mine)
           => t \in settling' \/ tries'[t] = MaxSettle + 1
  PROVE  Rows'
<1>1. PICK w : w = [Now EXCEPT !.status = st, !.pc[t] = "idle", !.running = @ - 1,
                               !.active = @ \ {chat[t]}, !.aborted = @ \ {t}]
  OBVIOUS
<1>2. /\ ProcessQueue(w) /\ UNCHANGED <<phase, mine>>
      /\ result' = [result EXCEPT ![t] = "none"] /\ hung' = hung \ {t} /\ reaped' = reaped \ {t}
  BY <1>1 DEF EndRun, procVars
<1>3. /\ w.queue = queue /\ w.aborted = aborted \ {t} /\ w.status = st
      /\ w.pc = [pc EXCEPT ![t] = "idle"]
  BY <1>1 DEF Now
<1>4. pc \in [Tasks -> PCs] /\ result \in [Tasks -> Results]
  BY Unfold DEF RowsInv, IInv, RestTyped
<1>5. ASSUME NEW u \in Tasks, u # t
      PROVE  Row(w, u)'
  <2>1. Row(Now, u) /\ SameIn(w, u) /\ Untouched(u)
    BY <1>2, <1>3, <1>4, <1>5 DEF RowsInv, Rows, SameIn, Untouched
  <2> QED
    BY <2>1, RowKept
<1>6. Row(w, t)'
  <2>1. Row(Now, t) /\ w.pc[t] = "idle" /\ result'[t] = "none" /\ w.status[t] = st[t]
    BY <1>2, <1>3, <1>4 DEF RowsInv, Rows
  <2>2. t \notin queue
    BY <2>1 DEF Row, Waits, Now
  <2>3. Waits(w, t)' /\ Stopped(w, t)' /\ Works(w, t)'
    BY <1>2, <1>3, <2>1, <2>2 DEF Waits, Stopped, Works
  <2>4. Reports(w, t)' /\ Settles(w, t)'
    BY <1>2, <1>3, <2>1 DEF Reports, Settles
  <2>5. Kept(w, t)'
    BY <1>2, <1>3, <2>1 DEF Row, Kept, Now
  <2>6. Seen(w, t)'
    BY <1>2, <1>3, <2>1 DEF Seen
  <2> QED
    BY <2>3, <2>4, <2>5, <2>6 DEF Row
<1> QED
  BY <1>2, <1>5, <1>6, PumpRows

\* The commit of the task's workspace failed.
LEMMA CommitLostRows ==
  ASSUME RowsInv, NEW t \in Tasks, CommitLost(t)
  PROVE  Rows'
<1>1. PICK st : /\ st = IF result[t] = "completed" /\ ~Withheld(t)
                        THEN [status EXCEPT ![t] = "failed"] ELSE status
                /\ EndRun(t, st)
  BY DEF CommitLost
<1>2. /\ pc[t] = "publish" /\ lease' = [lease EXCEPT ![t] = IF @ = "lost" THEN @ ELSE "kept"]
      /\ UNCHANGED <<landed, settling, tries>>
  BY DEF CommitLost
<1>3. /\ status \in [Tasks -> Statuses] /\ lease \in [Tasks -> Leases]
      /\ Row(Now, t) /\ status[t] # "absent" /\ st \in [Tasks -> Statuses]
  BY <1>1, <1>2, Unfold DEF RowsInv, IInv, RestTyped, Rows, InFlight, Statuses, Terminal
<1>4. \A u \in Tasks \ {t} : /\ st[u] = status[u] /\ lease'[u] = lease[u]
                             /\ landed'[u] = landed[u] /\ tries'[u] = tries[u]
                             /\ u \in settling' <=> u \in settling
  BY <1>1, <1>2, <1>3
<1>5. lease'[t] \in {"lost", "kept"} /\ st[t] \in {status[t], "failed"} /\ t \notin settling'
  BY <1>1, <1>2, <1>3 DEF Row, Settles, Now
<1>6. st[t] \notin {"absent", "pending", "completed", "executing"}
  BY <1>1, <1>2, <1>3, <1>5 DEF Row, Works, Reports, Stopped, Withheld, Foreground, Now
<1>7. pc[t] # "idle"
  BY <1>2
<1> QED
  BY <1>1, <1>3, <1>4, <1>5, <1>6, <1>7, EndRunRows

\* The terminal is written, withheld, or put off.
LEMMA SettleRows ==
  ASSUME RowsInv, NEW t \in Tasks, Settle(t)
  PROVE  Rows'
<1>1. PICK st : /\ EndRun(t, st)
                /\ IF result[t] = "completed" /\ ~Withheld(t)
                   THEN \/ st = Completed(t) /\ UNCHANGED <<settling, tries>>
                        \/ /\ st = status
                           /\ tries' = [tries EXCEPT ![t] = 1]
                           /\ settling' = IF Serving /\ MaxSettle > 0 THEN settling \cup {t} ELSE settling
                   ELSE st = status /\ UNCHANGED <<settling, tries>>
  BY DEF Settle
<1>2. /\ status \in [Tasks -> Statuses] /\ tries \in [Tasks -> Nat]
      /\ Row(Now, t) /\ status[t] # "absent" /\ pc[t] = "settle" /\ pc[t] # "idle"
      /\ UNCHANGED <<lease, landed>> /\ MaxSettle \in Nat
  BY Unfold, QueueAssumption DEF RowsInv, IInv, RestTyped, Rows, InFlight, Settle, diskVars
<1>3. st \in [Tasks -> Statuses]
  BY <1>1, <1>2 DEF Completed, Statuses, Terminal
<1>4. \A u \in Tasks \ {t} : /\ st[u] = status[u] /\ lease'[u] = lease[u]
                             /\ landed'[u] = landed[u] /\ tries'[u] = tries[u]
                             /\ u \in settling' <=> u \in settling
  BY <1>1, <1>2 DEF Completed
<1>5. /\ status[t] \notin {"absent", "pending", "completed"} /\ t \notin settling
      /\ lease[t] = "released" => landed[t]
  BY <1>2 DEF Row, Works, Settles, Now
<1>6. CASE result[t] = "completed" /\ ~Withheld(t)
  <2>1. /\ landed[t] /\ lease[t] \in {"none", "released"}
        /\ LateReap = FALSE => status[t] = "executing"
    BY <1>2, <1>6 DEF Row, Reports, Seen, Withheld, Now
  <2>2. CASE st = Completed(t) /\ UNCHANGED <<settling, tries>>
    <3>1. st[t] \notin {"absent", "pending", "executing"}
      BY <1>2, <1>5, <2>2 DEF Completed, Terminal
    <3> QED
      BY <1>1, <1>2, <1>3, <1>4, <1>5, <2>1, <2>2, <3>1, EndRunRows
  <2>3. CASE /\ st = status
             /\ tries' = [tries EXCEPT ![t] = 1]
             /\ settling' = IF Serving /\ MaxSettle > 0 THEN settling \cup {t} ELSE settling
    <3>1. tries'[t] = 1 /\ (t \in settling' => MaxSettle > 0)
      BY <1>2, <1>5, <2>3
    <3>2. phase = "up" \/ t \in mine => t \in settling' \/ MaxSettle = 0
      BY <1>2, <2>3 DEF Row, Kept, Serving
    <3>3. t \in settling' => tries'[t] \in 1..MaxSettle /\ (LateReap = FALSE => st[t] = "executing")
      BY <1>2, <2>1, <2>3, <3>1
    <3>4. phase = "up" \/ t \in mine => t \in settling' \/ tries'[t] = MaxSettle + 1
      BY <3>1, <3>2
    <3> QED
      BY <1>1, <1>2, <1>3, <1>4, <1>5, <2>1, <2>3, <3>3, <3>4, EndRunRows
  <2> QED
    BY <1>1, <1>6, <2>2, <2>3
<1>7. CASE ~(result[t] = "completed" /\ ~Withheld(t))
  <2>1. st[t] \notin Foreground /\ st = status /\ UNCHANGED <<settling, tries>>
    BY <1>1, <1>2, <1>7 DEF Row, Reports, Stopped, Withheld, Now
  <2> QED
    BY <1>1, <1>2, <1>3, <1>4, <1>5, <2>1, EndRunRows DEF Foreground
<1> QED
  BY <1>6, <1>7

\* A settle timer fires.
LEMMA SettleRetryRows ==
  ASSUME RowsInv, NEW t \in Tasks, SettleRetry(t)
  PROVE  Rows'
<1>1. /\ UNCHANGED <<queue, pc, lease, landed, phase, hung, reaped, result, mine>>
      /\ t \in settling /\ aborted' = aborted \ {t} /\ phase \in {"up", "booting"}
      /\ \/ /\ settling' = settling \ {t} /\ status' = IF Withheld(t) THEN status ELSE Completed(t)
            /\ tries' = [tries EXCEPT ![t] = 0]
         \/ /\ settling' = IF tries[t] >= MaxSettle THEN settling \ {t} ELSE settling
            /\ status' = status /\ tries' = [tries EXCEPT ![t] = @ + 1] /\ ~Withheld(t)
  BY DEF SettleRetry, diskVars, lockVars, procVars, Serving
<1>2. /\ status \in [Tasks -> Statuses] /\ tries \in [Tasks -> Nat] /\ Row(Now, t)
      /\ MaxSettle \in Nat
  BY Unfold, QueueAssumption DEF RowsInv, IInv, RestTyped, Rows
<1>3. \A u \in Tasks \ {t} : Still(u)
  BY <1>1, <1>2 DEF Still, Untouched, Completed
<1>4. /\ t \notin queue /\ pc[t] = "idle" /\ tries[t] \in 1..MaxSettle
      /\ landed[t] /\ lease[t] \in {"none", "released"} /\ status[t] \notin {"absent", "pending"}
  BY <1>1, <1>2 DEF Row, Waits, Settles, Now
<1>5. \/ t \notin settling' /\ status'[t] \notin {"absent", "pending", "executing"}
      \/ /\ status'[t] = status[t] /\ t \notin aborted \cup reaped
         /\ \/ t \notin settling' /\ tries'[t] = MaxSettle + 1
            \/ t \in settling' /\ tries'[t] \in 1..MaxSettle
  <2>1. CASE settling' = settling \ {t} /\ status' = IF Withheld(t) THEN status ELSE Completed(t)
    <3>1. Withheld(t) => status[t] \notin Foreground
      BY <1>2 DEF Row, Stopped, Withheld, Now
    <3>2. ~Withheld(t) => status'[t] \notin {"absent", "pending", "executing"}
      BY <1>2, <1>4, <2>1 DEF Completed, Terminal
    <3> QED
      BY <1>4, <2>1, <3>1, <3>2 DEF Foreground
  <2>2. CASE /\ settling' = IF tries[t] >= MaxSettle THEN settling \ {t} ELSE settling
             /\ status' = status /\ tries' = [tries EXCEPT ![t] = @ + 1] /\ ~Withheld(t)
    <3>1. tries'[t] = tries[t] + 1
      BY <1>2, <2>2
    <3>2. tries[t] >= MaxSettle => tries'[t] = MaxSettle + 1 /\ t \notin settling'
      BY <1>2, <1>4, <2>2, <3>1
    <3>3. ~(tries[t] >= MaxSettle) => tries'[t] \in 1..MaxSettle /\ t \in settling'
      BY <1>1, <1>2, <1>4, <2>2, <3>1
    <3> QED
      BY <2>2, <3>2, <3>3 DEF Withheld
  <2> QED
    BY <1>1, <2>1, <2>2
<1>6. Waits(Now, t)' /\ Stopped(Now, t)' /\ Reports(Now, t)'
  BY <1>1, <1>2, <1>4, <1>5 DEF Row, Waits, Stopped, Reports, Now
<1>7. Works(Now, t)' /\ Settles(Now, t)'
  BY <1>1, <1>2, <1>4, <1>5 DEF Row, Works, Settles, Now
<1>8. Kept(Now, t)' /\ Seen(Now, t)'
  BY <1>1, <1>2, <1>4, <1>5 DEF Row, Kept, Seen, Reports, Now
<1> QED
  BY <1>3, <1>6, <1>7, <1>8, OneRow DEF Row

\* A watchdog or a reaper stops a run; a reaper writes its row as well.
LEMMA GuardRows ==
  ASSUME RowsInv, NEW t \in Tasks, Guard(t)
  PROVE  Rows'
<1>1. /\ status \in [Tasks -> Statuses] /\ lease \in [Tasks -> Leases] /\ Row(Now, t)
  BY Unfold DEF RowsInv, IInv, RestTyped, Rows
<1>2. CASE Watchdog(t)
  <2>1. /\ UNCHANGED <<queue, aborted, status, pc, lease, landed, phase, reaped, result, settling, tries, mine>>
        /\ hung' = hung \cup {t} /\ pc[t] # "idle"
    BY <1>2 DEF Watchdog, rowVars, diskVars, lockVars, procVars
  <2>2. \A u \in Tasks \ {t} : Still(u)
    BY <2>1 DEF Still, Untouched
  <2>3. Waits(Now, t)' /\ Stopped(Now, t)' /\ Works(Now, t)' /\ Reports(Now, t)'
    BY <1>1, <2>1 DEF Row, Waits, Stopped, Works, Reports, Now
  <2>4. Settles(Now, t)' /\ Kept(Now, t)' /\ Seen(Now, t)'
    BY <1>1, <2>1 DEF Row, Settles, Kept, Seen, Now
  <2> QED
    BY <2>2, <2>3, <2>4, OneRow DEF Row
<1>3. ASSUME NEW rows \in SUBSET {"failed", "blocked"}, Reap(t, rows),
             \A u \in Tasks \ {t} : lease'[u] = lease[u],
             lease'[t] = lease[t] \/ (pc[t] = "work" /\ lease'[t] = "lost"),
             lease'[t] = "lost" \/ lease'[t] = lease[t]
      PROVE  Rows'
  <2>1. /\ UNCHANGED <<queue, aborted, pc, landed, phase, result, settling, tries, mine>>
        /\ t \in InFlight /\ (LateReap \/ ~Told(t))
        /\ reaped' = IF Told(t) THEN reaped ELSE reaped \cup {t}
        /\ hung' = IF Told(t) THEN hung ELSE hung \cup {t}
        /\ \E s \in {"failed", "blocked"} : status' = [status EXCEPT ![t] = s]
    BY <1>3 DEF Reap, lockVars, procVars
  <2>2. /\ status'[t] \in {"failed", "blocked"} /\ pc[t] # "idle"
        /\ LateReap = FALSE => t \in reaped'
        /\ t \in reaped' => t \in hung'
        /\ t \in reaped => t \in reaped'
    BY <1>1, <2>1 DEF InFlight, Row, Stopped, Now
  <2>3. \A u \in Tasks \ {t} : Still(u)
    BY <1>1, <1>3, <2>1 DEF Still, Untouched
  <2>4. status[t] \notin {"absent", "pending"} /\ t \notin queue
    BY <1>1, <2>2 DEF Row, Works, Waits, Now
  <2>5. Waits(Now, t)' /\ Stopped(Now, t)' /\ Works(Now, t)'
    BY <1>1, <1>3, <2>1, <2>2, <2>4 DEF Row, Waits, Stopped, Works, Now, Foreground
  <2>6. Reports(Now, t)' /\ Settles(Now, t)'
    BY <1>1, <1>3, <2>1, <2>2, <2>4 DEF Row, Reports, Settles, Now, Foreground
  <2>7. Kept(Now, t)' /\ Seen(Now, t)'
    BY <1>1, <2>1, <2>2 DEF Row, Kept, Seen, Settles, Now
  <2> QED
    BY <2>3, <2>5, <2>6, <2>7, OneRow DEF Row
<1>4. CASE ReapStuckTask(t)
  <2>1. PICK rows \in {{"failed"}, FailRows(t)} : Reap(t, rows)
    BY <1>4 DEF ReapStuckTask
  <2>2. rows \in SUBSET {"failed", "blocked"} /\ lease' = lease
    BY <1>4, <2>1 DEF ReapStuckTask, FailRows
  <2> QED
    BY <1>3, <2>1, <2>2
<1>5. CASE ReapLostWorkspace(t)
  <2>1. /\ Reap(t, FailRows(t)) /\ FailRows(t) \in SUBSET {"failed", "blocked"}
        /\ pc[t] = "work" /\ lease' = [lease EXCEPT ![t] = "lost"]
    BY <1>5 DEF ReapLostWorkspace, FailRows
  <2>2. lease'[t] = "lost" /\ \A u \in Tasks \ {t} : lease'[u] = lease[u]
    BY <1>1, <2>1
  <2> QED
    BY <1>3, <2>1, <2>2
<1> QED
  BY <1>2, <1>4, <1>5 DEF Guard

\* The process is gone: what it leaves on disk is sound if no unpublished row
\* looks published, and none that never ran looks run.
LEMMA VolatileRows ==
  ASSUME Volatile,
         \A t \in Tasks :
           /\ lease'[t] = "released" => landed'[t]
           /\ status'[t] = "completed" => landed'[t] /\ lease'[t] \in {"none", "released"}
           /\ status'[t] \in {"absent", "pending"} => lease'[t] = "none" /\ ~landed'[t]
  PROVE  Rows'
<1>1. SUFFICES ASSUME NEW t \in Tasks
               PROVE  Row(Now, t)'
  BY DEF Rows
<1>2. /\ queue' = {} /\ aborted' = {} /\ hung' = {} /\ reaped' = {} /\ settling' = {} /\ mine' = {}
      /\ pc'[t] = "idle" /\ result'[t] = "none" /\ phase' = "down"
  BY DEF Volatile
<1>3. Waits(Now, t)' /\ Stopped(Now, t)' /\ Works(Now, t)' /\ Reports(Now, t)'
  BY <1>2 DEF Waits, Stopped, Works, Reports, Now
<1>4. Settles(Now, t)' /\ Kept(Now, t)' /\ Seen(Now, t)'
  BY <1>2 DEF Settles, Kept, Seen, Now
<1> QED
  BY <1>3, <1>4 DEF Row

\* Before a death every row is sound, so a row that never ran has no workspace.
LEMMA OnDisk ==
  ASSUME RowsInv, NEW t \in Tasks
  PROVE  /\ lease[t] = "released" => landed[t]
         /\ status[t] = "completed" => landed[t] /\ lease[t] \in {"none", "released"}
         /\ status[t] \in {"absent", "pending"} => lease[t] = "none" /\ ~landed[t]
  BY DEF RowsInv, Rows, Row, Works, Now

\* Shutdown, exit, crash, boot and recovery.
LEMMA ProcessRows ==
  ASSUME RowsInv, Process
  PROVE  Rows'
<1>1. /\ \A t \in Tasks : Row(Now, t)
      /\ status \in [Tasks -> Statuses] /\ lease \in [Tasks -> Leases] /\ landed \in [Tasks -> BOOLEAN]
  BY Unfold DEF RowsInv, IInv, RestTyped, Rows
<1>2. CASE BeginShutdown
  <2>1. /\ UNCHANGED <<queue, aborted, status, pc, lease, landed, reaped, result, tries, mine>>
        /\ phase = "up" /\ phase' = "draining" /\ settling' = {}
        /\ hung' = hung \cup {u \in InFlight : ~Told(u)}
    BY <1>2 DEF BeginShutdown, rowVars, diskVars, lockVars
  <2>2. SUFFICES ASSUME NEW t \in Tasks
                 PROVE  Row(Now, t)'
    BY DEF Rows
  <2>3. Row(Now, t)
    BY <1>1
  <2>4. Waits(Now, t)' /\ Stopped(Now, t)' /\ Works(Now, t)'
    BY <2>1, <2>3 DEF Row, Waits, Stopped, Works, Now, InFlight
  <2>5. Reports(Now, t)' /\ Settles(Now, t)' /\ Kept(Now, t)' /\ Seen(Now, t)'
    BY <2>1, <2>3 DEF Row, Reports, Settles, Kept, Seen, Now
  <2> QED
    BY <2>4, <2>5 DEF Row
<1>3. CASE Exit
  <2>1. PICK done \in SUBSET Registered :
          /\ lease' = [t \in Tasks |-> IF t \in done THEN "released"
                                       ELSE IF t \in Registered THEN "left" ELSE lease[t]]
          /\ landed' = [t \in Tasks |-> landed[t] \/ t \in done]
    BY <1>3 DEF Exit, Disposed
  <2>2. /\ Volatile
        /\ status' = [t \in Tasks |-> IF status[t] \notin Active THEN status[t]
                                      ELSE IF Daemon(t) THEN "failed" ELSE "blocked"]
    BY <1>3 DEF Exit
  <2>3. ASSUME NEW t \in Tasks
        PROVE  /\ lease'[t] = "released" => landed'[t]
               /\ status'[t] = "completed" => landed'[t] /\ lease'[t] \in {"none", "released"}
               /\ status'[t] \in {"absent", "pending"} => lease'[t] = "none" /\ ~landed'[t]
    <3>1. t \in done => lease[t] \in {"task", "own", "kept"}
      BY <2>1 DEF Registered
    <3>2. t \in Registered <=> lease[t] \in {"task", "own", "kept"}
      BY DEF Registered
    <3>3. /\ lease'[t] = IF t \in done THEN "released"
                         ELSE IF t \in Registered THEN "left" ELSE lease[t]
          /\ landed'[t] <=> landed[t] \/ t \in done
          /\ status'[t] = status[t] \/ status'[t] \in {"failed", "blocked"}
      BY <1>1, <2>1, <2>2
    <3> QED
      BY <3>1, <3>2, <3>3, OnDisk
  <2> QED
    BY <2>2, <2>3, VolatileRows
<1>4. ASSUME Dies,
             \A t \in Tasks : status'[t] = status[t]
                              \/ (status[t] \in {"absent", "pending"} /\ status'[t] \in {"pending", "executing"})
      PROVE  Rows'
  <2>1. /\ Volatile /\ landed' = landed
        /\ lease' = [t \in Tasks |-> IF t \in Registered THEN "left" ELSE lease[t]]
    BY <1>4 DEF Dies
  <2>2. ASSUME NEW t \in Tasks
        PROVE  /\ lease'[t] = "released" => landed'[t]
               /\ status'[t] = "completed" => landed'[t] /\ lease'[t] \in {"none", "released"}
               /\ status'[t] \in {"absent", "pending"} => lease'[t] = "none" /\ ~landed'[t]
    <3>1. t \in Registered <=> lease[t] \in {"task", "own", "kept"}
      BY DEF Registered
    <3> QED
      BY <1>4, <2>1, <3>1, OnDisk
  <2> QED
    BY <2>1, <2>2, VolatileRows
<1>5. CASE Crash
  BY <1>4, <1>5 DEF Crash, rowVars
<1>6. ASSUME NEW t \in Tasks, ResumeTorn(t)
      PROVE  Rows'
  <2>1. PICK shut : shut = [Now EXCEPT !.paused = @ \ {chat[t]}]
    OBVIOUS
  <2>2. PICK c \in Tasks, S \in Starts(shut) :
          Fresh(c) /\ status' = [After(shut, S).status EXCEPT ![c] = "pending"]
    BY <1>6, <2>1 DEF ResumeTorn
  <2>3. /\ After(shut, S).status = [u \in Tasks |-> IF u \in S THEN "executing" ELSE status[u]]
        /\ S \subseteq queue \ aborted /\ status[c] = "absent"
    BY <2>1, <2>2 DEF After, Now, Starts, Heads, Runnable, Fresh
  <2>4. \A u \in S : status[u] = "pending"
    BY <1>1, <2>3, Unfold DEF Row, Waits, Now, RowsInv, IInv
  <2>5. \A u \in Tasks : status'[u] = IF u = c THEN "pending"
                                      ELSE IF u \in S THEN "executing" ELSE status[u]
    BY <2>2, <2>3
  <2> QED
    BY <1>4, <1>6, <2>3, <2>4, <2>5 DEF ResumeTorn
<1>7. CASE Boot
  <2>1. /\ UNCHANGED <<queue, aborted, status, pc, lease, landed, hung, reaped, result, settling, tries, mine>>
        /\ phase = "down" /\ phase' = "booting"
    BY <1>7 DEF Boot, rowVars, diskVars, lockVars, runVars, procVars
  <2>2. SUFFICES ASSUME NEW t \in Tasks
                 PROVE  Row(Now, t)'
    BY DEF Rows
  <2>3. Row(Now, t)
    BY <1>1
  <2>4. Waits(Now, t)' /\ Stopped(Now, t)' /\ Works(Now, t)' /\ Reports(Now, t)'
    BY <2>1, <2>3 DEF Row, Waits, Stopped, Works, Reports, Now
  <2>5. Settles(Now, t)' /\ Kept(Now, t)' /\ Seen(Now, t)'
    BY <2>1, <2>3 DEF Row, Settles, Kept, Seen, Now
  <2> QED
    BY <2>4, <2>5 DEF Row
<1>8. CASE Recover
  <2>1. /\ UNCHANGED <<queue, aborted, pc, lease, landed, hung, reaped, result, settling, tries>>
        /\ phase = "booting" /\ phase' = "up" /\ mine' = {}
    BY <1>8 DEF Recover, diskVars, lockVars, runVars
  <2>2. SUFFICES ASSUME NEW t \in Tasks
                 PROVE  Row(Now, t)'
    BY DEF Rows
  <2>3. IF t \in mine \/ status[t] \notin Active THEN status'[t] = status[t]
        ELSE status'[t] \in {"cancelled", "failed", "paused"}
    BY <1>8 DEF Recover
  <2>4. Row(Now, t)
    BY <1>1
  <2>5. CASE t \in mine
    <3>1. status'[t] = status[t]
      BY <2>3, <2>5
    <3>2. Waits(Now, t)' /\ Stopped(Now, t)' /\ Works(Now, t)' /\ Reports(Now, t)'
      BY <2>1, <2>4, <3>1 DEF Row, Waits, Stopped, Works, Reports, Now
    <3>3. Settles(Now, t)' /\ Kept(Now, t)' /\ Seen(Now, t)'
      BY <2>1, <2>4, <2>5, <3>1 DEF Row, Settles, Kept, Seen, Now
    <3> QED
      BY <3>2, <3>3 DEF Row
  <2>6. CASE t \notin mine
    <3>1. /\ t \notin queue \cup settling \cup hung \cup reaped /\ pc[t] = "idle"
          /\ result[t] # "completed"
      BY <2>1, <2>4, <2>6 DEF Row, Stopped, Reports, Kept, Now
    <3>2. /\ status'[t] = status[t] \/ status'[t] \in {"cancelled", "failed", "paused"}
          /\ status'[t] \notin Foreground
      BY <2>3, <2>6 DEF Active, Foreground
    <3>3. Waits(Now, t)' /\ Stopped(Now, t)' /\ Works(Now, t)' /\ Reports(Now, t)'
      BY <2>1, <2>4, <3>1, <3>2 DEF Row, Waits, Stopped, Works, Reports, Now
    <3>4. Settles(Now, t)' /\ Kept(Now, t)' /\ Seen(Now, t)'
      BY <2>1, <2>4, <3>1, <3>2 DEF Row, Settles, Kept, Seen, Now, Foreground
    <3> QED
      BY <3>3, <3>4 DEF Row
  <2> QED
    BY <2>5, <2>6
<1> QED
  BY <1>2, <1>3, <1>5, <1>6, <1>7, <1>8 DEF Process

\* A step that changes nothing, and the state the system starts in.
LEMMA StutterRows ==
  ASSUME RowsInv, UNCHANGED vars
  PROVE  Rows'
<1>1. /\ UNCHANGED <<queue, aborted, status, pc, lease, landed, phase, hung, reaped, result>>
      /\ UNCHANGED <<settling, tries, mine>>
  BY DEF vars, rowVars, diskVars, lockVars, runVars, procVars
<1>2. \A u \in Tasks : Still(u)
  BY <1>1 DEF Still, Untouched
<1>3. 0 \notin Tasks
  BY DEF Tasks
<1>4. \A u \in Tasks \ {0} : Still(u)
  BY <1>2
<1> QED
  BY <1>3, <1>4, OneRow

\* Before anything is submitted there is nothing to be unsound.
LEMMA InitRows ==
  ASSUME Init
  PROVE  Rows /\ InOrder /\ PauseLocks
<1>1. ASSUME NEW t \in Tasks
      PROVE  Row(Now, t)
  <2>1. Waits(Now, t) /\ Stopped(Now, t) /\ Works(Now, t) /\ Reports(Now, t)
    BY DEF Init, Waits, Stopped, Works, Reports, Now
  <2>2. Settles(Now, t) /\ Kept(Now, t) /\ Seen(Now, t)
    BY DEF Init, Settles, Kept, Seen, Now
  <2> QED
    BY <2>1, <2>2 DEF Row
<1>2. InOrder /\ PauseLocks
  BY DEF Init, InOrder, PauseLocks
<1> QED
  BY <1>1, <1>2 DEF Rows

\* Every step leaves sound rows.
LEMMA NextRows ==
  ASSUME RowsInv, [Next]_vars
  PROVE  Rows'
<1>1. CASE Person
  BY <1>1, SubmitRows, CancelRows, PauseRows, ResumeRows, RetryRows DEF Person
<1>2. CASE Process
  BY <1>2, ProcessRows
<1>3. CASE \E t \in Tasks : Run(t)
  BY <1>3, StartWorkRows, WorkEndsRows, EnvelopeRows, CommitLandsRows, CommitLostRows, SettleRows
  DEF Run
<1>4. CASE \E t \in Tasks : SettleRetry(t) \/ Guard(t)
  BY <1>4, SettleRetryRows, GuardRows
<1>5. CASE UNCHANGED vars
  BY <1>5, StutterRows
<1> QED
  BY <1>1, <1>2, <1>3, <1>4, <1>5 DEF Next

-----------------------------------------------------------------------------
(* What a step may do to one row.                                          *)

\* A run begins on a saved or a new row (or the process dies as it begins).
Begun(t) ==
  /\ status[t] \in {"absent", "pending"} /\ status'[t] = "executing"
  /\ status[t] = "absent" => Fresh(t)
  /\ pc'[t] # "idle" \/ \A u \in Tasks : pc'[u] = "idle"

\* The other ways in which a handler may turn the row of t into s.
Turns(t, s) ==
  \/ s = status[t]
  \/ Fresh(t) /\ s \in {"pending", "failed"}
  \/ /\ status[t] \in Active \cup {"blocked"} /\ s = "cancelled"
     /\ status[t] = "paused" => chat[t] \notin paused'
  \/ status[t] = "executing" /\ s = "paused"
  \/ status[t] \in Active /\ s \in {"paused", "failed", "blocked"} /\ paused' = {}
  \/ /\ status[t] \notin {"absent", "pending"} /\ s \in {"failed", "blocked", "completed"}
     /\ LateReap = FALSE => status[t] = "executing"
     /\ s = "completed" => landed'[t] /\ status[t] \notin Terminal

Change(t) ==
  /\ status[t] # "absent" => chat'[t] = chat[t]
  /\ landed[t] => landed'[t]
  /\ pc[t] = "idle" => pc'[t] = "idle" \/ Begun(t)
  /\ Turns(t, status'[t]) \/ Begun(t)

\* The same of the view a handler hands over.
ViewChange(w, t) ==
  /\ status[t] # "absent" => w.chat[t] = chat[t]
  /\ t \in w.queue \ w.aborted => status[t] = "pending" \/ Fresh(t)
  /\ \/ Turns(t, w.status[t]) /\ (pc[t] = "idle" => w.pc[t] = "idle")
     \/ status[t] = "pending" /\ w.status[t] = "executing" /\ w.pc[t] = "admit"

\* What the scan does to a row is a beginning.
LEMMA PumpChange ==
  ASSUME NEW w, ProcessQueue(w) \/ Becomes(w), NEW t \in Tasks, ViewChange(w, t),
         landed[t] => landed'[t]
  PROVE  Change(t)
<1>1. CASE ProcessQueue(w)
  <2>1. PICK S, K : Pumped(w, S, K)
    BY <1>1, PumpEffect
  <2>2. /\ status'[t] = IF t \in S THEN "executing" ELSE w.status[t]
        /\ pc'[t] = IF t \in S THEN "admit" ELSE w.pc[t]
        /\ S \subseteq w.queue \ w.aborted /\ chat' = w.chat
    BY <2>1 DEF Pumped
  <2> QED
    BY <2>2 DEF ViewChange, Change, Begun, Fresh
<1>2. CASE Becomes(w)
  BY <1>2 DEF Becomes, ViewChange, Change, Begun
<1> QED
  BY <1>1, <1>2

\* A submission saves a fresh row and moves the queue.
LEMMA SubmittedChange ==
  ASSUME NEW v \in View, NEW c \in Tasks, Fresh(c), v.status[c] = "absent", NEW ch,
         Submitted(v, c, ch), NEW t \in Tasks, ViewChange(v, t), landed[t] => landed'[t]
  PROVE  Change(t)
<1>1. PICK w : w = Enqueue(v, c, ch)
  OBVIOUS
<1>2. /\ w.pc = v.pc /\ w.aborted = v.aborted /\ w.chat = [v.chat EXCEPT ![c] = ch]
      /\ \/ w.queue = v.queue /\ w.status = [v.status EXCEPT ![c] = "failed"]
         \/ w.queue = v.queue \cup {c} /\ w.status = [v.status EXCEPT ![c] = "pending"]
  BY <1>1 DEF Enqueue, View
<1>3. ViewChange(w, t)
  <2>1. CASE t = c
    <3>1. status[t] = "absent" /\ w.status[t] \in {"pending", "failed"} /\ Fresh(t)
      BY <1>2, <2>1 DEF Fresh, View
    <3>2. pc[t] = "idle" => w.pc[t] = "idle"
      BY <1>2, <2>1 DEF ViewChange
    <3> QED
      BY <3>1, <3>2 DEF ViewChange, Turns
  <2>2. CASE t # c
    <3>1. w.status[t] = v.status[t] /\ w.chat[t] = v.chat[t] /\ (t \in w.queue <=> t \in v.queue)
      BY <1>2, <2>2 DEF View
    <3> QED
      BY <1>2, <3>1 DEF ViewChange
  <2> QED
    BY <2>1, <2>2
<1>4. ProcessQueue(w) \/ Becomes(w)
  BY <1>1 DEF Submitted
<1> QED
  BY <1>3, <1>4, PumpChange

\* A handler that hands over the row as it found it.
LEMMA SameChange ==
  ASSUME RowsInv, NEW w, NEW t \in Tasks, SameIn(w, t), w.chat[t] = chat[t]
  PROVE  ViewChange(w, t)
<1>1. t \in queue \ aborted => status[t] = "pending"
  BY DEF RowsInv, Rows, Row, Waits, Now
<1> QED
  BY <1>1 DEF SameIn, ViewChange, Turns

-----------------------------------------------------------------------------
(* ... handler by handler.                                                 *)

\* The person's operations.
LEMMA SubmitChange ==
  ASSUME RowsInv, NEW c \in Tasks, NEW ch, Submit(c, ch) , NEW t \in Tasks
  PROVE  Change(t)
<1>1. PICK v : v = Now
  OBVIOUS
<1>2. v \in View /\ Fresh(c) /\ v.status[c] = "absent" /\ Submitted(v, c, ch) /\ landed' = landed
  BY <1>1 DEF RowsInv, IInv, Good, Submit, Fresh, Now, diskVars
<1>3. ViewChange(v, t)
  <2>1. SameIn(v, t) /\ v.chat[t] = chat[t]
    BY <1>1 DEF SameIn, Now
  <2> QED
    BY <2>1, SameChange
<1> QED
  BY <1>2, <1>3, SubmittedChange

\* A retry saves another row and leaves its own.
LEMMA RetryChange ==
  ASSUME RowsInv, NEW r \in Tasks, RetryTask(r), NEW t \in Tasks
  PROVE  Change(t)
<1>1. PICK v : v = Now
  OBVIOUS
<1>2. PICK c \in Tasks : Fresh(c) /\ Submitted(v, c, chat[r])
  BY <1>1 DEF RetryTask
<1>3. v \in View /\ v.status[c] = "absent" /\ landed' = landed
  BY <1>1, <1>2 DEF RowsInv, IInv, Good, RetryTask, Fresh, Now, diskVars
<1>4. ViewChange(v, t)
  <2>1. SameIn(v, t) /\ v.chat[t] = chat[t]
    BY <1>1 DEF SameIn, Now
  <2> QED
    BY <2>1, SameChange
<1> QED
  BY <1>2, <1>3, <1>4, SubmittedChange

\* A cancel moves one row, and opens its conversation if that was paused.
LEMMA CancelChange ==
  ASSUME RowsInv, NEW k \in Tasks, Cancel(k), NEW t \in Tasks
  PROVE  Change(t)
<1>1. PICK w : w = [Now EXCEPT !.status[k] = "cancelled",
                               !.aborted = IF status[k] \in Foreground
                                           THEN @ \cup Abortable(k) ELSE @]
  OBVIOUS
<1>2. PICK x : x = [w EXCEPT !.paused = @ \ {chat[k]}]
  OBVIOUS
<1>3. /\ landed' = landed /\ status[k] \in Active \cup {"blocked"}
      /\ IF status[k] = "paused" THEN ProcessQueue(x) ELSE Becomes(w)
  BY <1>1, <1>2 DEF Cancel, diskVars
<1>4. /\ w.queue = queue /\ w.pc = pc /\ w.status = [status EXCEPT ![k] = "cancelled"]
      /\ w.chat = chat /\ w.aborted = IF status[k] \in Foreground THEN aborted \cup Abortable(k) ELSE aborted
      /\ x.queue = w.queue /\ x.pc = w.pc /\ x.status = w.status /\ x.aborted = w.aborted
      /\ x.chat = w.chat /\ x.paused = paused \ {chat[k]}
  BY <1>1, <1>2 DEF Now
<1>5. status \in [Tasks -> Statuses] /\ Row(Now, t)
  BY Unfold DEF RowsInv, IInv, Rows
<1>6. status[k] = "paused" => chat[k] \notin paused'
  <2>1. ASSUME ProcessQueue(x)
        PROVE  paused' = x.paused
    BY <2>1, PumpEffect DEF Pumped
  <2> QED
    BY <1>3, <1>4, <2>1
<1>7. ViewChange(w, t)
  <2>1. CASE t # k
    <3>1. SameIn(w, t) /\ w.chat[t] = chat[t]
      BY <1>4, <1>5, <2>1 DEF SameIn, Abortable
    <3> QED
      BY <3>1, SameChange
  <2>2. CASE t = k
    <3>1. w.status[t] = "cancelled" /\ w.pc[t] = pc[t] /\ w.chat[t] = chat[t]
      BY <1>4, <1>5, <2>2
    <3>2. Turns(t, w.status[t])
      BY <1>3, <1>6, <2>2, <3>1 DEF Turns
    <3>3. t \in w.queue \ w.aborted => status[t] = "pending"
      BY <1>4, <1>5, <2>2 DEF Row, Waits, Now
    <3> QED
      BY <3>1, <3>2, <3>3 DEF ViewChange
  <2> QED
    BY <2>1, <2>2
<1>8. ViewChange(x, t)
  BY <1>4, <1>7 DEF ViewChange
<1> QED
  BY <1>3, <1>7, <1>8, PumpChange

\* A pause moves one executing row.
LEMMA PauseChange ==
  ASSUME RowsInv, NEW p \in Tasks, PauseTask(p), NEW t \in Tasks
  PROVE  Change(t)
<1>1. /\ UNCHANGED <<chat, landed, pc>>
      /\ status[p] = "executing" /\ status' = [status EXCEPT ![p] = "paused"]
  BY DEF PauseTask, diskVars
<1>2. status \in [Tasks -> Statuses]
  BY Unfold DEF RowsInv, IInv
<1>3. t # p => status'[t] = status[t]
  BY <1>1, <1>2
<1>4. t = p => status'[t] = "paused"
  BY <1>1, <1>2
<1> QED
  BY <1>1, <1>3, <1>4 DEF Change, Turns

\* ... so it starts S, retires p, and submits a fresh row.
LEMMA ResumeChange ==
  ASSUME RowsInv, NEW p \in Tasks, ResumeTask(p), NEW t \in Tasks
  PROVE  Change(t)
<1>1. PICK shut : shut = Opened(p)
  OBVIOUS
<1>2. PICK S, v : Resumed(p, S, v)
  BY ResumeViews
<1> USE <1>2 DEF Resumed
<1>3. S \subseteq queue \ aborted /\ Skips(shut, S) \subseteq aborted
  BY <1>1, <1>2 DEF Starts, Heads, Runnable, Skips, Now, Opened
<1>4. status[p] = "paused" /\ landed' = landed
  BY DEF ResumeTask, diskVars
<1>5. chat[p] \notin paused'
  <2>1. CASE Becomes(v)
    BY <1>2, <2>1 DEF Becomes
  <2>2. ASSUME NEW c \in Tasks, Submitted(v, c, chat[p])
        PROVE  chat[p] \notin paused'
    <3>1. PICK w : w = Enqueue(v, c, chat[p])
      OBVIOUS
    <3>2. ProcessQueue(w) \/ Becomes(w)
      BY <2>2, <3>1 DEF Submitted
    <3>3. w.paused = v.paused
      BY <1>2, <3>1 DEF Enqueue, View
    <3>4. ProcessQueue(w) => paused' = w.paused
      BY PumpEffect DEF Pumped
    <3> QED
      BY <1>2, <3>2, <3>3, <3>4 DEF Becomes
  <2> QED
    BY <1>2, <2>1, <2>2
<1>6. t \in queue \ aborted => status[t] = "pending"
  BY DEF RowsInv, Rows, Row, Waits, Now
<1>7. ViewChange(v, t)
  <2>1. t \in v.queue \ v.aborted => status[t] = "pending"
    BY <1>2, <1>3, <1>6
  <2>2. CASE t = p
    BY <1>2, <1>4, <1>5, <2>1, <2>2 DEF ViewChange, Turns, Active
  <2>3. CASE t # p /\ t \in S
    BY <1>2, <1>3, <1>6, <2>1, <2>3 DEF ViewChange
  <2>4. CASE t # p /\ t \notin S
    BY <1>2, <2>1, <2>4 DEF ViewChange, Turns
  <2> QED
    BY <2>2, <2>3, <2>4
<1>8. ASSUME NEW c \in Tasks, Fresh(c), Submitted(v, c, chat[p])
      PROVE  Change(t)
  <2>1. c # p /\ c \notin S /\ status[c] = "absent"
    BY <1>3, <1>4, <1>8, Unfold DEF Fresh, RowsInv, IInv
  <2>2. v.status[c] = "absent"
    BY <1>2, <2>1
  <2> QED
    BY <1>2, <1>4, <1>7, <1>8, <2>2, SubmittedChange
<1> QED
  BY <1>2, <1>4, <1>7, <1>8, PumpChange

\* The steps of a run.
LEMMA OutcomeChange ==
  ASSUME RowsInv, NEW r \in Tasks, NEW o \in Results, Outcome(r, o),
         pc[r] \in {"admit", "work", "envelope"}, NEW p, pc' = [pc EXCEPT ![r] = p],
         NEW t \in Tasks, landed[t] => landed'[t]
  PROVE  Change(t)
<1>1. /\ \A u \in Tasks \ {r} : status'[u] = status[u]
      /\ status'[r] = status[r] \/ (r \notin aborted \cup reaped /\ status'[r] \in {"failed", "blocked"})
  BY OutcomeRow
<1>2. chat' = chat
  BY DEF Outcome
<1>3. pc \in [Tasks -> PCs] /\ Row(Now, r) /\ status[r] \notin {"absent", "pending"}
  BY Unfold DEF RowsInv, IInv, Rows, InFlight, Row, Works, Now
<1>4. CASE t = r
  BY <1>1, <1>2, <1>3, <1>4 DEF Change, Turns, Row, Seen, Now
<1>5. CASE t # r
  BY <1>1, <1>2, <1>3, <1>5 DEF Change, Turns
<1> QED
  BY <1>4, <1>5

\* Before a run settles only its own row moves.
LEMMA WorkChange ==
  ASSUME RowsInv, NEW r \in Tasks,
         StartWork(r) \/ WorkEnds(r) \/ EnvelopeCommit(r) \/ CommitLands(r),
         NEW t \in Tasks
  PROVE  Change(t)
<1>1. /\ pc \in [Tasks -> PCs] /\ landed \in [Tasks -> BOOLEAN]
      /\ Row(Now, r) /\ result \in [Tasks -> Results]
  BY Unfold DEF RowsInv, IInv, Rows, RestTyped
<1>2. ASSUME pc[r] \in {"admit", "work", "envelope"}
      PROVE  ~landed[r]
  <2>1. pc[r] # "idle" => status[r] \notin {"absent", "pending"}
    BY <1>1, Unfold DEF RowsInv, IInv, InFlight, Row, Works, Now
  <2> QED
    BY <1>1, <1>2, <2>1 DEF Row, Works, Now
<1>3. CASE StartWork(r)
  BY <1>1, <1>3 DEF StartWork, rowVars, Change, Turns
<1>4. CASE WorkEnds(r)
  <2>1. PICK o \in {"completed", "failed", "blocked"} :
          IF lease[r] = "own"
          THEN /\ pc' = [pc EXCEPT ![r] = "envelope"]
               /\ UNCHANGED <<rowVars, diskVars>>
          ELSE /\ Outcome(r, o)
               /\ pc' = [pc EXCEPT ![r] = IF lease[r] = "none" THEN "settle" ELSE "publish"]
               /\ landed' = [landed EXCEPT ![r] = pc[r] = "work" /\ lease[r] = "none"]
    BY <1>4 DEF WorkEnds
  <2>2. pc[r] \in {"admit", "work", "envelope"}
    BY <1>4 DEF WorkEnds
  <2>3. CASE lease[r] = "own"
    BY <1>1, <2>1, <2>2, <2>3 DEF Change, Turns, rowVars, diskVars
  <2>4. CASE lease[r] # "own"
    <3>1. landed[t] => landed'[t]
      BY <1>1, <1>2, <2>1, <2>2, <2>4
    <3>2. Outcome(r, o) /\ o \in Results /\ \E p : pc' = [pc EXCEPT ![r] = p]
      BY <2>1, <2>4 DEF Results
    <3> QED
      BY <2>2, <3>1, <3>2, OutcomeChange
  <2> QED
    BY <2>3, <2>4
<1>5. CASE EnvelopeCommit(r)
  <2>1. PICK ok \in BOOLEAN :
          /\ landed' = [landed EXCEPT ![r] = ok]
          /\ Outcome(r, IF ok THEN result[r] ELSE "failed")
    BY <1>5 DEF EnvelopeCommit
  <2>2. PICK o \in Results : o = IF ok THEN result[r] ELSE "failed"
    BY <1>1 DEF Results
  <2>3. pc[r] \in {"admit", "work", "envelope"} /\ pc' = [pc EXCEPT ![r] = "settle"]
    BY <1>5 DEF EnvelopeCommit
  <2>4. landed[t] => landed'[t]
    BY <1>1, <1>2, <2>1, <2>3
  <2> QED
    BY <2>1, <2>2, <2>3, <2>4, OutcomeChange
<1>6. CASE CommitLands(r)
  BY <1>1, <1>6 DEF CommitLands, rowVars, Change, Turns
<1> QED
  BY <1>3, <1>4, <1>5, <1>6

\* A run ends with the status column st.
LEMMA EndChange ==
  ASSUME RowsInv, NEW r \in Tasks, pc[r] # "idle", NEW st, EndRun(r, st),
         \A u \in Tasks \ {r} : st[u] = status[u], landed' = landed,
         Turns(r, st[r]), NEW t \in Tasks
  PROVE  Change(t)
<1>1. PICK w : w = [Now EXCEPT !.status = st, !.pc[r] = "idle", !.running = @ - 1,
                               !.active = @ \ {chat[r]}, !.aborted = @ \ {r}]
  OBVIOUS
<1>2. /\ ProcessQueue(w) /\ w.queue = queue /\ w.aborted = aborted \ {r} /\ w.status = st
      /\ w.pc = [pc EXCEPT ![r] = "idle"] /\ w.chat = chat
  BY <1>1 DEF EndRun, Now
<1>3. pc \in [Tasks -> PCs] /\ r \notin queue
  BY Unfold DEF RowsInv, IInv, Rows, Row, Waits, Now
<1>4. ViewChange(w, t)
  <2>1. CASE t = r
    BY <1>2, <1>3, <2>1 DEF ViewChange
  <2>2. CASE t # r
    <3>1. SameIn(w, t) /\ w.chat[t] = chat[t]
      BY <1>2, <1>3, <2>2 DEF SameIn
    <3> QED
      BY <3>1, SameChange
  <2> QED
    BY <2>1, <2>2
<1> QED
  BY <1>2, <1>4, PumpChange

\* A run that ends completes or fails its own row, or leaves it.
LEMMA SettledChange ==
  ASSUME RowsInv, NEW r \in Tasks, CommitLost(r) \/ Settle(r), NEW t \in Tasks
  PROVE  Change(t)
<1>1. /\ status \in [Tasks -> Statuses] /\ Row(Now, r)
      /\ landed' = landed /\ pc[r] \in {"publish", "settle"} /\ pc[r] # "idle"
  BY Unfold DEF RowsInv, IInv, Rows, CommitLost, Settle, diskVars
<1>2. status[r] \notin {"absent", "pending", "completed"}
  BY <1>1 DEF Row, Works, Now
<1>3. CASE CommitLost(r)
  <2>1. PICK st : /\ st = IF result[r] = "completed" /\ ~Withheld(r)
                          THEN [status EXCEPT ![r] = "failed"] ELSE status
                  /\ EndRun(r, st)
    BY <1>3 DEF CommitLost
  <2>2. Turns(r, st[r])
    BY <1>1, <1>2, <2>1 DEF Turns, Row, Seen, Withheld, Now
  <2>3. \A u \in Tasks \ {r} : st[u] = status[u]
    BY <1>1, <2>1
  <2> QED
    BY <1>1, <2>1, <2>2, <2>3, EndChange
<1>4. CASE Settle(r)
  <2>1. PICK st : /\ EndRun(r, st)
                  /\ st = status \/ (st = Completed(r) /\ result[r] = "completed" /\ ~Withheld(r))
                  /\ pc[r] = "settle"
    BY <1>4 DEF Settle
  <2>2. Turns(r, st[r])
    BY <1>1, <1>2, <2>1 DEF Turns, Row, Seen, Reports, Withheld, Completed, Now
  <2>3. \A u \in Tasks \ {r} : st[u] = status[u]
    BY <1>1, <2>1 DEF Completed
  <2> QED
    BY <1>1, <2>1, <2>2, <2>3, EndChange
<1> QED
  BY <1>3, <1>4

\* Timers, the watchdog and the reapers.
LEMMA GuardChange ==
  ASSUME RowsInv, NEW r \in Tasks, SettleRetry(r) \/ Guard(r), NEW t \in Tasks
  PROVE  Change(t)
<1>1. status \in [Tasks -> Statuses] /\ Row(Now, r)
  BY Unfold DEF RowsInv, IInv, Rows
<1>2. CASE SettleRetry(r)
  <2>1. /\ UNCHANGED <<chat, landed, pc>> /\ r \in settling
        /\ status' = status \/ (~Withheld(r) /\ status' = Completed(r))
    BY <1>2 DEF SettleRetry, diskVars
  <2>2. Turns(r, status'[r])
    BY <1>1, <2>1 DEF Turns, Row, Settles, Seen, Withheld, Completed, Now
  <2>3. t # r => status'[t] = status[t]
    BY <1>1, <2>1 DEF Completed
  <2> QED
    BY <2>1, <2>2, <2>3 DEF Change, Turns
<1>3. CASE Watchdog(r)
  BY <1>3 DEF Watchdog, rowVars, diskVars, Change, Turns
<1>4. ASSUME NEW rows \in SUBSET {"failed", "blocked"}, Reap(r, rows),
             status[r] = "executing" \/ pc[r] = "work"
      PROVE  Change(t)
  <2>1. /\ UNCHANGED <<chat, landed, pc>> /\ r \in InFlight /\ (LateReap \/ ~Told(r))
        /\ \E s \in {"failed", "blocked"} : status' = [status EXCEPT ![r] = s]
    BY <1>4 DEF Reap
  <2>2. LateReap = FALSE => status[r] = "executing"
    BY <1>1, <1>4, <2>1 DEF Told, Row, Seen, Stopped, Now
  <2>3. status[r] \notin {"absent", "pending"}
    BY <1>1, <2>1 DEF Row, Works, InFlight, Now
  <2>4. status'[r] \in {"failed", "blocked"} /\ (t # r => status'[t] = status[t])
    BY <1>1, <2>1
  <2> QED
    BY <2>1, <2>2, <2>3, <2>4 DEF Change, Turns
<1>5. CASE ReapStuckTask(r)
  <2>1. PICK rows \in {{"failed"}, FailRows(r)} : Reap(r, rows)
    BY <1>5 DEF ReapStuckTask
  <2>2. rows \in SUBSET {"failed", "blocked"} /\ status[r] = "executing"
    BY <1>5, <2>1 DEF ReapStuckTask, FailRows
  <2> QED
    BY <1>4, <2>1, <2>2
<1>6. CASE ReapLostWorkspace(r)
  <2>1. Reap(r, FailRows(r)) /\ FailRows(r) \in SUBSET {"failed", "blocked"} /\ pc[r] = "work"
    BY <1>6 DEF ReapLostWorkspace, FailRows
  <2> QED
    BY <1>4, <2>1
<1> QED
  BY <1>2, <1>3, <1>5, <1>6 DEF Guard

\* Shutdown, exit, crash, boot and recovery.
LEMMA ProcessChange ==
  ASSUME RowsInv, Process, NEW t \in Tasks
  PROVE  Change(t)
<1>1. status \in [Tasks -> Statuses] /\ Row(Now, t) /\ landed \in [Tasks -> BOOLEAN]
  BY Unfold DEF RowsInv, IInv, Rows, RestTyped
<1>2. Volatile => pc'[t] = "idle" /\ paused' = {} /\ \A u \in Tasks : pc'[u] = "idle"
  BY DEF Volatile
<1>3. CASE BeginShutdown
  BY <1>3 DEF BeginShutdown, rowVars, diskVars, Change, Turns
<1>4. CASE Exit
  <2>1. /\ Volatile /\ chat' = chat
        /\ status' = [u \in Tasks |-> IF status[u] \notin Active THEN status[u]
                                      ELSE IF Daemon(u) THEN "failed" ELSE "blocked"]
        /\ \E done : landed' = [u \in Tasks |-> landed[u] \/ u \in done]
    BY <1>4 DEF Exit, Disposed
  <2>2. IF status[t] \notin Active THEN status'[t] = status[t] ELSE status'[t] \in {"failed", "blocked"}
    BY <2>1
  <2>3. landed[t] => landed'[t]
    BY <2>1
  <2> QED
    BY <1>2, <2>1, <2>2, <2>3 DEF Change, Turns
<1>5. CASE Crash
  BY <1>2, <1>5 DEF Crash, Dies, rowVars, Change, Turns
<1>6. ASSUME NEW r \in Tasks, ResumeTorn(r)
      PROVE  Change(t)
  <2>1. PICK shut : shut = [Now EXCEPT !.paused = @ \ {chat[r]}]
    OBVIOUS
  <2>2. PICK c \in Tasks, S \in Starts(shut) :
          /\ Fresh(c) /\ status' = [After(shut, S).status EXCEPT ![c] = "pending"]
          /\ chat' = [chat EXCEPT ![c] = chat[r]]
    BY <1>6, <2>1 DEF ResumeTorn
  <2>3. /\ After(shut, S).status = [u \in Tasks |-> IF u \in S THEN "executing" ELSE status[u]]
        /\ S \subseteq queue \ aborted /\ status[c] = "absent"
    BY <2>1, <2>2 DEF After, Now, Starts, Heads, Runnable, Fresh
  <2>4. t \in S => status[t] = "pending"
    BY <1>1, <2>3 DEF Row, Waits, Now
  <2>5. status'[t] = IF t = c THEN "pending" ELSE IF t \in S THEN "executing" ELSE status[t]
    BY <2>2, <2>3
  <2>6. Volatile /\ landed' = landed
    BY <1>6 DEF ResumeTorn, Dies
  <2>7. status[t] # "absent" => chat'[t] = chat[t]
    BY <2>2, <2>3, Unfold DEF RowsInv, IInv
  <2> QED
    BY <1>2, <2>2, <2>4, <2>5, <2>6, <2>7 DEF Change, Turns, Begun
<1>7. CASE Boot
  BY <1>7 DEF Boot, rowVars, diskVars, runVars, Change, Turns
<1>8. CASE Recover
  <2>1. UNCHANGED <<chat, landed, pc, paused>> /\ phase = "booting"
    BY <1>8 DEF Recover, diskVars, runVars, lockVars
  <2>2. \/ status'[t] = status[t]
        \/ status[t] \in Active /\ status'[t] \in {"cancelled", "failed", "paused"}
    BY <1>8 DEF Recover
  <2>3. paused' = {}
    BY <2>1 DEF RowsInv, PauseLocks
  <2> QED
    BY <2>1, <2>2, <2>3 DEF Change, Turns
<1> QED
  BY <1>3, <1>4, <1>5, <1>6, <1>7, <1>8 DEF Process

\* No step does anything else to a row.
LEMMA StepChange ==
  ASSUME RowsInv, [Next]_vars, NEW t \in Tasks
  PROVE  Change(t)
<1>1. CASE Person
  BY <1>1, SubmitChange, CancelChange, PauseChange, ResumeChange, RetryChange DEF Person
<1>2. CASE Process
  BY <1>2, ProcessChange
<1>3. CASE \E r \in Tasks : Run(r)
  BY <1>3, WorkChange, SettledChange DEF Run
<1>4. CASE \E r \in Tasks : SettleRetry(r) \/ Guard(r)
  BY <1>4, GuardChange
<1>5. CASE UNCHANGED vars
  BY <1>5 DEF vars, rowVars, diskVars, runVars, Change, Turns
<1> QED
  BY <1>1, <1>2, <1>3, <1>4, <1>5 DEF Next

-----------------------------------------------------------------------------
(* The order of the rows, and the locks of the pauses.                     *)

\* The scan and a submission leave the paused conversations as handed over.
LEMMA PumpPaused ==
  ASSUME NEW w, ProcessQueue(w)
  PROVE  paused' = w.paused
  BY PumpEffect DEF Pumped

\* ... and a submission does too.
LEMMA SubmittedPaused ==
  ASSUME NEW v \in View, NEW t, NEW c, Submitted(v, t, c)
  PROVE  paused' = v.paused
<1>1. PICK w : w = Enqueue(v, t, c)
  OBVIOUS
<1>2. w.paused = v.paused
  BY <1>1 DEF Enqueue, View
<1> QED
  BY <1>1, <1>2, PumpPaused DEF Submitted, Becomes

\* A step locks a conversation only with a row it pauses, and a process that is
\* down or booting has no locks.
LEMMA StepPaused ==
  ASSUME RowsInv, [Next]_vars
  PROVE  /\ \A c \in paused' : c \in paused \/ \E t \in Tasks : chat'[t] = c /\ status'[t] = "paused"
         /\ phase' \in {"down", "booting"} => paused' = {}
<1>0. Now \in View /\ status \in [Tasks -> Statuses] /\ (phase \in {"down", "booting"} => paused = {})
  BY Unfold DEF RowsInv, IInv, PauseLocks, Good
<1> USE <1>0
<1>1. SUFFICES ASSUME ~(/\ paused' \subseteq paused /\ phase' = phase)
               PROVE  /\ \A c \in paused' : c \in paused \/ \E t \in Tasks : chat'[t] = c /\ status'[t] = "paused"
                      /\ phase' \in {"down", "booting"} => paused' = {}
  OBVIOUS
<1>2. ASSUME NEW t \in Tasks, NEW c \in Chats, Submit(t, c)
      PROVE  FALSE
  <2>1. paused' = Now.paused
    BY <1>2, SubmittedPaused DEF Submit
  <2> QED
    BY <1>1, <1>2, <2>1 DEF Submit, Now
<1>3. ASSUME NEW t \in Tasks, Cancel(t)
      PROVE  FALSE
  <2>1. PICK w : /\ w.paused \subseteq paused
                 /\ ProcessQueue(w) \/ Becomes(w)
    <3>1. PICK gone : gone = [Now EXCEPT !.status[t] = "cancelled",
                                         !.aborted = IF status[t] \in Foreground
                                                     THEN @ \cup Abortable(t) ELSE @]
      OBVIOUS
    <3>2. PICK x : x = [gone EXCEPT !.paused = @ \ {chat[t]}]
      OBVIOUS
    <3>3. gone.paused = paused /\ x.paused = paused \ {chat[t]}
      BY <3>1, <3>2 DEF Now
    <3>4. ProcessQueue(x) \/ Becomes(gone)
      BY <1>3, <3>1, <3>2 DEF Cancel
    <3> QED
      BY <3>3, <3>4
  <2>2. paused' = w.paused
    BY <2>1, PumpPaused DEF Becomes
  <2> QED
    BY <1>1, <1>3, <2>1, <2>2 DEF Cancel
<1>4. ASSUME NEW t \in Tasks, RetryTask(t)
      PROVE  FALSE
  <2>1. paused' = Now.paused
    BY <1>4, SubmittedPaused DEF RetryTask
  <2> QED
    BY <1>1, <1>4, <2>1 DEF RetryTask, Now
<1>5. ASSUME NEW t \in Tasks, ResumeTask(t)
      PROVE  FALSE
  <2>1. PICK S, v : Resumed(t, S, v)
    BY <1>5, ResumeViews
  <2>2. paused' = v.paused
    BY <2>1, SubmittedPaused DEF Resumed, Becomes
  <2> QED
    BY <1>1, <1>5, <2>1, <2>2 DEF Resumed, ResumeTask
<1>6. ASSUME NEW t \in Tasks, NEW st, EndRun(t, st)
      PROVE  FALSE
  <2>1. PICK w : /\ ProcessQueue(w)
                 /\ w = [Now EXCEPT !.status = st, !.pc[t] = "idle", !.running = @ - 1,
                                    !.active = @ \ {chat[t]}, !.aborted = @ \ {t}]
    BY <1>6 DEF EndRun
  <2>2. w.paused = paused
    BY <2>1 DEF Now
  <2> QED
    BY <1>1, <1>6, <2>1, <2>2, PumpPaused DEF EndRun
<1>7. ASSUME NEW t \in Tasks, PauseTask(t)
      PROVE  /\ \A c \in paused' : c \in paused \/ \E u \in Tasks : chat'[u] = c /\ status'[u] = "paused"
             /\ phase' \in {"down", "booting"} => paused' = {}
  BY <1>7 DEF PauseTask
<1>8. ASSUME NEW t \in Tasks, Run(t)
      PROVE  FALSE
  <2>1. ~ \E st : EndRun(t, st)
    BY <1>6
  <2>2. StartWork(t) \/ WorkEnds(t) \/ EnvelopeCommit(t) \/ CommitLands(t)
    BY <1>8, <2>1 DEF Run, CommitLost, Settle
  <2> QED
    BY <1>1, <2>2 DEF StartWork, WorkEnds, EnvelopeCommit, CommitLands, Outcome, lockVars
<1>9. ASSUME NEW t \in Tasks, SettleRetry(t) \/ Guard(t)
      PROVE  FALSE
  BY <1>1, <1>9 DEF SettleRetry, Guard, Watchdog, ReapStuckTask, ReapLostWorkspace, Reap, lockVars
<1>10. ASSUME Process
       PROVE  /\ paused' \subseteq paused /\ (phase' \in {"down", "booting"} => paused' = {})
  <2>1. Volatile => paused' = {}
    BY DEF Volatile
  <2>2. \/ Volatile
        \/ paused' = paused /\ (phase = "down" \/ phase' \in {"up", "draining"})
    BY <1>10 DEF Process, BeginShutdown, Exit, Crash, ResumeTorn, Dies, Boot, Recover, lockVars
  <2> QED
    BY <2>1, <2>2
<1>11. ASSUME UNCHANGED vars
       PROVE  FALSE
  BY <1>1, <1>11 DEF vars, lockVars
<1> QED
  BY <1>2, <1>3, <1>4, <1>5, <1>7, <1>8, <1>9, <1>10, <1>11 DEF Next, Person

\* A lock of a pause outlives every step that its row outlives.
LEMMA NextLocks ==
  ASSUME RowsInv, [Next]_vars
  PROVE  PauseLocks'
<1>1. ASSUME LateReap = FALSE, NEW c \in paused, c \in paused'
      PROVE  \E t \in Tasks : chat'[t] = c /\ status'[t] = "paused"
  <2>1. PICK t \in Tasks : chat[t] = c /\ status[t] = "paused"
    BY <1>1 DEF RowsInv, PauseLocks
  <2>2. chat'[t] = c /\ status'[t] = "paused"
    BY <1>1, <2>1, StepChange DEF Change, Turns, Begun, Fresh
  <2> QED
    BY <2>2
<1>2. LateReap = FALSE => \A c \in paused' : \E t \in Tasks : chat'[t] = c /\ status'[t] = "paused"
  BY <1>1, StepPaused
<1> QED
  BY <1>2, StepPaused DEF PauseLocks

\* A row is saved only when every older id is.
LEMMA NextOrder ==
  ASSUME RowsInv, [Next]_vars
  PROVE  InOrder'
<1>1. SUFFICES ASSUME NEW t \in Tasks, NEW u \in Tasks, u < t, status'[t] # "absent"
               PROVE  status'[u] # "absent"
  BY DEF InOrder
<1>2. status[t] # "absent" \/ Fresh(t)
  BY <1>1, StepChange DEF Change, Turns, Begun, Active, Foreground
<1>3. status[u] # "absent"
  BY <1>1, <1>2 DEF RowsInv, InOrder, Fresh
<1>4. Change(u)
  BY StepChange
<1> QED
  BY <1>3, <1>4 DEF Change, Turns, Begun, Fresh

-----------------------------------------------------------------------------
(* The invariants.                                                         *)

\* RowsInv is inductive.
LEMMA RowsInductive ==
  /\ Init => RowsInv
  /\ RowsInv /\ [Next]_vars => RowsInv'
<1>1. ASSUME Init
      PROVE  RowsInv
  BY <1>1, InitIInv, InitRows DEF RowsInv
<1>2. ASSUME RowsInv, [Next]_vars
      PROVE  RowsInv'
  <2>1. IInv'
    BY <1>2, NextIInv DEF RowsInv
  <2> QED
    BY <1>2, <2>1, NextRows, NextOrder, NextLocks DEF RowsInv
<1> QED
  BY <1>1, <1>2

\* While the process serves, a pending row is in the queue, and an executing one
\* has its run, or a retry of its completion, or has used every retry up: no
\* handler, reaper or restart forgets a task (TaskManager, BackgroundExecutor).
THEOREM NothingForgotten == Spec => []NoLostTask
<1>1. RowsInv => NoLostTask
  BY DEF RowsInv, Rows, Row, Kept, Now, NoLostTask, InFlight
<1> QED
  BY <1>1, RowsInductive, PTL DEF Spec

\* A task is completed only with its files in the project and no workspace left
\* to publish, and no workspace is released before it was published, whatever
\* reapers, stops, lost workspaces and failed commits came in between.
THEOREM CompletionsLanded == Spec => []CompletedWorkLanded
<1>1. RowsInv => CompletedWorkLanded
  BY DEF RowsInv, Rows, Row, Works, Now, CompletedWorkLanded
<1> QED
  BY <1>1, RowsInductive, PTL DEF Spec

\* Where stopped runs unwind before a reaper meets them, every run nobody
\* stopped works on an executing row, and complete() finds the row it completes
\* executing: no answer is dropped.
THEOREM RunsHaveRows ==
  ASSUME LateReap = FALSE
  PROVE  Spec => []RunsMatchRows
<1>1. ASSUME RowsInv
      PROVE  RunsMatchRows
  <2>1. \A t \in Tasks : Row(Now, t)
    BY <1>1 DEF RowsInv, Rows
  <2>2. \A t \in queue \ aborted : status[t] = "pending"
    BY <1>1, <2>1, Unfold DEF Row, Waits, Now, RowsInv, IInv
  <2>3. ASSUME NEW t \in Tasks, pc[t] \in {"admit", "work", "envelope"}, ~Told(t)
        PROVE  status[t] = "executing"
    BY <2>1, <2>3 DEF Told, Row, Stopped, Seen, Now
  <2>4. ASSUME NEW t \in Tasks, result[t] = "completed" \/ t \in settling, ~Withheld(t)
        PROVE  status[t] = "executing"
    BY <2>1, <2>4 DEF Withheld, Row, Seen, Now
  <2> QED
    BY <2>2, <2>3, <2>4 DEF RunsMatchRows
<1>2. RowsInv => RunsMatchRows
  BY <1>1
<1> QED
  BY <1>2, RowsInductive, PTL DEF Spec

\* ... and a conversation locked by a pause has the paused row that a resume or
\* a cancel opens it with.
THEOREM LocksCanOpen ==
  ASSUME LateReap = FALSE
  PROVE  Spec => []NoOrphanPauseLock
<1>1. RowsInv => NoOrphanPauseLock
  BY DEF RowsInv, PauseLocks, NoOrphanPauseLock
<1> QED
  BY <1>1, RowsInductive, PTL DEF Spec

-----------------------------------------------------------------------------
(* Parked missions and what continues them.                                *)

\* The rows above a row, as Descendants computes them.
Above == CHOOSE ancestors : ancestors =
  [d \in 0..MaxTasks |->
        IF d = 0 THEN {}
        ELSE IF parent[d] = NoTask \/ parent[d] >= d THEN {}
        ELSE {parent[d]} \cup ancestors[parent[d]]]

\* A way of n steps up from d to p.
Way(s, n, d, p) ==
  /\ n \in Nat \ {0} /\ s \in [0..n -> 0..MaxTasks] /\ s[0] = d /\ s[n] = p
  /\ \A i \in 0..(n - 1) :
       s[i] # 0 /\ s[i + 1] = parent[s[i]] /\ s[i + 1] # NoTask /\ s[i + 1] < s[i]

Reached == [d \in 0..MaxTasks |-> {p \in 0..MaxTasks : \E n \in Nat \ {0} : \E s : Way(s, n, d, p)}]

\* The ways satisfy the recursion, so there is a function that does.
LEMMA AboveExists ==
  ASSUME parent \in [Tasks -> Tasks \cup {NoTask}]
  PROVE  \A d \in 0..MaxTasks :
           Above[d] = IF d = 0 THEN {}
                      ELSE IF parent[d] = NoTask \/ parent[d] >= d THEN {}
                      ELSE {parent[d]} \cup Above[parent[d]]
<1> USE QueueAssumption DEF Tasks, NoTask
<1>1. ASSUME NEW d \in 0..MaxTasks
      PROVE  Reached[d] = IF d = 0 THEN {}
                          ELSE IF parent[d] = NoTask \/ parent[d] >= d THEN {}
                          ELSE {parent[d]} \cup Reached[parent[d]]
  <2>1. ASSUME NEW p \in Reached[d]
        PROVE  /\ d # 0 /\ parent[d] # NoTask /\ parent[d] < d
               /\ p \in {parent[d]} \cup Reached[parent[d]]
    <3>1. PICK n \in Nat \ {0} : \E s : Way(s, n, d, p)
      BY <2>1 DEF Reached
    <3>2. PICK s : Way(s, n, d, p)
      BY <3>1
    <3>3. d # 0 /\ s[1] = parent[d] /\ parent[d] # NoTask /\ parent[d] < d
      <4>1. 0 \in 0..(n - 1) /\ 0 + 1 = 1
        OBVIOUS
      <4>2. s[0] # 0 /\ s[0 + 1] = parent[s[0]] /\ s[0 + 1] # NoTask /\ s[0 + 1] < s[0]
        BY <3>2, <4>1, Zenon DEF Way
      <4> QED
        BY <3>2, <4>1, <4>2 DEF Way
    <3>4. CASE n = 1
      BY <3>2, <3>3, <3>4 DEF Way
    <3>5. CASE n # 1
      <4>1. PICK r : r = [i \in 0..(n - 1) |-> s[i + 1]]
        OBVIOUS
      <4>2. r \in [0..(n - 1) -> 0..MaxTasks] /\ n - 1 \in Nat \ {0}
        BY <3>2, <3>5, <4>1 DEF Way
      <4>3. r[0] = parent[d] /\ r[n - 1] = p
        BY <3>2, <3>3, <4>1 DEF Way
      <4>4. \A i \in 0..(n - 2) :
              r[i] # 0 /\ r[i + 1] = parent[r[i]] /\ r[i + 1] # NoTask /\ r[i + 1] < r[i]
        BY <3>2, <3>5, <4>1 DEF Way
      <4>5. Way(r, n - 1, parent[d], p)
        BY <4>2, <4>3, <4>4 DEF Way
      <4>6. p \in 0..MaxTasks /\ parent[d] \in 0..MaxTasks
        BY <3>3, <2>1 DEF Reached
      <4> QED
        BY <3>3, <4>2, <4>5, <4>6 DEF Reached
    <3> QED
      BY <3>3, <3>4, <3>5
  <2>2. ASSUME d # 0, parent[d] # NoTask, ~(parent[d] >= d), NEW p \in {parent[d]} \cup Reached[parent[d]]
        PROVE  p \in Reached[d]
    <3>1. parent[d] \in 0..MaxTasks /\ parent[d] < d /\ p \in 0..MaxTasks
      BY <2>2 DEF Reached
    <3>2. CASE p = parent[d]
      <4>1. Way([i \in 0..1 |-> IF i = 0 THEN d ELSE p], 1, d, p)
        BY <2>2, <3>1, <3>2 DEF Way
      <4> QED
        BY <3>1, <4>1 DEF Reached
    <3>3. CASE p \in Reached[parent[d]]
      <4>1. PICK n \in Nat \ {0} : \E s : Way(s, n, parent[d], p)
        BY <3>1, <3>3 DEF Reached
      <4>2. PICK s : Way(s, n, parent[d], p)
        BY <4>1
      <4>3. PICK r : r = [i \in 0..(n + 1) |-> IF i = 0 THEN d ELSE s[i - 1]]
        OBVIOUS
      <4>4. r \in [0..(n + 1) -> 0..MaxTasks] /\ n + 1 \in Nat \ {0}
        BY <4>2, <4>3 DEF Way
      <4>5. r[0] = d /\ r[1] = parent[d] /\ r[n + 1] = p
        BY <4>2, <4>3 DEF Way
      <4>6. ASSUME NEW i \in 0..n
            PROVE  r[i] # 0 /\ r[i + 1] = parent[r[i]] /\ r[i + 1] # NoTask /\ r[i + 1] < r[i]
        <5>1. CASE i = 0
          BY <2>2, <3>1, <4>5, <5>1
        <5>2. CASE i # 0
          <6>1. PICK j \in 0..(n - 1) : i = j + 1
            BY <5>2
          <6>2. r[i] = s[j] /\ r[i + 1] = s[j + 1]
            BY <4>3, <6>1
          <6> QED
            BY <4>2, <6>1, <6>2 DEF Way
        <5> QED
          BY <5>1, <5>2
      <4>7. Way(r, n + 1, d, p)
        BY <4>4, <4>5, <4>6 DEF Way
      <4> QED
        BY <3>1, <4>4, <4>7 DEF Reached
    <3> QED
      BY <2>2, <3>2, <3>3
  <2>3. d = 0 => Reached[d] = {}
    BY <2>1
  <2>4. d # 0 /\ (parent[d] = NoTask \/ parent[d] >= d) => Reached[d] = {}
    BY <2>1
  <2>5. d # 0 /\ parent[d] # NoTask /\ ~(parent[d] >= d) => Reached[d] = {parent[d]} \cup Reached[parent[d]]
    BY <2>1, <2>2
  <2> QED
    BY <2>3, <2>4, <2>5
<1>2. Reached = [d \in 0..MaxTasks |->
                   IF d = 0 THEN {}
                   ELSE IF parent[d] = NoTask \/ parent[d] >= d THEN {}
                   ELSE {parent[d]} \cup Reached[parent[d]]]
  BY <1>1, Zenon DEF Reached
<1>3. Above = [d \in 0..MaxTasks |->
                   IF d = 0 THEN {}
                   ELSE IF parent[d] = NoTask \/ parent[d] >= d THEN {}
                   ELSE {parent[d]} \cup Above[parent[d]]]
  BY <1>2, Zenon DEF Above
<1> QED
  BY <1>3, Zenon

\* So a row is below the one it continues, and what is below a row continues one.
LEMMA BelowFacts ==
  ASSUME parent \in [Tasks -> Tasks \cup {NoTask}], NEW p
  PROVE  /\ \A d \in Tasks : parent[d] = p /\ p # NoTask /\ p < d => d \in Descendants(p)
         /\ \A d \in Descendants(p) : d \in Tasks /\ parent[d] # NoTask
<1>1. Descendants(p) = {d \in Tasks : p \in Above[d]}
  BY Zenon DEF Descendants, Above
<1>2. \A d \in Tasks : d \in 0..MaxTasks /\ d # 0 /\ (parent[d] < d => ~(parent[d] >= d))
  BY QueueAssumption DEF Tasks, NoTask
<1>3. \A d \in Tasks : Above[d] = IF parent[d] = NoTask \/ parent[d] >= d THEN {}
                                  ELSE {parent[d]} \cup Above[parent[d]]
  BY <1>2, AboveExists
<1> QED
  BY <1>1, <1>2, <1>3

\* A continuation is younger than its row, whose own life is over or parked;
\* beside a parked row it lives only for the next recovery to see, which will
\* find it the youngest of them.
Lineage ==
  /\ \A d \in Tasks : parent[d] # NoTask =>
       /\ parent[d] < d /\ status[d] # "absent"
       /\ status[parent[d]] \notin {"absent"} \cup Foreground
  /\ \A p, d \in Tasks :
       status[p] = "paused" /\ parent[d] = p /\ status[d] \in Active \cup {"completed"} =>
         /\ phase \in {"down", "booting"} /\ p \notin mine
         /\ \A e \in Tasks : parent[e] # NoTask => e <= d

\* c becomes the continuation of p, which is over or parked: p is retired, or c
\* was refused, or the process died between the two.
Continues(c, p) ==
  /\ Fresh(c) /\ parent' = [parent EXCEPT ![c] = p] /\ phase = "up"
  /\ status[p] \in {"paused"} \cup Terminal /\ status'[c] # "absent"
  /\ \/ status'[p] # "paused"
     \/ status'[c] \notin Active \cup {"completed"}
     \/ phase' = "down" /\ mine' = {}

\* A submission saves its row live, or failed if the queue is full.
LEMMA SubmittedRow ==
  ASSUME NEW v \in View, NEW c \in Tasks, NEW ch, Submitted(v, c, ch)
  PROVE  /\ status'[c] # "absent"
         /\ Cardinality(v.queue) >= MaxQueue => status'[c] = "failed"
         /\ \A t \in Tasks : t # c /\ t \notin v.queue => status'[t] = v.status[t]
<1>1. PICK w : w = Enqueue(v, c, ch)
  OBVIOUS
<1>2. CASE Cardinality(v.queue) >= MaxQueue
  <2>1. Becomes(w) /\ w.status = [v.status EXCEPT ![c] = "failed"]
    BY <1>1, <1>2 DEF Submitted, Enqueue, View
  <2> QED
    BY <2>1 DEF Becomes, View
<1>3. CASE ~(Cardinality(v.queue) >= MaxQueue)
  <2>1. /\ ProcessQueue(w) /\ w.status = [v.status EXCEPT ![c] = "pending"]
        /\ w.queue = v.queue \cup {c}
    BY <1>1, <1>3 DEF Submitted, Enqueue, View
  <2>2. PICK S, K : Pumped(w, S, K)
    BY <2>1, PumpEffect
  <2> QED
    BY <1>3, <2>1, <2>2 DEF Pumped, View
<1> QED
  BY <1>2, <1>3

\* A resume continues the row it resumes, if it continues any.
LEMMA ResumeContinues ==
  ASSUME RowsInv, NEW p \in Tasks, ResumeTask(p)
  PROVE  parent' = parent \/ \E c \in Tasks : Continues(c, p)
<1>1. PICK S, v : Resumed(p, S, v)
  BY ResumeViews
<1>2. status[p] = "paused" /\ phase = "up" /\ phase' = "up"
  BY DEF ResumeTask
<1>3. ASSUME NEW c \in Tasks, Fresh(c), Submitted(v, c, chat[p]),
             parent' = [parent EXCEPT ![c] = p],
             v.status[p] = "cancelled" \/ Cardinality(v.queue) >= MaxQueue
      PROVE  Continues(c, p)
  <2>1. p \notin v.queue /\ p # c /\ v \in View
    BY <1>1, <1>2, <1>3 DEF Resumed, Fresh, RowsInv, Rows, Row, Waits, Now
  <2>2. status'[c] # "absent" /\ (status'[p] # "paused" \/ status'[c] = "failed")
    BY <1>3, <2>1, SubmittedRow
  <2> QED
    BY <1>2, <1>3, <2>2 DEF Continues, Active, Foreground
<1> QED
  BY <1>1, <1>3 DEF Resumed

\* No other step but a retry and a resume that is torn adds to a lineage.
LEMMA StepParents ==
  ASSUME RowsInv, [Next]_vars
  PROVE  parent' = parent \/ \E c, p \in Tasks : Continues(c, p)
<1>1. CASE Person
  <2>1. ASSUME NEW p \in Tasks, RetryTask(p)
        PROVE  \E c \in Tasks : Continues(c, p)
    <3>1. PICK c \in Tasks : Fresh(c) /\ Submitted(Now, c, chat[p]) /\ parent' = [parent EXCEPT ![c] = p]
      BY <2>1 DEF RetryTask
    <3>2. status[p] \in {"failed", "blocked", "cancelled"} /\ phase = "up"
      BY <2>1 DEF RetryTask
    <3>3. status'[p] # "paused"
      BY <2>1, <3>2, RetryChange DEF Change, Turns, Begun, Active, Foreground, Fresh
    <3>4. Now \in View
      BY DEF RowsInv, IInv, Good
    <3>5. status'[c] # "absent"
      BY <3>1, <3>4, SubmittedRow
    <3> QED
      BY <3>1, <3>2, <3>3, <3>5 DEF Continues, Terminal
  <2> QED
    BY <1>1, <2>1, ResumeContinues DEF Person, Submit, Cancel, PauseTask
<1>2. CASE Process
  <2>1. ASSUME NEW p \in Tasks, ResumeTorn(p)
        PROVE  \E c \in Tasks : Continues(c, p)
    <3>1. PICK shut : shut = [Now EXCEPT !.paused = @ \ {chat[p]}]
      OBVIOUS
    <3>2. PICK c \in Tasks, S \in Starts(shut) :
            /\ Fresh(c) /\ status' = [After(shut, S).status EXCEPT ![c] = "pending"]
            /\ parent' = [parent EXCEPT ![c] = p]
      BY <2>1, <3>1 DEF ResumeTorn
    <3>3. status'[c] = "pending"
      BY <3>2 DEF After
    <3>4. phase = "up" /\ status[p] = "paused" /\ phase' = "down" /\ mine' = {}
      BY <2>1 DEF ResumeTorn, Dies, Volatile
    <3> QED
      BY <3>2, <3>3, <3>4 DEF Continues
  <2> QED
    BY <1>2, <2>1 DEF Process, BeginShutdown, Exit, Crash, Boot, Recover, rowVars
<1>3. CASE \E r \in Tasks : Run(r)
  BY <1>3 DEF Run, StartWork, WorkEnds, EnvelopeCommit, Outcome, CommitLands, CommitLost, Settle,
              EndRun, rowVars
<1>4. CASE \E r \in Tasks : SettleRetry(r) \/ Guard(r)
  BY <1>4 DEF SettleRetry, Guard, Watchdog, ReapStuckTask, ReapLostWorkspace, Reap, rowVars
<1>5. CASE UNCHANGED vars
  BY <1>5 DEF vars, rowVars
<1> QED
  BY <1>1, <1>2, <1>3, <1>4, <1>5 DEF Next

\* What a process has submitted is new; and it is down or booting until it has
\* recovered.
LEMMA StepMine ==
  ASSUME [Next]_vars, phase \in {"down", "booting"}
  PROVE  /\ mine' \subseteq mine \/ \E t \in Tasks : Fresh(t) /\ mine' = mine \cup {t}
         /\ phase' \in {"down", "booting"} \/ Recover
<1>1. CASE Person
  BY <1>1 DEF Person, Submit, Cancel, PauseTask, ResumeTask, RetryTask, procVars
<1>2. CASE Process
  BY <1>2 DEF Process, BeginShutdown, Exit, Crash, ResumeTorn, Dies, Volatile, Boot, Recover, procVars
<1>3. CASE \E r \in Tasks : Run(r)
  BY <1>3 DEF Run, StartWork, WorkEnds, EnvelopeCommit, Outcome, CommitLands, CommitLost, Settle,
              EndRun, procVars
<1>4. CASE \E r \in Tasks : SettleRetry(r) \/ Guard(r)
  BY <1>4 DEF SettleRetry, Guard, Watchdog, ReapStuckTask, ReapLostWorkspace, Reap, procVars
<1>5. CASE UNCHANGED vars
  BY <1>5 DEF vars, procVars
<1> QED
  BY <1>1, <1>2, <1>3, <1>4, <1>5 DEF Next

\* Every step keeps the lineages in this order.
LEMMA NextLineage ==
  ASSUME RowsInv, Lineage, [Next]_vars
  PROVE  Lineage'
<1>1. /\ parent \in [Tasks -> Tasks \cup {NoTask}] /\ status \in [Tasks -> Statuses]
      /\ NoTask \notin Tasks /\ Tasks \subseteq Nat /\ NoTask \in Nat
  BY QueueAssumption, Unfold DEF RowsInv, IInv, RestTyped, Tasks, NoTask
<1>2. ASSUME NEW t \in Tasks, status[t] # "absent"
      PROVE  /\ status'[t] # "absent"
             /\ status[t] \notin Foreground => status'[t] \notin Foreground
             /\ status[t] \notin Foreground /\ status'[t] = "paused" => status[t] = "paused"
             /\ status'[t] \in Active \cup {"completed"} => status[t] \in Active \cup {"completed"}
  <2>1. Change(t)
    BY StepChange
  <2>2. status[t] \in Statuses
    BY <1>1
  <2> QED
    BY <1>2, <2>1, <2>2 DEF Change, Turns, Begun, Fresh, Active, Foreground, Terminal, Statuses
<1>3. ASSUME NEW p \in Tasks, NEW d \in Tasks, parent[d] = p,
             status'[p] = "paused", status'[d] \in Active \cup {"completed"}
      PROVE  /\ phase \in {"down", "booting"} /\ phase' \in {"down", "booting"} /\ p \notin mine'
             /\ \A e \in Tasks : parent[e] # NoTask => e <= d
  <2>1. /\ p < d /\ status[d] # "absent" /\ status[p] \notin {"absent"} \cup Foreground
    BY <1>1, <1>3 DEF Lineage
  <2>2. status[p] = "paused" /\ status[d] \in Active \cup {"completed"}
    BY <1>2, <1>3, <2>1
  <2>3. /\ phase \in {"down", "booting"} /\ p \notin mine
        /\ \A e \in Tasks : parent[e] # NoTask => e <= d
    BY <1>3, <2>2 DEF Lineage
  <2>4. ~Recover
    <3>1. SUFFICES ASSUME Recover
                   PROVE  FALSE
      OBVIOUS
    <3>2. d \in Descendants(p) /\ \A e \in Descendants(p) : e \in Tasks /\ parent[e] # NoTask
      BY <1>1, <1>3, <2>1, BelowFacts
    <3>3. Superseded(p, status)
      BY <2>2, <2>3, <3>2 DEF Superseded
    <3>4. status'[p] # "paused"
      BY <2>2, <2>3, <3>1, <3>3 DEF Recover, Active
    <3> QED
      BY <1>3, <3>4
  <2>5. p \notin mine'
    BY <2>2, <2>3, StepMine DEF Fresh
  <2> QED
    BY <2>3, <2>4, <2>5, StepMine
<1>4. CASE parent' = parent
  <2>1. ASSUME NEW d \in Tasks, parent'[d] # NoTask
        PROVE  /\ parent'[d] < d /\ status'[d] # "absent"
               /\ status'[parent'[d]] \notin {"absent"} \cup Foreground
    BY <1>1, <1>2, <1>4, <2>1 DEF Lineage
  <2> QED
    BY <1>3, <1>4, <2>1 DEF Lineage
<1>5. ASSUME NEW c \in Tasks, NEW p \in Tasks, Continues(c, p)
      PROVE  Lineage'
  <2>1. /\ Fresh(c) /\ parent' = [parent EXCEPT ![c] = p] /\ phase = "up"
        /\ status[p] \notin {"absent"} \cup Foreground /\ status[c] = "absent" /\ c # p
    BY <1>5 DEF Continues, Fresh, Terminal, Foreground
  <2>2. p < c /\ \A e \in Tasks : parent'[e] # NoTask => e <= c
    <3>1. \A e \in Tasks : status[e] # "absent" => e < c
      <4>1. ASSUME NEW e \in Tasks, status[e] # "absent"
            PROVE  e < c
        BY <1>1, <2>1, <4>1 DEF RowsInv, InOrder
      <4> QED
        BY <4>1
    <3>2. \A e \in Tasks \ {c} : parent'[e] = parent[e]
      BY <1>1, <2>1
    <3> QED
      BY <1>1, <2>1, <3>1, <3>2 DEF Lineage
  <2>3. status'[c] # "absent"
    BY <1>5 DEF Continues
  <2>4. ASSUME NEW d \in Tasks, parent'[d] # NoTask
        PROVE  /\ parent'[d] < d /\ status'[d] # "absent"
               /\ status'[parent'[d]] \notin {"absent"} \cup Foreground
    BY <1>1, <1>2, <2>1, <2>2, <2>3, <2>4 DEF Lineage
  <2>5. ASSUME NEW q \in Tasks, NEW d \in Tasks, parent'[d] = q,
               status'[q] = "paused", status'[d] \in Active \cup {"completed"}
        PROVE  /\ phase' \in {"down", "booting"} /\ q \notin mine'
               /\ \A e \in Tasks : parent'[e] # NoTask => e <= d
    <3>1. CASE d = c
      BY <1>1, <1>5, <2>1, <2>2, <2>5, <3>1 DEF Continues
    <3>2. CASE d # c
      BY <1>1, <1>3, <2>1, <2>5, <3>2
    <3> QED
      BY <3>1, <3>2
  <2> QED
    BY <2>4, <2>5 DEF Lineage
<1> QED
  BY <1>4, <1>5, StepParents

\* While the process serves, no direct continuation of a parked mission lives or
\* has completed, even if the process died between the two writes of a resume:
\* the boot's search for the latest descendant finds it (retireIfSuperseded).
THEOREM ParkedStandsAlone == Spec => []ParkedHasNoContinuation
<1>1. Init => RowsInv /\ Lineage
  BY RowsInductive DEF Init, Lineage
<1>2. RowsInv /\ Lineage /\ [Next]_vars => (RowsInv /\ Lineage)'
  BY RowsInductive, NextLineage
<1>3. Lineage => ParkedHasNoContinuation
  BY DEF Lineage, ParkedHasNoContinuation
<1> QED
  BY <1>1, <1>2, <1>3, PTL DEF Spec

-----------------------------------------------------------------------------
(* The order of the starts.                                                *)

\* A start of t gives way to persons, and overtakes no task of its conversation.
InTurn(t) ==
  /\ Daemon(t)' => ~\E u \in Tasks : /\ status'[u] \in Foreground /\ ~Daemon(u)'
                                     /\ (status[u] # "absent" \/ parent'[u] = NoTask)
  /\ ~\E u \in queue' \ aborted' : u < t /\ chat'[u] = chat'[t]

\* What a scan starts was a head: nothing it defers to, nothing older.
LEMMA StartsInTurn ==
  ASSUME NEW w, NEW S \in Starts(w), NEW t \in S
  PROVE  /\ w.chat[t] \in DaemonChats => ~Deferred(w)
         /\ \A u \in w.queue \ w.aborted : w.chat[u] = w.chat[t] => t <= u
<1>1. t \in Heads(w)
  BY DEF Starts
<1>2. t \in Runnable(w) /\ \A u \in Runnable(w) : w.chat[u] = w.chat[t] => t <= u
  BY <1>1 DEF Heads
<1>3. \A u \in w.queue \ w.aborted : w.chat[u] = w.chat[t] => u \in Runnable(w)
  BY <1>2 DEF Runnable
<1> QED
  BY <1>2, <1>3 DEF Runnable

\* So after a move of the queue every task it started is in turn.
LEMMA PumpInTurn ==
  ASSUME NEW w, ProcessQueue(w), w.queue \subseteq Tasks,
         \A u \in w.queue \ w.aborted : w.status[u] = "pending",
         NEW t \in Tasks, pc'[t] = "admit", w.pc[t] # "admit"
  PROVE  InTurn(t)
<1>1. PICK S, K : S \in Starts(w) /\ Pumped(w, S, K)
  BY PumpEffect
<1>2. t \in S /\ S \subseteq w.queue \ w.aborted
  BY <1>1 DEF Pumped
<1>3. ASSUME NEW u \in Tasks, status'[u] \in Foreground, ~Daemon(u)', Daemon(t)'
      PROVE  FALSE
  <2>1. w.status[u] \in Foreground
    BY <1>1, <1>2, <1>3 DEF Pumped, Foreground
  <2>2. w.chat[u] \notin DaemonChats /\ w.chat[t] \in DaemonChats
    BY <1>1, <1>3 DEF Pumped, Daemon
  <2> QED
    BY <1>1, <1>2, <2>1, <2>2, StartsInTurn DEF Deferred
<1>4. ASSUME NEW u \in queue' \ aborted', u < t, chat'[u] = chat'[t]
      PROVE  FALSE
  <2>1. u \in w.queue \ w.aborted /\ w.chat[u] = w.chat[t]
    BY <1>1, <1>4 DEF Pumped
  <2>2. t <= u
    BY <1>1, <1>2, <2>1, StartsInTurn
  <2>3. u \in Nat /\ t \in Nat
    BY <2>1, QueueAssumption DEF Tasks
  <2> QED
    BY <1>4, <2>2, <2>3
<1> QED
  BY <1>3, <1>4 DEF InTurn

\* A submission hands over a view in which the new row waits.
LEMMA SubmittedInTurn ==
  ASSUME NEW v \in View, NEW c \in Tasks, NEW ch, Submitted(v, c, ch), v.pc[c] = "idle",
         \A u \in v.queue \ v.aborted : v.status[u] = "pending",
         NEW t \in Tasks, pc'[t] = "admit", v.pc[t] # "admit"
  PROVE  InTurn(t)
<1>1. PICK w : w = Enqueue(v, c, ch)
  OBVIOUS
<1>2. /\ w.pc = v.pc /\ w.aborted = v.aborted
      /\ \/ w.queue = v.queue /\ w.status = [v.status EXCEPT ![c] = "failed"]
            /\ Cardinality(v.queue) >= MaxQueue
         \/ w.queue = v.queue \cup {c} /\ w.status = [v.status EXCEPT ![c] = "pending"]
            /\ ~(Cardinality(v.queue) >= MaxQueue)
  BY <1>1 DEF Enqueue, View
<1>3. Cardinality(v.queue) >= MaxQueue => Becomes(w)
  BY <1>1 DEF Submitted
<1>4. ~(Cardinality(v.queue) >= MaxQueue) => ProcessQueue(w)
  BY <1>1 DEF Submitted
<1>5. CASE Cardinality(v.queue) >= MaxQueue
  BY <1>2, <1>3, <1>5 DEF Becomes
<1>6. CASE ~(Cardinality(v.queue) >= MaxQueue)
  <2>1. w.queue \subseteq Tasks /\ \A u \in w.queue \ w.aborted : w.status[u] = "pending"
    BY <1>2, <1>6 DEF View
  <2> QED
    BY <1>2, <1>4, <1>6, <2>1, PumpInTurn
<1> QED
  BY <1>5, <1>6

\* A resume moves the queue twice; what it submits is younger than what the
\* first move starts.
LEMMA ResumeInTurn ==
  ASSUME RowsInv, NEW p \in Tasks, ResumeTask(p), [Next]_vars,
         NEW t \in Tasks, pc[t] = "idle", pc'[t] = "admit"
  PROVE  InTurn(t)
<1>1. PICK shut : shut = Opened(p)
  OBVIOUS
<1>2. PICK S, v : Resumed(p, S, v)
  BY ResumeViews
<1> USE <1>2 DEF Resumed
<1>3. /\ S \subseteq queue \ aborted /\ queue \subseteq Tasks
      /\ \A u \in queue \ aborted : status[u] = "pending"
      /\ S \in Starts(shut) /\ shut.queue = queue /\ shut.aborted = aborted
      /\ shut.chat = chat /\ shut.status = status
  <2>1. shut.queue = queue /\ shut.aborted = aborted /\ shut.chat = chat /\ shut.status = status
    BY <1>1 DEF Now, Opened
  <2>2. \A u \in queue \ aborted : u \in Tasks /\ status[u] = "pending"
    BY Unfold DEF RowsInv, IInv, Rows, Row, Waits, Now
  <2>3. S \in Starts(shut) /\ S \subseteq shut.queue \ shut.aborted
    BY <1>1 DEF Starts, Heads, Runnable
  <2> QED
    BY <2>1, <2>2, <2>3, Unfold DEF RowsInv, IInv
<1>4. v.queue = (queue \ S) \ Skips(shut, S) /\ v.aborted = aborted \ Skips(shut, S)
  BY <1>1
<1>5. status[p] = "paused"
  BY DEF ResumeTask
<1>6. CASE t \notin S
  <2>1. v.pc[t] = "idle"
    BY <1>6
  <2>2. ~Becomes(v)
    BY <2>1 DEF Becomes
  <2>3. PICK c \in Tasks : Fresh(c) /\ Submitted(v, c, chat[p])
    BY <2>2
  <2>4. v.pc[c] = "idle"
    <3>1. c \notin S /\ pc[c] = "idle"
      BY <1>3, <2>3, Unfold DEF Fresh, RowsInv, IInv, InFlight
    <3> QED
      BY <3>1
  <2>5. \A u \in v.queue \ v.aborted : v.status[u] = "pending"
    <3>1. ASSUME NEW u \in v.queue \ v.aborted
          PROVE  u \in Tasks /\ u \notin S /\ status[u] = "pending"
      BY <1>3, <1>4
    <3> QED
      BY <1>5, <3>1
  <2> QED
    BY <2>1, <2>3, <2>4, <2>5, SubmittedInTurn
<1>7. CASE t \in S
  <2>1. /\ chat[t] \in DaemonChats => ~Deferred(shut)
        /\ \A u \in queue \ aborted : chat[u] = chat[t] => t <= u
    BY <1>3, <1>7, StartsInTurn
  <2>2. status[t] = "pending" /\ chat'[t] = chat[t]
    <3>1. status[t] = "pending"
      BY <1>3, <1>7
    <3> QED
      BY <3>1, StepChange DEF Change
  <2>3. ASSUME NEW u \in Tasks, status'[u] \in Foreground, ~Daemon(u)', Daemon(t)',
               status[u] # "absent"
        PROVE  FALSE
    <3>1. status[u] \in Foreground /\ chat'[u] = chat[u]
      BY <2>3, StepChange DEF Change, Turns, Begun, Fresh, Foreground
    <3>2. Deferred(shut)
      BY <1>3, <2>3, <3>1 DEF Deferred, Daemon
    <3> QED
      BY <2>1, <2>2, <2>3, <3>2 DEF Daemon
  <2>4. ASSUME NEW u \in Tasks, status[u] = "absent", status'[u] # "absent"
        PROVE  parent'[u] # NoTask
    <3>1. \A x \in Tasks : status[x] = "absent" => x \notin S /\ x # p
      BY <1>3, <1>5
    <3>2. ~Becomes(v)
      BY <2>4, <3>1 DEF Becomes
    <3>3. PICK c \in Tasks : /\ Fresh(c) /\ Submitted(v, c, chat[p])
                             /\ parent' = [parent EXCEPT ![c] = p]
      BY <3>2
    <3>4. u = c
      <4>1. Fresh(u)
        BY <2>4, StepChange DEF Change, Turns, Begun, Active, Foreground
      <4>2. c \in Nat /\ u \in Nat
        BY QueueAssumption DEF Tasks
      <4>3. ~(c < u) /\ ~(u < c)
        BY <3>3, <4>1 DEF Fresh
      <4> QED
        BY <4>2, <4>3
    <3>5. parent'[u] = p /\ p # NoTask
      BY <3>3, <3>4 DEF RowsInv, IInv, RestTyped, Tasks, NoTask
    <3> QED
      BY <3>5
  <2>5. ASSUME NEW u \in queue' \ aborted', u < t, chat'[u] = chat'[t]
        PROVE  FALSE
    <3>1. \/ u \in v.queue \ v.aborted
          \/ u \in Tasks /\ Fresh(u)
      <4>1. CASE Becomes(v)
        BY <2>5, <4>1 DEF Becomes
      <4>2. ASSUME NEW c \in Tasks, Fresh(c), Submitted(v, c, chat[p])
            PROVE  u \in v.queue \ v.aborted \/ u = c
        <5>1. PICK w : w = Enqueue(v, c, chat[p])
          OBVIOUS
        <5>2. w.queue \subseteq v.queue \cup {c} /\ w.aborted = v.aborted
          BY <5>1 DEF Enqueue, View
        <5>3. CASE Becomes(w)
          BY <2>5, <5>2, <5>3 DEF Becomes
        <5>4. CASE ProcessQueue(w)
          BY <2>5, <5>2, <5>4, PumpEffect DEF Pumped
        <5> QED
          BY <4>2, <5>1, <5>3, <5>4 DEF Submitted
      <4> QED
        BY <4>1, <4>2
    <3>2. ~Fresh(u)
      BY <1>3, <1>4, <2>2, <2>5, <3>1 DEF Fresh, RowsInv, InOrder
    <3>3. u \in queue \ aborted /\ u \in Tasks
      BY <1>3, <1>4, <3>1, <3>2
    <3>4. chat[u] = chat[t]
      <4>1. status[u] # "absent" /\ Change(u)
        BY <1>3, <3>3, StepChange
      <4> QED
        BY <2>2, <2>5, <4>1 DEF Change
    <3>5. t <= u /\ t \in Nat /\ u \in Nat
      BY <2>1, <3>3, <3>4, QueueAssumption DEF Tasks
    <3> QED
      BY <2>5, <3>5
  <2> QED
    BY <2>3, <2>4, <2>5 DEF InTurn, Foreground
<1> QED
  BY <1>6, <1>7

\* Whatever handler moves the queue, a task it starts is in turn.
LEMMA StepInTurn ==
  ASSUME RowsInv, [Next]_vars, NEW t \in Tasks, pc[t] = "idle", pc'[t] = "admit"
  PROVE  InTurn(t)
<1>0. /\ Now \in View /\ pc \in [Tasks -> PCs] /\ queue \subseteq Tasks
      /\ \A u \in queue \ aborted : status[u] = "pending"
      /\ \A u \in Tasks : status[u] = "absent" => pc[u] = "idle" /\ u \notin queue
      /\ \A u \in Tasks : u \in queue => pc[u] = "idle"
  <2>1. \A u \in queue \ aborted : u \in Tasks /\ status[u] = "pending"
    BY Unfold DEF RowsInv, IInv, Rows, Row, Waits, Now
  <2>2. \A u \in Tasks : u \in queue => pc[u] = "idle"
    BY DEF RowsInv, Rows, Row, Waits, Now
  <2> QED
    BY <2>1, <2>2, Unfold DEF RowsInv, IInv, Good, InFlight
<1>1. ASSUME NEW c \in Tasks, NEW ch, Fresh(c), Submitted(Now, c, ch)
      PROVE  InTurn(t)
  <2>1. PICK v \in View : v = Now
    BY <1>0
  <2>2. Submitted(v, c, ch)
    BY <1>1, <2>1
  <2>3. v.pc = pc /\ v.queue = queue /\ v.aborted = aborted /\ v.status = status
    BY <2>1 DEF Now
  <2>4. pc[c] = "idle"
    BY <1>0, <1>1 DEF Fresh
  <2> QED
    BY <1>0, <2>2, <2>3, <2>4, SubmittedInTurn
<1>2. ASSUME NEW c \in Tasks, NEW ch \in Chats, Submit(c, ch)
      PROVE  InTurn(t)
  BY <1>1, <1>2 DEF Submit
<1>3. ASSUME NEW r \in Tasks, RetryTask(r)
      PROVE  InTurn(t)
  BY <1>1, <1>3 DEF RetryTask
<1>4. ASSUME NEW k \in Tasks, Cancel(k)
      PROVE  InTurn(t)
  <2>1. PICK w : w = [Now EXCEPT !.status[k] = "cancelled",
                                 !.aborted = IF status[k] \in Foreground
                                             THEN @ \cup Abortable(k) ELSE @]
    OBVIOUS
  <2>2. PICK x : x = [w EXCEPT !.paused = @ \ {chat[k]}]
    OBVIOUS
  <2>3. /\ x.pc = pc /\ x.queue = queue /\ w.pc = pc
        /\ x.aborted = (IF status[k] \in Foreground THEN aborted \cup Abortable(k) ELSE aborted)
        /\ x.status = [status EXCEPT ![k] = "cancelled"]
    BY <2>1, <2>2 DEF Now
  <2>4. IF status[k] = "paused" THEN ProcessQueue(x) ELSE Becomes(w)
    BY <1>4, <2>1, <2>2 DEF Cancel
  <2>5. CASE status[k] = "paused"
    <3>1. k \notin queue \ aborted /\ x.aborted = aborted
      BY <1>0, <2>3, <2>5 DEF Foreground
    <3>2. \A u \in x.queue \ x.aborted : x.status[u] = "pending"
      BY <1>0, <2>3, <3>1, Unfold DEF RowsInv, IInv
    <3> QED
      BY <1>0, <2>3, <2>4, <2>5, <3>2, PumpInTurn
  <2>6. CASE status[k] # "paused"
    BY <2>3, <2>4, <2>6 DEF Becomes
  <2> QED
    BY <2>5, <2>6
<1>5. ASSUME NEW r \in Tasks, pc[r] # "idle", NEW st \in [Tasks -> Statuses], EndRun(r, st),
             \A u \in Tasks \ {r} : st[u] = status[u]
      PROVE  InTurn(t)
  <2>1. PICK w : w = [Now EXCEPT !.status = st, !.pc[r] = "idle", !.running = @ - 1,
                                 !.active = @ \ {chat[r]}, !.aborted = @ \ {r}]
    OBVIOUS
  <2>2. /\ w.pc = [pc EXCEPT ![r] = "idle"] /\ w.queue = queue /\ w.aborted = aborted \ {r}
        /\ w.status = st /\ ProcessQueue(w)
    BY <1>5, <2>1 DEF EndRun, Now
  <2>3. w.pc[t] = "idle" /\ r \notin queue
    BY <1>0, <1>5, <2>2
  <2>4. \A u \in w.queue \ w.aborted : w.status[u] = "pending"
    BY <1>0, <1>5, <2>2, <2>3
  <2> QED
    BY <1>0, <2>2, <2>3, <2>4, PumpInTurn
<1>6. ASSUME NEW r \in Tasks, CommitLost(r) \/ Settle(r)
      PROVE  InTurn(t)
  <2>1. status \in [Tasks -> Statuses]
    BY Unfold DEF RowsInv, IInv
  <2>2. PICK st : /\ EndRun(r, st)
                  /\ st \in {status, [status EXCEPT ![r] = "failed"], Completed(r)}
    BY <1>6 DEF CommitLost, Settle
  <2>3. st \in [Tasks -> Statuses] /\ \A u \in Tasks \ {r} : st[u] = status[u]
    BY <2>1, <2>2 DEF Completed, Statuses, Terminal
  <2>4. pc[r] # "idle"
    BY <1>6 DEF CommitLost, Settle
  <2> QED
    BY <1>5, <2>2, <2>3, <2>4
<1>7. ASSUME NEW r \in Tasks, StartWork(r) \/ WorkEnds(r) \/ EnvelopeCommit(r) \/ CommitLands(r)
      PROVE  FALSE
  <2>1. \E p : pc' = [pc EXCEPT ![r] = p] /\ p # "admit"
    BY <1>7 DEF StartWork, WorkEnds, EnvelopeCommit, CommitLands
  <2>2. pc'[t] = pc[t] \/ pc'[t] # "admit"
    BY <1>0, <2>1
  <2> QED
    BY <2>2
<1>8. ASSUME pc' = pc
      PROVE  FALSE
  BY <1>8
<1>9. ASSUME Volatile
      PROVE  FALSE
  BY <1>9 DEF Volatile
<1>10. CASE Person
  BY <1>2, <1>3, <1>4, <1>8, <1>10, ResumeInTurn DEF Person, PauseTask
<1>11. CASE Process
  BY <1>8, <1>9, <1>11
  DEF Process, BeginShutdown, Exit, Crash, ResumeTorn, Dies, Boot, Recover, runVars
<1>12. CASE \E r \in Tasks : Run(r)
  BY <1>6, <1>7, <1>12 DEF Run
<1>13. CASE \E r \in Tasks : SettleRetry(r) \/ Guard(r)
  BY <1>8, <1>13 DEF SettleRetry, Guard, Watchdog, ReapStuckTask, ReapLostWorkspace, Reap
<1>14. CASE UNCHANGED vars
  BY <1>8, <1>14 DEF vars, runVars
<1> QED
  BY <1>10, <1>11, <1>12, <1>13, <1>14 DEF Next

\* A daemon task never starts while a person's task is pending or executing,
\* whichever handler moved the queue (findNextRunnableIndex).
THEOREM DaemonGivesWay == Spec => DaemonYields
<1>1. ASSUME RowsInv, [Next]_vars
      PROVE  [\A t \in Tasks :
                pc[t] = "idle" /\ pc'[t] = "admit" /\ Daemon(t)' =>
                  ~\E u \in Tasks : /\ status'[u] \in Foreground /\ ~Daemon(u)'
                                     /\ (status[u] # "absent" \/ parent'[u] = NoTask)]_vars
  BY <1>1, StepInTurn DEF InTurn
<1> QED
  BY <1>1, RowsInductive, PTL DEF Spec, DaemonYields

\* Within a conversation tasks start in the order they were submitted, also
\* when one handler moves the queue twice (resumeTask).
THEOREM OldestFirst == Spec => ConversationFIFO
<1>1. ASSUME RowsInv, [Next]_vars
      PROVE  [\A t \in Tasks :
                pc[t] = "idle" /\ pc'[t] = "admit" =>
                  ~\E u \in queue' \ aborted' : u < t /\ chat'[u] = chat'[t]]_vars
  BY <1>1, StepInTurn DEF InTurn
<1> QED
  BY <1>1, RowsInductive, PTL DEF Spec, ConversationFIFO

-----------------------------------------------------------------------------
(* The promise to whoever submits a task.                                  *)

\* Where stopped runs unwind before a reaper meets them, the queue, the locks,
\* the steps of a run and the restarts implement TaskService: each row moves
\* only as its lifecycle allows, a task runs at most once and alone in its
\* conversation, and completes only with its files in the project.
THEOREM ServiceImplemented ==
  ASSUME LateReap = FALSE
  PROVE  Spec => ImplementsService
<1>1. Init => Service!ServiceInit
  BY DEF Init, Service!ServiceInit, InFlight
<1>2. ASSUME RowsInv, [Next]_vars
      PROVE  [Service!ServiceNext]_(Service!svars)
  <2>1. IInv' /\ \A t \in Tasks : Change(t)
    BY <1>2, NextIInv, StepChange DEF RowsInv
  <2>2. \A t, u \in InFlight' : t # u => chat'[t] # chat'[u]
    BY <2>1 DEF IInv, Good, Locks, Busy, Now, InFlight
  <2>3. ASSUME NEW t \in Tasks
        PROVE  Service!Advance(t)
    <3>1. Change(t)
      BY <2>1
    <3>2. CASE Begun(t)
      BY <3>1, <3>2 DEF Change, Begun, Service!Advance, Service!Moves
    <3>3. CASE status'[t] = status[t]
      <4>1. status[t] = "completed" => landed[t]
        BY <1>2 DEF RowsInv, Rows, Row, Works, Now
      <4> QED
        BY <3>1, <3>3, <4>1 DEF Change, Service!Advance
    <3>4. CASE Turns(t, status'[t]) /\ status'[t] # status[t]
      <4>1. status'[t] \in Service!Moves(status[t])
        BY <3>4 DEF Turns, Fresh, Active, Foreground, Service!Moves
      <4>2. status'[t] = "completed" => landed'[t]
        BY <3>4 DEF Turns
      <4> QED
        BY <3>1, <4>1, <4>2 DEF Change, Service!Advance
    <3> QED
      BY <3>1, <3>2, <3>3, <3>4 DEF Change
  <2>4. ASSUME NEW t \in InFlight' \ InFlight
        PROVE  Service!Begin(t)
    <3>1. t \in Tasks /\ Begun(t)
      BY <2>1, <2>4 DEF InFlight, Change
    <3> QED
      BY <2>2, <2>4, <3>1 DEF Begun, Service!Begin
  <2>5. ASSUME NEW t \in Tasks, status[t] \in {"absent", "pending"}, status'[t] = "executing"
        PROVE  t \in InFlight' \/ InFlight' = {}
    <3>1. Begun(t)
      BY <2>1, <2>5 DEF Change, Turns
    <3> QED
      BY <3>1 DEF Begun, InFlight
  <2> QED
    BY <2>3, <2>4, <2>5 DEF Service!ServiceNext
<1> QED
  BY <1>1, <1>2, RowsInductive, PTL DEF Spec, ImplementsService, Service!ServiceSpec

=============================================================================
