-------------------------- MODULE MissionKeepAlive --------------------------
(***************************************************************************)
(* The keep-alive of one mission: how BackgroundExecutor carries a user's  *)
(* task on after failures, a closed wallet, provider outages and restarts. *)
(* Every continuation is a new row whose parent is the row it continues,   *)
(* so a mission is a lineage of rows, here Attempts in the order of their  *)
(* creation; one retry count, kept in memory, serves all of them, and the  *)
(* text a row is blocked with is what a restart can rebuild it from.       *)
(*                                                                         *)
(* The rows' way through queue and executor is TaskQueue's; here a row is  *)
(* "live" from its submission to the end of its run. The mission has no    *)
(* goal tree.                                                              *)
(***************************************************************************)
EXTENDS Naturals

CONSTANTS
  MaxRows,      (* bound: rows of the mission                              *)
  MaxRetries,   (* MAX_MISSION_RETRIES                                     *)
  MaxHands,     (* bound: how often a person stops, retries or resumes it  *)
  MaxStops      (* bound: how often the process ends                       *)

ASSUME KeepAliveAssumption ==
  /\ MaxRows \in Nat \ {0} /\ MaxRetries \in Nat \ {0}
  /\ MaxHands \in Nat /\ MaxStops \in Nat

Attempts == 1..MaxRows
NoAttempt == 0

VARIABLES
  (* durable: the rows                                                     *)
  status,
  parent,
  reason,    (* cancel_reason                                              *)
  text,      (* what the row was blocked with: its kind and, if it carries *)
             (* one, the retry count read from it                          *)
  recent,    (* pairs of blocked rows, the one updated later first         *)
             (* (updated_at)                                               *)
  (* volatile                                                              *)
  awake,     (* the process runs                                          *)
  swept,     (* the re-arm of scheduleKeepAliveRearm ran in this process   *)
  retries,   (* missionRetries of the lineage; no entry reads 0            *)
  timer,     (* of each row                                                *)
  armed,     (* keepAliveArmedHere, until the sweep                        *)
  (* ghosts                                                                *)
  hands,     (* what a person did to the mission so far                    *)
  charged,   (* automatic retries charged since the last report or         *)
             (* delivery, as long as no person did anything                *)
  stops      (* how often the process ended                                *)

rows == <<status, parent, reason, text, recent>>
mem  == <<retries, timer, armed>>
kvars == <<rows, awake, swept, mem, hands, charged, stops>>

NoText == [kind |-> "none", n |-> 0]
Texts  == [kind : {"none", "retry", "carry", "budget", "stop", "ask", "other"}, n : 0..MaxRetries]

NoTimer == [kind |-> "none", spend |-> FALSE, attempt |-> 0, cooling |-> FALSE]
Timers  == [kind : {"none", "retry", "budget", "rearm", "resume"},
            spend : BOOLEAN, attempt : 0..MaxRetries, cooling : BOOLEAN]
Soon(k) == [NoTimer EXCEPT !.kind = k]

Statuses == {"absent", "live", "paused", "blocked", "failed", "completed", "cancelled"}

\* The type invariant.
KeepAliveTypeOK ==
  /\ status \in [Attempts -> Statuses]
  /\ parent \in [Attempts -> Attempts \cup {NoAttempt}]
  /\ reason \in [Attempts -> {"none", "user", "superseded"}]
  /\ text \in [Attempts -> Texts]
  /\ recent \subseteq Attempts \X Attempts
  /\ awake \in BOOLEAN /\ swept \in BOOLEAN
  /\ retries \in 0..MaxRetries
  /\ timer \in [Attempts -> Timers]
  /\ armed \subseteq Attempts /\ hands \in Nat
  /\ charged \in Nat /\ stops \in Nat

Rows == {t \in Attempts : status[t] # "absent"}
LiveRows == {t \in Attempts : status[t] = "live"}

\* findLatestLineageTask of the root: the newest row.
Tip == CHOOSE t \in Rows : \A u \in Rows : u <= t

\* The rows a row continues.
Ancestors(t) ==
  LET up_[d \in 0..MaxRows] ==
        IF d = 0 THEN {} ELSE {parent[d]} \cup up_[parent[d]]
  IN up_[t] \ {NoAttempt}

\* isLineageCancelled, for a timer's row. The status it reads for the row
\* itself is the one captured when the timer was set, which is never
\* "cancelled"; only the tip and the ancestors are read afresh.
LineageCancelled(t) ==
  \/ status[Tip] = "cancelled"
  \/ \E a \in Ancestors(t) : status[a] = "cancelled" /\ reason[a] # "superseded"

\* findLatestDescendant and the test of retireIfSuperseded.
SupersededRow(t) ==
  \E d \in Attempts :
    /\ t \in Ancestors(d) /\ \A e \in Attempts : t \in Ancestors(e) => e <= d
    /\ status[d] \in {"live", "paused", "completed"}

\* The count a row's own text gives.
CountIn(t) == IF text[t].kind \in {"retry", "carry", "stop", "ask"} THEN text[t].n ELSE 0

\* Mutant of Persisted: the ancestors' texts are not read.
Persisted_OwnText(t) == CountIn(t)

\* The highest count of the row and its ancestors (retryCountFromLineage).
Persisted(t) ==
  CHOOSE n \in {CountIn(u) : u \in Ancestors(t) \cup {t}} :
    \A u \in Ancestors(t) \cup {t} : CountIn(u) <= n

-----------------------------------------------------------------------------
(* A view of what the operations below write, because they call each other *)

Here == [status |-> status, text |-> text, recent |-> recent,
         retries |-> retries, timer |-> timer, armed |-> armed]

Becomes(w) ==
  /\ status' = w.status /\ text' = w.text /\ recent' = w.recent
  /\ retries' = w.retries /\ timer' = w.timer /\ armed' = w.armed

Without(q, t) == {p \in q : t # p[1] /\ t # p[2]}

\* The rows that wait beside t.
OthersBlocked(w, t) == {u \in Attempts \ {t} : w.status[u] = "blocked"}

\* block(): the text replaces the old one, the row is the last updated.
Block(w, t, x) ==
  [w EXCEPT !.status[t] = "blocked", !.text[t] = x,
            !.recent = Without(@, t) \cup {t} \X OthersBlocked(w, t)]

Leave(w, t, s) == [w EXCEPT !.status[t] = s, !.recent = Without(@, t)]

Appoint(w, t, x, n, tm) ==
  [Block(w, t, x) EXCEPT !.retries = n, !.timer[t] = tm,
                         !.armed = IF swept THEN @ ELSE @ \cup {t}]

\* appendTaskNotice: what the row said before stays, its count too.
Notice(w, t, k) == Block(w, t, [kind |-> k, n |-> CountIn(t)])

\* scheduleMissionKeepAlive. A report for want of budget waits, any other one
\* is left to a person; a call that spends no attempt never reports the latter.
\* cooling: every provider cools, longer than the re-poll waits.
KeepAlive(w, t, spend, walled) ==
  IF walled
  THEN {Appoint(w, t, [kind |-> "budget", n |-> 0], 0, Soon("budget"))}
  ELSE IF spend /\ w.retries >= MaxRetries
  THEN {[Notice(w, t, "stop") EXCEPT !.retries = 0]}
  ELSE LET n == IF spend THEN w.retries + 1 ELSE w.retries
       IN {Appoint(w, t, [kind |-> IF spend THEN "retry" ELSE "carry", n |-> n], n,
                   [kind |-> "retry", spend |-> spend, attempt |-> w.retries, cooling |-> c]) :
             c \in BOOLEAN}

Reported(w, t) == w.text[t].kind \in {"stop", "budget"}

\* A mission is handed to the keep-alive, in a view already written.
HandOver(w, t, spend) ==
  \E walled \in BOOLEAN : \E v \in KeepAlive(w, t, spend, walled) :
    /\ Becomes(v)
    /\ charged' = IF Reported(v, t) THEN 0 ELSE charged

Fresh(c) == status[c] = "absent" /\ \A u \in Attempts : u < c => status[u] # "absent"

\* submit() with continuationOptions; a full queue fails the new row.
Continue(w, p, c) ==
  /\ Fresh(c)
  /\ \E s \in {"live", "failed"} : Becomes([w EXCEPT !.status[c] = s])
  /\ parent' = [parent EXCEPT ![c] = p]

-----------------------------------------------------------------------------
(* How the run of a row ends.                                              *)

Completes(t) ==
  /\ awake /\ status[t] = "live"
  /\ Becomes([Leave(Here, t, "completed") EXCEPT !.text[t] = NoText])
  /\ charged' = 0
  /\ UNCHANGED <<parent, reason, awake, swept, hands, stops>>

\* A failure, a refused reservation or a reap: the keep-alive has its say. Some
\* callers then fail() a row it reported, over the notice it wrote.
Fails(t) ==
  /\ awake /\ status[t] = "live"
  /\ \/ HandOver(Here, t, TRUE)
     \/ \E v \in KeepAlive(Here, t, TRUE, FALSE) :
          /\ Reported(v, t)
          /\ Becomes(Leave(v, t, "failed"))
          /\ charged' = 0
  /\ UNCHANGED <<parent, reason, awake, swept, hands, stops>>

\* A question for a person is never retried.
AsksPerson(t) ==
  /\ awake /\ status[t] = "live"
  /\ LET w == Notice(Here, t, "ask")
     IN Becomes(w) \/ Becomes(Leave(w, t, "failed"))
  /\ UNCHANGED <<parent, reason, awake, swept, hands, charged, stops>>

-----------------------------------------------------------------------------
(* What a person does.                                                     *)

ByHand == hands < MaxHands /\ hands' = hands + 1 /\ charged' = 0

\* A row cancelled for another reason takes the person's as its own.
Cancel(t) ==
  /\ awake /\ ByHand
  /\ \/ status[t] \in {"live", "paused", "blocked"}
     \/ status[t] = "cancelled" /\ reason[t] # "user"
  /\ Becomes(Leave(Here, t, "cancelled"))
  /\ reason' = [reason EXCEPT ![t] = "user"]
  /\ UNCHANGED <<parent, awake, swept, stops>>

RetryTask(t) ==
  /\ awake /\ status[t] \in {"blocked", "failed", "cancelled"}
  /\ ByHand
  /\ \E c \in Attempts : Continue(Here, t, c)
  /\ UNCHANGED <<reason, awake, swept, stops>>

\* resumeTask: retireIfSuperseded, or a child and retireResumedParent, or, when
\* the queue refused the child, a row that stays paused.
Resume(w, t) ==
  \/ /\ SupersededRow(t)
     /\ Becomes([w EXCEPT !.status[t] = "cancelled"])
     /\ reason' = [reason EXCEPT ![t] = "superseded"]
     /\ UNCHANGED parent
  \/ /\ ~SupersededRow(t)
     /\ \E c \in Attempts, taken \in BOOLEAN :
          /\ Fresh(c)
          /\ Becomes([w EXCEPT !.status[c] = IF taken THEN "live" ELSE "failed",
                               !.status[t] = IF taken THEN "cancelled" ELSE @])
          /\ parent' = [parent EXCEPT ![c] = t]
          /\ reason' = IF taken THEN [reason EXCEPT ![t] = "superseded"] ELSE reason

ResumeTask(t) ==
  /\ awake /\ status[t] = "paused"
  /\ ByHand
  /\ Resume(Here, t)
  /\ UNCHANGED <<awake, swept, stops>>

-----------------------------------------------------------------------------
(* The timers.                                                             *)

Off(t) == [Here EXCEPT !.timer[t] = NoTimer]

\* Mutant of Resubmit: a resubmission that cannot happen ends the keep-alive.
Resubmit_GivesUp(t, charge) ==
  \/ /\ status[t] \notin {"live", "paused", "completed"}
     /\ \E c \in Attempts : Continue(Off(t), t, c)
     /\ charged' = IF hands = 0 THEN charged + charge ELSE 0
  \/ /\ Becomes(Off(t))
     /\ UNCHANGED <<parent, charged>>

\* retryTask from a timer: a new row, or nothing (storage threw, or the row is
\* live or completed), which charges the attempt and makes an appointment.
Resubmit(t, charge) ==
  \/ /\ status[t] \notin {"live", "paused", "completed"}
     /\ \E c \in Attempts : Continue(Off(t), t, c)
     /\ charged' = IF hands = 0 THEN charged + charge ELSE 0
  \/ /\ HandOver(Off(t), t, TRUE)
     /\ UNCHANGED parent

\* The mission goes on under another row already.
Continued(t) == \E u \in Attempts \ {t} : status[u] = "live"

\* The backoff is over. A re-poll that finds the providers still cooling gives
\* the attempt back and parks again on the same terms.
RetryDue(t) ==
  /\ awake /\ timer[t].kind = "retry"
  /\ \/ /\ timer[t].cooling
        /\ HandOver([Off(t) EXCEPT !.retries = timer[t].attempt], t, timer[t].spend)
        /\ UNCHANGED parent
     \/ /\ LineageCancelled(t)
        /\ Becomes([Off(t) EXCEPT !.retries = 0])
        /\ UNCHANGED <<parent, charged>>
     \/ /\ ~LineageCancelled(t) /\ Continued(t)
        /\ Becomes(Off(t))
        /\ UNCHANGED <<parent, charged>>
     \/ /\ ~LineageCancelled(t) /\ ~Continued(t)
        /\ Resubmit(t, IF timer[t].spend THEN 1 ELSE 0)
  /\ UNCHANGED <<reason, awake, swept, hands, stops>>

\* The hourly re-check: walled still, or unreadable, or the mission goes on.
BudgetDue(t) ==
  /\ awake /\ timer[t].kind = "budget"
  /\ \/ /\ \E v \in KeepAlive(Off(t), t, TRUE, TRUE) : Becomes(v)
        /\ charged' = 0
        /\ UNCHANGED parent
     \/ Resubmit(t, 0)
  /\ UNCHANGED <<reason, awake, swept, hands, stops>>

\* A re-arm the sweep put off, because it re-armed other missions first.
RearmDue(t) ==
  /\ awake /\ timer[t].kind = "rearm"
  /\ HandOver(Off(t), t, FALSE)
  /\ UNCHANGED <<parent, reason, awake, swept, hands, stops>>

\* A row the restart had paused: left alone, or resumed. resumeTask reads the
\* row afresh and takes only a paused one.
AutoResume(w, t) ==
  IF LineageCancelled(t) \/ Continued(t) \/ status[t] # "paused"
  THEN Becomes(w) /\ UNCHANGED <<parent, reason>>
  ELSE Resume(w, t)

ResumeDue(t) ==
  /\ awake /\ timer[t].kind = "resume"
  /\ AutoResume(Off(t), t)
  /\ UNCHANGED <<awake, swept, hands, charged, stops>>

-----------------------------------------------------------------------------
(* The sweep, ninety seconds after the boot.                               *)

\* A row the sweep may re-arm: blocked, by the budget or by nothing a person
\* has to answer, not armed by this process, and not finished by a later row.
Orphaned(t) ==
  /\ status[t] = "blocked" /\ text[t].kind \notin {"stop", "ask"}
  /\ t \notin armed
  /\ Tip # t => status[Tip] # "completed"

\* The last updated of them: the lineage is re-armed once.
Chosen(t) ==
  /\ Orphaned(t)
  /\ \A u \in Attempts \ {t} : Orphaned(u) => <<t, u>> \in recent

Restored(t) == IF Persisted(t) > retries THEN Persisted(t) ELSE retries

\* Only when none is, a row the restart had paused is resumed.
Sweep ==
  /\ awake /\ ~swept
  /\ swept' = TRUE
  /\ LET w == [Here EXCEPT !.armed = {}]
     IN \/ \E t \in Attempts :
             LET counted == [w EXCEPT !.retries = Restored(t)]
             IN /\ Chosen(t)
                /\ UNCHANGED <<parent, reason>>
                /\ \/ \E walled \in BOOLEAN : \E v \in KeepAlive(counted, t, FALSE, walled) :
                        /\ Becomes([v EXCEPT !.armed = {}])
                        /\ charged' = IF Reported(v, t) THEN 0 ELSE charged
                   \/ Becomes([counted EXCEPT !.timer[t] = Soon("rearm")]) /\ UNCHANGED charged
        \/ /\ \A t \in Attempts : ~Orphaned(t)
           /\ UNCHANGED charged
           /\ \/ \E t \in Attempts :
                   /\ status[t] = "paused"
                   /\ \/ AutoResume(w, t)
                      \/ /\ Becomes([w EXCEPT !.timer[t] = Soon("resume")])
                         /\ UNCHANGED <<parent, reason>>
              \/ /\ \A t \in Attempts : status[t] # "paused"
                 /\ Becomes(w) /\ UNCHANGED <<parent, reason>>
  /\ UNCHANGED <<awake, hands, stops>>

-----------------------------------------------------------------------------
(* The process ends, and boots.                                            *)

Forget ==
  /\ awake /\ stops < MaxStops
  /\ stops' = stops + 1
  /\ awake' = FALSE /\ swept' = FALSE
  /\ retries' = 0 /\ armed' = {}
  /\ timer' = [t \in Attempts |-> NoTimer]
  /\ UNCHANGED <<parent, reason, hands, charged>>

Crash == Forget /\ UNCHANGED <<status, text, recent>>

\* failActiveTasksOnShutdown: one notice on every live or paused row, in the
\* same moment, so that the newest of them comes first in the next sweep.
Exit ==
  /\ Forget
  /\ LET left == {t \in Attempts : status[t] \in {"live", "paused"}}
     IN /\ status' = [t \in Attempts |-> IF t \in left THEN "blocked" ELSE status[t]]
        /\ text' = [t \in Attempts |-> IF t \in left THEN [kind |-> "other", n |-> 0] ELSE text[t]]
        /\ recent' = recent \cup left \X {u \in Attempts : status[u] = "blocked"}
                     \cup {p \in left \X left : p[1] > p[2]}

\* recoverOnStartup: what was running is paused; a paused row a newer one
\* continues is retired.
Boot ==
  /\ ~awake /\ awake' = TRUE
  /\ LET old == {t \in Attempts : status[t] = "paused" /\ SupersededRow(t)}
     IN /\ status' = [t \in Attempts |-> IF t \in old THEN "cancelled"
                                         ELSE IF t \in LiveRows THEN "paused" ELSE status[t]]
        /\ reason' = [t \in Attempts |-> IF t \in old THEN "superseded" ELSE reason[t]]
  /\ UNCHANGED <<parent, text, recent, swept, mem, hands, charged, stops>>

-----------------------------------------------------------------------------
\* The mission is submitted; its first row runs.
KeepAliveInit ==
  /\ status = [t \in Attempts |-> IF t = 1 THEN "live" ELSE "absent"]
  /\ parent = [t \in Attempts |-> NoAttempt]
  /\ reason = [t \in Attempts |-> "none"]
  /\ text = [t \in Attempts |-> NoText] /\ recent = {}
  /\ awake = TRUE /\ swept = FALSE
  /\ retries = 0 /\ timer = [t \in Attempts |-> NoTimer] /\ armed = {}
  /\ hands = 0 /\ charged = 0 /\ stops = 0

Due(t) == RetryDue(t) \/ BudgetDue(t) \/ RearmDue(t) \/ ResumeDue(t)

KeepAliveNext ==
  \/ \E t \in Attempts : Completes(t) \/ Fails(t) \/ AsksPerson(t)
  \/ \E t \in Attempts : Cancel(t) \/ RetryTask(t) \/ ResumeTask(t)
  \/ \E t \in Attempts : Due(t)
  \/ Sweep \/ Crash \/ Exit \/ Boot

KeepAliveSpec == KeepAliveInit /\ [][KeepAliveNext]_kvars

-----------------------------------------------------------------------------
(* Properties.                                                             *)

\* The lineage went back to a row it had passed over: the sweep continues a
\* blocked row and leaves the paused one that continued it before, which a
\* later boot may take up again (see DeliveredStaysDone).
WentBack ==
  \E t, u, c \in Rows : t < u /\ parent[u] = parent[t] /\ parent[c] = t /\ u < c

\* Left to itself a mission is retried at most MAX_MISSION_RETRIES times between
\* two reports (or a delivery), however often the process restarts meanwhile: a
\* restart neither refills the count nor loses it (decideMissionKeepAlive, the
\* re-arm's carry, retryCountFromLineage). What a person does is a new start.
RetryBudget == charged <= MaxRetries \/ WentBack

\* Nothing on the keep-alive's paths ends without another appointment: while
\* the newest row promises a retry and nothing of the mission runs, some timer
\* stands, unless a person stopped the lineage, a branch retried beside it (for
\* which a due retry was dropped) has ended, or a later word asks for a person.
Appointed ==
  awake /\ swept /\ LiveRows = {} /\ status[Tip] = "blocked"
     /\ text[Tip].kind \in {"retry", "carry", "budget"}
  => \/ \E t \in Attempts : timer[t] # NoTimer
     \/ \E t \in Rows : status[t] = "cancelled" /\ reason[t] = "user"
     \/ \E t \in Rows \ (Ancestors(Tip) \cup {Tip}) : status[t] \in {"completed", "failed"}
     \/ \E u \in Rows : <<u, Tip>> \in recent /\ text[u].kind \in {"stop", "ask"}

\* The count survives a crash: what the next sweep would restore from the rows
\* is never less than what the process counts.
CountIsDurable ==
  awake /\ swept /\ retries > 0 => \E t \in Attempts : CountIn(t) >= retries

\* The limit of retries holds, and it holds across restarts.
RetriesLimited == RetryBudget /\ CountIsDurable

\* A deliberate stop outranks a keep-alive: no automatic continuation of a row
\* a person cancelled (isLineageCancelled).
StopRespected ==
  [][\A c \in Attempts :
       status[c] = "absent" /\ status'[c] # "absent" /\ hands' = hands
         => ~(status[parent'[c]] = "cancelled" /\ reason[parent'[c]] = "user")]_kvars

\* A delivered mission is not replayed: no automatic continuation once the
\* newest row completed (the sweep's test of the tip, retireIfSuperseded).
DeliveredStaysDone ==
  [][(\E c \in Attempts : status[c] = "absent" /\ status'[c] # "absent") /\ hands' = hands
       => status[Tip] # "completed"]_kvars

\* The sweep leaves a mission alone that has stopped, or asked, and waits for a
\* person (the re-arm's test of AWAITS_A_PERSON_RE).
EscalationStands ==
  [][~swept /\ swept' /\ status[Tip] = "blocked" /\ text[Tip].kind \in {"stop", "ask"}
       => timer' = timer]_kvars

=============================================================================
