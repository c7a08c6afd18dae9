------------------------------ MODULE Campaign ------------------------------
(***************************************************************************)
(* CampaignManager, from the moment a ladder of sprints is being executed: *)
(* it submits the sprint's task, hears how tasks end, judges them, advances*)
(* or retries, and is stopped, cancelled and revived by a person, by its   *)
(* own appointments and by restarts.                                       *)
(*                                                                         *)
(* Its handlers run one after the other (settleChains), but each reads the *)
(* campaign once and holds that copy over its awaits: a person's commands, *)
(* timers and the resumption at boot act meanwhile, and a copy's late save *)
(* is let through only within the generation it was read in (persist).     *)
(*                                                                         *)
(* Handlers are written as the worlds they may leave: a world is the       *)
(* campaign as stored, the task rows, and what is pending in memory.       *)
(***************************************************************************)
EXTENDS Naturals, Sequences, FiniteSets, FiniteSetsExt

CONSTANTS
  Ladder,           (* number of sprints                                   *)
  MaxSprintTries,   (* maxMilestoneAttempts                                *)
  MaxSelfRevivals,  (* MAX_IMPLEMENTATION_REVIVES                          *)
  MaxNarrowings,    (* narrowings before an overrun is charged: 2          *)
  MaxWork,          (* bound: task rows                                    *)
  MaxWishes,        (* bound: what a person does to the campaign           *)
  MaxCampBoots,     (* bound: restarts                                     *)
  MaxAppointments,  (* bound: appointments made                            *)
  MaxTurns          (* bound: these three together                         *)

ASSUME CampaignAssumption ==
  /\ {Ladder, MaxSprintTries, MaxWork} \subseteq Nat \ {0}
  /\ {MaxSelfRevivals, MaxNarrowings, MaxWishes, MaxCampBoots, MaxAppointments, MaxTurns}
       \subseteq Nat

Sprints == 1..Ladder
Work == 1..MaxWork
NoWork == 0
Appointments == 1..MaxAppointments
NoAppointment == 0

VARIABLES
  (* durable                                                               *)
  camp,      (* the stored campaign                                        *)
  work,      (* the task rows; line: the row and its ancestors             *)
  (* volatile                                                              *)
  settleChain,   (* the settle chain: handlers that wait                       *)
  busy,      (* what the chain, and the resumption at boot, are in         *)
  alarms,    (* timers                                                     *)
  (* ghosts and bounds                                                     *)
  barred,    (* a person's stop stands, nobody revived the campaign since  *)
  raced,     (* a copy went on that should not have: the chain handled     *)
             (* something while the resumption at boot, which is not on    *)
             (* it, held one, or the submission after an advance came in a *)
             (* later generation. A behaviour is followed until then.      *)
  made,      (* appointments made                                          *)
  wishes, campBoots

campVars == <<camp, work, settleChain, busy, alarms, barred, raced, made, wishes, campBoots>>

Sprint0 == [task |-> NoWork, tries |-> 0, narrowed |-> 0, bounced |-> FALSE]
SprintStates == [task : Work \cup {NoWork}, tries : 0..MaxWork, narrowed : 0..MaxNarrowings,
                 bounced : BOOLEAN]
CampStates ==
  [state : {"executing", "failed", "cancelled", "done"}, cur : Sprints,
   sprint : [Sprints -> SprintStates], revives : 0..MaxSelfRevivals,
   appt : Appointments \cup {NoAppointment}, stop : BOOLEAN, gen : 0..MaxWishes,
   owned : SUBSET Work]

Unborn == [st |-> "none", why |-> "none", line |-> {}, by |-> "none"]
RowStates ==
  [st : {"none", "live", "paused", "blocked", "completed", "cancelled"},
   why : {"none", "user", "superseded"}, line : SUBSET Work,
   by : {"none", "campaign", "executor"}]

Workers == {"chain", "boot"}

Camp0 == [state |-> "executing", cur |-> 1,
          sprint |-> [s \in Sprints |-> IF s = 1 THEN [Sprint0 EXCEPT !.task = 1, !.tries = 1]
                                                 ELSE Sprint0],
          revives |-> 0, appt |-> NoAppointment, stop |-> FALSE, gen |-> 0, owned |-> {1}]
Unoccupied == [at |-> "rest", copy |-> Camp0, live |-> FALSE]

\* The type invariant.
CampTypeOK ==
  /\ camp \in CampStates /\ work \in [Work -> RowStates]
  /\ settleChain \in Seq([what : {"settle", "stop", "reconcile"}, of : Work \cup Sprints,
                      gen : 0..MaxWishes])
  /\ busy \in [Workers ->
       [at : {"rest", "judging", "narrowed", "overran", "advanced", "parked", "tail"},
        copy : CampStates, live : BOOLEAN]]
  /\ alarms \subseteq [kind : {"reconcile", "revive", "resubmit"}, of : Nat]
  /\ barred \in BOOLEAN /\ raced \in BOOLEAN /\ made \in 0..MaxAppointments
  /\ wishes \in 0..MaxWishes /\ campBoots \in 0..MaxCampBoots

---------------------------------------------------------------------------
\* Worlds.
World == [camp |-> camp, work |-> work, settleChain |-> settleChain, busy |-> busy,
          alarms |-> alarms, made |-> made]

Happens(w) ==
  /\ camp' = w.camp /\ work' = w.work /\ settleChain' = w.settleChain /\ busy' = w.busy
  /\ alarms' = w.alarms /\ made' = w.made

AtRest(w, a) ==   \* the resumption at boot goes on with the rest of resumeActive
  [w EXCEPT !.busy[a] = IF a = "boot" THEN [Unoccupied EXCEPT !.at = "tail"] ELSE Unoccupied]
Awaits(w, a, at, c) == [w EXCEPT !.busy[a] = [at |-> at, copy |-> c, live |-> FALSE]]
Sets(w, alarm) == [w EXCEPT !.alarms = @ \cup {alarm}]

\* Lineages (task-storage).
RowsOf(w) == {t \in Work : w.work[t].st # "none"}
RootOf(w, t) == Min(w.work[t].line)
SameTree(w, t, u) == RootOf(w, t) = RootOf(w, u)
NewestOf(w, t) == Max({u \in RowsOf(w) : t \in w.work[u].line})
StoppedByPerson(w, t) ==
  t # NoWork /\ \E u \in RowsOf(w) :
    SameTree(w, u, t) /\ w.work[u].st = "cancelled" /\ w.work[u].why = "user"

Current(c) == c.sprint[c.cur].task
Retirable == {"live", "paused", "blocked"}

InTurn(ts, i) == CHOOSE t \in ts : Cardinality({u \in ts : u <= t}) = i
Queued(w, ours) ==
  [w EXCEPT !.settleChain = @ \o
     [i \in 1..Cardinality(ours) |-> [what |-> "settle", of |-> InTurn(ours, i), gen |-> 0]]]

\* Mutant of Hears: the sprint's task is known by its own id, not by its line.
Hears_OwnId(w, ts) ==
  Queued(w, {t \in ts : w.camp.state = "executing" /\ Current(w.camp) = t})

\* handleTaskSettled, of rows no person cancelled: what the stored campaign,
\* when it executes, takes for its current sprint's is queued on the chain.
Hears(w, ts) ==
  Queued(w, {t \in ts : w.camp.state = "executing" /\ Current(w.camp) \in w.work[t].line})

\* TaskManager.cancel by the campaign; a finished row is left as it is.
Retires(w, ts, why) ==
  LET gone == {t \in ts : w.work[t].st \in Retirable}
  IN Hears([w EXCEPT !.work = [t \in Work |->
              IF t \in gone THEN [w.work[t] EXCEPT !.st = "cancelled", !.why = why]
              ELSE w.work[t]]], gone)

\* Mutant of RetiresTip: the sprint's task is stopped, not what carried it on.
RetiresTip_OwnId(w, c) ==
  IF Current(c) = NoWork THEN w ELSE Retires(w, {Current(c)}, "superseded")

RetiresTip(w, c) ==
  IF Current(c) = NoWork THEN w ELSE Retires(w, {NewestOf(w, Current(c))}, "superseded")
RetiresAll(w, c, why) == Retires(w, {t \in RowsOf(w) : RootOf(w, t) \in c.owned}, why)

\* persist: a save from an earlier generation is refused, and a stop that was
\* recorded in this one is carried over a copy that does not know of it.
Older(w, c) == w.camp.gen > c.gen

\* Mutant of Saves: a stop recorded while the copy was out is lost.
Saves_DropsStop(w, c) == IF Older(w, c) THEN w ELSE [w EXCEPT !.camp = c]

Saves(w, c) ==
  IF Older(w, c) THEN w
  ELSE [w EXCEPT !.camp = [c EXCEPT !.stop = c.stop \/ (w.camp.stop /\ w.camp.gen = c.gen)]]

---------------------------------------------------------------------------
\* What handlers are made of.

\* landRecordedStop, and the stop handlers that do the same.
Lands(w, c) ==
  LET v == [c EXCEPT !.state = "failed", !.appt = NoAppointment]
  IN IF Older(w, c) THEN w ELSE RetiresAll(Saves(w, v), v, "none")

\* A failed campaign with an appointment to revive itself. The timer is set
\* with the appointment, whether or not the save was refused.
NoRoom(w) == w.made = MaxAppointments \/ w.made + wishes + campBoots >= MaxTurns
Parked(w, c) == [c EXCEPT !.state = "failed", !.appt = w.made + 1]
Parks(w, c) ==
  IF NoRoom(w) THEN {}
  ELSE {Sets(Saves([w EXCEPT !.made = @ + 1], Parked(w, c)),
             [kind |-> "revive", of |-> w.made + 1])}

\* A new row, a child of the sprint's last one unless a person stopped that.
Launches(w, c, counted) ==
  LET t == Cardinality(RowsOf(w)) + 1
      prev == Current(c)
      line == {t} \cup IF prev = NoWork \/ StoppedByPerson(w, prev) THEN {} ELSE w.work[prev].line
      s == [c.sprint[c.cur] EXCEPT !.task = t, !.tries = @ + IF counted THEN 1 ELSE 0]
  IN IF t \notin Work THEN {}
     ELSE {Saves([w EXCEPT !.work[t] = [st |-> "live", why |-> "none", line |-> line,
                                        by |-> "campaign"]],
                 [c EXCEPT !.state = "executing", !.sprint[c.cur] = s,
                           !.owned = @ \cup {Min(line)}])}

\* submitCurrentMilestone; with every provider cooling down it parks instead.
SubmitsSprint(w, c, counted) ==
  IF w.camp.stop THEN {Lands(w, c)}
  ELSE IF Older(w, c) THEN {w}
  ELSE LET v == RetiresTip(w, c) IN Parks(v, c) \cup Launches(v, c, counted)

\* reviveAtCurrentMilestone: fresh budget, fresh gates.
RevivesAt(w, c) ==
  LET fresh == [c EXCEPT !.state = "executing", !.appt = NoAppointment,
                         !.sprint[c.cur] = [Sprint0 EXCEPT !.task = Current(c)]]
  IN SubmitsSprint(Saves(RetiresTip(w, c), fresh), fresh, TRUE)

\* An exhausted sprint: selfReviveImplementation, and the stop behind it.
GivesUp(w, c) ==
  IF c.revives < MaxSelfRevivals
  THEN Parks(w, [c EXCEPT !.revives = @ + 1, !.sprint[c.cur].tries = 0])
  ELSE {Saves(w, [c EXCEPT !.state = "failed", !.appt = NoAppointment])}

\* escalateIfPastTimeBox, until its message is sent.
Overruns(w, a, c) ==
  LET tip == w.work[NewestOf(w, Current(c))].st
      narrower == [c EXCEPT !.sprint[c.cur].narrowed = @ + 1]
      v == RetiresTip(w, c)
  IN IF c.sprint[c.cur].narrowed < MaxNarrowings
     THEN {[Saves(w, narrower) EXCEPT
              !.busy[a] = [at |-> "narrowed", copy |-> narrower,
                           live |-> tip \in {"live", "paused"}]]}
     ELSE IF c.sprint[c.cur].tries < MaxSprintTries THEN {Awaits(Saves(v, c), a, "overran", c)}
     ELSE {AtRest(u, a) : u \in GivesUp(v, [c EXCEPT !.sprint[c.cur].narrowed = 0])}

\* onMilestoneOutcome, of an attempt that did not complete: interrupted by a
\* shutdown, over its time box, ended by an outage, retried, or given up.
SprintFails(w, a, c, counted) ==
  LET r == AtRest(w, a)
  IN Overruns(w, a, c) \cup SubmitsSprint(r, c, FALSE)
     \cup IF c.sprint[c.cur].tries < MaxSprintTries THEN SubmitsSprint(r, c, counted)
          ELSE Parks(r, c) \cup GivesUp(r, c)

\* adoptTask.
Adopts(w, c, t) ==
  IF Current(c) = t THEN w
  ELSE Saves(w, [c EXCEPT !.sprint[c.cur].task = t, !.owned = @ \cup {RootOf(w, t)}])

---------------------------------------------------------------------------
\* The tasks.
LiveWork == {t \in Work : work[t].st = "live"}
Unasked == ~raced /\ UNCHANGED <<barred, wishes, campBoots>>
Undisturbed == Unasked /\ UNCHANGED raced

RowEnds(t, s) ==
  /\ work[t].st = "live" /\ s \in {"completed", "blocked"}
  /\ Happens(Hears([World EXCEPT !.work[t].st = s], {t}))
  /\ Undisturbed

\* The executor carries the last row of a branch on (keep-alive, goal resume,
\* the resumption of what a restart paused), unless an ancestor was cancelled
\* for good or the lineage runs already.
RowContinues(t) ==
  LET n == Cardinality(RowsOf(World)) + 1
      paused == work[t].st = "paused"
  IN /\ work[t].st \in {"blocked", "paused"} /\ NewestOf(World, t) = t /\ n \in Work
     /\ \A u \in work[t].line : work[u].st = "cancelled" => work[u].why = "superseded"
     /\ \A u \in RowsOf(World) : SameTree(World, t, u) => work[u].st # "live"
     /\ work' = [work EXCEPT
          ![n] = [st |-> "live", why |-> "none", line |-> work[t].line \cup {n},
                  by |-> "executor"],
          ![t].st = IF paused THEN "cancelled" ELSE @,
          ![t].why = IF paused THEN "superseded" ELSE @]
     /\ UNCHANGED <<camp, settleChain, busy, alarms, made>> /\ Undisturbed

---------------------------------------------------------------------------
\* The person.
Wish ==
  /\ ~raced /\ wishes < MaxWishes /\ wishes + made + campBoots < MaxTurns
  /\ wishes' = wishes + 1 /\ UNCHANGED <<raced, campBoots>>

\* TaskManager.cancel with reason user, and what handleTaskSettled does with
\* its event: a stop about the current work is recorded at once, and a handler
\* queued behind whatever the chain is doing.
OwnsRow(c, t) ==
  t \in c.owned \/ \E s \in Sprints :
    c.sprint[s].task # NoWork /\ SameTree(World, t, c.sprint[s].task)
AboutCurrent(c, t) == Current(c) = NoWork \/ SameTree(World, t, Current(c))
StopsRow(t) ==
  LET heard == camp.state = "executing" /\ OwnsRow(camp, t)
      w == [World EXCEPT !.work[t].st = "cancelled", !.work[t].why = "user"]
      stamped == [w EXCEPT !.camp.stop = @ \/ AboutCurrent(camp, t),
                           !.settleChain = Append(@, [what |-> "stop", of |-> t, gen |-> camp.gen])]
  IN /\ Wish
     /\ work[t].st \in Retirable \/ (work[t].st = "cancelled" /\ work[t].why # "user")
     /\ Happens(IF heard THEN stamped ELSE w)
     /\ barred' = (barred \/ (heard /\ AboutCurrent(camp, t))
                   \/ (camp.state = "failed" /\ Current(camp) # NoWork /\ AboutCurrent(camp, t)))

\* tryHandleCancel, of an active or a parked campaign.
CancelsCampaign ==
  LET c == [camp EXCEPT !.state = "cancelled", !.appt = NoAppointment, !.gen = @ + 1]
  IN /\ Wish
     /\ camp.state = "executing" \/ (camp.state = "failed" /\ camp.appt # NoAppointment)
     /\ Happens(RetiresAll(Saves(World, c), c, "none")) /\ barred' = TRUE

\* tryHandleRevive: a new generation, without the stop of the old one.
RevivesCampaign ==
  /\ Wish /\ camp.state \in {"failed", "cancelled"}
  /\ \E w \in RevivesAt(World, [camp EXCEPT !.gen = @ + 1, !.stop = FALSE]) : Happens(w)
  /\ barred' = FALSE

---------------------------------------------------------------------------
\* The chain.
Handles(what) ==
  /\ busy["chain"].at = "rest" /\ settleChain # <<>> /\ Head(settleChain).what = what
  /\ raced' = (busy["boot"].at \in {"judging", "narrowed", "overran"})
  /\ Unasked
Rest == [World EXCEPT !.settleChain = Tail(@)]

\* The handlers of handleTaskSettled: an attempt that completed is judged, one
\* that did not is looked at again after a grace.
HandlesSettle ==
  LET t == Head(settleChain).of
      ours == camp.state = "executing" /\ Current(camp) \in work[t].line
  IN /\ Handles("settle")
     /\ Happens(IF ~ours THEN Rest
                ELSE IF work[t].st = "completed" THEN Awaits(Rest, "chain", "judging", camp)
                ELSE Sets(Rest, [kind |-> "reconcile", of |-> camp.cur]))

HandlesStop ==
  LET h == Head(settleChain)
      about == camp.gen = h.gen /\ camp.state = "executing" /\ AboutCurrent(camp, h.of)
  IN Handles("stop") /\ Happens(IF about THEN Lands(Rest, camp) ELSE Rest)

\* reconcileMilestoneAfterSettle, against what the lineage says by now. A run
\* whose text promises a retry may be waited for again.
Reconciles(s) ==
  LET tip == NewestOf(World, Current(camp))
  IN IF camp.state # "executing" \/ camp.cur # s THEN {Rest}
     ELSE IF StoppedByPerson(World, Current(camp)) THEN {Lands(Rest, camp)}
     ELSE CASE work[tip].st = "live" -> Overruns(Rest, "chain", camp) \cup {Adopts(Rest, camp, tip)}
            [] work[tip].st = "completed" -> {Awaits(Rest, "chain", "judging", camp)}
            [] OTHER -> SprintFails(Rest, "chain", camp, TRUE)
                        \cup {Sets(Rest, [kind |-> "reconcile", of |-> s])}
HandlesReconcile ==
  /\ Handles("reconcile")
  /\ \E w \in Reconciles(Head(settleChain).of) : Happens(w)

---------------------------------------------------------------------------
\* The end of a judgement, over the copy it began with; a is the worker.
JudgedBy(a) == busy[a].at = "judging" /\ Undisturbed
Held(a) == busy[a].copy
Done(a) == AtRest(World, a)

\* A gate sends the sprint back once, uncharged.
Bounces(a) ==
  LET c == [Held(a) EXCEPT !.sprint[Held(a).cur].bounced = TRUE]
  IN /\ JudgedBy(a) /\ ~Held(a).sprint[Held(a).cur].bounced
     /\ \E w \in SubmitsSprint(Saves(Done(a), c), c, FALSE) : Happens(w)

\* Red tests, a report of failure: the completion is none.
TurnsOutFailed(a) ==
  /\ JudgedBy(a) /\ \E w \in SprintFails(World, a, Held(a), a = "chain") : Happens(w)

Advances(a) ==
  LET c == [Held(a) EXCEPT !.cur = @ + 1]
  IN /\ JudgedBy(a) /\ Held(a).cur < Ladder /\ Happens(Awaits(Saves(World, c), a, "advanced", c))

\* The delivery gate holds: another round by appointment, or none.
LacksProofs(a) ==
  LET c == Parked(World, Held(a))
  IN /\ JudgedBy(a) /\ Held(a).cur = Ladder /\ ~NoRoom(World)
     /\ Happens(Awaits(RetiresAll(Saves([World EXCEPT !.made = @ + 1], c), c, "superseded"),
                       a, "parked", c))
StopsShort(a) ==
  LET c == [Held(a) EXCEPT !.state = "failed", !.appt = NoAppointment]
  IN /\ JudgedBy(a) /\ Held(a).cur = Ladder
     /\ Happens(RetiresAll(Saves(Done(a), c), c, "superseded"))

Delivers(a) ==
  LET c == [Held(a) EXCEPT !.state = "done"]
  IN /\ JudgedBy(a) /\ Held(a).cur = Ladder /\ ~camp.stop
     /\ Happens(IF Older(World, c) THEN Done(a) ELSE RetiresAll(Saves(Done(a), c), c, "none"))

\* What comes after the message is sent.
Told(a) ==
  LET c == Held(a)
      \* resubmitSoon, and the timer of the next delivery round
      follows == CASE busy[a].at = "advanced" -> {Sets(Done(a), [kind |-> "resubmit", of |-> c.gen])}
                   [] busy[a].at = "parked" -> {Sets(Done(a), [kind |-> "revive", of |-> c.appt])}
                   [] busy[a].at = "overran" -> SubmitsSprint(Done(a), c, TRUE)
                   [] OTHER -> {}
  IN Undisturbed /\ \E w \in follows : Happens(w)

\* The narrowed sprint is started, unless its attempt, at work when the message
\* was sent, has ended since.
Narrowed(a) ==
  LET c == Held(a)
      tip == work[NewestOf(World, Current(c))].st
  IN /\ busy[a].at = "narrowed" /\ Undisturbed
     /\ \E w \in IF busy[a].live /\ tip \notin {"live", "paused"} THEN {Done(a)}
                 ELSE SubmitsSprint(RetiresTip(Done(a), c), c, FALSE) : Happens(w)

---------------------------------------------------------------------------
\* Timers, each over the campaign as stored when it rings.
Rings(alarm) == alarm \in alarms /\ Undisturbed
Silenced(alarm) == [World EXCEPT !.alarms = @ \ {alarm}]

GraceEnds(s) ==
  LET alarm == [kind |-> "reconcile", of |-> s]
  IN /\ Rings(alarm)
     /\ Happens([Silenced(alarm) EXCEPT
          !.settleChain = Append(@, [what |-> "reconcile", of |-> s, gen |-> 0])])

\* resubmitSoon. It does not know the generation g that armed it.
NextSprint(g) ==
  LET alarm == [kind |-> "resubmit", of |-> g]
      w == Silenced(alarm)
  IN /\ alarm \in alarms /\ Unasked /\ raced' = (camp.state = "executing" /\ camp.gen # g)
     /\ \E v \in IF camp.state = "executing" THEN SubmitsSprint(w, camp, TRUE) ELSE {w} : Happens(v)

\* scheduleAutoRevive: only the appointment the timer was set for, never past
\* a person's stop, and not while every provider cools down.
AppointmentDue(n) ==
  LET alarm == [kind |-> "revive", of |-> n]
      w == Silenced(alarm)
      due == IF camp.state # "failed" \/ camp.appt = NoAppointment THEN {w}
             ELSE IF StoppedByPerson(w, Current(camp))
             THEN {Saves(w, [camp EXCEPT !.appt = NoAppointment])}
             ELSE IF camp.appt # n THEN {w}
             ELSE Parks(w, camp) \cup RevivesAt(w, camp)
  IN Rings(alarm) /\ \E v \in due : Happens(v)

---------------------------------------------------------------------------
\* resumeOne: a recorded stop first, then what the lineage's tip says.
Resumes(v) ==
  LET w == AtRest(v, "boot")
      tip == w.work[NewestOf(w, Current(camp))].st
  IN IF camp.state # "executing" THEN {w}
     ELSE IF camp.stop \/ StoppedByPerson(w, Current(camp)) THEN {Lands(w, camp)}
     ELSE IF Current(camp) = NoWork \/ tip = "paused" THEN SubmitsSprint(w, camp, FALSE)
     ELSE IF tip = "completed" THEN {Awaits(w, "boot", "judging", camp)}
     ELSE SprintFails(v, "boot", camp, TRUE)

\* The process ends. In the next one recovery pauses or blocks what ran, and the
\* campaign is resumed before any event, command or timer can come in.
CampRestarts(blocked) ==
  LET died == [World EXCEPT
        !.work = [t \in Work |->
          IF work[t].st # "live" THEN work[t]
          ELSE [work[t] EXCEPT !.st = IF t \in blocked THEN "blocked" ELSE "paused"]],
        !.settleChain = <<>>, !.alarms = {}, !.busy = [a \in Workers |-> Unoccupied]]
  IN /\ ~raced /\ campBoots < MaxCampBoots /\ wishes + made + campBoots < MaxTurns
     /\ campBoots' = campBoots + 1
     /\ blocked \subseteq LiveWork
     /\ \E w \in Resumes(died) : Happens(w)
     /\ UNCHANGED <<barred, raced, wishes>>

\* The rest of resumeActive: a finished campaign's lineages are retired, an
\* appointment has its timer again.
BootSweeps ==
  LET w == [World EXCEPT !.busy["boot"] = Unoccupied]
  IN /\ busy["boot"].at = "tail" /\ Undisturbed
     /\ Happens(CASE camp.state \in {"done", "cancelled"} -> RetiresAll(w, camp, "none")
                  [] camp.state = "failed" /\ camp.appt # NoAppointment ->
                       Sets(w, [kind |-> "revive", of |-> camp.appt])
                  [] OTHER -> w)

CampInit ==
  /\ camp = Camp0
  /\ work = [t \in Work |-> IF t = 1 THEN [st |-> "live", why |-> "none", line |-> {1},
                                           by |-> "campaign"] ELSE Unborn]
  /\ settleChain = <<>> /\ busy = [a \in Workers |-> Unoccupied] /\ alarms = {}
  /\ barred = FALSE /\ raced = FALSE /\ made = 0 /\ wishes = 0 /\ campBoots = 0

CampNext ==
  \/ \E t \in Work, s \in {"completed", "blocked"} : RowEnds(t, s)
  \/ \E t \in Work : RowContinues(t) \/ StopsRow(t)
  \/ CancelsCampaign \/ RevivesCampaign
  \/ HandlesSettle \/ HandlesStop \/ HandlesReconcile
  \/ \E a \in Workers : \/ Bounces(a) \/ TurnsOutFailed(a) \/ Advances(a) \/ LacksProofs(a)
                         \/ StopsShort(a) \/ Delivers(a) \/ Told(a) \/ Narrowed(a)
  \/ \E s \in Sprints : GraceEnds(s)
  \/ \E g \in 0..MaxWishes : NextSprint(g)
  \/ \E n \in Appointments : AppointmentDue(n)
  \/ \E blocked \in SUBSET Work : CampRestarts(blocked)
  \/ BootSweeps

CampSpec == CampInit /\ [][CampNext]_campVars

---------------------------------------------------------------------------
\* Two sprints in one repository write over each other: whatever retries,
\* revives and resumes, at most one attempt of the campaign runs
\* (submitCurrentMilestone's "THE PREVIOUS LINEAGE IS ABANDONED, SO STOP IT").
OneSprint == ~raced => Cardinality(LiveWork) <= 1

\* A campaign is never left behind: one that executes has a live attempt whose
\* end will be heard, a handler or a timer; a recorded stop will be carried out;
\* an appointment has its timer.
Attended ==
  LET working == \E a \in Workers : busy[a].at # "rest"
      waits(k) == \E h \in alarms : h.kind = k
  IN ~raced =>
     /\ camp.state = "executing" =>
          \/ working \/ settleChain # <<>> \/ waits("resubmit")
          \/ [kind |-> "reconcile", of |-> camp.cur] \in alarms
          \/ \E t \in LiveWork : Current(camp) \in work[t].line
     /\ camp.state = "executing" /\ camp.stop =>
          \/ working \/ waits("resubmit")
          \/ \E i \in 1..Len(settleChain) : settleChain[i].what = "stop"
     /\ camp.state = "failed" /\ camp.appt # NoAppointment =>
          working \/ [kind |-> "revive", of |-> camp.appt] \in alarms

\* Once a person has stopped the campaign's work, or the campaign, the campaign
\* submits nothing until it is revived ("NOTHING MORE WILL BE SUBMITTED").
StopHolds ==
  [][barred /\ barred' /\ ~raced =>
       \A t \in Work : work[t].st = "none" => work'[t].by # "campaign"]_campVars

=============================================================================
