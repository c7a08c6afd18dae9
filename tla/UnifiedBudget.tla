---------------------------- MODULE UnifiedBudget ----------------------------
(* The wallet that several processes share (src/budget/unified-budget-      *)
(* manager.ts over src/daemon/daemon-storage.ts). A run reserves its        *)
(* estimate before it starts, every recorded cost moves from its            *)
(* reservation to the booked spend, and what a process leaves reserved when *)
(* it dies stays in the wallet as an estimate once somebody can prove the   *)
(* death. Every statement or transaction of the database is one step, and   *)
(* other processes work between any two of them.                            *)
EXTENDS Naturals, FiniteSets, Functions

CONSTANTS Managers,    \* process incarnations, each with its generation
          SlotOf,      \* the (host, pid) an incarnation runs under
          HostOf,      \* the host of a slot
          Liabilities, \* reservation ids; an id is used once
          Sources,     \* chat, daemon, agent ...
          SourceOf,    \* whose allowance the run of a reservation spends
          Estimate,    \* what that run reserves
          Costs,       \* what a call of a provider may cost
          DailyLimit,
          SubLimit,    \* per source
          MaxSeq,      \* bound: places taken in the durable claim order
          MaxSpend     \* bound: money booked in one window, or on one row

Slots == {SlotOf[m] : m \in Managers}

ASSUME BudgetAssumption ==
  /\ HostOf \in [Slots -> {HostOf[s] : s \in Slots}]
  /\ SourceOf \in [Liabilities -> Sources] /\ Estimate \in [Liabilities -> Nat]
  /\ Costs \subseteq Nat \ {0}
  /\ DailyLimit \in Nat \ {0} /\ SubLimit \in [Sources -> Nat]
  /\ MaxSeq \in Nat /\ MaxSpend \in Nat

VARIABLES mstate,  \* of an incarnation: "unborn", "up" or "dead"
          row,     \* table budget_reservations
          owner,   \* table budget_owners: who registered last on a slot, and when
          seq,     \* the claim order's high-water mark
          spent,   \* booked in the current window, per source
          holds,   \* runReservations of each process
          pass     \* the reconciliation pass of each process

bvars == <<mstate, row, owner, seq, spent, holds, pass>>

Claim == [slot : Slots, manager : Managers, seq : 1..MaxSeq]
NoRow == [state |-> "none"]
Spent == [state |-> "gone"]
Row == [state : {"open", "estimate"}, owner : Managers,
        charged : 0..MaxSpend, seq : 1..MaxSeq, old : BOOLEAN]
Live(r) == row[r].state \in {"open", "estimate"}

\* A pass lists the rows, takes the registry, judges the rows one after the
\* other and resolves those whose owner is dead; then it admits a run.
Resting == [step |-> "rest", todo |-> {}, registry |-> {}, dead |-> {}]

BudgetInit ==
  /\ mstate = [m \in Managers |-> "unborn"]
  /\ row = [r \in Liabilities |-> NoRow]
  /\ owner = {}
  /\ seq = 0
  /\ spent = [s \in Sources |-> 0]
  /\ holds = [m \in Managers |-> {}]
  /\ pass = [m \in Managers |-> Resting]

---------------------------------------------------------------------------
(* What the gates count.                                                  *)

Monus(a, b) == IF a > b THEN a - b ELSE 0
Left(r) == IF Live(r) THEN Monus(Estimate[r], row[r].charged) ELSE 0

\* A resolved row counts only in the window it arose in, an open one always.
Counted(r) == Live(r) /\ ~(row[r].state = "estimate" /\ row[r].old)
Owed == [r \in Liabilities |-> IF Counted(r) THEN Left(r) ELSE 0]
OutstandingUsd(S) == SumFunctionOnSet(Owed, {r \in Liabilities : SourceOf[r] \in S})
Booked(S) == SumFunctionOnSet(spent, S)

\* Mutant of CanSpend: the daily check overlooks what the other sources owe.
CanSpend_OwnSource(e, s) ==
  /\ Booked(Sources) + OutstandingUsd({s}) + e <= DailyLimit
  /\ SubLimit[s] > 0 => spent[s] + OutstandingUsd({s}) + e <= SubLimit[s]

CanSpend(e, s) ==
  /\ Booked(Sources) + OutstandingUsd(Sources) + e <= DailyLimit
  /\ SubLimit[s] > 0 => spent[s] + OutstandingUsd({s}) + e <= SubLimit[s]

---------------------------------------------------------------------------
(* Registration and liveness.                                             *)

\* heartbeat(): best effort. A new incarnation takes the next place in the
\* order, one that is registered keeps its own.
Registered(m) == \E o \in owner : o.slot = SlotOf[m] /\ o.manager = m
Registers(m, lands) == lands /\ ~Registered(m)
SeqAfter(m, lands) == IF Registers(m, lands) THEN seq + 1 ELSE seq
OwnersAfter(m, lands) ==
  IF Registers(m, lands)
  THEN {o \in owner : o.slot # SlotOf[m]}
         \cup {[slot |-> SlotOf[m], manager |-> m, seq |-> seq + 1]}
  ELSE owner
Heartbeat(m, lands) ==
  /\ seq' = SeqAfter(m, lands) /\ seq' <= MaxSeq
  /\ owner' = OwnersAfter(m, lands)

Start(m) ==
  /\ mstate[m] = "unborn"
  /\ \A o \in Managers : SlotOf[o] = SlotOf[m] => mstate[o] # "up"
  /\ mstate' = [mstate EXCEPT ![m] = "up"]
  /\ UNCHANGED <<row, owner, seq, spent, holds, pass>>

Die(m) ==
  /\ mstate[m] = "up"
  /\ mstate' = [mstate EXCEPT ![m] = "dead"]
  /\ holds' = [holds EXCEPT ![m] = {}]
  /\ pass' = [pass EXCEPT ![m] = Resting]
  /\ UNCHANGED <<row, owner, seq, spent>>

\* Mutant of Superseded: any other registration on the slot is proof.
Superseded_AnyOther(c, registry) ==
  \E o \in registry : o.slot = SlotOf[c.owner] /\ o.manager # c.owner

\* Another incarnation registered on the owner's slot after the claim.
Superseded(c, registry) ==
  \E o \in registry : o.slot = SlotOf[c.owner] /\ o.manager # c.owner /\ o.seq >= c.seq

\* The process table of the judge's own host shows no such process. A dead
\* owner's number may be in use by a stranger, or its heartbeat still fresh:
\* then the verdict is not "dead" although it could be.
PidGone(m, c) ==
  /\ HostOf[SlotOf[c.owner]] = HostOf[SlotOf[m]]
  /\ \A o \in Managers : SlotOf[o] = SlotOf[c.owner] => mstate[o] # "up"

---------------------------------------------------------------------------
(* reconcileOrphanedReservations: liveness is judged outside the writer's   *)
(* transaction, from a registry read before.                                *)

\* The open rows are listed, then come heartbeat, prune and the read of the
\* registry, all before the first verdict; an empty table ends the pass. An old
\* registration is pruned unless an open row of its slot may still need it as
\* evidence.
Open == {r \in Liabilities : row[r].state = "open"}
Prunable(o) == ~\E r \in Open : SlotOf[row[r].owner] = o.slot

BeginPass(m, lands, old) ==
  /\ mstate[m] = "up" /\ pass[m].step = "rest"
  /\ IF \E r \in Liabilities : Live(r)
     THEN /\ seq' = SeqAfter(m, lands) /\ seq' <= MaxSeq
          /\ owner' = OwnersAfter(m, lands) \ old
          /\ \A o \in old : Prunable(o) /\ ~(lands /\ o.slot = SlotOf[m])
     ELSE old = {} /\ UNCHANGED <<seq, owner>>
  /\ pass' = [pass EXCEPT ![m] = [step |-> "judging", todo |-> Open, dead |-> {},
                                  registry |-> IF Open = {} THEN {} ELSE owner']]
  /\ UNCHANGED <<mstate, row, spent, holds>>

\* isReclaimable of one listed row; a row released meanwhile is not found by
\* the transaction.
Judge(m, r, dead) ==
  /\ pass[m].step = "judging" /\ pass[m].dead = {} /\ r \in pass[m].todo
  /\ IF Live(r) /\ row[r].owner # m
     THEN /\ dead => Superseded(row[r], pass[m].registry) \/ PidGone(m, row[r])
          /\ Superseded(row[r], pass[m].registry) => dead
     ELSE ~dead
  /\ pass' = [pass EXCEPT ![m].todo = @ \ {r}, ![m].dead = IF dead THEN {r} ELSE {},
                           ![m].registry = IF pass[m].todo = {r} THEN {} ELSE @]
  /\ UNCHANGED <<mstate, row, owner, seq, spent, holds>>

\* The transaction rechecks the row. The remainder stays, as an estimate.
Resolve(m, r) ==
  /\ r \in pass[m].dead
  /\ row' = [row EXCEPT ![r] = IF @.state = "open" THEN [@ EXCEPT !.state = "estimate"] ELSE @]
  /\ pass' = [pass EXCEPT ![m].dead = {}]
  /\ UNCHANGED <<mstate, owner, seq, spent, holds>>

PassDone(m) == pass[m].step = "judging" /\ pass[m].todo = {} /\ pass[m].dead = {}

\* The wallet refuses, the transaction fails, or the pass was the boot's.
EndPass(m) ==
  /\ PassDone(m)
  /\ pass' = [pass EXCEPT ![m] = Resting]
  /\ UNCHANGED <<mstate, row, owner, seq, spent, holds>>

---------------------------------------------------------------------------
(* Runs.                                                                    *)

\* reserveIfAffordable: the check and the reservation in one transaction.
Reserve(m, r, lands) ==
  /\ PassDone(m)
  /\ row[r] = NoRow
  /\ CanSpend(Estimate[r], SourceOf[r])
  /\ seq' = SeqAfter(m, lands) + 1 /\ seq' <= MaxSeq
  /\ owner' = OwnersAfter(m, lands)
  /\ row' = [row EXCEPT ![r] = [state |-> "open", owner |-> m, charged |-> 0,
                                seq |-> seq', old |-> FALSE]]
  /\ holds' = [holds EXCEPT ![m] = @ \cup {r}]
  /\ pass' = [pass EXCEPT ![m] = Resting]
  /\ UNCHANGED <<mstate, spent>>

\* recordCost for a run with a reservation: the entry and the charge in one
\* transaction, the heartbeat outside of it.
Charge(m, r, c, lands) ==
  /\ r \in holds[m]
  /\ Booked(Sources) + c <= MaxSpend /\ row[r].charged + c <= MaxSpend
  /\ Heartbeat(m, lands)
  /\ spent' = [spent EXCEPT ![SourceOf[r]] = @ + c]
  /\ row' = [row EXCEPT ![r].charged = @ + c, ![r].old = FALSE]
  /\ UNCHANGED <<mstate, holds, pass>>

\* recordCost for work without one: an agent's call, a late call of a run that
\* has released its reservation.
ChargeUnreserved(m, s, c, lands) ==
  /\ mstate[m] = "up"
  /\ Booked(Sources) + c <= MaxSpend
  /\ Heartbeat(m, lands)
  /\ spent' = [spent EXCEPT ![s] = @ + c]
  /\ UNCHANGED <<mstate, row, holds, pass>>

\* release(): the process forgets its reservation whether or not the row goes.
Release(m, r, lands) ==
  /\ r \in holds[m]
  /\ holds' = [holds EXCEPT ![m] = @ \ {r}]
  /\ row' = IF lands THEN [row EXCEPT ![r] = Spent] ELSE row
  /\ UNCHANGED <<mstate, owner, seq, spent, pass>>

\* All that was booked, and all that was reserved or charged, falls out of the
\* rolling window.
WindowPasses ==
  /\ spent' = [s \in Sources |-> 0]
  /\ row' = [r \in Liabilities |-> IF Live(r) THEN [row[r] EXCEPT !.old = TRUE] ELSE row[r]]
  /\ UNCHANGED <<mstate, owner, seq, holds, pass>>

BudgetNext ==
  \/ \E m \in Managers : Start(m) \/ Die(m) \/ EndPass(m)
  \/ \E m \in Managers, lands \in BOOLEAN, old \in SUBSET owner : BeginPass(m, lands, old)
  \/ \E m \in Managers, r \in Liabilities, b \in BOOLEAN : 
       Judge(m, r, b) \/ Reserve(m, r, b) \/ Release(m, r, b)
  \/ \E m \in Managers, r \in Liabilities : Resolve(m, r)
  \/ \E m \in Managers, r \in Liabilities, c \in Costs, b \in BOOLEAN : Charge(m, r, c, b)
  \/ \E m \in Managers, s \in Sources, c \in Costs, b \in BOOLEAN : ChargeUnreserved(m, s, c, b)
  \/ WindowPasses

BudgetSpec == BudgetInit /\ [][BudgetNext]_bvars

---------------------------------------------------------------------------
(* What the wallet promises.                                                *)

\* Types, and what a process holds in memory is a row of its own in the table.
BudgetTypeOK ==
  /\ mstate \in [Managers -> {"unborn", "up", "dead"}]
  /\ \A r \in Liabilities : row[r] \in Row \cup {NoRow, Spent}
  /\ owner \subseteq Claim /\ \A o, u \in owner : o.slot = u.slot => o = u
  /\ seq \in 0..MaxSeq
  /\ spent \in [Sources -> Nat]
  /\ \A m \in Managers : \A r \in holds[m] : Live(r) /\ row[r].owner = m
  /\ \A m \in Managers :
       /\ pass[m].step \in {"rest", "judging"}
       /\ pass[m].todo \cup pass[m].dead \subseteq Liabilities /\ pass[m].registry \subseteq Claim

\* Nobody resolves what a live process reserved, although the number of its
\* process had another owner before, its own registration may have failed and
\* the judge's registry is old.
LiveOwnerKeepsLiability ==
  \A r \in Liabilities : row[r].state = "estimate" => mstate[row[r].owner] = "dead"

\* To whoever set the limits the wallet is the simple one of BudgetPromise: what
\* it takes a liability for, and who is known to be dead.
Standing == [r \in Liabilities |->
  CASE row[r].state = "open" -> [state |-> "open", owner |-> row[r].owner]
    [] row[r].state = "estimate" -> [state |-> "stranded", owner |-> row[r].owner]
    [] row[r].state = "gone" -> [state |-> "closed"]
    [] OTHER -> NoRow]
Dead == {m \in Managers : mstate[m] = "dead"}
Promise == INSTANCE BudgetPromise WITH dead <- Dead, liability <- Standing, owed <- Owed
ImplementsPromise == Promise!Spec

=============================================================================
