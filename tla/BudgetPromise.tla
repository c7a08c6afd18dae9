---------------------------- MODULE BudgetPromise ----------------------------
(* What a shared wallet promises to whoever set its limits: money is        *)
(* admitted only when it fits beside all that is spent and owed; only the   *)
(* admitted owner closes a liability, and what a dead owner leaves is       *)
(* stranded, never dropped, until the window it belongs to has passed.      *)
(* There are no processes identified by numbers, no heartbeats, no registry *)
(* and no passes here: death is simply known.                               *)
EXTENDS Naturals, Functions

CONSTANTS Managers, Liabilities, Sources, SourceOf, Estimate, Costs, DailyLimit, SubLimit

VARIABLES dead,      \* the owners that are gone
          liability, \* "none", or its state and owner
          owed,      \* what a liability still stands for
          spent      \* per source, in this window

pvars == <<dead, liability, owed, spent>>

Total(f, S) == SumFunctionOnSet(f, S)
Of(s) == {r \in Liabilities : SourceOf[r] = s}
Fits(e, s) ==
  /\ Total(spent, Sources) + Total(owed, Liabilities) + e <= DailyLimit
  /\ SubLimit[s] > 0 => spent[s] + Total(owed, Of(s)) + e <= SubLimit[s]

Init ==
  /\ dead = {}
  /\ liability = [r \in Liabilities |-> [state |-> "none"]]
  /\ owed = [r \in Liabilities |-> 0]
  /\ spent = [s \in Sources |-> 0]

Admit(m, r) ==
  /\ m \notin dead /\ liability[r].state = "none"
  /\ Fits(Estimate[r], SourceOf[r])
  /\ liability' = [liability EXCEPT ![r] = [state |-> "open", owner |-> m]]
  /\ owed' = [owed EXCEPT ![r] = Estimate[r]]
  /\ UNCHANGED <<dead, spent>>

\* A cost on an open liability takes its amount from what is owed.
Spend(r, c) ==
  /\ liability[r].state = "open" /\ liability[r].owner \notin dead
  /\ spent' = [spent EXCEPT ![SourceOf[r]] = @ + c]
  /\ owed' = [owed EXCEPT ![r] = IF @ > c THEN @ - c ELSE 0]
  /\ UNCHANGED <<dead, liability>>

SpendUnreserved(s, c) ==
  /\ spent' = [spent EXCEPT ![s] = @ + c]
  /\ UNCHANGED <<dead, liability, owed>>

Close(r) ==
  /\ liability[r].state = "open" /\ liability[r].owner \notin dead
  /\ liability' = [liability EXCEPT ![r] = [state |-> "closed"]]
  /\ owed' = [owed EXCEPT ![r] = 0]
  /\ UNCHANGED <<dead, spent>>

\* It counts on unless it arose in a window that has passed.
Strand(r) ==
  /\ liability[r].state = "open" /\ liability[r].owner \in dead
  /\ liability' = [liability EXCEPT ![r].state = "stranded"]
  /\ owed' \in {owed, [owed EXCEPT ![r] = 0]}
  /\ UNCHANGED <<dead, spent>>

Dies(m) == dead' = dead \cup {m} /\ UNCHANGED <<liability, owed, spent>>

\* The window passes: what is open is still owed, what is stranded no longer.
WindowPasses ==
  /\ spent' = [s \in Sources |-> 0]
  /\ owed' = [r \in Liabilities |-> IF liability[r].state = "stranded" THEN 0 ELSE owed[r]]
  /\ UNCHANGED <<dead, liability>>

Next ==
  \/ WindowPasses
  \/ \E m \in Managers : Dies(m)
  \/ \E m \in Managers, r \in Liabilities : Admit(m, r)
  \/ \E r \in Liabilities, c \in Costs : Spend(r, c)
  \/ \E s \in Sources, c \in Costs : SpendUnreserved(s, c)
  \/ \E r \in Liabilities : Close(r) \/ Strand(r)

Spec == Init /\ [][Next]_pvars

=============================================================================
