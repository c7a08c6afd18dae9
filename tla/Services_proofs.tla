--------------------------- MODULE Services_proofs ---------------------------
(* Proofs about two services the task executor leans on: the wallet that all  *)
(* managers share (UnifiedBudget), with its promise (BudgetPromise), and the  *)
(* chain of model providers (FallbackChain), for any number of managers,      *)
(* liabilities, members and calls.                                            *)
EXTENDS UnifiedBudget, FallbackChain, WellFoundedInduction, TLAPS

(* The wallet.                                                               *)

\* What is in the database and in memory: the table of estimates, with one
\* registration a slot at most, and what every manager holds.
WTables ==
  /\ mstate \in [Managers -> {"unborn", "up", "dead"}]
  /\ row \in [Liabilities -> Row \cup {NoRow, Spent}]
  /\ spent \in [Sources -> Nat] /\ holds \in [Managers -> SUBSET Liabilities]
  /\ owner \subseteq Claim /\ \A o, u \in owner : o.slot = u.slot => o = u
  /\ seq \in 0..MaxSeq
\* Every reconciliation pass in progress.
WPasses ==
  pass \in [Managers -> [step : {"rest", "judging"}, todo : SUBSET Liabilities,
                         registry : SUBSET Claim, dead : SUBSET Liabilities]]
\* Only a running manager holds liabilities or is in a pass, and a slot has one
\* running manager at most: a process number is given again after a death.
WAlive ==
  /\ \A m \in Managers : pass[m].step = "judging" \/ holds[m] # {} => mstate[m] = "up"
  /\ \A m, o \in Managers : SlotOf[m] = SlotOf[o] /\ mstate[m] = "up" /\ mstate[o] = "up" => m = o
\* A liability was made by a manager that has run, no later than the clock of the
\* table says, and what a manager holds is its own.
WRows ==
  /\ \A r \in Liabilities : Live(r) => mstate[row[r].owner] # "unborn" /\ row[r].seq <= seq
  /\ \A m \in Managers : \A r \in holds[m] : Live(r) /\ row[r].owner = m
\* What a registration tells: whoever made a liability on its slot before it, and is
\* not its maker, is dead.
Telling(o) ==
  /\ o.slot = SlotOf[o.manager] /\ o.seq <= seq
  /\ \A r \in Liabilities :
       Live(r) /\ row[r].owner # o.manager /\ SlotOf[row[r].owner] = o.slot /\ mstate[row[r].owner] = "up"
         => o.seq < row[r].seq
\* Registrations tell that, those in the table and those a pass has read.
WOrder ==
  /\ \A o \in owner : Telling(o)
  /\ \A m \in Managers : \A o \in pass[m].registry : Telling(o)
\* A verdict of death is still true when the row is resolved: the dead stay dead.
WVerdicts ==
  \A m \in Managers : \A r \in pass[m].dead :
    row[r] # NoRow /\ (Live(r) => mstate[row[r].owner] = "dead")
\* The inductive invariant.
WInv == WTables /\ WPasses /\ WAlive /\ WRows /\ WOrder /\ WVerdicts /\ LiveOwnerKeepsLiability

\* The constants.
LEMMA WalletConstants ==
  /\ Estimate \in [Liabilities -> Nat] /\ Costs \subseteq Nat /\ MaxSeq \in Nat /\ MaxSpend \in Nat
  /\ SourceOf \in [Liabilities -> Sources]
  /\ \A m \in Managers : SlotOf[m] \in Slots
BY BudgetAssumption DEF Slots

\* A row of the table is absent, settled or live.
LEMMA RowKinds ==
  ASSUME WTables, NEW r \in Liabilities
  PROVE  /\ Live(r) => row[r] \in Row
         /\ Live(r) \/ row[r] = NoRow \/ row[r] = Spent
         /\ row[r] = NoRow => ~Live(r) /\ row[r] # Spent
         /\ row[r] = Spent => ~Live(r)
BY DEF WTables, Row, NoRow, Spent, Live

\* The invariant holds of an empty table.
LEMMA WInvInit == BudgetInit => WInv
<1> SUFFICES ASSUME BudgetInit PROVE WInv
  OBVIOUS
<1>1. \A r \in Liabilities : ~Live(r) /\ row[r] = NoRow /\ row[r].state # "estimate"
  BY DEF BudgetInit, Live, NoRow
<1>2. WTables /\ WPasses
  BY WalletConstants DEF BudgetInit, WTables, WPasses, Resting
<1>3. WAlive /\ WRows /\ WOrder /\ WVerdicts /\ LiveOwnerKeepsLiability
  BY <1>1 DEF BudgetInit, WAlive, WRows, WOrder, WVerdicts, LiveOwnerKeepsLiability, Resting
<1> QED
  BY <1>2, <1>3 DEF WInv

\* A registration that tells of deaths goes on telling them.
LEMMA Retold ==
  ASSUME NEW o, Telling(o), seq <= seq', seq \in Nat, seq' \in Nat, o.seq \in Nat,
         \A r \in Liabilities :
           Live(r)' /\ row'[r].owner # o.manager /\ SlotOf[row'[r].owner] = o.slot /\ mstate'[row'[r].owner] = "up"
             => \/ Live(r) /\ row[r].owner = row'[r].owner /\ row[r].seq = row'[r].seq
                   /\ mstate[row[r].owner] = "up"
                \/ row'[r].seq \in Nat /\ seq < row'[r].seq
  PROVE  Telling(o)'
<1>1. o.seq <= seq'
  BY DEF Telling
<1>2. ASSUME NEW r \in Liabilities, Live(r)', row'[r].owner # o.manager, SlotOf[row'[r].owner] = o.slot,
             mstate'[row'[r].owner] = "up"
      PROVE  o.seq < row'[r].seq
  <2>1. CASE Live(r) /\ row[r].owner = row'[r].owner /\ row[r].seq = row'[r].seq /\ mstate[row[r].owner] = "up"
    BY <1>2, <2>1 DEF Telling
  <2>2. CASE row'[r].seq \in Nat /\ seq < row'[r].seq
    BY <2>2 DEF Telling
  <2> QED
    BY <1>2, <2>1, <2>2
<1> QED
  BY <1>1, <1>2 DEF Telling

\* heartbeat(): a new registration tells that everyone else on its slot is dead.
LEMMA Registration ==
  ASSUME WInv, NEW m \in Managers, mstate[m] = "up", NEW lands \in BOOLEAN, SeqAfter(m, lands) <= MaxSeq
  PROVE  /\ SeqAfter(m, lands) \in seq..MaxSeq
         /\ OwnersAfter(m, lands) \subseteq Claim
         /\ \A o, u \in OwnersAfter(m, lands) : o.slot = u.slot => o = u
         /\ \A o \in OwnersAfter(m, lands) :
              \/ Telling(o)
              \/ /\ o.slot = SlotOf[m] /\ o.manager = m /\ o.seq = SeqAfter(m, lands)
                 /\ \A r \in Liabilities : Live(r) /\ row[r].owner # m /\ SlotOf[row[r].owner] = o.slot
                                              => mstate[row[r].owner] # "up"
<1>1. seq \in 0..MaxSeq /\ owner \subseteq Claim /\ \A o, u \in owner : o.slot = u.slot => o = u
  BY DEF WInv, WTables
<1>2. CASE ~Registers(m, lands)
  BY <1>1, <1>2 DEF SeqAfter, OwnersAfter, WInv, WOrder
<1>3. CASE Registers(m, lands)
  <2> DEFINE new == [slot |-> SlotOf[m], manager |-> m, seq |-> seq + 1]
  <2>1. SeqAfter(m, lands) = seq + 1 /\ OwnersAfter(m, lands) = {o \in owner : o.slot # SlotOf[m]} \cup {new}
    BY <1>3 DEF SeqAfter, OwnersAfter
  <2>2. seq + 1 \in 1..MaxSeq
    BY <1>1, <2>1, WalletConstants
  <2>3. new \in Claim
    BY <2>2, WalletConstants DEF Claim
  <2>4. \A r \in Liabilities : Live(r) /\ row[r].owner # m /\ SlotOf[row[r].owner] = SlotOf[m] => mstate[row[r].owner] # "up"
    BY RowKinds DEF WInv, WAlive, Row
  <2>5. new.slot = SlotOf[m] /\ new.manager = m /\ new.seq = seq + 1
    OBVIOUS
  <2> HIDE DEF new
  <2>6. \A o \in OwnersAfter(m, lands) : o = new \/ (o \in owner /\ o.slot # SlotOf[m] /\ Telling(o))
    BY <2>1 DEF WInv, WOrder
  <2>7. SeqAfter(m, lands) \in seq..MaxSeq
    BY <1>1, <2>1, <2>2
  <2>8. OwnersAfter(m, lands) \subseteq Claim
    BY <1>1, <2>3, <2>6
  <2>9. \A o, u \in OwnersAfter(m, lands) : o.slot = u.slot => o = u
    BY <1>1, <2>5, <2>6
  <2>10. \A o \in OwnersAfter(m, lands) :
              \/ Telling(o)
              \/ /\ o.slot = SlotOf[m] /\ o.manager = m /\ o.seq = SeqAfter(m, lands)
                 /\ \A r \in Liabilities : Live(r) /\ row[r].owner # m /\ SlotOf[row[r].owner] = o.slot
                                              => mstate[row[r].owner] # "up"
    BY <2>1, <2>4, <2>5, <2>6
  <2> QED
    BY <2>7, <2>8, <2>9, <2>10
<1> QED
  BY <1>2, <1>3

\* The same of all registrations in a step.
LEMMA AllRetold ==
  ASSUME WInv, seq' \in Nat, seq <= seq',
         \A r \in Liabilities :
           Live(r)' /\ mstate'[row'[r].owner] = "up"
             => \/ Live(r) /\ row[r].owner = row'[r].owner /\ row[r].seq = row'[r].seq
                   /\ mstate[row[r].owner] = "up"
                \/ row'[r].seq \in Nat /\ seq < row'[r].seq
  PROVE  \A o \in Claim : Telling(o) => Telling(o)'
<1> SUFFICES ASSUME NEW o \in Claim, Telling(o) PROVE Telling(o)'
  OBVIOUS
<1>1. o.seq \in Nat /\ seq \in Nat
  BY WalletConstants DEF Claim, WInv, WTables
<1> QED
  BY <1>1, Retold

\* A manager comes up or dies.
LEMMA LifeKeeps == ASSUME WInv, NEW m \in Managers, Start(m) \/ Die(m) PROVE WInv'
<1>1. /\ UNCHANGED <<row, owner, seq, spent>> /\ mstate' \in [Managers -> {"unborn", "up", "dead"}]
      /\ mstate \in [Managers -> {"unborn", "up", "dead"}] /\ \A x \in Managers \ {m} : mstate'[x] = mstate[x]
      /\ \/ mstate[m] = "unborn" /\ mstate'[m] = "up" /\ holds' = holds /\ pass' = pass
              /\ \A o \in Managers : SlotOf[o] = SlotOf[m] => mstate[o] # "up"
         \/ mstate[m] = "up" /\ mstate'[m] = "dead" /\ holds' = [holds EXCEPT ![m] = {}]
              /\ pass' = [pass EXCEPT ![m] = Resting]
  BY DEF WInv, WTables, Start, Die
<1>2. WTables' /\ WPasses'
  <2>1. holds' \in [Managers -> SUBSET Liabilities]
    BY <1>1 DEF WInv, WTables
  <2>2. WPasses'
    BY <1>1 DEF WInv, WPasses, Resting
  <2> QED
    BY <1>1, <2>1, <2>2 DEF WInv, WTables
<1>3. /\ \A x \in Managers \ {m} : holds'[x] = holds[x] /\ pass'[x] = pass[x]
      /\ \/ holds'[m] = holds[m] /\ pass'[m] = pass[m] /\ mstate'[m] = "up"
         \/ holds'[m] = {} /\ pass'[m] = Resting
  BY <1>1 DEF WInv, WTables, WPasses
<1>4. WAlive'
  <2>1. \A x \in Managers : pass'[x].step = "judging" \/ holds'[x] # {} => mstate'[x] = "up"
    BY <1>1, <1>3 DEF WInv, WAlive, Resting
  <2>2. \A x, o \in Managers : SlotOf[x] = SlotOf[o] /\ mstate'[x] = "up" /\ mstate'[o] = "up" => x = o
    BY <1>1 DEF WInv, WAlive
  <2> QED
    BY <2>1, <2>2 DEF WAlive
<1>5. WRows' /\ LiveOwnerKeepsLiability'
  <2>1. \A r \in Liabilities : (Live(r)' <=> Live(r)) /\ (Live(r) => row[r].owner \in Managers)
                               /\ (row[r].state = "estimate" => Live(r))
    BY <1>1, RowKinds DEF WInv, Live, Row
  <2>2. \A x \in Managers : holds'[x] \subseteq holds[x]
    BY <1>3
  <2>3. \A r \in Liabilities : Live(r)' => mstate'[row'[r].owner] # "unborn" /\ row'[r].seq <= seq'
    BY <1>1, <2>1 DEF WInv, WRows
  <2>4. \A x \in Managers : \A r \in holds'[x] : Live(r) /\ row[r].owner = x /\ r \in Liabilities
    BY <2>2 DEF WInv, WRows, WTables
  <2>5. LiveOwnerKeepsLiability'
    BY <1>1, <2>1 DEF WInv, LiveOwnerKeepsLiability
  <2> QED
    BY <1>1, <2>1, <2>3, <2>4, <2>5 DEF WRows
<1>6. WOrder'
  <2>1. \A r \in Liabilities : (Live(r)' <=> Live(r)) /\ (Live(r) => row[r].owner \in Managers /\ mstate[row[r].owner] # "unborn")
    BY <1>1, RowKinds DEF WInv, Live, Row, WRows
  <2>2. \A o \in Claim : Telling(o) => Telling(o)'
    BY <1>1, <2>1, AllRetold, WalletConstants DEF WInv, WTables
  <2>3. \A o \in owner' : Telling(o)'
    BY <1>1, <2>2 DEF WInv, WTables, WOrder
  <2>4. \A x \in Managers : \A o \in pass'[x].registry : Telling(o)'
    BY <1>3, <2>2 DEF WInv, WPasses, WOrder, Resting
  <2> QED
    BY <2>3, <2>4 DEF WOrder
<1>7. WVerdicts'
  <2>1. \A x \in Managers : pass'[x].dead \subseteq pass[x].dead
    BY <1>3 DEF Resting
  <2>2. \A r \in Liabilities : (Live(r)' <=> Live(r)) /\ (Live(r) => row[r].owner \in Managers)
    BY <1>1, RowKinds DEF WInv, Live, Row
  <2>3. pass \in [Managers -> [step : {"rest", "judging"}, todo : SUBSET Liabilities,
                         registry : SUBSET Claim, dead : SUBSET Liabilities]]
    BY DEF WInv, WPasses
  <2>4. \A x \in Managers : pass[x].dead \subseteq Liabilities
    BY <2>3
  <2> QED
    BY <1>1, <2>1, <2>2, <2>4 DEF WInv, WVerdicts
<1> QED
  BY <1>2, <1>4, <1>5, <1>6, <1>7 DEF WInv

\* A step that moves only one pass, on the registrations it has.
LEMMA PassKeeps ==
  ASSUME WInv, NEW m \in Managers, UNCHANGED <<mstate, row, owner, seq, spent, holds>>, NEW p,
         pass' = [pass EXCEPT ![m] = p],
         p \in [step : {"rest", "judging"}, todo : SUBSET Liabilities, registry : SUBSET Claim,
                dead : SUBSET Liabilities],
         p.step = "judging" => mstate[m] = "up",
         \A o \in p.registry : Telling(o),
         \A r \in p.dead : row[r] # NoRow /\ (Live(r) => mstate[row[r].owner] = "dead")
  PROVE  WInv'
<1>1. WPasses' /\ \A x \in Managers : pass'[x] = IF x = m THEN p ELSE pass[x]
  BY DEF WInv, WPasses
<1>2. WTables' /\ WRows' /\ LiveOwnerKeepsLiability'
  BY DEF WInv, WTables, WRows, LiveOwnerKeepsLiability, Live
<1>3. WAlive' /\ WVerdicts'
  BY <1>1 DEF WInv, WAlive, WVerdicts, Live
<1>4. WOrder'
  BY <1>1 DEF WInv, WOrder, Telling, Live
<1> QED
  BY <1>1, <1>2, <1>3, <1>4 DEF WInv

\* A pass ends.
LEMMA EndPassKeeps == ASSUME WInv, NEW m \in Managers, EndPass(m) PROVE WInv'
<1>1. /\ Resting \in [step : {"rest", "judging"}, todo : SUBSET Liabilities, registry : SUBSET Claim,
                      dead : SUBSET Liabilities]
      /\ Resting.step # "judging" /\ Resting.registry = {} /\ Resting.dead = {}
  BY DEF Resting
<1>2. pass' = [pass EXCEPT ![m] = Resting] /\ UNCHANGED <<mstate, row, owner, seq, spent, holds>>
  BY DEF EndPass
<1> QED
  BY <1>1, <1>2, PassKeeps

\* A verdict of death is true: the owner had been born, and either its slot is
\* seen without a process, or somebody else has registered there since.
LEMMA VerdictTrue ==
  ASSUME WInv, NEW m \in Managers, NEW r \in Liabilities, Live(r),
         Superseded(row[r], pass[m].registry) \/ PidGone(m, row[r])
  PROVE  mstate[row[r].owner] = "dead"
<1>1. row[r].owner \in Managers /\ mstate[row[r].owner] \in {"up", "dead"} /\ row[r].seq \in Nat
  BY RowKinds DEF WInv, WTables, WRows, Row
<1>2. CASE PidGone(m, row[r])
  BY <1>1, <1>2 DEF PidGone
<1>3. CASE Superseded(row[r], pass[m].registry)
  <2>1. PICK o \in pass[m].registry : /\ o.slot = SlotOf[row[r].owner] /\ o.manager # row[r].owner
                                      /\ o.seq >= row[r].seq
    BY <1>3 DEF Superseded
  <2>2. o.seq \in Nat
    BY WalletConstants DEF WInv, WPasses, Claim
  <2>3. Telling(o)
    BY DEF WInv, WOrder
  <2>4. mstate[row[r].owner] # "up"
    <3> SUFFICES ASSUME mstate[row[r].owner] = "up" PROVE FALSE
      OBVIOUS
    <3>1. o.seq < row[r].seq
      BY <2>1, <2>3 DEF Telling
    <3> QED
      BY <1>1, <2>1, <2>2, <3>1
  <2> QED
    BY <1>1, <2>4
<1> QED
  BY <1>2, <1>3

\* A pass looks at a row.
LEMMA JudgeKeeps ==
  ASSUME WInv, NEW m \in Managers, NEW r \in Liabilities, NEW dead \in BOOLEAN, Judge(m, r, dead)
  PROVE  WInv'
<1> DEFINE p == [pass[m] EXCEPT !.todo = pass[m].todo \ {r}, !.dead = IF dead THEN {r} ELSE {},
                                !.registry = IF pass[m].todo = {r} THEN {} ELSE pass[m].registry]
<1>1. /\ pass[m] \in [step : {"rest", "judging"}, todo : SUBSET Liabilities, registry : SUBSET Claim,
                      dead : SUBSET Liabilities]
      /\ pass[m].step = "judging" /\ mstate[m] = "up" /\ UNCHANGED <<mstate, row, owner, seq, spent, holds>>
      /\ \A o \in pass[m].registry : Telling(o)
  BY DEF WInv, WPasses, WAlive, WOrder, Judge
<1>2. pass' = [pass EXCEPT ![m] = p]
  BY DEF Judge
<1>3. /\ p.step = "judging" /\ p.todo \subseteq Liabilities /\ p.registry \subseteq pass[m].registry
      /\ p.dead = (IF dead THEN {r} ELSE {})
      /\ p \in [step : {"rest", "judging"}, todo : SUBSET Liabilities, registry : SUBSET Claim,
                dead : SUBSET Liabilities]
  BY <1>1
<1>4. dead => row[r] # NoRow /\ (Live(r) => mstate[row[r].owner] = "dead")
  BY VerdictTrue, RowKinds DEF WInv, Judge
<1> HIDE DEF p
<1> QED
  BY <1>1, <1>2, <1>3, <1>4, PassKeeps

\* What the rows may do in a step of m, for the registrations to stay true.
LEMMA OwnersTold ==
  ASSUME WInv, NEW m \in Managers, mstate[m] = "up", NEW lands \in BOOLEAN, UNCHANGED mstate,
         SeqAfter(m, lands) <= seq', seq' \in Nat, seq' <= MaxSeq,
         \A r \in Liabilities : Live(r)' =>
           \/ Live(r) /\ row[r].owner = row'[r].owner /\ row[r].seq = row'[r].seq
           \/ row'[r].owner = m /\ row'[r].seq \in Nat /\ SeqAfter(m, lands) < row'[r].seq
  PROVE  /\ OwnersAfter(m, lands) \subseteq Claim
         /\ \A o, u \in OwnersAfter(m, lands) : o.slot = u.slot => o = u
         /\ \A o \in OwnersAfter(m, lands) : Telling(o)'
         /\ \A o \in Claim : Telling(o) => Telling(o)'
<1>1. seq \in Nat /\ SeqAfter(m, lands) \in Nat /\ seq <= SeqAfter(m, lands) /\ SeqAfter(m, lands) <= MaxSeq
  BY WalletConstants DEF WInv, WTables, SeqAfter
<1>2. \A o \in Claim : Telling(o) => Telling(o)'
  <2>1. \A r \in Liabilities : Live(r)' /\ mstate'[row'[r].owner] = "up"
             => \/ Live(r) /\ row[r].owner = row'[r].owner /\ row[r].seq = row'[r].seq
                   /\ mstate[row[r].owner] = "up"
                \/ row'[r].seq \in Nat /\ seq < row'[r].seq
    BY <1>1
  <2> QED
    BY <1>1, <2>1, AllRetold
<1>3. /\ OwnersAfter(m, lands) \subseteq Claim
      /\ \A o, u \in OwnersAfter(m, lands) : o.slot = u.slot => o = u
  BY <1>1, Registration
<1>4. ASSUME NEW o \in OwnersAfter(m, lands) PROVE Telling(o)'
  <2>1. CASE Telling(o)
    BY <1>2, <1>3, <2>1
  <2>2. CASE /\ o.slot = SlotOf[m] /\ o.manager = m /\ o.seq = SeqAfter(m, lands)
             /\ \A r \in Liabilities : Live(r) /\ row[r].owner # m /\ SlotOf[row[r].owner] = o.slot
                                          => mstate[row[r].owner] # "up"
    BY <2>2 DEF Telling
  <2> QED
    BY <1>1, <2>1, <2>2, Registration
<1> QED
  BY <1>2, <1>3, <1>4

\* A pass begins: it registers the manager, prunes, and reads the registrations.
LEMMA BeginKeeps ==
  ASSUME WInv, NEW m \in Managers, NEW lands \in BOOLEAN, NEW old \in SUBSET owner, BeginPass(m, lands, old)
  PROVE  WInv'
<1> DEFINE p == [step |-> "judging", todo |-> Open, dead |-> {},
                 registry |-> IF Open = {} THEN {} ELSE owner']
<1>1. /\ mstate[m] = "up" /\ UNCHANGED <<mstate, row, spent, holds>> /\ pass' = [pass EXCEPT ![m] = p]
      /\ \/ seq' = SeqAfter(m, lands) /\ seq' <= MaxSeq /\ owner' \subseteq OwnersAfter(m, lands)
         \/ UNCHANGED <<seq, owner>>
  BY DEF BeginPass
<1>2. seq \in Nat /\ SeqAfter(m, lands) \in Nat /\ seq <= MaxSeq
  BY WalletConstants DEF WInv, WTables, SeqAfter
<1>3. /\ owner' \subseteq Claim /\ \A o, u \in owner' : o.slot = u.slot => o = u
      /\ \A o \in owner' : Telling(o)'
      /\ \A o \in Claim : Telling(o) => Telling(o)'
      /\ seq' \in 0..MaxSeq /\ seq <= seq'
  <2>1. CASE UNCHANGED <<seq, owner>>
    BY <1>1, <2>1 DEF WInv, WTables, WOrder, Telling, Live
  <2>2. CASE seq' = SeqAfter(m, lands) /\ seq' <= MaxSeq /\ owner' \subseteq OwnersAfter(m, lands)
    <3>1. \A r \in Liabilities : Live(r)' => Live(r) /\ row[r].owner = row'[r].owner /\ row[r].seq = row'[r].seq
      BY <1>1 DEF Live
    <3>2. /\ OwnersAfter(m, lands) \subseteq Claim
          /\ \A o, u \in OwnersAfter(m, lands) : o.slot = u.slot => o = u
          /\ \A o \in OwnersAfter(m, lands) : Telling(o)'
          /\ \A o \in Claim : Telling(o) => Telling(o)'
      BY <1>1, <1>2, <2>2, <3>1, OwnersTold
    <3>3. seq <= seq' /\ seq' \in 0..MaxSeq
      BY <1>2, <2>2, WalletConstants DEF SeqAfter
    <3> QED
      BY <2>2, <3>2, <3>3
  <2> QED
    BY <1>1, <2>1, <2>2
<1>4. /\ p \in [step : {"rest", "judging"}, todo : SUBSET Liabilities, registry : SUBSET Claim,
                dead : SUBSET Liabilities]
      /\ p.dead = {} /\ p.registry \subseteq owner'
  BY <1>3 DEF Open
<1> HIDE DEF p
<1>5. WPasses' /\ \A x \in Managers : pass'[x] = IF x = m THEN p ELSE pass[x]
  BY <1>1, <1>4 DEF WInv, WPasses
<1>6. WTables' /\ LiveOwnerKeepsLiability'
  BY <1>1, <1>3 DEF WInv, WTables, LiveOwnerKeepsLiability
<1>7. WRows'
  <2>1. \A r \in Liabilities : Live(r) => row[r].seq \in Nat
    BY RowKinds DEF WInv, Row
  <2> QED
    BY <1>1, <1>2, <1>3, <2>1 DEF WInv, WRows, Live
<1>8. WAlive' /\ WVerdicts'
  BY <1>1, <1>4, <1>5 DEF WInv, WAlive, WVerdicts, Live
<1>9. WOrder'
  <2>1. \A x \in Managers : pass[x].registry \subseteq Claim
    BY DEF WInv, WPasses
  <2> QED
    BY <1>3, <1>4, <1>5, <2>1 DEF WInv, WOrder
<1> QED
  BY <1>5, <1>6, <1>7, <1>8, <1>9 DEF WInv

\* A step that moves rows, but not the passes and the lives.
LEMMA RowsKeep ==
  ASSUME WInv, UNCHANGED mstate, WTables', WPasses', WRows', WOrder', LiveOwnerKeepsLiability',
         \A m \in Managers : pass'[m].registry \subseteq pass[m].registry /\ pass'[m].dead \subseteq pass[m].dead,
         \A m \in Managers : pass'[m].step = "judging" => pass[m].step = "judging",
         \A m \in Managers : holds'[m] # {} => mstate[m] = "up",
         \A r \in Liabilities : row[r] # NoRow => row'[r] # NoRow /\ (Live(r)' => Live(r) /\ row'[r].owner = row[r].owner)
  PROVE  WInv'
<1>1. \A m \in Managers : pass[m].registry \subseteq Claim /\ pass[m].dead \subseteq Liabilities
  BY DEF WInv, WPasses
<1>2. WAlive' /\ WVerdicts'
  BY <1>1 DEF WInv, WAlive, WVerdicts
<1> QED
  BY <1>2 DEF WInv

\* A row of a dead owner becomes an estimate.
LEMMA ResolveKeeps ==
  ASSUME WInv, NEW m \in Managers, NEW r \in Liabilities, Resolve(m, r)
  PROVE  WInv'
<1>1. /\ row' = [row EXCEPT ![r] = IF @.state = "open" THEN [@ EXCEPT !.state = "estimate"] ELSE @]
      /\ pass' = [pass EXCEPT ![m].dead = {}] /\ UNCHANGED <<mstate, owner, seq, spent, holds>>
      /\ r \in pass[m].dead
  BY DEF Resolve
<1>2. row \in [Liabilities -> Row \cup {NoRow, Spent}]
  BY DEF WInv, WTables
<1>3. \A x \in Liabilities : x # r \/ row[r].state # "open" => row'[x] = row[x]
  BY <1>1, <1>2
<1>4. row[r].state = "open" => /\ row[r] \in Row /\ row'[r] = [row[r] EXCEPT !.state = "estimate"]
                                /\ mstate[row[r].owner] = "dead"
  BY <1>1, <1>2, RowKinds DEF Live, WInv, WVerdicts
<1>5. row[r].state = "open" => /\ row'[r] \in Row /\ row'[r].state = "estimate"
                               /\ row'[r].owner = row[r].owner /\ row'[r].seq = row[r].seq
  BY <1>4 DEF Row
<1>6. \A x \in Liabilities : /\ row'[x] \in Row \cup {NoRow, Spent}
                             /\ (Live(x)' <=> Live(x)) /\ (row[x] # NoRow <=> row'[x] # NoRow)
                             /\ Live(x) => row'[x].owner = row[x].owner /\ row'[x].seq = row[x].seq
  <2> SUFFICES ASSUME NEW x \in Liabilities
               PROVE  /\ row'[x] \in Row \cup {NoRow, Spent}
                      /\ (Live(x)' <=> Live(x)) /\ (row[x] # NoRow <=> row'[x] # NoRow)
                      /\ Live(x) => row'[x].owner = row[x].owner /\ row'[x].seq = row[x].seq
    OBVIOUS
  <2>1. CASE row'[x] = row[x]
    BY <1>2, <2>1 DEF Live
  <2>2. CASE x = r /\ row[r].state = "open"
    BY <1>4, <1>5, <2>2 DEF Live, Row, NoRow
  <2> QED
    BY <1>3, <2>1, <2>2
<1>7. WTables'
  <2>1. row' \in [Liabilities -> Row \cup {NoRow, Spent}]
    BY <1>1, <1>2, <1>6
  <2> QED
    BY <1>1, <2>1 DEF WInv, WTables
<1>8. /\ WPasses'
      /\ \A x \in Managers : /\ pass'[x].registry = pass[x].registry /\ pass'[x].dead \subseteq pass[x].dead
                             /\ pass'[x].step = pass[x].step
  BY <1>1 DEF WInv, WPasses
<1>9. WRows' /\ LiveOwnerKeepsLiability'
  <2>1. WRows'
    <3>1. \A x \in Liabilities : Live(x)' => mstate'[row'[x].owner] # "unborn" /\ row'[x].seq <= seq'
      BY <1>1, <1>6 DEF WInv, WRows
    <3>2. \A x \in Managers : \A y \in holds'[x] : y \in Liabilities /\ Live(y) /\ row[y].owner = x
      BY <1>1 DEF WInv, WRows, WTables
    <3> QED
      BY <1>6, <3>1, <3>2 DEF WRows
  <2>2. LiveOwnerKeepsLiability'
    BY <1>1, <1>3, <1>4, <1>5 DEF WInv, LiveOwnerKeepsLiability
  <2> QED
    BY <2>1, <2>2
<1>10. \A o : Telling(o) <=> Telling(o)'
  BY <1>1, <1>6 DEF Telling
<1>11. WOrder'
  BY <1>1, <1>8, <1>10 DEF WInv, WOrder
<1> QED
  BY <1>1, <1>6, <1>7, <1>8, <1>9, <1>11, RowsKeep DEF WInv, WAlive

\* A reservation is made.
LEMMA ReserveKeeps ==
  ASSUME WInv, NEW m \in Managers, NEW r \in Liabilities, NEW lands \in BOOLEAN, Reserve(m, r, lands)
  PROVE  WInv'
<1> DEFINE new == [state |-> "open", owner |-> m, charged |-> 0, seq |-> seq', old |-> FALSE]
<1>1. /\ PassDone(m) /\ row[r] = NoRow /\ seq' = SeqAfter(m, lands) + 1 /\ seq' <= MaxSeq
      /\ owner' = OwnersAfter(m, lands) /\ row' = [row EXCEPT ![r] = new]
      /\ holds' = [holds EXCEPT ![m] = @ \cup {r}] /\ pass' = [pass EXCEPT ![m] = Resting]
      /\ UNCHANGED <<mstate, spent>>
  BY DEF Reserve
<1>2. mstate[m] = "up" /\ seq \in Nat /\ SeqAfter(m, lands) \in Nat /\ seq < seq' /\ seq' \in 1..MaxSeq
      /\ seq' \in 0..MaxSeq
  BY <1>1, WalletConstants DEF WInv, WTables, WAlive, PassDone, SeqAfter
<1>3. new \in Row /\ new.state = "open" /\ new.owner = m /\ new.seq = seq' /\ new # NoRow
  BY <1>2, WalletConstants DEF Row, NoRow
<1> HIDE DEF new
<1>4. /\ row \in [Liabilities -> Row \cup {NoRow, Spent}] /\ ~Live(r) /\ row'[r] = new /\ Live(r)'
      /\ \A x \in Liabilities : x # r => row'[x] = row[x] /\ (Live(x)' <=> Live(x))
  BY <1>1, <1>3, RowKinds DEF WInv, WTables, Live
<1>5. row' \in [Liabilities -> Row \cup {NoRow, Spent}] /\ holds' \in [Managers -> SUBSET Liabilities]
      /\ \A x \in Managers : holds'[x] = IF x = m THEN holds[x] \cup {r} ELSE holds[x]
  BY <1>1, <1>3 DEF WInv, WTables
<1>6. \A x \in Liabilities : Live(x)' =>
           \/ Live(x) /\ row[x].owner = row'[x].owner /\ row[x].seq = row'[x].seq
           \/ row'[x].owner = m /\ row'[x].seq \in Nat /\ SeqAfter(m, lands) < row'[x].seq
  BY <1>1, <1>2, <1>3, <1>4
<1>7. /\ OwnersAfter(m, lands) \subseteq Claim
      /\ \A o, u \in OwnersAfter(m, lands) : o.slot = u.slot => o = u
      /\ \A o \in OwnersAfter(m, lands) : Telling(o)'
      /\ \A o \in Claim : Telling(o) => Telling(o)'
  BY <1>1, <1>2, <1>6, OwnersTold
<1>8. WTables'
  BY <1>1, <1>2, <1>5, <1>7 DEF WInv, WTables
<1>9. /\ WPasses'
      /\ \A x \in Managers : pass'[x].registry \subseteq pass[x].registry /\ pass'[x].dead \subseteq pass[x].dead
      /\ \A x \in Managers : pass'[x].step = "judging" => pass[x].step = "judging"
  BY <1>1 DEF WInv, WPasses, Resting
<1>10. WRows' /\ LiveOwnerKeepsLiability'
  <2>1. \A x \in Liabilities : Live(x)' => mstate'[row'[x].owner] # "unborn" /\ row'[x].seq <= seq'
    <3> SUFFICES ASSUME NEW x \in Liabilities, Live(x)' PROVE mstate'[row'[x].owner] # "unborn" /\ row'[x].seq <= seq'
      OBVIOUS
    <3>1. CASE x = r
      BY <1>1, <1>2, <1>3, <1>4, <3>1
    <3>2. CASE x # r
      <4>1. Live(x) /\ row'[x] = row[x] /\ row[x].seq \in Nat
        BY <1>4, <3>2, RowKinds DEF WInv, Row
      <4> QED
        BY <1>1, <1>2, <4>1 DEF WInv, WRows
    <3> QED
      BY <3>1, <3>2
  <2>2. ASSUME NEW x \in Managers, NEW y \in holds'[x] PROVE Live(y)' /\ row'[y].owner = x
    <3>1. CASE y = r
      <4>1. y \notin holds[x]
        BY <1>4, <3>1 DEF WInv, WRows
      <4> QED
        BY <1>3, <1>4, <1>5, <3>1, <4>1
    <3>2. CASE y # r
      <4>1. y \in holds[x] /\ y \in Liabilities
        BY <1>5, <3>2
      <4> QED
        BY <1>4, <3>2, <4>1 DEF WInv, WRows
    <3> QED
      BY <3>1, <3>2
  <2>3. LiveOwnerKeepsLiability'
    BY <1>1, <1>3, <1>4 DEF WInv, LiveOwnerKeepsLiability
  <2> QED
    BY <2>1, <2>2, <2>3 DEF WRows
<1>11. \A x \in Managers : holds'[x] # {} => mstate[x] = "up"
  BY <1>2, <1>5 DEF WInv, WAlive
<1>12. \A x \in Liabilities : row[x] # NoRow => row'[x] # NoRow /\ (Live(x)' => Live(x) /\ row'[x].owner = row[x].owner)
  BY <1>1, <1>4
<1>13. WOrder' /\ UNCHANGED mstate
  <2>1. \A x \in Managers : pass[x].registry \subseteq Claim
    BY DEF WInv, WPasses
  <2> QED
    BY <1>1, <1>7, <1>9, <2>1 DEF WInv, WOrder
<1> QED
  BY <1>8, <1>9, <1>10, <1>11, <1>12, <1>13, RowsKeep

\* A cost is booked on a reservation.
LEMMA ChargeKeeps ==
  ASSUME WInv, NEW m \in Managers, NEW r \in Liabilities, NEW c \in Costs, NEW lands \in BOOLEAN,
         Charge(m, r, c, lands)
  PROVE  WInv'
<1> DEFINE new == [row[r] EXCEPT !.charged = @ + c, !.old = FALSE]
<1>1. /\ r \in holds[m] /\ row[r].charged + c <= MaxSpend
      /\ seq' = SeqAfter(m, lands) /\ seq' <= MaxSeq /\ owner' = OwnersAfter(m, lands)
      /\ spent' = [spent EXCEPT ![SourceOf[r]] = @ + c]
      /\ row' = [row EXCEPT ![r].charged = @ + c, ![r].old = FALSE]
      /\ UNCHANGED <<mstate, holds, pass>>
  BY DEF Charge, Heartbeat
<1>2. /\ mstate[m] = "up" /\ seq \in Nat /\ SeqAfter(m, lands) \in Nat /\ seq <= seq' /\ seq' \in 0..MaxSeq
      /\ Live(r) /\ row[r] \in Row /\ row[r].owner = m
  BY <1>1, RowKinds, WalletConstants DEF WInv, WTables, WAlive, WRows, SeqAfter
<1>3. c \in Nat /\ row[r].charged + c \in 0..MaxSpend
  BY <1>1, <1>2, WalletConstants DEF Row
<1>4. new \in Row /\ new.state = row[r].state /\ new.owner = row[r].owner /\ new.seq = row[r].seq
  BY <1>2, <1>3 DEF Row
<1>5. row \in [Liabilities -> Row \cup {NoRow, Spent}] /\ spent \in [Sources -> Nat]
  BY DEF WInv, WTables
<1>6. row' = [row EXCEPT ![r] = new]
  BY <1>1, <1>2, <1>5 DEF Row
<1> HIDE DEF new
<1>7. \A x \in Liabilities : /\ (Live(x)' <=> Live(x)) /\ row'[x].state = row[x].state
                             /\ row[x] # NoRow => row'[x] # NoRow
                             /\ Live(x) => row'[x].owner = row[x].owner /\ row'[x].seq = row[x].seq
  BY <1>4, <1>5, <1>6 DEF Live, NoRow, Row
<1>8. row' \in [Liabilities -> Row \cup {NoRow, Spent}] /\ spent' \in [Sources -> Nat]
  <2>1. row' \in [Liabilities -> Row \cup {NoRow, Spent}]
    BY <1>4, <1>5, <1>6
  <2>2. SourceOf[r] \in Sources
    BY WalletConstants
  <2> QED
    BY <1>1, <1>3, <1>5, <2>1, <2>2
<1>9. /\ OwnersAfter(m, lands) \subseteq Claim
      /\ \A o, u \in OwnersAfter(m, lands) : o.slot = u.slot => o = u
      /\ \A o \in OwnersAfter(m, lands) : Telling(o)'
      /\ \A o \in Claim : Telling(o) => Telling(o)'
  <2>1. \A x \in Liabilities : Live(x)' => Live(x) /\ row[x].owner = row'[x].owner /\ row[x].seq = row'[x].seq
    BY <1>7
  <2>2. /\ UNCHANGED mstate /\ mstate[m] = "up" /\ SeqAfter(m, lands) <= seq' /\ seq' \in Nat /\ seq' <= MaxSeq
    BY <1>1, <1>2
  <2> QED
    BY <2>1, <2>2, OwnersTold
<1>10. WTables' /\ WPasses'
  BY <1>1, <1>2, <1>8, <1>9 DEF WInv, WTables, WPasses
<1>11. WOrder'
  <2>1. \A x \in Managers : pass[x].registry \subseteq Claim
    BY DEF WInv, WPasses
  <2> QED
    BY <1>1, <1>9, <2>1 DEF WInv, WOrder
<1>12. WRows' /\ LiveOwnerKeepsLiability'
  <2>1. \A x \in Liabilities : Live(x)' => mstate'[row'[x].owner] # "unborn" /\ row'[x].seq <= seq'
    <3>1. \A x \in Liabilities : Live(x) => row[x].seq \in Nat
      BY RowKinds DEF WInv, Row
    <3>2. \A x \in Liabilities : Live(x) => mstate[row[x].owner] # "unborn" /\ row[x].seq <= seq
      BY DEF WInv, WRows
    <3>3. seq \in Nat /\ seq' \in Nat /\ seq <= seq' /\ mstate' = mstate
      BY <1>1, <1>2
    <3> QED
      BY <1>7, <3>1, <3>2, <3>3
  <2>2. \A x \in Managers : \A y \in holds'[x] : y \in Liabilities /\ Live(y) /\ row[y].owner = x
    BY <1>1 DEF WInv, WRows, WTables
  <2>3. WRows'
    BY <1>7, <2>1, <2>2 DEF WRows
  <2>4. \A x \in Liabilities : row[x].state = "estimate" => Live(x)
    BY DEF Live
  <2>5. LiveOwnerKeepsLiability'
    BY <1>1, <1>7, <2>4 DEF WInv, LiveOwnerKeepsLiability
  <2> QED
    BY <2>3, <2>5
<1>13. \A x \in Managers : holds'[x] # {} => mstate[x] = "up"
  BY <1>1 DEF WInv, WAlive
<1>14. \A x \in Liabilities : row[x] # NoRow => row'[x] # NoRow /\ (Live(x)' => Live(x) /\ row'[x].owner = row[x].owner)
  BY <1>7
<1> QED
  BY <1>1, <1>10, <1>11, <1>12, <1>13, <1>14, RowsKeep

\* A cost is booked without one.
LEMMA UnreservedKeeps ==
  ASSUME WInv, NEW m \in Managers, NEW s \in Sources, NEW c \in Costs, NEW lands \in BOOLEAN,
         ChargeUnreserved(m, s, c, lands)
  PROVE  WInv'
<1>1. /\ mstate[m] = "up" /\ seq' = SeqAfter(m, lands) /\ seq' <= MaxSeq /\ owner' = OwnersAfter(m, lands)
      /\ spent' = [spent EXCEPT ![s] = @ + c] /\ UNCHANGED <<mstate, row, holds, pass>>
  BY DEF ChargeUnreserved, Heartbeat
<1>2. seq \in Nat /\ SeqAfter(m, lands) \in Nat /\ seq <= seq' /\ seq' \in 0..MaxSeq /\ c \in Nat
  BY <1>1, WalletConstants DEF WInv, WTables, SeqAfter
<1>3. \A r \in Liabilities : Live(r)' => Live(r) /\ row[r].owner = row'[r].owner /\ row[r].seq = row'[r].seq
  BY <1>1 DEF Live
<1>4. /\ OwnersAfter(m, lands) \subseteq Claim
      /\ \A o, u \in OwnersAfter(m, lands) : o.slot = u.slot => o = u
      /\ \A o \in OwnersAfter(m, lands) : Telling(o)'
      /\ \A o \in Claim : Telling(o) => Telling(o)'
  BY <1>1, <1>2, <1>3, OwnersTold
<1>5. WTables' /\ WPasses'
  BY <1>1, <1>2, <1>4 DEF WInv, WTables, WPasses
<1>6. WOrder'
  <2>1. \A x \in Managers : pass[x].registry \subseteq Claim
    BY DEF WInv, WPasses
  <2> QED
    BY <1>1, <1>4, <2>1 DEF WInv, WOrder
<1>7. WRows' /\ LiveOwnerKeepsLiability'
  <2>1. \A x \in Liabilities : Live(x) => row[x].seq \in Nat
    BY RowKinds DEF WInv, Row
  <2> QED
    BY <1>1, <1>2, <2>1 DEF WInv, WRows, LiveOwnerKeepsLiability, Live
<1>8. \A x \in Managers : holds'[x] # {} => mstate[x] = "up"
  BY <1>1 DEF WInv, WAlive
<1>9. \A x \in Liabilities : row[x] # NoRow => row'[x] # NoRow /\ (Live(x)' => Live(x) /\ row'[x].owner = row[x].owner)
  BY <1>1 DEF Live
<1> QED
  BY <1>1, <1>5, <1>6, <1>7, <1>8, <1>9, RowsKeep

\* A reservation is settled.
LEMMA ReleaseKeeps ==
  ASSUME WInv, NEW m \in Managers, NEW r \in Liabilities, NEW lands \in BOOLEAN, Release(m, r, lands)
  PROVE  WInv'
<1>1. /\ r \in holds[m] /\ holds' = [holds EXCEPT ![m] = @ \ {r}]
      /\ row' = IF lands THEN [row EXCEPT ![r] = Spent] ELSE row
      /\ UNCHANGED <<mstate, owner, seq, spent, pass>>
  BY DEF Release
<1>2. /\ row \in [Liabilities -> Row \cup {NoRow, Spent}] /\ holds \in [Managers -> SUBSET Liabilities]
      /\ Spent # NoRow /\ Spent.state = "gone"
  BY DEF WInv, WTables, Spent, NoRow
<1>3. /\ row' \in [Liabilities -> Row \cup {NoRow, Spent}] /\ holds' \in [Managers -> SUBSET Liabilities]
      /\ \A x \in Managers : holds'[x] = IF x = m THEN holds[x] \ {r} ELSE holds[x]
      /\ \A x \in Liabilities : row'[x] = row[x] \/ (x = r /\ row'[x] = Spent)
  BY <1>1, <1>2
<1>4. \A x \in Liabilities : /\ Live(x)' => Live(x) /\ row'[x] = row[x]
                             /\ row[x] # NoRow => row'[x] # NoRow
                             /\ row'[x].state = "estimate" => row'[x] = row[x]
  BY <1>2, <1>3 DEF Live
<1>5. WTables' /\ WPasses'
  BY <1>1, <1>3 DEF WInv, WTables, WPasses
<1>6. WOrder'
  BY <1>1, <1>4 DEF WInv, WOrder, Telling
<1>7. WRows' /\ LiveOwnerKeepsLiability'
  <2>1. \A x \in Liabilities : Live(x)' => mstate'[row'[x].owner] # "unborn" /\ row'[x].seq <= seq'
    BY <1>1, <1>4 DEF WInv, WRows
  <2>2. ASSUME NEW x \in Managers, NEW y \in holds'[x] PROVE Live(y)' /\ row'[y].owner = x
    <3>1. y \in holds[x] /\ y \in Liabilities /\ Live(y) /\ row[y].owner = x /\ row[r].owner = m
      BY <1>1, <1>3 DEF WInv, WRows, WTables
    <3>2. y # r
      BY <1>3, <3>1
    <3> QED
      BY <1>3, <3>1, <3>2 DEF Live
  <2>3. LiveOwnerKeepsLiability'
    BY <1>1, <1>4 DEF WInv, LiveOwnerKeepsLiability
  <2> QED
    BY <2>1, <2>2, <2>3 DEF WRows
<1>8. \A x \in Managers : holds'[x] # {} => mstate[x] = "up"
  BY <1>3 DEF WInv, WAlive
<1>9. \A x \in Liabilities : row[x] # NoRow => row'[x] # NoRow /\ (Live(x)' => Live(x) /\ row'[x].owner = row[x].owner)
  BY <1>4
<1> QED
  BY <1>1, <1>5, <1>6, <1>7, <1>8, <1>9, RowsKeep

\* The day passes.
LEMMA WindowKeeps == ASSUME WInv, WindowPasses PROVE WInv'
<1>1. /\ spent' = [s \in Sources |-> 0] /\ UNCHANGED <<mstate, owner, seq, holds, pass>>
      /\ row' = [r \in Liabilities |-> IF Live(r) THEN [row[r] EXCEPT !.old = TRUE] ELSE row[r]]
  BY DEF WindowPasses
<1>2. \A x \in Liabilities :
        /\ row'[x] \in Row \cup {NoRow, Spent} /\ (Live(x)' <=> Live(x)) /\ row'[x].state = row[x].state
        /\ row[x] # NoRow => row'[x] # NoRow
        /\ Live(x) => row'[x].owner = row[x].owner /\ row'[x].seq = row[x].seq
  <2> SUFFICES ASSUME NEW x \in Liabilities
               PROVE  /\ row'[x] \in Row \cup {NoRow, Spent} /\ (Live(x)' <=> Live(x)) /\ row'[x].state = row[x].state
                      /\ row[x] # NoRow => row'[x] # NoRow
                      /\ Live(x) => row'[x].owner = row[x].owner /\ row'[x].seq = row[x].seq
    OBVIOUS
  <2>1. CASE Live(x)
    <3>1. row[x] \in Row /\ row'[x] = [row[x] EXCEPT !.old = TRUE]
      BY <1>1, <2>1, RowKinds DEF WInv
    <3> QED
      BY <2>1, <3>1 DEF Row, Live, NoRow
  <2>2. CASE ~Live(x)
    BY <1>1, <2>2 DEF Live, WInv, WTables
  <2> QED
    BY <2>1, <2>2
<1>3. WTables' /\ WPasses'
  BY <1>1, <1>2 DEF WInv, WTables, WPasses
<1>4. WOrder'
  <2>1. \A o : Telling(o) => Telling(o)'
    BY <1>1, <1>2 DEF Telling
  <2> QED
    BY <1>1, <2>1 DEF WInv, WOrder
<1>5. WRows' /\ LiveOwnerKeepsLiability'
  <2>1. \A x \in Liabilities : Live(x)' => mstate'[row'[x].owner] # "unborn" /\ row'[x].seq <= seq'
    BY <1>1, <1>2 DEF WInv, WRows
  <2>2. \A x \in Managers : \A y \in holds'[x] : y \in Liabilities /\ Live(y) /\ row[y].owner = x
    BY <1>1 DEF WInv, WRows, WTables
  <2>3. WRows'
    BY <1>2, <2>1, <2>2 DEF WRows
  <2>4. \A x \in Liabilities : row[x].state = "estimate" => Live(x)
    BY DEF Live
  <2>5. LiveOwnerKeepsLiability'
    BY <1>1, <1>2, <2>4 DEF WInv, LiveOwnerKeepsLiability
  <2> QED
    BY <2>3, <2>5
<1>6. \A x \in Managers : holds'[x] # {} => mstate[x] = "up"
  BY <1>1 DEF WInv, WAlive
<1>7. \A x \in Liabilities : row[x] # NoRow => row'[x] # NoRow /\ (Live(x)' => Live(x) /\ row'[x].owner = row[x].owner)
  BY <1>2
<1> QED
  BY <1>1, <1>3, <1>4, <1>5, <1>6, <1>7, RowsKeep

\* Every step keeps the invariant.
LEMMA WInvNext == WInv /\ [BudgetNext]_bvars => WInv'
<1> SUFFICES ASSUME WInv, [BudgetNext]_bvars PROVE WInv'
  OBVIOUS
<1>1. CASE UNCHANGED bvars
  BY <1>1 DEF bvars, WInv, WTables, WPasses, WAlive, WRows, WOrder, WVerdicts, LiveOwnerKeepsLiability, Live, Telling
<1>2. CASE BudgetNext
  <2>1. CASE \E m \in Managers : Start(m) \/ Die(m) \/ EndPass(m)
    BY <2>1, LifeKeeps, EndPassKeeps
  <2>2. CASE \E m \in Managers, lands \in BOOLEAN, old \in SUBSET owner : BeginPass(m, lands, old)
    BY <2>2, BeginKeeps
  <2>3. CASE \E m \in Managers, r \in Liabilities, b \in BOOLEAN : Judge(m, r, b) \/ Reserve(m, r, b) \/ Release(m, r, b)
    BY <2>3, JudgeKeeps, ReserveKeeps, ReleaseKeeps
  <2>4. CASE \E m \in Managers, r \in Liabilities : Resolve(m, r)
    BY <2>4, ResolveKeeps
  <2>5. CASE \E m \in Managers, r \in Liabilities, c \in Costs, b \in BOOLEAN : Charge(m, r, c, b)
    BY <2>5, ChargeKeeps
  <2>6. CASE \E m \in Managers, s \in Sources, c \in Costs, b \in BOOLEAN : ChargeUnreserved(m, s, c, b)
    BY <2>6, UnreservedKeeps
  <2>7. CASE WindowPasses
    BY <2>7, WindowKeeps
  <2> QED
    BY <1>2, <2>1, <2>2, <2>3, <2>4, <2>5, <2>6, <2>7 DEF BudgetNext
<1> QED
  BY <1>1, <1>2

\* The types of the wallet (unified-budget.ts), for any managers, slots and
\* liabilities, limits and costs.
THEOREM WalletTyped == BudgetSpec => []BudgetTypeOK
<1>1. WInv => BudgetTypeOK
  <2> SUFFICES ASSUME WInv PROVE BudgetTypeOK
    OBVIOUS
  <2>1. \A m \in Managers :
       /\ pass[m].step \in {"rest", "judging"}
       /\ pass[m].todo \cup pass[m].dead \subseteq Liabilities /\ pass[m].registry \subseteq Claim
    BY DEF WInv, WPasses
  <2> QED
    BY <2>1 DEF WInv, WTables, WRows, BudgetTypeOK
<1> QED
  BY <1>1, WInvInit, WInvNext, PTL DEF BudgetSpec

\* No reconciliation strands the liability of a manager that still runs, whatever
\* process numbers are given again and however the passes of the managers overlap
\* (reconcileOpenLiabilities).
THEOREM LiveOwnersKeep == BudgetSpec => []LiveOwnerKeepsLiability
<1>1. WInv => LiveOwnerKeepsLiability
  BY DEF WInv
<1> QED
  BY <1>1, WInvInit, WInvNext, PTL DEF BudgetSpec

---------------------------------------------------------------------------
(* The refinement.                                                           *)

\* The sums of the wallet and those of its promise are the same operator.
LEMMA SumsAgree ==
  ASSUME NEW f, NEW S
  PROVE  Promise!Total(f, S) = SumFunctionOnSet(f, S)
BY DEF Promise!Total, Promise!SumFunctionOnSet, Promise!FoldFunctionOnSet, Promise!MapThenFoldSet,
       SumFunctionOnSet, FoldFunctionOnSet, MapThenFoldSet

\* What the wallet lets in fits, in the terms of the promise.
LEMMA FitsWhenSpendable ==
  ASSUME NEW e, NEW s \in Sources, CanSpend(e, s)
  PROVE  Promise!Fits(e, s)
<1>1. {r \in Liabilities : SourceOf[r] \in Sources} = Liabilities
  BY WalletConstants
<1>2. {r \in Liabilities : SourceOf[r] \in {s}} = Promise!Of(s)
  BY DEF Promise!Of
<1>3. /\ Booked(Sources) = Promise!Total(spent, Sources)
      /\ OutstandingUsd(Sources) = Promise!Total(Owed, Liabilities)
      /\ OutstandingUsd({s}) = Promise!Total(Owed, Promise!Of(s))
  BY <1>1, <1>2, SumsAgree DEF Booked, OutstandingUsd
<1> QED
  BY <1>3 DEF CanSpend, Promise!Fits

\* What a row stands for in the promise.
LEMMA Stands ==
  ASSUME NEW r \in Liabilities
  PROVE  /\ row[r].state = "open" => Standing[r] = [state |-> "open", owner |-> row[r].owner]
         /\ row[r].state = "estimate" => Standing[r] = [state |-> "stranded", owner |-> row[r].owner]
         /\ row[r] = Spent => Standing[r] = [state |-> "closed"]
         /\ row[r] = NoRow => Standing[r] = [state |-> "none"]
BY DEF Standing, Spent, NoRow

\* What a row still owes there.
LEMMA Owes ==
  ASSUME NEW r \in Liabilities
  PROVE  /\ Counted(r) => Owed[r] = Monus(Estimate[r], row[r].charged)
         /\ ~Counted(r) => Owed[r] = 0
BY DEF Owed, Counted, Left

\* A reservation is an admission.
LEMMA AdmitImplemented ==
  ASSUME WInv, NEW m \in Managers, NEW r \in Liabilities, NEW lands \in BOOLEAN, Reserve(m, r, lands)
  PROVE  Promise!Admit(m, r)
<1> DEFINE new == [state |-> "open", owner |-> m, charged |-> 0, seq |-> seq', old |-> FALSE]
<1>1. /\ PassDone(m) /\ row[r] = NoRow /\ CanSpend(Estimate[r], SourceOf[r])
      /\ row' = [row EXCEPT ![r] = new] /\ UNCHANGED <<mstate, spent>>
  BY DEF Reserve
<1>2. /\ row'[r] = new /\ \A x \in Liabilities : x # r => row'[x] = row[x]
  BY <1>1 DEF WInv, WTables
<1>3. new.state = "open" /\ new.owner = m /\ new.charged = 0
  OBVIOUS
<1> HIDE DEF new
<1>4. m \notin Dead
  BY <1>1 DEF WInv, WAlive, PassDone, Dead
<1>5. Standing[r].state = "none"
  <2>1. Standing[r] = [state |-> "none"]
    BY <1>1, Stands
  <2> QED
    BY <2>1
<1>6. Promise!Fits(Estimate[r], SourceOf[r])
  BY <1>1, FitsWhenSpendable, WalletConstants
<1>7. Standing' = [Standing EXCEPT ![r] = [state |-> "open", owner |-> m]]
  BY <1>2, <1>3 DEF Standing
<1>8. Owed' = [Owed EXCEPT ![r] = Estimate[r]]
  <2>1. Monus(Estimate[r], 0) = Estimate[r]
    BY WalletConstants DEF Monus
  <2>2. \A x \in Liabilities : x # r => Owed'[x] = Owed[x]
    BY <1>2 DEF Owed, Counted, Left, Live
  <2>3. Owed'[r] = Estimate[r]
    BY <1>2, <1>3, <2>1 DEF Owed, Counted, Left, Live
  <2> QED
    BY <2>2, <2>3 DEF Owed
<1>9. UNCHANGED <<Dead, spent>>
  BY <1>1 DEF Dead
<1> QED
  BY <1>4, <1>5, <1>6, <1>7, <1>8, <1>9 DEF Promise!Admit

\* A booked cost is a spending of the liability it was reserved for.
LEMMA SpendImplemented ==
  ASSUME WInv, NEW m \in Managers, NEW r \in Liabilities, NEW c \in Costs, NEW lands \in BOOLEAN,
         Charge(m, r, c, lands)
  PROVE  Promise!Spend(r, c)
<1>1. /\ r \in holds[m] /\ spent' = [spent EXCEPT ![SourceOf[r]] = @ + c]
      /\ row' = [row EXCEPT ![r].charged = @ + c, ![r].old = FALSE] /\ UNCHANGED mstate
  BY DEF Charge
<1>2. row[r] \in Row /\ row[r].owner = m /\ mstate[m] = "up" /\ m \in Managers /\ Live(r)
  BY <1>1, RowKinds DEF WInv, WAlive, WRows
<1>3. row[r].state = "open"
  BY <1>2 DEF WInv, LiveOwnerKeepsLiability, Row
<1>4. /\ row'[r].state = "open" /\ row'[r].owner = m /\ row'[r].charged = row[r].charged + c
      /\ \A x \in Liabilities : x # r => row'[x] = row[x]
  BY <1>1, <1>2, <1>3 DEF WInv, WTables, Row
<1>5. Standing[r] = [state |-> "open", owner |-> m] /\ m \notin Dead
  BY <1>2, <1>3, Stands DEF Dead
<1>6. Standing' = Standing
  BY <1>2, <1>3, <1>4 DEF Standing
<1>7. Owed' = [Owed EXCEPT ![r] = IF @ > c THEN @ - c ELSE 0]
  <2>1. Owed[r] = Monus(Estimate[r], row[r].charged) /\ Owed'[r] = Monus(Estimate[r], row[r].charged + c)
    BY <1>3, <1>4 DEF Owed, Counted, Left, Live
  <2>2. Estimate[r] \in Nat /\ row[r].charged \in Nat /\ c \in Nat
    BY <1>2, WalletConstants DEF Row
  <2>3. Owed'[r] = IF Owed[r] > c THEN Owed[r] - c ELSE 0
    BY <2>1, <2>2 DEF Monus
  <2>4. \A x \in Liabilities : x # r => Owed'[x] = Owed[x]
    BY <1>4 DEF Owed, Counted, Left, Live
  <2> QED
    BY <2>3, <2>4 DEF Owed
<1>8. Dead' = Dead
  BY <1>1 DEF Dead
<1>9. Standing[r].state = "open" /\ Standing[r].owner \notin Dead
  BY <1>5
<1> QED
  BY <1>1, <1>6, <1>7, <1>8, <1>9 DEF Promise!Spend

\* What is read of a row says what it stands for.
LEMMA SameRows ==
  ASSUME \A r \in Liabilities : row'[r] = row[r]
  PROVE  Standing' = Standing /\ Owed' = Owed
BY DEF Standing, Owed, Counted, Left, Live

\* A settlement closes it, if the write lands.
LEMMA CloseImplemented ==
  ASSUME WInv, NEW m \in Managers, NEW r \in Liabilities, NEW lands \in BOOLEAN, Release(m, r, lands)
  PROVE  Promise!Close(r) \/ UNCHANGED <<Dead, Standing, Owed, spent>>
<1>1. /\ r \in holds[m] /\ row' = (IF lands THEN [row EXCEPT ![r] = Spent] ELSE row) /\ UNCHANGED <<mstate, spent>>
  BY DEF Release
<1>2. Dead' = Dead
  BY <1>1 DEF Dead
<1>3. CASE ~lands
  BY <1>1, <1>2, <1>3, SameRows
<1>4. CASE lands
  <2>1. row[r] \in Row /\ row[r].owner = m /\ mstate[m] = "up" /\ Live(r)
    BY <1>1, RowKinds DEF WInv, WAlive, WRows
  <2>2. row[r].state = "open"
    BY <2>1 DEF WInv, LiveOwnerKeepsLiability, Row
  <2>3. Standing[r] = [state |-> "open", owner |-> m] /\ m \notin Dead
    BY <2>1, <2>2, Stands DEF Dead
  <2>4. /\ row'[r] = Spent /\ Spent.state = "gone" /\ \A x \in Liabilities : x # r => row'[x] = row[x]
    BY <1>1, <1>4 DEF WInv, WTables, Spent
  <2>5. Standing' = [Standing EXCEPT ![r] = [state |-> "closed"]]
    BY <2>4 DEF Standing
  <2>6. Owed' = [Owed EXCEPT ![r] = 0]
    BY <2>4 DEF Owed, Counted, Left, Live
  <2>7. Standing[r].state = "open" /\ Standing[r].owner \notin Dead
    BY <2>3
  <2> QED
    BY <1>1, <1>2, <2>5, <2>6, <2>7 DEF Promise!Close
<1> QED
  BY <1>3, <1>4

\* A verdict that is acted on strands a liability of a dead owner.
LEMMA StrandImplemented ==
  ASSUME WInv, NEW m \in Managers, NEW r \in Liabilities, Resolve(m, r)
  PROVE  Promise!Strand(r) \/ UNCHANGED <<Dead, Standing, Owed, spent>>
<1>1. /\ r \in pass[m].dead /\ UNCHANGED <<mstate, spent>>
      /\ row' = [row EXCEPT ![r] = IF @.state = "open" THEN [@ EXCEPT !.state = "estimate"] ELSE @]
  BY DEF Resolve
<1>2. Dead' = Dead
  BY <1>1 DEF Dead
<1>3. CASE row[r].state # "open"
  <2>1. \A x \in Liabilities : row'[x] = row[x]
    BY <1>1, <1>3 DEF WInv, WTables
  <2> QED
    BY <1>1, <1>2, <2>1, SameRows
<1>4. CASE row[r].state = "open"
  <2>1. row[r] \in Row /\ mstate[row[r].owner] = "dead" /\ row[r].owner \in Managers
    BY <1>1, <1>4, RowKinds DEF WInv, WVerdicts, Live, Row
  <2>2. row'[r] = [row[r] EXCEPT !.state = "estimate"] /\ \A x \in Liabilities : x # r => row'[x] = row[x]
    BY <1>1, <1>4 DEF WInv, WTables
  <2>3. /\ row'[r].state = "estimate" /\ row'[r].owner = row[r].owner
        /\ row'[r].charged = row[r].charged /\ row'[r].old = row[r].old
    BY <2>1, <2>2 DEF Row
  <2>4. Standing[r] = [state |-> "open", owner |-> row[r].owner] /\ row[r].owner \in Dead
    BY <1>4, <2>1, Stands DEF Dead
  <2>5. Standing' = [Standing EXCEPT ![r].state = "stranded"]
    <3>1. Standing'[r] = [state |-> "stranded", owner |-> row[r].owner]
      BY <2>3 DEF Standing
    <3>2. \A x \in Liabilities : x # r => Standing'[x] = Standing[x]
      BY <2>2 DEF Standing
    <3>3. [Standing[r] EXCEPT !.state = "stranded"] = Standing'[r]
      BY <2>4, <3>1
    <3> QED
      BY <3>2, <3>3 DEF Standing
  <2>6. Owed' \in {Owed, [Owed EXCEPT ![r] = 0]}
    <3>1. \A x \in Liabilities : x # r => Owed'[x] = Owed[x]
      BY <2>2 DEF Owed, Counted, Left, Live
    <3>2. Owed'[r] = 0 \/ Owed'[r] = Owed[r]
      BY <1>4, <2>3 DEF Owed, Counted, Left, Live
    <3> QED
      BY <3>1, <3>2 DEF Owed
  <2>7. Standing[r].state = "open" /\ Standing[r].owner \in Dead
    BY <2>4
  <2> QED
    BY <1>1, <1>2, <2>5, <2>6, <2>7 DEF Promise!Strand
<1> QED
  BY <1>3, <1>4

\* The day passes in both.
LEMMA WindowImplemented == ASSUME WInv, WindowPasses PROVE Promise!WindowPasses
<1>1. /\ spent' = [s \in Sources |-> 0] /\ UNCHANGED mstate
      /\ row' = [r \in Liabilities |-> IF Live(r) THEN [row[r] EXCEPT !.old = TRUE] ELSE row[r]]
  BY DEF WindowPasses
<1>2. \A x \in Liabilities :
        /\ row'[x].state = row[x].state
        /\ Live(x) => row'[x].owner = row[x].owner /\ row'[x].charged = row[x].charged /\ row'[x].old = TRUE
  <2> SUFFICES ASSUME NEW x \in Liabilities
               PROVE  /\ row'[x].state = row[x].state
                      /\ Live(x) => /\ row'[x].owner = row[x].owner /\ row'[x].charged = row[x].charged
                                    /\ row'[x].old = TRUE
    OBVIOUS
  <2>1. CASE Live(x)
    <3>1. row[x] \in Row /\ row'[x] = [row[x] EXCEPT !.old = TRUE]
      BY <1>1, <2>1, RowKinds DEF WInv
    <3> QED
      BY <3>1 DEF Row
  <2>2. CASE ~Live(x)
    BY <1>1, <2>2
  <2> QED
    BY <2>1, <2>2
<1>3. Standing' = Standing
  BY <1>2 DEF Standing, Live
<1>4. Owed' = [r \in Liabilities |-> IF Standing[r].state = "stranded" THEN 0 ELSE Owed[r]]
  <2> SUFFICES ASSUME NEW x \in Liabilities
               PROVE  Owed'[x] = IF Standing[x].state = "stranded" THEN 0 ELSE Owed[x]
    BY DEF Owed
  <2>1. CASE row[x].state = "open"
    <3>1. Standing[x].state = "open"
      BY <2>1 DEF Standing
    <3> QED
      BY <1>2, <2>1, <3>1 DEF Owed, Counted, Left, Live
  <2>2. CASE row[x].state = "estimate"
    <3>1. Standing[x].state = "stranded"
      BY <2>2 DEF Standing
    <3> QED
      BY <1>2, <2>2, <3>1 DEF Owed, Counted, Left, Live
  <2>3. CASE row[x].state \notin {"open", "estimate"}
    BY <1>2, <2>3 DEF Owed, Counted, Left, Live
  <2> QED
    BY <2>1, <2>2, <2>3
<1>5. Dead' = Dead
  BY <1>1 DEF Dead
<1> QED
  BY <1>1, <1>3, <1>4, <1>5 DEF Promise!WindowPasses

\* Steps that the promise does not see, and the deaths it does.
LEMMA OthersImplemented ==
  ASSUME WInv, NEW m \in Managers,
         \/ Start(m) \/ Die(m) \/ EndPass(m)
         \/ \E lands \in BOOLEAN, old \in SUBSET owner : BeginPass(m, lands, old)
         \/ \E r \in Liabilities, b \in BOOLEAN : Judge(m, r, b)
         \/ \E s \in Sources, c \in Costs, b \in BOOLEAN : ChargeUnreserved(m, s, c, b)
  PROVE  Promise!Next \/ UNCHANGED <<Dead, Standing, Owed, spent>>
<1>1. row' = row /\ Standing' = Standing /\ Owed' = Owed
  <2>1. row' = row
    BY DEF Start, Die, EndPass, BeginPass, Judge, ChargeUnreserved
  <2> QED
    BY <2>1, SameRows
<1>2. CASE Start(m)
  <2>1. Dead' = Dead
    BY <1>2 DEF Start, Dead, WInv, WTables
  <2> QED
    BY <1>1, <1>2, <2>1 DEF Start
<1>3. CASE Die(m)
  <2>1. Dead' = Dead \cup {m}
    BY <1>3 DEF Die, Dead, WInv, WTables
  <2>2. Promise!Dies(m)
    BY <1>1, <1>3, <2>1 DEF Die, Promise!Dies
  <2> QED
    BY <2>2 DEF Promise!Next
<1>4. CASE \E s \in Sources, c \in Costs, b \in BOOLEAN : ChargeUnreserved(m, s, c, b)
  <2>1. PICK s \in Sources, c \in Costs, b \in BOOLEAN : ChargeUnreserved(m, s, c, b)
    BY <1>4
  <2>2. Dead' = Dead /\ spent' = [spent EXCEPT ![s] = @ + c]
    BY <2>1 DEF ChargeUnreserved, Dead
  <2>3. Promise!SpendUnreserved(s, c)
    BY <1>1, <2>2 DEF Promise!SpendUnreserved
  <2> QED
    BY <2>3 DEF Promise!Next
<1>5. CASE \/ EndPass(m) \/ \E lands \in BOOLEAN, old \in SUBSET owner : BeginPass(m, lands, old)
           \/ \E r \in Liabilities, b \in BOOLEAN : Judge(m, r, b)
  <2>1. mstate' = mstate /\ spent' = spent
    BY <1>5 DEF EndPass, BeginPass, Judge
  <2> QED
    BY <1>1, <2>1 DEF Dead
<1> QED
  BY <1>2, <1>3, <1>4, <1>5

\* Every step of the wallet is a step of the promise, or none.
LEMMA PromiseNext ==
  ASSUME WInv, BudgetNext
  PROVE  Promise!Next \/ UNCHANGED <<Dead, Standing, Owed, spent>>
<1>1. CASE \E m \in Managers : Start(m) \/ Die(m) \/ EndPass(m)
  BY <1>1, OthersImplemented
<1>2. CASE \E m \in Managers, lands \in BOOLEAN, old \in SUBSET owner : BeginPass(m, lands, old)
  BY <1>2, OthersImplemented
<1>3. CASE \E m \in Managers, r \in Liabilities, b \in BOOLEAN : Judge(m, r, b)
  BY <1>3, OthersImplemented
<1>4. CASE \E m \in Managers, r \in Liabilities, b \in BOOLEAN : Reserve(m, r, b)
  BY <1>4, AdmitImplemented DEF Promise!Next
<1>5. CASE \E m \in Managers, r \in Liabilities, b \in BOOLEAN : Release(m, r, b)
  BY <1>5, CloseImplemented DEF Promise!Next
<1>6. CASE \E m \in Managers, r \in Liabilities : Resolve(m, r)
  BY <1>6, StrandImplemented DEF Promise!Next
<1>7. CASE \E m \in Managers, r \in Liabilities, c \in Costs, b \in BOOLEAN : Charge(m, r, c, b)
  BY <1>7, SpendImplemented DEF Promise!Next
<1>8. CASE \E m \in Managers, s \in Sources, c \in Costs, b \in BOOLEAN : ChargeUnreserved(m, s, c, b)
  BY <1>8, OthersImplemented
<1>9. CASE WindowPasses
  BY <1>9, WindowImplemented DEF Promise!Next
<1> QED
  BY <1>1, <1>2, <1>3, <1>4, <1>5, <1>6, <1>7, <1>8, <1>9 DEF BudgetNext

\* Both begin empty.
LEMMA PromiseInit == BudgetInit => Promise!Init
<1> SUFFICES ASSUME BudgetInit PROVE Promise!Init
  OBVIOUS
<1>1. \A r \in Liabilities : row[r] = NoRow /\ ~Live(r) /\ Standing[r] = [state |-> "none"]
  BY Stands DEF BudgetInit, Live, NoRow
<1>2. Owed = [r \in Liabilities |-> 0]
  BY <1>1 DEF Owed, Counted
<1>3. Standing = [r \in Liabilities |-> [state |-> "none"]]
  BY <1>1 DEF Standing
<1>4. Dead = {}
  BY DEF BudgetInit, Dead
<1> QED
  BY <1>2, <1>3, <1>4 DEF BudgetInit, Promise!Init

\* The wallet implements its promise: money is let in only where it fits under the
\* limits with what is still owed, is owed until it is spent or settled, and only the
\* dead strand what they owed (unified-budget.ts), for any processes and limits.
THEOREM PromiseKept == BudgetSpec => ImplementsPromise
<1>1. WInv /\ [BudgetNext]_bvars => [Promise!Next]_(Promise!pvars)
  <2> SUFFICES ASSUME WInv, [BudgetNext]_bvars PROVE Promise!Next \/ UNCHANGED <<Dead, Standing, Owed, spent>>
    BY DEF Promise!pvars
  <2>1. CASE UNCHANGED bvars
    <3>1. UNCHANGED <<mstate, row, spent>>
      BY <2>1 DEF bvars
    <3> QED
      BY <3>1, SameRows DEF Dead
  <2> QED
    BY <2>1, PromiseNext
<1> QED
  BY <1>1, WInvInit, WInvNext, PromiseInit, PTL DEF BudgetSpec, ImplementsPromise, Promise!Spec

---------------------------------------------------------------------------
(* The chain of providers.                                                   *)

\* A set of numbers has a least one.
LEMMA LeastNat ==
  ASSUME NEW T \in SUBSET Nat, T # {}
  PROVE  \E m \in T : \A k \in T : m <= k
<1>1. PICK m \in T : \A k \in T : <<k, m>> \notin OpToRel(<, Nat)
  BY WFMin, NatLessThanWellFounded, Zenon
<1>2. \A k \in T : ~(k < m)
  BY <1>1, Zenon DEF OpToRel
<1> QED
  BY <1>2

\* The type of a call.
CallRecord ==
  [pc : {"idle", "wait", "probe", "attempt", "pause", "done"}, at : 0 .. ChainLength,
   again : {"no", "stall", "empty"}, voices : Nat, owes : BOOLEAN, lost : BOOLEAN,
   cancelled : BOOLEAN, stalled : BOOLEAN, out : Outcomes \cup {"none"}, carried : BOOLEAN]

\* The record of a member: a healthy one is on no bench, a degraded one on the short
\* one, and only with the failures for it.
Bench(h) ==
  /\ h \in Health
  /\ h.status = "healthy" => h.left = 0
  /\ h.status = "degraded" => h.left = 0 \/ (h.left = 1 /\ h.fails >= DegradedThreshold)

\* A call that has not ended has given no text, and what it owes is counted, but in
\* the pause after an empty answer: it is counted when that ends.
Underway(r) ==
  /\ r \in CallRecord /\ r.voices = 0 /\ r.out = "none"
  /\ r.pc \in {"probe", "attempt", "pause"} => r.at \in Members
  /\ r.owes => r.lost \/ (r.pc = "pause" /\ r.again = "empty")
\* A call that has ended.
Over(r) ==
  /\ r \in CallRecord /\ r.pc = "done" /\ r.voices <= 1 /\ r.out # "none"
  /\ r.out \in {"answered", "exhausted", "refused", "stalled", "cancelled"} /\ r.owes => r.carried

\* The registry and its copy on disk agree but for counts of failures.
CHealth ==
  /\ entry \in [Members -> Health] /\ onDisk \in [Members -> Health]
  /\ \A m \in Members : /\ Bench(entry[m]) /\ Bench(onDisk[m])
                         /\ onDisk[m].status = entry[m].status /\ onDisk[m].left = entry[m].left
\* Every call is under way or over.
CCalls ==
  /\ call \in [Calls -> CallRecord]
  /\ \A c \in Calls : IF call[c].pc = "done" THEN Over(call[c]) ELSE Underway(call[c])
\* A call that waits for a probe waits for one in flight.
CProbes ==
  /\ probing \subseteq Members
  /\ \A c \in Calls : call[c].pc = "probe" => call[c].at \in probing
\* The inductive invariant.
CInv == CHealth /\ CCalls /\ CProbes

\* The constants.
LEMMA ChainConstants ==
  /\ ChainLength \in Nat \ {0} /\ DegradedThreshold \in Nat \ {0} /\ DownThreshold \in Nat
  /\ DegradedThreshold <= DownThreshold
BY ChainAssumption

\* A later failure does not take a longer bench away.
LEMMA Holding ==
  ASSUME NEW h, Bench(h), NEW e, Bench(e), h.status # "down" => h.left <= e.left
  PROVE  Bench(Hold(h, e)) /\ Hold(h, e).left >= h.left
<1>1. h \in Health /\ e \in Health /\ h.left \in 0..3 /\ e.left \in 0..3
  BY DEF Bench, Health
<1>2. CASE h.status = "down" /\ h.left > e.left
  <2>1. Hold(h, e) = [e EXCEPT !.status = "down", !.left = h.left]
    BY <1>2 DEF Hold
  <2>2. Hold(h, e) \in Health /\ Hold(h, e).status = "down" /\ Hold(h, e).left = h.left
    BY <1>1, <2>1 DEF Health
  <2> QED
    BY <1>1, <2>2 DEF Bench
<1>3. CASE ~(h.status = "down" /\ h.left > e.left)
  <2>1. Hold(h, e) = e
    BY <1>3 DEF Hold
  <2> QED
    BY <1>1, <1>3, <2>1
<1> QED
  BY <1>2, <1>3

\* Nor does one that benches.
LEMMA Downing ==
  ASSUME NEW h, Bench(h), NEW class \in 1..3
  PROVE  /\ Bench(Down(h, class)) /\ Down(h, class).left >= h.left
         /\ Bench(Walled(h, class)) /\ Walled(h, class).left >= h.left
<1>1. h.fails + 1 \in Nat /\ h.left \in 0..3 /\ class \in 0..3 /\ h.status \in {"healthy", "degraded", "down"}
  BY DEF Bench, Health
<1>2. Bench(Down(h, class)) /\ Down(h, class).left >= h.left
  <2> DEFINE e == [status |-> "down", fails |-> h.fails + 1, left |-> class]
  <2>1. e \in Health /\ e.status = "down" /\ e.left = class
    BY <1>1 DEF Health
  <2>2. Down(h, class) = Hold(h, e)
    BY DEF Down
  <2> HIDE DEF e
  <2>3. Bench(e)
    BY <2>1 DEF Bench
  <2>4. h.status # "down" => h.left <= e.left
    BY <1>1, <2>1 DEF Bench
  <2> QED
    BY <2>2, <2>3, <2>4, Holding
<1>3. Bench(Walled(h, class)) /\ Walled(h, class).left >= h.left
  <2>1. /\ Walled(h, class) \in Health /\ Walled(h, class).status = "down"
        /\ Walled(h, class).left = IF h.left > class THEN h.left ELSE class
    BY <1>1 DEF Walled, Health
  <2> QED
    BY <1>1, <2>1 DEF Bench
<1> QED
  BY <1>2, <1>3

\* Nor a counted failure, whichever threshold it meets.
LEMMA Failing ==
  ASSUME NEW h, Bench(h)
  PROVE  Bench(FailureRecorded(h)) /\ FailureRecorded(h).left >= h.left
<1>1. h.fails \in Nat /\ h.left \in 0..3 /\ h.status \in {"healthy", "degraded", "down"}
  BY DEF Bench, Health
<1>2. CASE h.fails + 1 >= DownThreshold
  <2>1. FailureRecorded(h) = Down(h, 2)
    BY <1>1, <1>2, ChainConstants DEF FailureRecorded
  <2> QED
    BY <2>1, Downing
<1>3. CASE h.fails + 1 >= DegradedThreshold /\ h.fails + 1 < DownThreshold
  <2> DEFINE e == [status |-> "degraded", fails |-> h.fails + 1, left |-> 1]
  <2>1. FailureRecorded(h) = Hold(h, e)
    BY <1>1, <1>3, ChainConstants DEF FailureRecorded
  <2>2. e \in Health /\ e.status = "degraded" /\ e.left = 1 /\ e.fails >= DegradedThreshold
    BY <1>1, <1>3 DEF Health
  <2> HIDE DEF e
  <2>3. Bench(e) /\ (h.status # "down" => h.left <= e.left)
    BY <1>1, <2>2 DEF Bench
  <2> QED
    BY <2>1, <2>3, Holding
<1>4. CASE h.fails + 1 < DegradedThreshold
  <2> DEFINE e == [status |-> "healthy", fails |-> h.fails + 1, left |-> 0]
  <2>1. FailureRecorded(h) = Hold(h, e)
    BY <1>1, <1>4, ChainConstants DEF FailureRecorded
  <2>2. e \in Health /\ e.status = "healthy" /\ e.left = 0
    BY <1>1 DEF Health
  <2> HIDE DEF e
  <2>3. h.status # "down" => h.left <= e.left
    BY <1>1, <1>4, <2>2, ChainConstants DEF Bench
  <2>4. Bench(e)
    BY <2>2 DEF Bench
  <2> QED
    BY <2>1, <2>3, <2>4, Holding
<1> QED
  BY <1>1, <1>2, <1>3, <1>4, ChainConstants

\* No failure shortens a bench.
LEMMA Charges ==
  ASSUME NEW h, Bench(h), NEW kind \in FailKinds, NEW midStream \in BOOLEAN
  PROVE  /\ Bench(AttemptCharge(h, kind, midStream)) /\ AttemptCharge(h, kind, midStream).left >= h.left
         /\ Bench(ProbeCharge(h, kind)) /\ ProbeCharge(h, kind).left >= h.left
<1>0. h.left \in 0..3
  BY DEF Bench, Health
<1>1. Bench(Classified(h, kind)) /\ Classified(h, kind).left >= h.left
  <2>1. CASE kind = "overload"
    BY <2>1, Downing DEF Classified, Overloaded
  <2>2. CASE kind = "quota"
    BY <2>2, Downing DEF Classified
  <2>3. CASE kind = "billing"
    BY <2>3, Downing DEF Classified
  <2>4. CASE kind = "model"
    BY <1>0, <2>4 DEF Classified
  <2>5. CASE kind \in {"credential", "request", "other"}
    <3>1. Classified(h, kind) = FailureRecorded(h)
      BY <2>5 DEF Classified
    <3> QED
      BY <3>1, Failing
  <2> QED
    BY <2>1, <2>2, <2>3, <2>4, <2>5 DEF FailKinds
<1>2. CASE kind = "credential"
  <2>1. Bench(CredentialRejected(h)) /\ CredentialRejected(h).left >= h.left
    BY Downing DEF CredentialRejected
  <2>2. /\ Bench(CredentialRejected(FailureRecorded(h)))
        /\ CredentialRejected(FailureRecorded(h)).left >= FailureRecorded(h).left
    BY Downing, Failing DEF CredentialRejected
  <2>3. FailureRecorded(h).left \in 0..3 /\ CredentialRejected(FailureRecorded(h)).left \in 0..3
    BY <2>2, Failing DEF Bench, Health
  <2>4. FailureRecorded(h).left >= h.left
    BY Failing
  <2>5. CredentialRejected(FailureRecorded(h)).left >= h.left
    BY <1>0, <2>2, <2>3, <2>4
  <2> QED
    BY <1>1, <1>2, <2>1, <2>2, <2>5 DEF AttemptCharge, ProbeCharge
<1>3. CASE kind # "credential"
  BY <1>1, <1>3 DEF AttemptCharge, ProbeCharge
<1> QED
  BY <1>2, <1>3

\* An answer charges nobody, and that of a probe that changes a record leaves it degraded.
LEMMA AnswersMild ==
  ASSUME NEW h, Bench(h)
  PROVE  /\ Bench(Answered(h)) /\ Answered(h).fails <= h.fails
         /\ Bench(ProbeAnswered(h)) /\ ProbeAnswered(h).fails <= h.fails
         /\ ProbeAnswered(h) = h \/ ProbeAnswered(h).status = "degraded"
BY DEF Bench, Health, Answered, ProbeAnswered, Sound

\* How a call that is under way ends.
LEMMA Endings ==
  ASSUME NEW r \in CallRecord, r.voices <= 1, NEW how \in Outcomes
  PROVE  /\ CallEndsBare(r, how) \in CallRecord /\ CallEndsBare(r, how).pc = "done"
         /\ CallEndsBare(r, how).at = 0 /\ CallEndsBare(r, how).out = how
         /\ how \notin {"answered", "exhausted", "refused", "stalled", "cancelled"} => Over(CallEndsBare(r, how))
         /\ CallEnds(r, how) \in CallRecord /\ CallEnds(r, how).pc = "done"
         /\ CallEnds(r, how).at = 0 /\ CallEnds(r, how).out = how
         /\ (r.owes => r.lost)
              => Over(CallEnds(r, how))
<1> DEFINE e == CallEndsBare(r, how)
           f == CallEnds(r, how)
<1>1. /\ Unmade \in CallRecord /\ Unmade.at = 0
  BY ChainConstants DEF CallRecord, Unmade, Outcomes
<1>3. r.voices \in Nat /\ r.owes \in BOOLEAN /\ r.lost \in BOOLEAN /\ 0 \in 0..ChainLength
  BY ChainConstants DEF CallRecord
<1>4. e \in CallRecord /\ e.pc = "done" /\ e.at = 0 /\ e.out = how /\ e.voices = r.voices /\ (e.owes <=> r.owes)
  BY <1>1, <1>3 DEF CallRecord, CallEndsBare
<1>5. /\ f \in CallRecord /\ f.pc = "done" /\ f.at = 0 /\ f.out = how /\ f.voices = r.voices
      /\ (f.owes <=> r.owes) /\ (f.carried <=> r.lost)
  BY <1>3, <1>4 DEF CallRecord, CallEnds
<1>6. how # "none"
  BY DEF Outcomes
<1> HIDE DEF e, f
<1>9. how \notin {"answered", "exhausted", "refused", "stalled", "cancelled"} => Over(e)
  BY <1>4, <1>6 DEF Over
<1>10. (r.owes => r.lost) => Over(f)
  BY <1>5, <1>6 DEF Over
<1> QED
  BY <1>4, <1>5, <1>9, <1>10 DEF e, f

\* A call that is cut off while it waits may leave what it owes uncounted.
LEMMA CutShort ==
  ASSUME NEW r \in CallRecord, r.voices <= 1
  PROVE  /\ CallEnds(r, "cut") \in CallRecord /\ CallEnds(r, "cut").pc = "done"
         /\ CallEnds(r, "cut").at = 0 /\ Over(CallEnds(r, "cut"))
<1> DEFINE e == CallEndsBare(r, "cut")
           f == CallEnds(r, "cut")
<1>1. Unmade \in CallRecord /\ r.voices \in Nat /\ r.owes \in BOOLEAN /\ r.lost \in BOOLEAN
  BY ChainConstants DEF CallRecord, Unmade, Outcomes
<1>2. "cut" \in Outcomes
  BY DEF Outcomes
<1>3. e \in CallRecord /\ e.voices = r.voices
  BY <1>1, <1>2 DEF CallRecord, CallEndsBare
<1>4. f \in CallRecord /\ f.pc = "done" /\ f.at = 0 /\ f.out = "cut"
  BY <1>2, Endings
<1>5. f.voices = r.voices
  BY <1>3 DEF CallEnds, CallRecord
<1> HIDE DEF f
<1>6. Over(f)
  BY <1>4, <1>5 DEF Over
<1> QED
  BY <1>4, <1>6 DEF f

\* A call whose lost tokens are counted, between two members.
Ready(r) == r \in CallRecord /\ r.voices = 0 /\ r.out = "none" /\ (r.owes => r.lost)

\* Where the loop goes from member m on: to a later member, or to its end.
LEMMA Going ==
  ASSUME NEW r, Ready(r), NEW m \in 1 .. ChainLength + 1, NEW e \in [Members -> Health]
  PROVE  /\ GoTo(r, m, e).pc = "done" => Over(GoTo(r, m, e)) /\ GoTo(r, m, e).at = 0
         /\ GoTo(r, m, e).pc # "done" => /\ Underway(GoTo(r, m, e)) /\ ~r.stalled
                                         /\ GoTo(r, m, e).at \in m .. ChainLength
<1> DEFINE open == {k \in m .. ChainLength : Available(e, k)}
           next == CHOOSE k \in open : \A j \in open : k <= j
           given == m <= ChainLength /\ r.stalled
<1>1. r \in CallRecord /\ r.voices <= 1 /\ {"stalled", "exhausted"} \subseteq Outcomes
  BY DEF Ready, Outcomes
<1>2. CASE given
  <2>1. GoTo(r, m, e) = CallEnds(r, "stalled")
    BY <1>2 DEF GoTo
  <2> QED
    BY <1>1, <2>1, Endings DEF Ready
<1>3. CASE ~given /\ open = {}
  <2>1. GoTo(r, m, e) = CallEnds(r, "exhausted")
    BY <1>3 DEF GoTo
  <2> QED
    BY <1>1, <2>1, Endings DEF Ready
<1>4. CASE ~given /\ open # {}
  <2>1. open \in SUBSET Nat
    BY ChainConstants
  <2>2. \E k \in open : \A j \in open : k <= j
    <3> HIDE DEF open
    <3> QED
      BY <1>4, <2>1, LeastNat
  <2>3. next \in open
    BY <2>2
  <2>4. next \in m .. ChainLength /\ next \in Members /\ next \in 0 .. ChainLength
    <3> HIDE DEF next
    <3> QED
      BY <2>3, ChainConstants DEF Members
  <2>5. ~r.stalled
    BY <1>4, <2>4, ChainConstants
  <2>6. GoTo(r, m, e) = [r EXCEPT !.at = next, !.again = "no",
                                  !.pc = IF Recovering(e, next) THEN "probe" ELSE "attempt"]
    BY <1>4 DEF GoTo
  <2> HIDE DEF next
  <2>7. /\ GoTo(r, m, e) \in CallRecord /\ GoTo(r, m, e).at = next /\ GoTo(r, m, e).pc \in {"probe", "attempt"}
        /\ GoTo(r, m, e).voices = r.voices /\ GoTo(r, m, e).out = r.out
        /\ (GoTo(r, m, e).owes <=> r.owes) /\ (GoTo(r, m, e).lost <=> r.lost)
    BY <1>1, <2>4, <2>6 DEF CallRecord
  <2> QED
    BY <2>4, <2>5, <2>7 DEF Ready, Underway
<1> QED
  BY <1>2, <1>3, <1>4

\* One record of the registry.
LEMMA Recording ==
  ASSUME CHealth, NEW m \in Members, NEW h, Bench(h), Record(m, h)
  PROVE  CHealth' /\ entry' = [entry EXCEPT ![m] = h]
<1>1. /\ entry' = [entry EXCEPT ![m] = h] /\ h \in Health
      /\ entry \in [Members -> Health] /\ onDisk \in [Members -> Health]
  BY DEF Record, Bench, CHealth
<1>2. entry' \in [Members -> Health] /\ \A x \in Members : entry'[x] = IF x = m THEN h ELSE entry[x]
  BY <1>1
<1>3. \A x \in Members : Bench(entry'[x])
  BY <1>2 DEF CHealth
<1>4. CASE h.status = entry[m].status /\ h.left = entry[m].left
  <2>1. onDisk' = onDisk
    BY <1>4 DEF Record
  <2> QED
    BY <1>1, <1>2, <1>3, <1>4, <2>1 DEF CHealth
<1>5. CASE ~(h.status = entry[m].status /\ h.left = entry[m].left)
  <2>1. onDisk' = entry'
    BY <1>5 DEF Record
  <2> QED
    BY <1>1, <1>2, <1>3, <2>1 DEF CHealth
<1> QED
  BY <1>4, <1>5

\* One call moves on: what the new record has to be.
LEMMA Moving ==
  ASSUME CCalls, CProbes, NEW c \in Calls, NEW r, Moves(c, r), r \in CallRecord,
         IF r.pc = "done" THEN Over(r) ELSE Underway(r)
  PROVE  /\ CCalls' /\ CProbes' /\ call'[c] = r /\ probing \subseteq probing'
         /\ \A d \in Calls : d # c => call'[d] = call[d]
<1>1. /\ call' = [call EXCEPT ![c] = r] /\ call \in [Calls -> CallRecord]
      /\ probing' = IF r.pc = "probe" THEN probing \cup {r.at} ELSE probing
  BY DEF Moves, CCalls
<1>2. call' \in [Calls -> CallRecord] /\ call'[c] = r /\ \A d \in Calls : d # c => call'[d] = call[d]
  BY <1>1
<1>3. CCalls'
  BY <1>2 DEF CCalls
<1>4. r.pc = "probe" => r.at \in Members
  BY DEF Underway
<1>5. CProbes'
  BY <1>1, <1>2, <1>4 DEF CProbes
<1> QED
  BY <1>1, <1>2, <1>3, <1>5

\* What becomes of a call whose attempt has failed: a later member, or its end.
LEMMA AfterFailing ==
  ASSUME NEW r, Ready(r), r.at \in Members, NEW e \in [Members -> Health], NEW kind \in FailKinds,
         NEW abortLike \in BOOLEAN
  PROVE  /\ AfterFailure(r, kind, abortLike, e).pc = "done" =>
              /\ Over(AfterFailure(r, kind, abortLike, e)) /\ AfterFailure(r, kind, abortLike, e).at = 0
         /\ AfterFailure(r, kind, abortLike, e).pc # "done" =>
              /\ Underway(AfterFailure(r, kind, abortLike, e)) /\ ~r.stalled
              /\ AfterFailure(r, kind, abortLike, e).at \in r.at + 1 .. ChainLength
<1> DEFINE q == AfterFailure(r, kind, abortLike, e)
<1>1. r.at + 1 \in 1 .. ChainLength + 1
  BY ChainConstants DEF Members
<1>2. r \in CallRecord /\ r.voices <= 1 /\ {"stalled", "exhausted", "refused", "quota", "timedout"} \subseteq Outcomes
  BY DEF Ready, Outcomes
<1>3. CASE q = GoTo(r, r.at + 1, e)
  BY <1>1, <1>3, Going
<1>4. CASE \E how \in {"stalled", "exhausted", "refused"} : q = CallEnds(r, how)
  BY <1>2, <1>4, Endings DEF Ready
<1>5. CASE \E how \in {"quota", "timedout"} : q = CallEndsBare(r, how)
  BY <1>2, <1>5, Endings
<1>6. \/ q = GoTo(r, r.at + 1, e) \/ \E how \in {"quota", "timedout"} : q = CallEndsBare(r, how)
      \/ \E how \in {"stalled", "exhausted", "refused"} : q = CallEnds(r, how)
  <2> DEFINE remaining == AvailableAfter(e, r.at)
  <2>1. CASE kind = "credential"
    BY <2>1 DEF AfterFailure
  <2>2. CASE kind = "request"
    BY <2>2 DEF AfterFailure
  <2>3. CASE kind \notin {"credential", "request"} /\ remaining = {}
    BY <2>3 DEF AfterFailure
  <2>4. CASE kind \notin {"credential", "request"} /\ remaining # {}
    BY <2>4 DEF AfterFailure
  <2> QED
    BY <2>1, <2>2, <2>3, <2>4
<1> QED
  BY <1>3, <1>4, <1>5, <1>6

\* What each step is shown to do.
Kept == CInv' /\ BenchHolds /\ ChargeEarned /\ NotHandedOn

\* A step of one call that leaves the registry alone.
LEMMA CallKept ==
  ASSUME CInv, NEW c \in Calls, NEW r, Moves(c, r), Unrecorded, r \in CallRecord,
         IF r.pc = "done" THEN Over(r) ELSE Underway(r), call[c].stalled => r.at \in {call[c].at, 0}
  PROVE  Kept
<1>1. CCalls' /\ CProbes' /\ call'[c] = r /\ \A d \in Calls : d # c => call'[d] = call[d]
  BY Moving DEF CInv
<1>2. entry' = entry /\ onDisk' = onDisk
  BY DEF Unrecorded
<1>3. CHealth'
  BY <1>2 DEF CInv, CHealth, Bench
<1>4. BenchHolds /\ ChargeEarned
  <2>1. \A m \in Members : entry[m].left \in 0..3 /\ entry[m].fails \in Nat
    BY DEF CInv, CHealth, Health
  <2> QED
    BY <1>2, <2>1 DEF BenchHolds, ChargeEarned
<1>5. NotHandedOn
  BY <1>1 DEF NotHandedOn
<1> QED
  BY <1>1, <1>3, <1>4, <1>5 DEF CInv, Kept

\* An attempt that fails: nobody else is charged, and nobody once it is cancelled.
LEMMA ThrowKept ==
  ASSUME CInv, NEW c \in Calls, Trying(c), NEW r \in CallRecord, NEW kind \in FailKinds,
         NEW delivered \in Delivered, AttemptThrows(c, r, kind, delivered),
         r.out = "none", r.voices <= 1, delivered # "text" => r.voices = 0, r.owes => r.lost, r.at = call[c].at,
         r.stalled <=> call[c].stalled, r.cancelled <=> call[c].cancelled
  PROVE  Kept
<1> DEFINE midStream == delivered \in {"blank", "text"}
           aborted == delivered = "aborted"
<1>0. call[c] \in CallRecord /\ call[c].pc = "attempt" /\ Underway(call[c]) /\ r.at \in Members
  BY DEF CInv, CCalls, Trying, Underway
<1>1. CASE r.cancelled
  <2> DEFINE q == CallEnds(r, "cancelled")
  <2>1. Unrecorded /\ Moves(c, q)
    BY <1>1 DEF AttemptThrows
  <2>2. q \in CallRecord /\ q.pc = "done" /\ q.at = 0 /\ Over(q)
    BY Endings DEF Outcomes
  <2> HIDE DEF q
  <2> QED
    BY <2>1, <2>2, CallKept
<1>2. CASE ~r.cancelled
  <2> DEFINE h == AttemptCharge(entry[r.at], kind, midStream)
             q == IF midStream THEN CallEndsBare(r, "midstream")
                  ELSE AfterFailure(r, kind, aborted, entry')
  <2>1. Record(r.at, h) /\ Moves(c, q)
    BY <1>2 DEF AttemptThrows
  <2>2. Bench(h) /\ h.left >= entry[r.at].left
    <3>1. Bench(entry[r.at]) /\ midStream \in BOOLEAN
      BY <1>0 DEF CInv, CHealth
    <3> HIDE DEF midStream
    <3> QED
      BY <3>1, Charges
  <2>3. CHealth' /\ entry' = [entry EXCEPT ![r.at] = h] /\ entry \in [Members -> Health]
    BY <1>0, <2>1, <2>2, Recording DEF CInv, CHealth
  <2>4. /\ q \in CallRecord /\ IF q.pc = "done" THEN Over(q) ELSE Underway(q)
        /\ r.stalled => q.at = 0
        /\ q.pc = "done" \/ q.at # r.at
    <3>1. CASE midStream
      <4>1. q = CallEndsBare(r, "midstream")
        BY <3>1
      <4>2. "midstream" \in Outcomes
        BY DEF Outcomes
      <4> HIDE DEF q
      <4> QED
        BY <4>1, <4>2, Endings
    <3>2. CASE ~midStream
      <4>1. q = AfterFailure(r, kind, aborted, entry') /\ aborted \in BOOLEAN /\ Ready(r) /\ entry' \in [Members -> Health]
        BY <2>3, <3>2 DEF Ready, CHealth
      <4>2. r.at \in Nat /\ ChainLength \in Nat
        BY <1>0, ChainConstants DEF Members
      <4> HIDE DEF q
      <4>3. /\ q.pc = "done" => Over(q) /\ q.at = 0
            /\ q.pc # "done" => Underway(q) /\ ~r.stalled /\ q.at \in r.at + 1 .. ChainLength
        BY <1>0, <4>1, AfterFailing
      <4> QED
        BY <4>2, <4>3 DEF Over, Underway
    <3> QED
      BY <3>1, <3>2
  <2> HIDE DEF h, q
  <2>5. CCalls' /\ CProbes' /\ call'[c] = q /\ \A d \in Calls : d # c => call'[d] = call[d]
    BY <2>1, <2>4, Moving DEF CInv
  <2>6. BenchHolds
    <3>1. \A m \in Members : entry'[m].left >= entry[m].left /\ entry'[m].left \in 0..3 /\ entry[m].left \in 0..3
      BY <2>2, <2>3 DEF Health, Bench, CHealth
    <3> QED
      BY <3>1 DEF BenchHolds
  <2>7. ChargeEarned
    <3>1. call'[c] # call[c]
      BY <1>0, <2>4, <2>5
    <3>2. \A m \in Members : m # r.at => entry'[m] = entry[m] /\ entry[m].fails \in Nat
      BY <2>3 DEF Health
    <3> QED
      BY <1>2, <3>1, <3>2 DEF ChargeEarned
  <2>8. NotHandedOn
    BY <2>4, <2>5 DEF NotHandedOn
  <2> QED
    BY <2>3, <2>5, <2>6, <2>7, <2>8 DEF CInv, Kept
<1> QED
  BY <1>1, <1>2

\* A call starts.
LEMMA CallStartsKept ==
  ASSUME CInv, NEW c \in Calls, CallStarts(c)
  PROVE  Kept
<1>1. call[c] \in CallRecord /\ call[c].pc = "idle" /\ Underway(call[c]) /\ Unrecorded
  BY DEF CInv, CCalls, CallStarts
<1>2. Ready(call[c])
  BY <1>1 DEF Underway, Ready
<1>3. CASE Moves(c, [call[c] EXCEPT !.pc = "wait"])
  <2> DEFINE q == [call[c] EXCEPT !.pc = "wait"]
  <2>1. /\ q \in CallRecord /\ q.pc = "wait" /\ q.at = call[c].at /\ q.voices = call[c].voices
        /\ q.out = call[c].out /\ (q.owes <=> call[c].owes) /\ (q.lost <=> call[c].lost)
    BY <1>1 DEF CallRecord
  <2>2. Moves(c, q)
    BY <1>3
  <2> HIDE DEF q
  <2>3. Underway(q)
    BY <1>2, <2>1 DEF Underway, Ready
  <2> QED
    BY <1>1, <2>1, <2>2, <2>3, CallKept
<1>4. CASE Moves(c, GoTo(call[c], 1, entry))
  <2> DEFINE q == GoTo(call[c], 1, entry)
  <2>1. 1 \in 1 .. ChainLength + 1 /\ entry \in [Members -> Health]
    BY ChainConstants DEF CInv, CHealth
  <2>2. /\ q.pc = "done" => Over(q) /\ q.at = 0
        /\ q.pc # "done" => Underway(q) /\ ~call[c].stalled
    BY <1>2, <2>1, Going
  <2>3. Moves(c, q)
    BY <1>4
  <2> HIDE DEF q
  <2>4. q \in CallRecord
    BY <2>2 DEF Over, Underway
  <2> QED
    BY <1>1, <2>2, <2>3, <2>4, CallKept
<1> QED
  BY <1>3, <1>4 DEF CallStarts

\* A call has waited for a bench.
LEMMA RecoveryWaitEndsKept ==
  ASSUME CInv, NEW c \in Calls, RecoveryWaitEnds(c)
  PROVE  Kept
<1>1. call[c] \in CallRecord /\ call[c].pc = "wait" /\ Underway(call[c]) /\ Unrecorded
  BY DEF CInv, CCalls, RecoveryWaitEnds
<1>2. Ready(call[c])
  BY <1>1 DEF Underway, Ready
<1> DEFINE q == GoTo(call[c], 1, entry)
<1>3. 1 \in 1 .. ChainLength + 1 /\ entry \in [Members -> Health]
  BY ChainConstants DEF CInv, CHealth
<1>4. /\ q.pc = "done" => Over(q) /\ q.at = 0
      /\ q.pc # "done" => Underway(q) /\ ~call[c].stalled
  BY <1>2, <1>3, Going
<1>5. Moves(c, q)
  BY DEF RecoveryWaitEnds
<1> HIDE DEF q
<1>6. q \in CallRecord
  BY <1>4 DEF Over, Underway
<1> QED
  BY <1>1, <1>4, <1>5, <1>6, CallKept

\* A member answers.
LEMMA AttemptAnswersKept ==
  ASSUME CInv, NEW c \in Calls, AttemptAnswers(c)
  PROVE  Kept
<1>1. call[c] \in CallRecord /\ call[c].pc = "attempt" /\ Underway(call[c]) /\ Trying(c)
  BY DEF CInv, CCalls, AttemptAnswers, Trying
<1> DEFINE m == call[c].at
           h == Answered(entry[call[c].at])
           r == [call[c] EXCEPT !.voices = @ + 1]
           q == CallEnds([call[c] EXCEPT !.voices = @ + 1], "answered")
<1>2. m \in Members /\ Record(m, h) /\ Moves(c, q)
  BY <1>1 DEF AttemptAnswers, Underway
<1>3. Bench(h) /\ h.fails <= entry[m].fails
  BY <1>2, AnswersMild DEF CInv, CHealth
<1>4. /\ r \in CallRecord /\ r.voices = 1 /\ (r.owes <=> call[c].owes) /\ (r.lost <=> call[c].lost)
  BY <1>1 DEF Underway, CallRecord
<1>5. r.owes => r.lost
  BY <1>1, <1>4 DEF Underway
<1>6. "answered" \in Outcomes
  BY DEF Outcomes
<1>7. q = CallEnds(r, "answered")
  OBVIOUS
<1> HIDE DEF m, h, r, q
<1>8. q \in CallRecord /\ q.pc = "done" /\ q.at = 0 /\ q.out = "answered" /\ Over(q)
  BY <1>4, <1>5, <1>6, <1>7, Endings
<1>9. CHealth' /\ entry' = [entry EXCEPT ![m] = h] /\ entry \in [Members -> Health]
  BY <1>2, <1>3, Recording DEF CInv, CHealth
<1>10. CCalls' /\ CProbes' /\ call'[c] = q /\ \A d \in Calls : d # c => call'[d] = call[d]
  BY <1>2, <1>8, Moving DEF CInv
<1>11. \A x \in Members : x # m => entry'[x] = entry[x]
  BY <1>2, <1>9
<1>12. \A x \in Members : entry[x].left \in 0..3 /\ entry[x].fails \in Nat
  BY <1>9 DEF Health
<1>13. BenchHolds
  <2>1. call[c].at = m
    BY DEF m
  <2>2. \A x \in Members : entry'[x].left < entry[x].left => x = m
    BY <1>11, <1>12
  <2> QED
    BY <1>1, <1>8, <1>10, <2>1, <2>2 DEF BenchHolds
<1>14. ChargeEarned
  <2>1. entry'[m] = h /\ h.fails \in Nat
    BY <1>2, <1>3, <1>9 DEF Bench, Health
  <2>2. \A x \in Members : ~(entry'[x].fails > entry[x].fails)
    BY <1>3, <1>11, <1>12, <2>1
  <2> QED
    BY <2>2 DEF ChargeEarned
<1>15. NotHandedOn
  BY <1>8, <1>10 DEF NotHandedOn
<1> QED
  BY <1>9, <1>10, <1>13, <1>14, <1>15 DEF CInv, Kept

\* A member answers with nothing.
LEMMA AttemptEmptyKept ==
  ASSUME CInv, NEW c \in Calls, AttemptEmpty(c)
  PROVE  Kept
<1>1. call[c] \in CallRecord /\ call[c].pc = "attempt" /\ Underway(call[c]) /\ Trying(c)
  BY DEF CInv, CCalls, AttemptEmpty, Trying
<1> DEFINE r == [call[c] EXCEPT !.owes = TRUE]
           counted == [r EXCEPT !.lost = TRUE]
           paused == [r EXCEPT !.pc = "pause", !.again = "empty"]
<1>2. /\ r \in CallRecord /\ r.at = call[c].at /\ r.voices = 0 /\ r.out = "none" /\ r.owes
      /\ (r.stalled <=> call[c].stalled) /\ (r.cancelled <=> call[c].cancelled)
  BY <1>1 DEF CallRecord, Underway
<1>3. /\ counted \in CallRecord /\ counted.at = call[c].at /\ counted.voices = 0 /\ counted.out = "none"
      /\ counted.lost /\ (counted.stalled <=> call[c].stalled) /\ (counted.cancelled <=> call[c].cancelled)
  BY <1>2 DEF CallRecord
<1>4. /\ paused \in CallRecord /\ paused.at = call[c].at /\ paused.voices = 0 /\ paused.out = "none"
      /\ paused.pc = "pause" /\ paused.again = "empty"
  BY <1>2 DEF CallRecord
<1>5. \/ AttemptThrows(c, counted, "other", "nothing")
      \/ Unrecorded /\ Moves(c, CallEnds(r, "cut"))
      \/ Unrecorded /\ Moves(c, paused)
  BY DEF AttemptEmpty
<1> HIDE DEF r, counted, paused
<1>6. CASE AttemptThrows(c, counted, "other", "nothing")
  <2>1. "other" \in FailKinds /\ "nothing" \in Delivered
    BY DEF FailKinds, Delivered
  <2>2. counted.voices <= 1 /\ (counted.owes => counted.lost)
    BY <1>3
  <2> QED
    BY <1>1, <1>3, <1>6, <2>1, <2>2, ThrowKept
<1>7. CASE Unrecorded /\ Moves(c, CallEnds(r, "cut"))
  <2> DEFINE q == CallEnds(r, "cut")
  <2>2. q \in CallRecord /\ q.pc = "done" /\ q.at = 0 /\ Over(q)
    BY <1>2, CutShort
  <2> HIDE DEF q
  <2>4. Unrecorded /\ Moves(c, q)
    BY <1>7 DEF q
  <2> QED
    BY <2>2, <2>4, CallKept
<1>8. CASE Unrecorded /\ Moves(c, paused)
  <2>1. Underway(paused)
    BY <1>1, <1>4 DEF Underway
  <2> QED
    BY <1>4, <1>8, <2>1, CallKept
<1> QED
  BY <1>5, <1>6, <1>7, <1>8

\* A member is silent for too long.
LEMMA AttemptSilentKept ==
  ASSUME CInv, NEW c \in Calls, AttemptSilent(c)
  PROVE  Kept
<1>1. call[c] \in CallRecord /\ call[c].pc = "attempt" /\ Underway(call[c]) /\ Trying(c)
  BY DEF CInv, CCalls, AttemptSilent, Trying
<1> DEFINE paused == [call[c] EXCEPT !.pc = "pause", !.again = "stall"]
<1>2. CASE Unrecorded /\ Moves(c, paused)
  <2>1. /\ paused \in CallRecord /\ paused.at = call[c].at /\ paused.voices = call[c].voices
        /\ paused.out = call[c].out /\ paused.pc = "pause"
        /\ (paused.owes <=> call[c].owes) /\ (paused.lost <=> call[c].lost)
    BY <1>1 DEF CallRecord
  <2> HIDE DEF paused
  <2>2. Underway(paused)
    BY <1>1, <2>1 DEF Underway
  <2> QED
    BY <1>2, <2>1, <2>2, CallKept
<1>3. CASE AttemptThrows(c, call[c], "other", "nothing")
  <2>1. "other" \in FailKinds /\ "nothing" \in Delivered
    BY DEF FailKinds, Delivered
  <2>2. call[c].out = "none" /\ call[c].voices = 0 /\ (call[c].owes => call[c].lost)
    BY <1>1 DEF Underway
  <2> DEFINE r == call[c]
  <2>3. AttemptThrows(c, r, "other", "nothing")
    BY <1>3
  <2>4. /\ r \in CallRecord /\ r.at = call[c].at /\ r.out = "none" /\ r.voices = 0 /\ (r.owes => r.lost)
        /\ (r.stalled <=> call[c].stalled) /\ (r.cancelled <=> call[c].cancelled)
    BY <1>1, <2>2
  <2> HIDE DEF r
  <2> QED
    BY <1>1, <2>1, <2>3, <2>4, ThrowKept
<1> QED
  BY <1>2, <1>3 DEF AttemptSilent

\* An attempt fails, with or without text given.
LEMMA AttemptFailsKept ==
  ASSUME CInv, NEW c \in Calls, NEW kind \in FailKinds, NEW delivered \in Delivered,
         AttemptFails(c, kind, delivered)
  PROVE  Kept
<1>1. call[c] \in CallRecord /\ call[c].pc = "attempt" /\ Underway(call[c]) /\ Trying(c)
  BY DEF CInv, CCalls, AttemptFails, Trying
<1> DEFINE r == [call[c] EXCEPT !.voices = IF delivered = "text" THEN @ + 1 ELSE @]
<1>2. AttemptThrows(c, r, kind, delivered)
  BY DEF AttemptFails
<1>3. /\ r \in CallRecord /\ r.at = call[c].at /\ r.out = "none"
      /\ (r.owes <=> call[c].owes) /\ (r.lost <=> call[c].lost)
      /\ (r.stalled <=> call[c].stalled) /\ (r.cancelled <=> call[c].cancelled)
      /\ r.voices = IF delivered = "text" THEN 1 ELSE 0
  BY <1>1 DEF CallRecord, Underway
<1>4. r.owes => r.lost
  BY <1>1, <1>3 DEF Underway
<1>5. r.voices <= 1 /\ (delivered # "text" => r.voices = 0)
  BY <1>3
<1> HIDE DEF r
<1> QED
  BY <1>1, <1>2, <1>3, <1>4, <1>5, ThrowKept

\* The second attempt at the same member.
LEMMA PauseEndsKept ==
  ASSUME CInv, NEW c \in Calls, PauseEnds(c)
  PROVE  Kept
<1>1. call[c] \in CallRecord /\ call[c].pc = "pause" /\ Underway(call[c]) /\ Unrecorded
  BY DEF CInv, CCalls, PauseEnds
<1> DEFINE q == [call[c] EXCEPT !.pc = "attempt", !.lost = @ \/ call[c].again = "empty"]
<1>2. Moves(c, q)
  BY DEF PauseEnds
<1>3. /\ q \in CallRecord /\ q.at = call[c].at /\ q.voices = call[c].voices /\ q.out = call[c].out
      /\ q.pc = "attempt" /\ (q.owes <=> call[c].owes)
  BY <1>1 DEF CallRecord
<1>4. q.lost <=> (call[c].lost \/ call[c].again = "empty")
  BY <1>1 DEF CallRecord
<1> HIDE DEF q
<1>5. Underway(q)
  BY <1>1, <1>3, <1>4 DEF Underway
<1> QED
  BY <1>1, <1>2, <1>3, <1>5, CallKept

\* A call is cancelled from outside.
LEMMA CallCancelledKept ==
  ASSUME CInv, NEW c \in Calls, CallCancelled(c)
  PROVE  Kept
<1> DEFINE r == [call[c] EXCEPT !.cancelled = TRUE]
<1>1. /\ call[c] \in CallRecord /\ call[c].pc # "idle" /\ call[c].pc # "done" /\ Underway(call[c])
      /\ Unrecorded /\ probing' = probing /\ call \in [Calls -> CallRecord]
  BY DEF CInv, CCalls, CallCancelled, InFlight
<1>2. /\ r \in CallRecord /\ r.pc = call[c].pc /\ r.at = call[c].at /\ r.voices = 0 /\ r.out = "none"
      /\ r.again = call[c].again /\ (r.owes <=> call[c].owes) /\ (r.lost <=> call[c].lost)
  BY <1>1 DEF CallRecord, Underway
<1> DEFINE q == CASE r.pc = "attempt" -> r
                  [] r.pc = "pause" -> CallEnds(r, IF r.again = "stall" THEN "cancelled" ELSE "cut")
                  [] OTHER -> CallEndsBare(r, "cut")
<1>3. call' = [call EXCEPT ![c] = q]
  BY DEF CallCancelled
<1>4. {"cancelled", "cut"} \subseteq Outcomes
  BY DEF Outcomes
<1> HIDE DEF r
<1>5. /\ q \in CallRecord /\ q.pc # "probe" /\ q.at \in {call[c].at, 0}
      /\ IF q.pc = "done" THEN Over(q) ELSE Underway(q)
  <2>1. CASE r.pc = "attempt"
    <3>1. q = r
      BY <2>1
    <3> HIDE DEF q
    <3> QED
      BY <1>1, <1>2, <2>1, <3>1 DEF Underway
  <2>2. CASE r.pc = "pause" /\ r.again = "stall"
    <3>1. q = CallEnds(r, "cancelled")
      BY <2>2
    <3>2. r.owes => r.lost
      BY <1>1, <1>2, <2>2 DEF Underway
    <3> HIDE DEF q
    <3> QED
      BY <1>2, <1>4, <3>1, <3>2, Endings
  <2>3. CASE r.pc = "pause" /\ r.again # "stall"
    <3>1. q = CallEnds(r, "cut")
      BY <2>3
    <3> HIDE DEF q
    <3> QED
      BY <1>2, <3>1, CutShort
  <2>4. CASE r.pc \notin {"attempt", "pause"}
    <3>1. q = CallEndsBare(r, "cut")
      BY <2>4
    <3> HIDE DEF q
    <3> QED
      BY <1>2, <1>4, <3>1, Endings
  <2> QED
    BY <2>1, <2>2, <2>3, <2>4
<1>6. Moves(c, q)
  BY <1>1, <1>3, <1>5 DEF Moves
<1> HIDE DEF q
<1> QED
  BY <1>1, <1>5, <1>6, CallKept

\* Its caller gives it up.
LEMMA CallerGivesUpKept ==
  ASSUME CInv, NEW c \in Calls, CallerGivesUp(c)
  PROVE  Kept
<1>1. /\ call[c] \in CallRecord /\ call[c].pc # "done" /\ Underway(call[c])
      /\ Unrecorded /\ probing' = probing /\ call \in [Calls -> CallRecord]
      /\ call[c].pc = "probe" => call[c].at \in probing
  BY DEF CInv, CCalls, CProbes, CallerGivesUp, InFlight
<1> DEFINE q == [call[c] EXCEPT !.stalled = TRUE]
<1>2. call' = [call EXCEPT ![c] = q]
  BY <1>1 DEF CallerGivesUp
<1>3. /\ q \in CallRecord /\ q.pc = call[c].pc /\ q.at = call[c].at /\ q.voices = call[c].voices
      /\ q.out = call[c].out /\ q.again = call[c].again
      /\ (q.owes <=> call[c].owes) /\ (q.lost <=> call[c].lost)
  BY <1>1 DEF CallRecord
<1> HIDE DEF q
<1>4. Underway(q)
  BY <1>1, <1>3 DEF Underway
<1>5. Moves(c, q)
  BY <1>1, <1>2, <1>3 DEF Moves
<1> QED
  BY <1>1, <1>3, <1>4, <1>5, CallKept

\* A probe ends, and with it the wait of every call that joined it: none of them
\* waits for that member again.
LEMMA ProbeEndsKept ==
  ASSUME CInv, NEW m \in Members, NEW verdict \in FailKinds \cup {"ok"}, ProbeEnds(m, verdict)
  PROVE  Kept
<1> DEFINE waiting == {c \in Calls : call[c].pc = "probe" /\ call[c].at = m}
           h == IF verdict = "ok" THEN ProbeAnswered(entry[m]) ELSE ProbeCharge(entry[m], verdict)
           moved(c) == IF verdict = "ok" THEN [call[c] EXCEPT !.pc = "attempt"]
                       ELSE GoTo(call[c], m + 1, entry')
<1>1. m \in probing /\ Record(m, h)
  BY DEF ProbeEnds
<1>2. call' = [c \in Calls |-> IF c \notin waiting THEN call[c] ELSE moved(c)]
  BY DEF ProbeEnds
<1>3. probing' = (probing \ {m}) \cup {call'[c].at : c \in {d \in Calls : call'[d].pc = "probe"}}
  BY DEF ProbeEnds
<1>4. Bench(entry[m]) /\ entry[m] \in Health /\ entry \in [Members -> Health]
  BY DEF CInv, CHealth
<1>5. Bench(h) /\ (h.left >= entry[m].left \/ h.status = "degraded")
  <2>1. CASE verdict = "ok"
    <3>1. h = ProbeAnswered(entry[m])
      BY <2>1
    <3> HIDE DEF h
    <3> QED
      BY <1>4, <3>1, AnswersMild DEF Health
  <2>2. CASE verdict # "ok"
    <3>1. h = ProbeCharge(entry[m], verdict) /\ verdict \in FailKinds
      BY <2>2
    <3> HIDE DEF h
    <3> QED
      BY <1>4, <3>1, Charges
  <2> QED
    BY <2>1, <2>2
<1> HIDE DEF h
<1>6. CHealth' /\ entry' = [entry EXCEPT ![m] = h]
  BY <1>1, <1>5, Recording DEF CInv
<1>7. entry' \in [Members -> Health] /\ m \in Nat /\ ChainLength \in Nat /\ m + 1 \in 1 .. ChainLength + 1
  BY <1>6, ChainConstants DEF CHealth, Members
<1>8. ASSUME NEW c \in waiting
      PROVE  /\ moved(c) \in CallRecord /\ IF moved(c).pc = "done" THEN Over(moved(c)) ELSE Underway(moved(c))
             /\ moved(c).pc = "probe" => moved(c).at # m
             /\ call[c].stalled => moved(c).at \in {call[c].at, 0}
  <2>1. c \in Calls /\ call[c].pc = "probe" /\ call[c].at = m /\ call[c] \in CallRecord /\ Underway(call[c])
    BY DEF CInv, CCalls
  <2>2. CASE verdict = "ok"
    <3> DEFINE q == [call[c] EXCEPT !.pc = "attempt"]
    <3>1. /\ q \in CallRecord /\ q.pc = "attempt" /\ q.at = m /\ q.voices = call[c].voices
          /\ q.out = call[c].out /\ (q.owes <=> call[c].owes) /\ (q.lost <=> call[c].lost)
      BY <2>1 DEF CallRecord
    <3>2. moved(c) = q
      BY <2>2
    <3> HIDE DEF q, moved
    <3>3. Underway(q)
      BY <2>1, <3>1 DEF Underway
    <3> QED
      BY <2>1, <3>1, <3>2, <3>3
  <2>3. CASE verdict # "ok"
    <3> DEFINE q == GoTo(call[c], m + 1, entry')
    <3>1. moved(c) = q
      BY <2>3
    <3>2. Ready(call[c])
      BY <2>1 DEF Underway, Ready
    <3>3. /\ q.pc = "done" => Over(q) /\ q.at = 0
          /\ q.pc # "done" => Underway(q) /\ ~call[c].stalled /\ q.at \in m + 1 .. ChainLength
      BY <1>7, <3>2, Going
    <3> HIDE DEF q, moved
    <3>4. q \in CallRecord
      BY <3>3 DEF Over, Underway
    <3>5. q.pc # "done" => q.at # m
      BY <1>7, <3>3
    <3> QED
      BY <3>1, <3>3, <3>4, <3>5
  <2> QED
    BY <2>2, <2>3
<1> HIDE DEF moved
<1>9. \A c \in Calls : call'[c] = IF c \in waiting THEN moved(c) ELSE call[c]
  BY <1>2
<1>10. CCalls'
  <2>1. \A c \in Calls : call'[c] \in CallRecord
    BY <1>8, <1>9 DEF CInv, CCalls
  <2>2. call' \in [Calls -> CallRecord]
    <3> HIDE DEF waiting
    <3> QED
      BY <1>2, <2>1
  <2>3. \A c \in Calls : IF call'[c].pc = "done" THEN Over(call'[c]) ELSE Underway(call'[c])
    BY <1>8, <1>9 DEF CInv, CCalls
  <2> QED
    BY <2>2, <2>3 DEF CCalls
<1>11. \A c \in Calls : call'[c].pc = "probe" => call'[c].at \in Members /\ call'[c].at # m
  <2>1. \A c \in Calls : call'[c].pc = "probe" => call'[c].at \in Members
    BY <1>10 DEF CCalls, Underway
  <2>2. \A c \in Calls : call'[c].pc = "probe" => call'[c].at # m
    BY <1>8, <1>9
  <2> QED
    BY <2>1, <2>2
<1>12. CProbes' /\ m \notin probing'
  BY <1>3, <1>11 DEF CInv, CProbes
<1>13. BenchHolds
  <2>1. \A x \in Members : entry'[x].left < entry[x].left => x = m /\ entry'[m].status = "degraded"
    BY <1>4, <1>5, <1>6 DEF Health, Bench
  <2> QED
    BY <1>1, <1>12, <2>1 DEF BenchHolds
<1>14. ChargeEarned
  <2>1. \A x \in Members : entry'[x].fails > entry[x].fails => x = m
    BY <1>4, <1>6 DEF Health
  <2> QED
    BY <1>1, <1>12, <2>1 DEF ChargeEarned
<1>15. NotHandedOn
  BY <1>8, <1>9 DEF NotHandedOn
<1> QED
  BY <1>6, <1>10, <1>12, <1>13, <1>14, <1>15 DEF CInv, Kept

\* A bench becomes shorter with time.
LEMMA CoolsDownKept ==
  ASSUME CInv, NEW m \in Members, CoolsDown(m)
  PROVE  Kept
<1>1. /\ entry \in [Members -> Health] /\ onDisk \in [Members -> Health]
      /\ \A x \in Members : /\ Bench(entry[x]) /\ Bench(onDisk[x])
                            /\ onDisk[x].status = entry[x].status /\ onDisk[x].left = entry[x].left
  BY DEF CInv, CHealth
<1>2. /\ entry[m].left \in 1..3 /\ UNCHANGED <<probing, call>>
      /\ entry' = [entry EXCEPT ![m].left = @ - 1]
      /\ onDisk' = [onDisk EXCEPT ![m].left = IF @ > 0 THEN @ - 1 ELSE 0]
  BY <1>1 DEF CoolsDown, Health
<1> DEFINE h == [entry[m] EXCEPT !.left = @ - 1]
           d == [onDisk[m] EXCEPT !.left = IF @ > 0 THEN @ - 1 ELSE 0]
<1>3. /\ h \in Health /\ h.status = entry[m].status /\ h.left = entry[m].left - 1 /\ h.fails = entry[m].fails
  BY <1>1, <1>2 DEF Health
<1>4. /\ d \in Health /\ d.status = onDisk[m].status /\ d.left = entry[m].left - 1 /\ d.fails = onDisk[m].fails
  BY <1>1, <1>2 DEF Health
<1>5. entry' = [entry EXCEPT ![m] = h] /\ onDisk' = [onDisk EXCEPT ![m] = d]
  BY <1>2
<1> HIDE DEF h, d
<1>6. Bench(h) /\ Bench(d)
  BY <1>1, <1>2, <1>3, <1>4 DEF Bench
<1>7. CHealth'
  <2>1. entry' \in [Members -> Health] /\ onDisk' \in [Members -> Health]
    BY <1>1, <1>3, <1>4, <1>5
  <2>2. \A x \in Members : /\ entry'[x] = IF x = m THEN h ELSE entry[x]
                           /\ onDisk'[x] = IF x = m THEN d ELSE onDisk[x]
    BY <1>1, <1>5
  <2>3. \A x \in Members : Bench(entry'[x]) /\ Bench(onDisk'[x])
    BY <1>1, <1>6, <2>2
  <2>4. \A x \in Members : onDisk'[x].status = entry'[x].status /\ onDisk'[x].left = entry'[x].left
    BY <1>1, <1>3, <1>4, <2>2
  <2> QED
    BY <2>1, <2>3, <2>4 DEF CHealth
<1>8. \A x \in Members : x # m => entry'[x] = entry[x]
  BY <1>1, <1>5
<1>9. BenchHolds
  <2>1. \A x \in Members : entry[x].left \in 0..3
    BY <1>1 DEF Health
  <2>2. ASSUME NEW x \in Members, entry'[x].left < entry[x].left
        PROVE  UNCHANGED call /\ entry' = [entry EXCEPT ![x].left = @ - 1]
    <3>1. x = m
      BY <1>8, <2>1, <2>2
    <3> QED
      BY <1>2, <3>1
  <2> QED
    BY <2>2 DEF BenchHolds
<1>10. ChargeEarned
  <2>1. \A x \in Members : entry'[x].fails = entry[x].fails /\ entry[x].fails \in Nat
    BY <1>1, <1>3, <1>5, <1>8 DEF Health
  <2> QED
    BY <2>1 DEF ChargeEarned
<1>11. NotHandedOn
  BY <1>2 DEF NotHandedOn
<1>12. CCalls' /\ CProbes'
  BY <1>2 DEF CInv, CCalls, CProbes
<1> QED
  BY <1>7, <1>9, <1>10, <1>11, <1>12 DEF CInv, Kept

\* The process is killed, and the registry read back.
LEMMA ChainRestartKept ==
  ASSUME CInv, ChainRestart
  PROVE  Kept
<1>1. /\ entry \in [Members -> Health] /\ onDisk \in [Members -> Health]
      /\ \A x \in Members : /\ Bench(entry[x]) /\ Bench(onDisk[x])
                            /\ onDisk[x].status = entry[x].status /\ onDisk[x].left = entry[x].left
  BY DEF CInv, CHealth
<1>2. entry' = onDisk /\ onDisk' = onDisk /\ probing' = {}
  BY DEF ChainRestart
<1>3. call' = [c \in Calls |-> IF InFlight(c) THEN CallEndsBare(call[c], "gone") ELSE call[c]]
  BY DEF ChainRestart
<1>4. CHealth'
  BY <1>1, <1>2 DEF CHealth
<1>5. ASSUME NEW c \in Calls, InFlight(c)
      PROVE  /\ Over(call'[c]) /\ call'[c].at = 0 /\ call'[c].out = "gone" /\ call[c].out = "none"
             /\ call'[c] \in CallRecord /\ call'[c].pc = "done"
  <2> DEFINE q == CallEndsBare(call[c], "gone")
  <2>1. call[c] \in CallRecord /\ Underway(call[c]) /\ call'[c] = q
    BY <1>3, <1>5 DEF CInv, CCalls, InFlight
  <2>2. "gone" \in Outcomes /\ call[c].voices <= 1 /\ call[c].out = "none"
    BY <2>1 DEF Outcomes, Underway
  <2> HIDE DEF q
  <2>3. q \in CallRecord /\ q.pc = "done" /\ q.at = 0 /\ q.out = "gone" /\ Over(q)
    BY <2>1, <2>2, Endings DEF q
  <2> QED
    BY <2>1, <2>2, <2>3
<1>6. ASSUME NEW c \in Calls, ~InFlight(c)
      PROVE  call'[c] = call[c] /\ call[c].pc \in {"idle", "done"}
  BY <1>3, <1>6 DEF InFlight
<1>7. CCalls'
  <2>1. \A c \in Calls : call'[c] \in CallRecord
    BY <1>5, <1>6 DEF CInv, CCalls
  <2>2. call' \in [Calls -> CallRecord]
    BY <1>3, <2>1
  <2>3. \A c \in Calls : IF call'[c].pc = "done" THEN Over(call'[c]) ELSE Underway(call'[c])
    BY <1>5, <1>6 DEF CInv, CCalls
  <2> QED
    BY <2>2, <2>3 DEF CCalls
<1>8. CProbes'
  <2>1. \A c \in Calls : call'[c].pc # "probe"
    BY <1>5, <1>6
  <2> QED
    BY <1>2, <2>1 DEF CProbes
<1>9. BenchHolds
  <2>1. \A x \in Members : entry'[x].left = entry[x].left /\ entry[x].left \in 0..3
    BY <1>1, <1>2 DEF Health
  <2> QED
    BY <2>1 DEF BenchHolds
<1>10. ChargeEarned
  <2>1. \E c \in Calls : call[c].out = "none" /\ call'[c].out = "gone"
    BY <1>5 DEF ChainRestart
  <2> QED
    BY <1>2, <2>1 DEF ChargeEarned
<1>11. NotHandedOn
  BY <1>5, <1>6 DEF NotHandedOn
<1> QED
  BY <1>4, <1>7, <1>8, <1>9, <1>10, <1>11 DEF CInv, Kept

\* Nothing happens to the chain.
LEMMA ChainStutters ==
  ASSUME CInv, UNCHANGED chainVars
  PROVE  Kept
<1>1. entry' = entry /\ onDisk' = onDisk /\ probing' = probing /\ call' = call
  BY DEF chainVars
<1>2. CInv'
  BY <1>1 DEF CInv, CHealth, CCalls, CProbes
<1>3. \A m \in Members : entry[m].left \in 0..3 /\ entry[m].fails \in Nat
  BY DEF CInv, CHealth, Health
<1>4. BenchHolds /\ ChargeEarned
  BY <1>1, <1>3 DEF BenchHolds, ChargeEarned
<1>5. NotHandedOn
  BY <1>1 DEF NotHandedOn
<1> QED
  BY <1>2, <1>4, <1>5 DEF Kept

\* Every step of the chain.
LEMMA ChainKept ==
  ASSUME CInv, [ChainNext]_chainVars
  PROVE  Kept
<1>1. CASE \E c \in Calls : CallStarts(c)
  BY <1>1, CallStartsKept
<1>2. CASE \E c \in Calls : RecoveryWaitEnds(c)
  BY <1>2, RecoveryWaitEndsKept
<1>3. CASE \E c \in Calls : AttemptAnswers(c)
  BY <1>3, AttemptAnswersKept
<1>4. CASE \E c \in Calls : AttemptEmpty(c)
  BY <1>4, AttemptEmptyKept
<1>5. CASE \E c \in Calls : AttemptSilent(c)
  BY <1>5, AttemptSilentKept
<1>6. CASE \E c \in Calls : PauseEnds(c)
  BY <1>6, PauseEndsKept
<1>7. CASE \E c \in Calls : CallCancelled(c)
  BY <1>7, CallCancelledKept
<1>8. CASE \E c \in Calls : CallerGivesUp(c)
  BY <1>8, CallerGivesUpKept
<1>9. CASE \E c \in Calls, kind \in FailKinds, d \in Delivered : AttemptFails(c, kind, d)
  BY <1>9, AttemptFailsKept
<1>10. CASE \E m \in Members, v \in FailKinds \cup {"ok"} : ProbeEnds(m, v)
  BY <1>10, ProbeEndsKept
<1>11. CASE \E m \in Members : CoolsDown(m)
  BY <1>11, CoolsDownKept
<1>12. CASE ChainRestart
  BY <1>12, ChainRestartKept
<1>13. CASE UNCHANGED chainVars
  BY <1>13, ChainStutters
<1> QED
  BY <1>1, <1>2, <1>3, <1>4, <1>5, <1>6, <1>7, <1>8, <1>9, <1>10, <1>11, <1>12, <1>13 DEF ChainNext

\* The invariant holds of whatever registry is loaded first.
LEMMA ChainBegins ==
  ASSUME ChainInit
  PROVE  CInv
<1> DEFINE fresh == {Sound} \cup [status : {"degraded"}, fails : {DegradedThreshold}, left : {0, 1}]
                    \cup [status : {"down"}, fails : {DownThreshold}, left : {2, 3}]
<1>1. entry \in [Members -> fresh] /\ onDisk = entry /\ probing = {} /\ call = [c \in Calls |-> Unmade]
  BY DEF ChainInit
<1>2. ASSUME NEW h \in fresh
      PROVE  h \in Health /\ Bench(h)
  <2>1. CASE h = Sound
    BY <2>1 DEF Sound, Health, Bench
  <2>2. CASE h \in [status : {"degraded"}, fails : {DegradedThreshold}, left : {0, 1}]
    <3>1. h \in Health /\ h.status = "degraded" /\ h.fails = DegradedThreshold /\ h.left \in {0, 1}
      BY <2>2, ChainConstants DEF Health
    <3> QED
      BY <3>1, ChainConstants DEF Bench
  <2>3. CASE h \in [status : {"down"}, fails : {DownThreshold}, left : {2, 3}]
    <3>1. h \in Health /\ h.status = "down"
      BY <2>3, ChainConstants DEF Health
    <3> QED
      BY <3>1 DEF Bench
  <2> QED
    BY <2>1, <2>2, <2>3
<1> HIDE DEF fresh
<1>3. CHealth
  <2>1. entry \in [Members -> Health] /\ onDisk \in [Members -> Health]
    BY <1>1, <1>2
  <2>2. \A m \in Members : Bench(entry[m])
    BY <1>1, <1>2
  <2> QED
    BY <1>1, <2>1, <2>2 DEF CHealth
<1>4. /\ Unmade \in CallRecord /\ Unmade.pc = "idle" /\ Unmade.voices = 0 /\ Unmade.out = "none" /\ ~Unmade.owes
  BY ChainConstants DEF CallRecord, Unmade
<1>5. CCalls
  <2>1. Underway(Unmade)
    BY <1>4 DEF Underway
  <2>2. \A c \in Calls : call[c] = Unmade
    BY <1>1
  <2> QED
    BY <1>1, <1>4, <2>1, <2>2 DEF CCalls
<1>6. CProbes
  BY <1>1, <1>4 DEF CProbes
<1> QED
  BY <1>3, <1>5, <1>6 DEF CInv

\* It is an invariant.
LEMMA ChainInvariant == ChainSpec => []CInv
<1>1. CInv /\ [ChainNext]_chainVars => CInv'
  BY ChainKept DEF Kept
<1> QED
  BY <1>1, ChainBegins, PTL DEF ChainSpec

\* The types of the registry, the probes and the calls (fallback-chain.ts,
\* provider-health.ts), for any chain, calls and thresholds.
THEOREM ChainTyped == ChainSpec => []ChainTypeOK
<1>1. CInv => ChainTypeOK
  BY DEF CInv, CHealth, CCalls, CProbes, ChainTypeOK, CallRecord
<1> QED
  BY <1>1, ChainInvariant, PTL

\* Each call gives its caller the text of one attempt at most, and unless its end is
\* one of those the code throws bare (a broken stream, a quota with nobody left, the
\* aborted request of an only member, a wait cut off) it ends with every token it has
\* cost, in any chain and whatever the other calls do (fallback-chain.ts).
THEOREM CallsAccounted == ChainSpec => []CallAccounted
<1>1. CInv => CallAccounted
  <2> SUFFICES ASSUME CInv, NEW c \in Calls
               PROVE  /\ call[c].voices <= 1
                      /\ call[c].out \in {"answered", "exhausted", "refused", "stalled", "cancelled"} /\ call[c].owes
                           => call[c].carried
    BY DEF CallAccounted
  <2>1. CASE call[c].pc = "done"
    BY <2>1 DEF CInv, CCalls, Over
  <2>2. CASE call[c].pc # "done"
    BY <2>2 DEF CInv, CCalls, Underway
  <2> QED
    BY <2>1, <2>2
<1> QED
  BY <1>1, ChainInvariant, PTL

\* A bench becomes shorter by time, by an answer of the member or by a probe of it,
\* and a member is charged with failures of its own only, whatever calls overlap, are
\* cancelled or given up, and through restarts (provider-health.ts).
THEOREM HealthIsEarned == ChainSpec => HealthEarned
<1>1. CInv /\ [ChainNext]_chainVars => [BenchHolds /\ ChargeEarned /\ NotHandedOn]_chainVars
  BY ChainKept DEF Kept
<1> QED
  BY <1>1, ChainInvariant, PTL DEF ChainSpec, HealthEarned

==============================================================================
