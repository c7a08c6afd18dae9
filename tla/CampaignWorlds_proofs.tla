------------------------ MODULE CampaignWorlds_proofs ------------------------
(***************************************************************************)
(* The worlds a campaign goes through, for any ladder, limits and bounds:  *)
(* what the building blocks of its handlers keep.                          *)
(*                                                                         *)
(* Typed(w) is what every world is; Sane(w) relates the stored campaign,   *)
(* the rows and what is pending:                                           *)
(*   Core    the rows of which one may run, the handlers that hold a       *)
(*           decision and the looks that are due belong to the sprint;     *)
(*   Agreed  a copy of this generation is what is stored, and a sprint     *)
(*           advanced to is submitted once;                                *)
(*   Kept    something is under way about whatever is to be done.          *)
(* Silent(w) says that a person's stop is on record.                       *)
(*                                                                         *)
(* A copy of the present generation may save and submit, once its worker   *)
(* leaves the campaign free. A copy of an older one only drifts: it saves  *)
(* nothing, so it may retire rows and appoint revivals, and no more.       *)
(***************************************************************************)
EXTENDS Campaign, FiniteSetTheorems, SequenceTheorems, WellFoundedInduction, TLAPS

---------------------------------------------------------------------------
\* Numbers, rows taken in turn.

\* What the constants are.
LEMMA CampConstants ==
  /\ Ladder \in Nat \ {0} /\ MaxSprintTries \in Nat \ {0} /\ MaxWork \in Nat \ {0}
  /\ MaxSelfRevivals \in Nat /\ MaxNarrowings \in Nat /\ MaxWishes \in Nat
  /\ MaxCampBoots \in Nat /\ MaxAppointments \in Nat /\ MaxTurns \in Nat
BY CampaignAssumption

\* A set of numbers has a least one, and of numbers of rows a greatest one.
LEMMA LeastNat ==
  ASSUME NEW T \in SUBSET Nat, T # {}
  PROVE  \E m \in T : \A k \in T : m <= k
<1>1. PICK m \in T : \A k \in T : <<k, m>> \notin OpToRel(<, Nat)
  BY WFMin, NatLessThanWellFounded, Zenon
<1>2. \A k \in T : ~(k < m)
  BY <1>1, Zenon DEF OpToRel
<1> QED
  BY <1>2

LEMMA MinIs ==
  ASSUME NEW T \in SUBSET Nat, T # {}
  PROVE  Min(T) \in T /\ \A k \in T : Min(T) <= k
<1>1. \E m \in T : \A k \in T : m <= k
  BY LeastNat
<1> QED
  BY <1>1 DEF Min

LEMMA MaxIs ==
  ASSUME NEW T \in SUBSET Work, T # {}
  PROVE  Max(T) \in T /\ \A k \in T : Max(T) >= k
<1> DEFINE above == {b \in Work : \A k \in T : k <= b}
<1>1. MaxWork \in above /\ above \in SUBSET Nat
  BY CampConstants DEF Work
<1>2. PICK m \in above : \A b \in above : m <= b
  <2> HIDE DEF above
  <2> QED
    BY <1>1, LeastNat
<1>3. m \in T
  <2>1. SUFFICES ASSUME m \notin T PROVE FALSE
    OBVIOUS
  <2>2. m - 1 \in above
    <3>1. \A k \in T : k <= m - 1
      BY <2>1 DEF Work
    <3>2. PICK k \in T : TRUE
      OBVIOUS
    <3>3. k \in 1..MaxWork /\ k <= m - 1 /\ m \in 1..MaxWork
      BY <3>1, <3>2 DEF Work
    <3>4. m - 1 \in Work
      BY <3>3, CampConstants DEF Work
    <3> QED
      BY <3>1, <3>4
  <2>3. m <= m - 1
    <3> HIDE DEF above
    <3> QED
      BY <1>2, <2>2
  <2> QED
    BY <2>3 DEF Work
<1>4. \E n \in T : \A k \in T : n >= k
  <2>1. m \in Nat /\ \A k \in T : k <= m /\ k \in Nat
    BY CampConstants DEF Work
  <2> QED
    BY <1>3, <2>1
<1> QED
  BY <1>4 DEF Max

---------------------------------------------------------------------------
\* Rows taken in turn: each place has one of them, and each of them a place.
LEMMA InTurnIs ==
  ASSUME NEW ts \in SUBSET Work
  PROVE  /\ Cardinality(ts) \in Nat
         /\ \A i \in 1..Cardinality(ts) : InTurn(ts, i) \in ts
         /\ \A t \in ts : \E i \in 1..Cardinality(ts) : InTurn(ts, i) = t
<1> DEFINE upTo(t) == {u \in ts : u <= t}
           place == [t \in ts |-> Cardinality(upTo(t))]
           n == Cardinality(ts)
<1>1. IsFiniteSet(ts) /\ n \in Nat
  <2>1. IsFiniteSet(Work)
    BY FS_Interval, CampConstants DEF Work
  <2> QED
    BY <2>1, FS_Subset, FS_CardinalityType
<1>2. ASSUME NEW t \in ts
      PROVE  IsFiniteSet(upTo(t)) /\ Cardinality(upTo(t)) \in 1..n
  <2>1. IsFiniteSet(upTo(t)) /\ Cardinality(upTo(t)) <= n
    BY <1>1, FS_Subset
  <2>2. t \in upTo(t)
    BY CampConstants DEF Work
  <2>3. Cardinality(upTo(t)) # 0
    <3> HIDE DEF upTo
    <3> QED
      BY <2>1, <2>2, FS_EmptySet
  <2>4. Cardinality(upTo(t)) \in Nat
    BY <2>1, FS_CardinalityType
  <2> QED
    BY <1>1, <2>1, <2>3, <2>4
<1>3. ASSUME NEW t \in ts, NEW u \in ts, t < u
      PROVE  Cardinality(upTo(t)) # Cardinality(upTo(u))
  <2>0. \A x \in ts : x \in Int
    BY CampConstants DEF Work
  <2>1. upTo(t) \in SUBSET upTo(u)
    BY <1>3, <2>0
  <2>2. u \in upTo(u) /\ u \notin upTo(t)
    BY <1>3, CampConstants DEF Work
  <2> HIDE DEF upTo
  <2> QED
    BY <1>2, <2>1, <2>2, FS_Subset
<1>4. ASSUME NEW t \in ts, NEW u \in ts, Cardinality(upTo(t)) = Cardinality(upTo(u))
      PROVE  t = u
  <2>1. t \in Int /\ u \in Int
    BY CampConstants DEF Work
  <2> HIDE DEF upTo
  <2> QED
    BY <1>3, <1>4, <2>1
<1>5. place \in Injection(ts, 1..n)
  <2>1. place \in [ts -> 1..n]
    BY <1>2
  <2>2. \A t, u \in ts : place[t] = place[u] => t = u
    BY <1>4
  <2> HIDE DEF place
  <2> QED
    BY <2>1, <2>2 DEF Injection, IsInjective
<1>6. place \in Surjection(ts, 1..n)
  <2>1. IsFiniteSet(1..n) /\ Cardinality(1..n) = n
    BY <1>1, FS_Interval
  <2> HIDE DEF place
  <2> QED
    BY <1>5, <2>1, FS_Injection
<1>7. \A i \in 1..n : \E t \in ts : Cardinality(upTo(t)) = i
  <2>1. \A i \in 1..n : \E t \in ts : place[t] = i
    <3> HIDE DEF place
    <3> QED
      BY <1>6 DEF Surjection
  <2> QED
    BY <2>1
<1>8. \A i \in 1..n : InTurn(ts, i) \in ts /\ Cardinality(upTo(InTurn(ts, i))) = i
  BY <1>7 DEF InTurn
<1>9. ASSUME NEW t \in ts
      PROVE  InTurn(ts, Cardinality(upTo(t))) = t
  <2>1. InTurn(ts, Cardinality(upTo(t))) \in ts
    BY <1>2, <1>8
  <2>2. Cardinality(upTo(InTurn(ts, Cardinality(upTo(t))))) = Cardinality(upTo(t))
    BY <1>2, <1>8
  <2> HIDE DEF upTo
  <2> QED
    BY <1>4, <2>1, <2>2
<1> QED
  BY <1>1, <1>2, <1>8, <1>9

---------------------------------------------------------------------------
\* Worlds and lineages: what every world is, and what retiring rows leaves.

Handlings == [what : {"settle", "stop"}, of : Work, gen : 0..MaxWishes]
             \cup [what : {"reconcile"}, of : Sprints, gen : 0..MaxWishes]
Occupations ==
  [at : {"rest", "judging", "narrowed", "overran", "advanced", "parked", "tail"},
   copy : CampStates, live : BOOLEAN]
Alarms == [kind : {"reconcile", "revive", "resubmit"}, of : Nat]
Worlds ==
  [camp : CampStates, work : [Work -> RowStates], settleChain : Seq(Handlings),
   busy : [Workers -> Occupations], alarms : SUBSET Alarms, made : 0..MaxAppointments]

\* The rows are numbered as they came; a row's line goes back from it, and the
\* line of an ancestor is a part of it with the same root.
Lineages(w) ==
  /\ RowsOf(w) = 1..Cardinality(RowsOf(w))
  /\ \A t \in RowsOf(w) :
       /\ t \in w.work[t].line /\ w.work[t].line \subseteq 1..t
       /\ \A u \in w.work[t].line :
            w.work[u].line \subseteq w.work[t].line /\ RootOf(w, u) = RootOf(w, t)
  /\ \A t \in Work : w.work[t].st = "none" => w.work[t] = Unborn

\* A copy of the campaign knows rows that are there, none for a sprint to come,
\* and counts no more attempts than there are rows.
Known(w, c) ==
  \A s \in Sprints :
    /\ c.sprint[s].task \in RowsOf(w) \cup {NoWork}
    /\ c.sprint[s].tries <= Cardinality(RowsOf(w))
    /\ s > c.cur => c.sprint[s].task = NoWork

Typed(w) ==
  /\ w \in Worlds /\ Lineages(w) /\ 1 \in RowsOf(w) /\ Known(w, w.camp)
  /\ \A a \in Workers : Known(w, w.busy[a].copy) /\ w.busy[a].copy.gen <= w.camp.gen
  /\ \A h \in w.alarms : h.kind = "resubmit" => h.of <= w.camp.gen

---------------------------------------------------------------------------
LEMMA RowFacts ==
  ASSUME NEW w \in Worlds, Lineages(w)
  PROVE  /\ Cardinality(RowsOf(w)) \in 0..MaxWork /\ RowsOf(w) = 1..Cardinality(RowsOf(w))
         /\ NoWork \notin RowsOf(w)
         /\ \A t \in RowsOf(w) :
              /\ RootOf(w, t) \in w.work[t].line /\ w.work[t].line \subseteq RowsOf(w)
              /\ NewestOf(w, t) \in RowsOf(w) /\ t \in w.work[NewestOf(w, t)].line
              /\ \A u \in RowsOf(w) : t \in w.work[u].line => u <= NewestOf(w, t)
<1>1. IsFiniteSet(RowsOf(w)) /\ Cardinality(RowsOf(w)) \in 0..MaxWork
  <2>1. IsFiniteSet(Work) /\ Cardinality(Work) = MaxWork
    BY FS_Interval, CampConstants DEF Work
  <2>2. RowsOf(w) \in SUBSET Work
    BY DEF RowsOf
  <2>3. IsFiniteSet(RowsOf(w)) /\ Cardinality(RowsOf(w)) <= MaxWork
    BY <2>1, <2>2, FS_Subset
  <2> QED
    BY <2>3, FS_CardinalityType, CampConstants
<1>2. RowsOf(w) = 1..Cardinality(RowsOf(w))
  BY DEF Lineages
<1>3. NoWork \notin RowsOf(w)
  BY DEF RowsOf, Work, NoWork
<1>4. ASSUME NEW t \in RowsOf(w)
      PROVE  /\ RootOf(w, t) \in w.work[t].line /\ w.work[t].line \subseteq RowsOf(w)
             /\ NewestOf(w, t) \in RowsOf(w) /\ t \in w.work[NewestOf(w, t)].line
             /\ \A u \in RowsOf(w) : t \in w.work[u].line => u <= NewestOf(w, t)
  <2>1. t \in w.work[t].line /\ w.work[t].line \subseteq 1..t
    BY <1>4 DEF Lineages
  <2>2. w.work[t].line \subseteq RowsOf(w)
    BY <1>1, <1>2, <2>1
  <2>3. RootOf(w, t) \in w.work[t].line
    <3>1. w.work[t].line \in SUBSET Nat
      BY <2>1
    <3> QED
      BY <3>1, <2>1, MinIs DEF RootOf
  <2> DEFINE T == {u \in RowsOf(w) : t \in w.work[u].line}
  <2>4. T \in SUBSET Work /\ T # {}
    BY <1>4, <2>1 DEF RowsOf
  <2>5. Max(T) \in T /\ \A k \in T : Max(T) >= k
    <3> HIDE DEF T
    <3> QED
      BY <2>4, MaxIs
  <2>6. NewestOf(w, t) = Max(T)
    BY DEF NewestOf
  <2>7. NewestOf(w, t) \in T /\ \A k \in T : k <= NewestOf(w, t)
    <3>1. \A k \in T : k \in Int
      BY DEF RowsOf, Work
    <3> HIDE DEF T
    <3> QED
      BY <2>5, <2>6, <3>1
  <2> QED
    BY <2>2, <2>3, <2>7
<1> QED
  BY <1>1, <1>2, <1>3, <1>4

\* A row of a lineage has the tree of each of its ancestors.
LEMMA SameLine ==
  ASSUME NEW w \in Worlds, Lineages(w), NEW t \in RowsOf(w), NEW u \in w.work[t].line
  PROVE  u \in RowsOf(w) /\ SameTree(w, t, u) /\ SameTree(w, u, t)
         /\ \A x \in w.work[u].line : x \in w.work[t].line
BY RowFacts DEF Lineages, SameTree

\* The newest row of a newest row's line is that row.
LEMMA NewestStays ==
  ASSUME NEW w \in Worlds, Lineages(w), NEW t \in RowsOf(w)
  PROVE  NewestOf(w, NewestOf(w, t)) = NewestOf(w, t)
<1> DEFINE n == NewestOf(w, t)
<1>1. n \in RowsOf(w) /\ t \in w.work[n].line
  BY RowFacts
<1>2. NewestOf(w, n) \in RowsOf(w) /\ n \in w.work[NewestOf(w, n)].line
  BY <1>1, RowFacts
<1>3. t \in w.work[NewestOf(w, n)].line
  BY <1>1, <1>2 DEF Lineages
<1>4. NewestOf(w, n) <= n
  BY <1>2, <1>3, RowFacts
<1>5. n <= NewestOf(w, n)
  <2>1. n \in w.work[n].line
    BY <1>1 DEF Lineages
  <2> QED
    BY <1>1, <2>1, RowFacts
<1>6. n \in Int /\ NewestOf(w, n) \in Int
  BY <1>1, <1>2 DEF RowsOf, Work
<1> QED
  BY <1>4, <1>5, <1>6

\* Worlds with the same lines.
SameLines(w, v) ==
  \A t \in Work : /\ v.work[t].line = w.work[t].line
                  /\ (v.work[t].st = "none") <=> (w.work[t].st = "none")
                  /\ v.work[t].st = "none" => v.work[t] = w.work[t]

LEMMA LinesSame ==
  ASSUME NEW w \in Worlds, Lineages(w), NEW v, SameLines(w, v)
  PROVE  /\ RowsOf(v) = RowsOf(w) /\ Lineages(v)
         /\ \A t \in Work : RootOf(v, t) = RootOf(w, t)
         /\ \A t : NewestOf(v, t) = NewestOf(w, t)
         /\ \A t, u \in Work : SameTree(v, t, u) <=> SameTree(w, t, u)
         /\ \A c : Known(w, c) => Known(v, c)
<1>1. \A t \in Work : /\ v.work[t].line = w.work[t].line
                      /\ (v.work[t].st = "none") <=> (w.work[t].st = "none")
                      /\ v.work[t].st = "none" => v.work[t] = w.work[t]
  BY DEF SameLines
<1>2. RowsOf(v) = RowsOf(w)
  BY <1>1 DEF RowsOf
<1>3. \A t \in Work : RootOf(v, t) = RootOf(w, t)
  BY <1>1 DEF RootOf
<1>4. ASSUME NEW t PROVE NewestOf(v, t) = NewestOf(w, t)
  <2>1. {u \in RowsOf(v) : t \in v.work[u].line} = {u \in RowsOf(w) : t \in w.work[u].line}
    BY <1>1, <1>2 DEF RowsOf
  <2> QED
    BY <2>1 DEF NewestOf
<1>5. \A t, u \in Work : SameTree(v, t, u) <=> SameTree(w, t, u)
  BY <1>3 DEF SameTree
<1>6. \A t \in RowsOf(w) : t \in Work /\ w.work[t].line \subseteq Work
  BY DEF Lineages, RowsOf, Worlds, RowStates
<1>7. Lineages(v)
  BY <1>1, <1>2, <1>3, <1>6 DEF Lineages
<1>8. \A c : Known(w, c) => Known(v, c)
  BY <1>2 DEF Known
<1> QED
  BY <1>2, <1>3, <1>4, <1>5, <1>7, <1>8

---------------------------------------------------------------------------
\* Rows are retired, and the chain hears of those of them that the executing
\* campaign takes for its current sprint's.
Wanes(w, v) ==
  /\ \A t \in Work :
       /\ v.work[t].line = w.work[t].line /\ v.work[t].by = w.work[t].by
       /\ v.work[t] = w.work[t] \/ (w.work[t].st \in Retirable /\ v.work[t].st = "cancelled")
  /\ Len(w.settleChain) <= Len(v.settleChain)
  /\ \A i \in 1..Len(w.settleChain) : v.settleChain[i] = w.settleChain[i]
  /\ \A i \in 1..Len(v.settleChain) : i > Len(w.settleChain) => v.settleChain[i].what = "settle"
  /\ \A t \in Work : /\ v.work[t] # w.work[t]
                     /\ w.camp.state = "executing" /\ Current(w.camp) \in w.work[t].line
        => \E i \in 1..Len(v.settleChain) : v.settleChain[i].what = "settle" /\ v.settleChain[i].of = t
Calms(w, v) ==
  /\ v \in Worlds /\ v.camp = w.camp /\ v.busy = w.busy /\ v.alarms = w.alarms /\ v.made = w.made
  /\ Wanes(w, v)

LEMMA WaneLines ==
  ASSUME NEW w, NEW v, Wanes(w, v)
  PROVE  SameLines(w, v)
BY DEF Wanes, SameLines, Retirable

LEMMA WanesSame ==
  ASSUME NEW w, NEW m, m.work = w.work, m.settleChain = w.settleChain, m.camp = w.camp,
         NEW z, Wanes(m, z), NEW v, v.work = z.work, v.settleChain = z.settleChain
  PROVE  Wanes(w, v)
BY DEF Wanes

LEMMA QueuedIs ==
  ASSUME NEW w \in Worlds, NEW ts \in SUBSET Work, NEW v, v = Queued(w, ts)
  PROVE  /\ v \in Worlds /\ v.camp = w.camp /\ v.busy = w.busy /\ v.alarms = w.alarms
         /\ v.made = w.made /\ v.work = w.work
         /\ Len(w.settleChain) <= Len(v.settleChain)
         /\ \A i \in 1..Len(w.settleChain) : v.settleChain[i] = w.settleChain[i]
         /\ \A i \in 1..Len(v.settleChain) :
              i > Len(w.settleChain) => v.settleChain[i].what = "settle"
         /\ \A t \in ts : \E i \in 1..Len(v.settleChain) :
              v.settleChain[i].what = "settle" /\ v.settleChain[i].of = t
<1> DEFINE n == Cardinality(ts)
           item(i) == [what |-> "settle", of |-> InTurn(ts, i), gen |-> 0]
           q == [i \in 1..n |-> item(i)]
           s == w.settleChain
<1>1. n \in Nat /\ (\A i \in 1..n : InTurn(ts, i) \in ts)
      /\ \A t \in ts : \E i \in 1..n : InTurn(ts, i) = t
  BY InTurnIs
<1>2. v = [w EXCEPT !.settleChain = s \o q]
  BY DEF Queued
<1>3. \A i \in 1..n : item(i) \in Handlings
  <2> SUFFICES ASSUME NEW i \in 1..n PROVE item(i) \in Handlings
    OBVIOUS
  <2>1. InTurn(ts, i) \in Work
    BY <1>1
  <2>2. 0 \in 0..MaxWishes
    BY CampConstants
  <2> QED
    BY <2>1, <2>2 DEF Handlings
<1>4. \A i \in 1..n : item(i).what = "settle" /\ item(i).of = InTurn(ts, i)
  OBVIOUS
<1>5. q \in Seq(Handlings) /\ Len(q) = n /\ \A i \in 1..n : q[i] = item(i)
  <2> HIDE DEF item, n
  <2>1. q \in [1..n -> Handlings] /\ \A i \in 1..n : q[i] = item(i)
    BY <1>3
  <2>2. q \in Seq(Handlings)
    <3> HIDE DEF q
    <3> QED
      BY <1>1, <2>1, SeqDef
  <2>3. Len(q) = n
    <3>1. DOMAIN q = 1..n
      BY <2>1
    <3> HIDE DEF q
    <3> QED
      BY <1>1, <2>2, <3>1, LenProperties
  <2> QED
    BY <2>1, <2>2, <2>3
<1>6. s \in Seq(Handlings) /\ Len(s) \in Nat
  BY LenProperties DEF Worlds
<1> HIDE DEF q, n, item
<1>7. /\ s \o q \in Seq(Handlings) /\ Len(s \o q) = Len(s) + n
      /\ \A i \in 1..Len(s) + n : (s \o q)[i] = IF i <= Len(s) THEN s[i] ELSE q[i - Len(s)]
  <2> HIDE DEF s
  <2> QED
    BY <1>1, <1>5, <1>6, ConcatProperties
<1>8. v \in Worlds /\ v.camp = w.camp /\ v.busy = w.busy /\ v.alarms = w.alarms
      /\ v.made = w.made /\ v.work = w.work /\ v.settleChain = s \o q
  BY <1>2, <1>7 DEF Worlds
<1>9. ASSUME NEW i \in 1..Len(s) + n, i > Len(s)
      PROVE  (s \o q)[i].what = "settle"
  <2>1. i - Len(s) \in 1..n /\ (s \o q)[i] = q[i - Len(s)]
    BY <1>1, <1>6, <1>7, <1>9
  <2> QED
    BY <2>1, <1>4, <1>5
<1>10. ASSUME NEW t \in ts
       PROVE  \E i \in 1..Len(s) + n : (s \o q)[i].what = "settle" /\ (s \o q)[i].of = t
  <2>1. PICK i \in 1..n : InTurn(ts, i) = t
    BY <1>1
  <2>2. Len(s) + i \in 1..Len(s) + n /\ ~(Len(s) + i <= Len(s)) /\ Len(s) + i - Len(s) = i
    BY <1>1, <1>6
  <2>3. (s \o q)[Len(s) + i] = q[i]
    BY <1>7, <2>2
  <2>4. q[i].what = "settle" /\ q[i].of = t
    BY <1>4, <1>5, <2>1
  <2> QED
    BY <2>2, <2>3, <2>4
<1>11. Len(s) <= Len(s) + n /\ \A i \in 1..Len(s) : i \in 1..Len(s) + n /\ i <= Len(s)
  BY <1>1, <1>6
<1>12. /\ Len(w.settleChain) <= Len(v.settleChain)
       /\ \A i \in 1..Len(w.settleChain) : v.settleChain[i] = w.settleChain[i]
  BY <1>7, <1>8, <1>11
<1>13. \A i \in 1..Len(v.settleChain) : i > Len(w.settleChain) => v.settleChain[i].what = "settle"
  BY <1>7, <1>8, <1>9
<1>14. \A t \in ts : \E i \in 1..Len(v.settleChain) :
         v.settleChain[i].what = "settle" /\ v.settleChain[i].of = t
  BY <1>7, <1>8, <1>10
<1> QED
  BY <1>8, <1>12, <1>13, <1>14

LEMMA RetiresCalm ==
  ASSUME NEW w \in Worlds, NEW ts \in SUBSET Work, NEW why \in {"none", "superseded"}
  PROVE  /\ Calms(w, Retires(w, ts, why))
         /\ \A t \in ts : Retires(w, ts, why).work[t].st \notin Retirable
<1> DEFINE gone == {t \in ts : w.work[t].st \in Retirable}
           row(t) == IF t \in gone THEN [w.work[t] EXCEPT !.st = "cancelled", !.why = why]
                     ELSE w.work[t]
           x == [w EXCEPT !.work = [t \in Work |-> row(t)]]
           heard == {t \in gone : x.camp.state = "executing" /\ Current(x.camp) \in x.work[t].line}
           v == Queued(x, heard)
<1>1. \A t \in Work : /\ row(t) \in RowStates
                      /\ row(t).line = w.work[t].line /\ row(t).by = w.work[t].by
                      /\ t \in gone => row(t).st = "cancelled"
                      /\ t \notin gone => row(t) = w.work[t]
  <2> SUFFICES ASSUME NEW t \in Work
               PROVE  /\ row(t) \in RowStates
                      /\ row(t).line = w.work[t].line /\ row(t).by = w.work[t].by
                      /\ t \in gone => row(t).st = "cancelled"
                      /\ t \notin gone => row(t) = w.work[t]
    OBVIOUS
  <2>1. w.work[t] \in RowStates
    BY DEF Worlds
  <2> HIDE DEF gone
  <2> QED
    BY <2>1 DEF RowStates
<1>2. Retires(w, ts, why) = v
  BY DEF Retires, Hears
<1>3. /\ x \in Worlds /\ x.camp = w.camp /\ x.busy = w.busy /\ x.alarms = w.alarms
      /\ x.made = w.made /\ x.settleChain = w.settleChain
      /\ \A t \in Work : x.work[t] = row(t)
  <2> HIDE DEF row
  <2> QED
    BY <1>1 DEF Worlds
<1>4. heard \in SUBSET Work /\ gone \in SUBSET Work
  OBVIOUS
<1>5. v = Queued(x, heard)
  OBVIOUS
<1> HIDE DEF x, v, row
<1>6. /\ v \in Worlds /\ v.camp = x.camp /\ v.busy = x.busy /\ v.alarms = x.alarms
      /\ v.made = x.made /\ v.work = x.work
      /\ Len(x.settleChain) <= Len(v.settleChain)
      /\ \A i \in 1..Len(x.settleChain) : v.settleChain[i] = x.settleChain[i]
      /\ \A i \in 1..Len(v.settleChain) : i > Len(x.settleChain) => v.settleChain[i].what = "settle"
      /\ \A t \in heard : \E i \in 1..Len(v.settleChain) :
              v.settleChain[i].what = "settle" /\ v.settleChain[i].of = t
  <2> HIDE DEF heard
  <2> QED
    BY <1>3, <1>4, <1>5, QueuedIs
<1>7. \A t \in Work :
        /\ v.work[t].line = w.work[t].line /\ v.work[t].by = w.work[t].by
        /\ v.work[t] = w.work[t] \/ (w.work[t].st \in Retirable /\ v.work[t].st = "cancelled")
        /\ v.work[t] # w.work[t] => t \in gone
  BY <1>1, <1>3, <1>6
<1>8. ASSUME NEW t \in Work, v.work[t] # w.work[t], w.camp.state = "executing",
             Current(w.camp) \in w.work[t].line
      PROVE  t \in heard
  BY <1>1, <1>3, <1>7, <1>8
<1>9. \A t \in ts : v.work[t].st \notin Retirable
  BY <1>1, <1>3, <1>6 DEF Retirable
<1> HIDE DEF heard, gone
<1>10. Calms(w, v)
  <2>1. v \in Worlds /\ v.camp = w.camp /\ v.busy = w.busy /\ v.alarms = w.alarms /\ v.made = w.made
    BY <1>3, <1>6
  <2>2. /\ Len(w.settleChain) <= Len(v.settleChain)
        /\ \A i \in 1..Len(w.settleChain) : v.settleChain[i] = w.settleChain[i]
        /\ \A i \in 1..Len(v.settleChain) : i > Len(w.settleChain) => v.settleChain[i].what = "settle"
    BY <1>3, <1>6
  <2>3. \A t \in Work : v.work[t] # w.work[t] /\ w.camp.state = "executing" /\ Current(w.camp) \in w.work[t].line
          => \E i \in 1..Len(v.settleChain) : v.settleChain[i].what = "settle" /\ v.settleChain[i].of = t
    BY <1>6, <1>8
  <2> QED
    BY <1>7, <2>1, <2>2, <2>3 DEF Calms, Wanes
<1> QED
  BY <1>2, <1>9, <1>10

LEMMA CalmSame ==
  ASSUME NEW w \in Worlds
  PROVE  Calms(w, w)
BY LenProperties DEF Calms, Wanes, Worlds

LEMMA TipCalm ==
  ASSUME NEW w \in Worlds, Lineages(w), NEW c \in CampStates, Known(w, c)
  PROVE  /\ Calms(w, RetiresTip(w, c))
         /\ Current(c) # NoWork =>
              RetiresTip(w, c).work[NewestOf(w, Current(c))].st \notin Retirable
<1>1. CASE Current(c) = NoWork
  BY <1>1, CalmSame DEF RetiresTip
<1>2. CASE Current(c) # NoWork
  <2>1. Current(c) \in RowsOf(w)
    BY <1>2 DEF Known, Current, CampStates
  <2>2. NewestOf(w, Current(c)) \in Work
    BY <2>1, RowFacts DEF RowsOf
  <2>3. RetiresTip(w, c) = Retires(w, {NewestOf(w, Current(c))}, "superseded")
    BY <1>2 DEF RetiresTip
  <2> QED
    BY <2>2, <2>3, RetiresCalm
<1> QED
  BY <1>1, <1>2

LEMMA AllCalm ==
  ASSUME NEW w \in Worlds, NEW c, NEW why \in {"none", "superseded"}
  PROVE  Calms(w, RetiresAll(w, c, why))
<1>1. {t \in RowsOf(w) : RootOf(w, t) \in c.owned} \in SUBSET Work
  BY DEF RowsOf
<1> QED
  BY <1>1, RetiresCalm DEF RetiresAll

\* What of the lineages a retirement leaves alone: all of it.
LEMMA CalmLines ==
  ASSUME NEW w \in Worlds, Lineages(w), NEW v, Calms(w, v)
  PROVE  /\ RowsOf(v) = RowsOf(w) /\ Lineages(v)
         /\ \A t \in Work : RootOf(v, t) = RootOf(w, t)
         /\ \A t : NewestOf(v, t) = NewestOf(w, t)
         /\ \A t, u \in Work : SameTree(v, t, u) <=> SameTree(w, t, u)
         /\ \A c : Known(w, c) => Known(v, c)
BY WaneLines, LinesSame DEF Calms

LEMMA CalmTyped ==
  ASSUME NEW w, Typed(w), NEW v, Calms(w, v)
  PROVE  Typed(v)
<1>1. w \in Worlds /\ Lineages(w)
  BY DEF Typed
<1>2. Lineages(v) /\ RowsOf(v) = RowsOf(w) /\ \A c : Known(w, c) => Known(v, c)
  BY <1>1, CalmLines
<1>3. v \in Worlds /\ v.camp = w.camp /\ v.busy = w.busy /\ v.alarms = w.alarms
  BY DEF Calms, Wanes
<1> QED
  BY <1>2, <1>3 DEF Typed

LEMMA CalmTrans ==
  ASSUME NEW w \in Worlds, NEW v, Calms(w, v), NEW x, Calms(v, x)
  PROVE  Calms(w, x)
<1>1. /\ x \in Worlds /\ x.camp = w.camp /\ x.busy = w.busy /\ x.alarms = w.alarms /\ x.made = w.made
      /\ \A t \in Work :
           /\ x.work[t].line = w.work[t].line /\ x.work[t].by = w.work[t].by
           /\ x.work[t] = w.work[t] \/ (w.work[t].st \in Retirable /\ x.work[t].st = "cancelled")
  BY DEF Calms, Wanes, Retirable
<1>2. Len(w.settleChain) \in Nat /\ Len(v.settleChain) \in Nat /\ Len(x.settleChain) \in Nat
  BY LenProperties DEF Calms, Wanes, Worlds
<1>3. /\ Len(w.settleChain) <= Len(x.settleChain)
      /\ \A i \in 1..Len(w.settleChain) : x.settleChain[i] = w.settleChain[i]
      /\ \A i \in 1..Len(x.settleChain) : i > Len(w.settleChain) => x.settleChain[i].what = "settle"
  <2>1. Len(w.settleChain) <= Len(v.settleChain) /\ Len(v.settleChain) <= Len(x.settleChain)
    BY DEF Calms, Wanes
  <2>2. \A i \in 1..Len(w.settleChain) : x.settleChain[i] = w.settleChain[i]
    BY <1>2, <2>1 DEF Calms, Wanes
  <2>3. ASSUME NEW i \in 1..Len(x.settleChain), i > Len(w.settleChain)
        PROVE  x.settleChain[i].what = "settle"
    <3>1. CASE i > Len(v.settleChain)
      BY <3>1 DEF Calms, Wanes
    <3>2. CASE ~(i > Len(v.settleChain))
      <4>1. i \in 1..Len(v.settleChain)
        BY <1>2, <3>2
      <4> QED
        BY <4>1, <2>3 DEF Calms, Wanes
    <3> QED
      BY <3>1, <3>2
  <2> QED
    BY <1>2, <2>1, <2>2, <2>3
<1>4. ASSUME NEW t \in Work, x.work[t] # w.work[t], w.camp.state = "executing",
             Current(w.camp) \in w.work[t].line
      PROVE  \E i \in 1..Len(x.settleChain) : x.settleChain[i].what = "settle" /\ x.settleChain[i].of = t
  <2>1. CASE v.work[t] # w.work[t]
    <3>1. PICK i \in 1..Len(v.settleChain) : v.settleChain[i].what = "settle" /\ v.settleChain[i].of = t
      BY <1>4, <2>1 DEF Calms, Wanes
    <3>2. i \in 1..Len(x.settleChain) /\ x.settleChain[i] = v.settleChain[i]
      BY <1>2 DEF Calms, Wanes
    <3> QED
      BY <3>1, <3>2
  <2>2. CASE v.work[t] = w.work[t]
    BY <1>4, <2>2 DEF Calms, Wanes
  <2> QED
    BY <2>1, <2>2
<1> QED
  BY <1>1, <1>3, <1>4 DEF Calms, Wanes

\* A world with one row more, of the line of another or of its own.
Grows(w, v, n, p) ==
  /\ v \in Worlds /\ n = Cardinality(RowsOf(w)) + 1 /\ n \in Work /\ p \in RowsOf(w) \cup {NoWork}
  /\ v.work[n].st # "none"
  /\ v.work[n].line = {n} \cup IF p = NoWork THEN {} ELSE w.work[p].line
  /\ \A t \in RowsOf(w) : v.work[t].line = w.work[t].line /\ v.work[t].st # "none"
  /\ \A t \in Work : t \notin RowsOf(w) /\ t # n => v.work[t] = w.work[t]

LEMMA NewRow ==
  ASSUME NEW w \in Worlds, Lineages(w), NEW v, NEW n, NEW p, Grows(w, v, n, p)
  PROVE  /\ Lineages(v) /\ RowsOf(v) = RowsOf(w) \cup {n} /\ n \notin RowsOf(w)
         /\ Cardinality(RowsOf(v)) = n /\ n \in Nat /\ \A t \in RowsOf(w) : t < n
         /\ \A t \in RowsOf(w) :
              /\ RootOf(v, t) = RootOf(w, t)
              /\ NewestOf(v, t) = IF t \in v.work[n].line THEN n ELSE NewestOf(w, t)
         /\ NewestOf(v, n) = n
         /\ RootOf(v, n) = IF p = NoWork THEN n ELSE RootOf(w, p)
         /\ \A c \in CampStates : Known(w, c) => Known(v, c)
<1> DEFINE m == Cardinality(RowsOf(w))
<1>1. m \in 0..MaxWork /\ RowsOf(w) = 1..m /\ NoWork \notin RowsOf(w) /\ n = m + 1
  BY RowFacts DEF Grows
<1>2. v \in Worlds /\ n \in Work /\ n \in Nat /\ p \in RowsOf(w) \cup {NoWork}
  BY <1>1, CampConstants DEF Grows, Work
<1>3. /\ v.work[n].st # "none"
      /\ v.work[n].line = {n} \cup IF p = NoWork THEN {} ELSE w.work[p].line
      /\ \A t \in RowsOf(w) : v.work[t].line = w.work[t].line /\ v.work[t].st # "none"
      /\ \A t \in Work : t \notin RowsOf(w) /\ t # n => v.work[t] = w.work[t]
  BY DEF Grows
<1>4. RowsOf(v) = RowsOf(w) \cup {n}
  BY <1>2, <1>3 DEF RowsOf
<1>5. RowsOf(v) = 1..n /\ n \notin RowsOf(w) /\ \A t \in RowsOf(w) : t < n
  BY <1>1, <1>2, <1>4
<1>6. Cardinality(RowsOf(v)) = n
  <2>1. Cardinality(1..n) = n
    BY <1>2, FS_Interval
  <2> QED
    BY <1>5, <2>1
<1>7. \A t \in RowsOf(w) : RootOf(v, t) = RootOf(w, t)
  BY <1>3 DEF RootOf
<1>8. \A t \in RowsOf(w) : /\ t \in w.work[t].line /\ w.work[t].line \subseteq 1..t
                           /\ w.work[t].line \subseteq RowsOf(w)
                           /\ \A u \in w.work[t].line :
                                w.work[u].line \subseteq w.work[t].line /\ RootOf(w, u) = RootOf(w, t)
  BY RowFacts DEF Lineages
<1>9. RootOf(v, n) = IF p = NoWork THEN n ELSE RootOf(w, p)
  <2>1. v.work[n].line \in SUBSET Nat /\ n \in v.work[n].line
    BY <1>1, <1>2, <1>3, <1>8
  <2>2. RootOf(v, n) \in v.work[n].line /\ \A k \in v.work[n].line : RootOf(v, n) <= k
    BY <2>1, MinIs DEF RootOf
  <2>3. CASE p = NoWork
    BY <1>3, <2>2, <2>3
  <2>4. CASE p # NoWork
    <3>1. p \in RowsOf(w) /\ v.work[n].line = {n} \cup w.work[p].line
      BY <1>2, <1>3, <2>4
    <3>2. w.work[p].line \in SUBSET Nat /\ p \in w.work[p].line
      BY <1>1, <1>8, <3>1
    <3>3. RootOf(w, p) \in w.work[p].line /\ \A k \in w.work[p].line : RootOf(w, p) <= k
      BY <3>2, MinIs DEF RootOf
    <3>4. \A k \in w.work[p].line : k < n
      BY <1>5, <1>8, <3>1
    <3>5. RootOf(v, n) <= RootOf(w, p) /\ RootOf(w, p) < n
      BY <2>2, <3>1, <3>3, <3>4
    <3>6. RootOf(v, n) \in Nat /\ RootOf(w, p) \in Nat
      BY <2>1, <2>2, <3>2, <3>3
    <3>7. RootOf(v, n) # n
      BY <1>2, <3>5, <3>6
    <3>8. RootOf(w, p) <= RootOf(v, n)
      BY <2>2, <3>1, <3>3, <3>7
    <3> QED
      BY <2>4, <3>5, <3>6, <3>8
  <2> QED
    BY <2>3, <2>4
<1>10. Lineages(v)
  <2>1. \A t \in RowsOf(w) :
           /\ t \in v.work[t].line /\ v.work[t].line \subseteq 1..t
           /\ \A u \in v.work[t].line :
                v.work[u].line \subseteq v.work[t].line /\ RootOf(v, u) = RootOf(v, t)
    BY <1>3, <1>7, <1>8
  <2>2. n \in v.work[n].line /\ v.work[n].line \subseteq 1..n
    <3>1. \A k \in RowsOf(w) : k \in 1..n
      BY <1>5, <1>4
    <3>2. n \in 1..n
      BY <1>1, <1>2
    <3> QED
      BY <1>2, <1>3, <1>8, <3>1, <3>2
  <2>3. ASSUME NEW u \in v.work[n].line
        PROVE  v.work[u].line \subseteq v.work[n].line /\ RootOf(v, u) = RootOf(v, n)
    <3>1. CASE u = n
      BY <3>1
    <3>2. CASE u # n
      <4>1. p # NoWork /\ p \in RowsOf(w) /\ u \in w.work[p].line
        BY <1>2, <1>3, <2>3, <3>2
      <4>2. u \in RowsOf(w) /\ w.work[u].line \subseteq w.work[p].line /\ RootOf(w, u) = RootOf(w, p)
        BY <1>8, <4>1
      <4>3. v.work[u].line = w.work[u].line /\ RootOf(v, u) = RootOf(w, u)
        BY <1>3, <1>7, <4>2
      <4> QED
        BY <1>3, <1>9, <4>1, <4>2, <4>3
    <3> QED
      BY <3>1, <3>2
  <2>4. \A t \in Work : v.work[t].st = "none" => v.work[t] = Unborn
    BY <1>3 DEF Lineages, RowsOf
  <2> QED
    BY <1>4, <1>5, <1>6, <2>1, <2>2, <2>3, <2>4 DEF Lineages
<1>11. ASSUME NEW t \in RowsOf(w)
       PROVE  NewestOf(v, t) = IF t \in v.work[n].line THEN n ELSE NewestOf(w, t)
  <2>1. {u \in RowsOf(v) : t \in v.work[u].line}
           = {u \in RowsOf(w) : t \in w.work[u].line} \cup (IF t \in v.work[n].line THEN {n} ELSE {})
    BY <1>3, <1>4
  <2>2. CASE t \in v.work[n].line
    <3>1. t \in RowsOf(v) /\ n \in RowsOf(v)
      BY <1>4
    <3>2. NewestOf(v, t) \in RowsOf(v) /\ n <= NewestOf(v, t)
      BY <1>2, <1>10, <2>2, <3>1, RowFacts
    <3> QED
      BY <1>2, <1>5, <2>2, <3>2
  <2>3. CASE t \notin v.work[n].line
    <3>1. {u \in RowsOf(v) : t \in v.work[u].line} = {u \in RowsOf(w) : t \in w.work[u].line}
      BY <2>1, <2>3
    <3> QED
      BY <2>3, <3>1 DEF NewestOf
  <2> QED
    BY <2>2, <2>3
<1>12. NewestOf(v, n) = n
  <2>1. n \in RowsOf(v) /\ n \in v.work[n].line
    BY <1>3, <1>4
  <2>2. NewestOf(v, n) \in RowsOf(v) /\ n <= NewestOf(v, n)
    BY <1>2, <1>10, <2>1, RowFacts
  <2> QED
    BY <1>2, <1>5, <2>2
<1>13. \A c \in CampStates : Known(w, c) => Known(v, c)
  <2> SUFFICES ASSUME NEW c \in CampStates, Known(w, c), NEW s \in Sprints
               PROVE  /\ c.sprint[s].task \in RowsOf(v) \cup {NoWork}
                      /\ c.sprint[s].tries <= Cardinality(RowsOf(v))
                      /\ s > c.cur => c.sprint[s].task = NoWork
    BY DEF Known
  <2>1. /\ c.sprint[s].task \in RowsOf(w) \cup {NoWork} /\ c.sprint[s].tries <= m
        /\ s > c.cur => c.sprint[s].task = NoWork
    BY DEF Known
  <2>2. c.sprint[s].tries \in Nat
    BY CampConstants DEF CampStates, SprintStates
  <2> QED
    BY <1>1, <1>4, <1>6, <2>1, <2>2
<1> QED
  BY <1>2, <1>4, <1>5, <1>6, <1>7, <1>9, <1>10, <1>11, <1>12, <1>13

---------------------------------------------------------------------------
\* What the handlers are made of keeps the types.

\* What a save does: nothing, over a later generation; or the copy is stored,
\* with the stop of its own generation.
LEMMA SavesIs ==
  ASSUME NEW w \in Worlds, NEW c \in CampStates, NEW v, v = Saves(w, c)
  PROVE  /\ v \in Worlds /\ v.work = w.work /\ v.settleChain = w.settleChain /\ v.busy = w.busy
         /\ v.alarms = w.alarms /\ v.made = w.made
         /\ Older(w, c) => v = w
         /\ ~Older(w, c) =>
              /\ v.camp.state = c.state /\ v.camp.cur = c.cur /\ v.camp.sprint = c.sprint
              /\ v.camp.appt = c.appt /\ v.camp.gen = c.gen /\ Current(v.camp) = Current(c)
              /\ v.camp.stop = (c.stop \/ (w.camp.stop /\ w.camp.gen = c.gen))
<1>1. CASE Older(w, c)
  BY <1>1 DEF Saves
<1>2. CASE ~Older(w, c)
  <2> DEFINE d == [c EXCEPT !.stop = c.stop \/ (w.camp.stop /\ w.camp.gen = c.gen)]
  <2>1. v = [w EXCEPT !.camp = d]
    BY <1>2 DEF Saves
  <2>2. /\ d \in CampStates /\ d.state = c.state /\ d.cur = c.cur /\ d.sprint = c.sprint
        /\ d.appt = c.appt /\ d.gen = c.gen
        /\ d.stop = (c.stop \/ (w.camp.stop /\ w.camp.gen = c.gen))
    BY DEF CampStates, Worlds
  <2> HIDE DEF d
  <2>3. v \in Worlds /\ v.camp = d /\ v.work = w.work /\ v.settleChain = w.settleChain
        /\ v.busy = w.busy /\ v.alarms = w.alarms /\ v.made = w.made
    BY <2>1, <2>2 DEF Worlds
  <2> QED
    BY <1>2, <2>2, <2>3 DEF Current
<1> QED
  BY <1>1, <1>2

LEMMA SaveTyped ==
  ASSUME NEW w, Typed(w), NEW c \in CampStates, Known(w, c), NEW v, v = Saves(w, c)
  PROVE  Typed(v) /\ RowsOf(v) = RowsOf(w) /\ v.camp.gen \in {w.camp.gen, c.gen}
<1>1. w \in Worlds /\ Lineages(w)
  BY DEF Typed
<1>2. CASE Older(w, c)
  <2>1. v = w
    BY <1>1, <1>2, SavesIs
  <2> QED
    BY <2>1
<1>3. CASE ~Older(w, c)
  <2>1. /\ v \in Worlds /\ v.work = w.work /\ v.busy = w.busy /\ v.alarms = w.alarms
        /\ v.camp.cur = c.cur /\ v.camp.sprint = c.sprint /\ v.camp.gen = c.gen
    BY <1>1, <1>3, SavesIs
  <2>2. SameLines(w, v)
    BY <2>1 DEF SameLines
  <2>3. RowsOf(v) = RowsOf(w) /\ Lineages(v) /\ \A d : Known(w, d) => Known(v, d)
    BY <1>1, <2>2, LinesSame
  <2>5. Known(v, v.camp)
    BY <2>1, <2>3 DEF Known
  <2>6. c.gen \in Nat /\ w.camp.gen \in Nat /\ w.camp.gen <= c.gen
    BY <1>1, <1>3 DEF Older, Worlds, CampStates
  <2>7. \A a \in Workers : w.busy[a].copy.gen \in Nat
    BY <1>1 DEF Worlds, Occupations, CampStates
  <2>8. \A a \in Workers : w.busy[a].copy.gen <= v.camp.gen
    BY <2>1, <2>6, <2>7 DEF Typed
  <2>9. \A h \in w.alarms : h.of \in Nat
    BY <1>1 DEF Worlds, Alarms
  <2>10. \A h \in w.alarms : h.kind = "resubmit" => h.of <= v.camp.gen
    BY <2>1, <2>6, <2>9 DEF Typed
  <2> QED
    BY <2>1, <2>3, <2>5, <2>6, <2>8, <2>10 DEF Typed
<1> QED
  BY <1>2, <1>3

\* A worker puts its copy down, or holds one.
Occupies(w, a, b) == [w EXCEPT !.busy[a] = b]
LEMMA BusyTyped ==
  ASSUME NEW w, Typed(w), NEW a \in Workers, NEW b \in Occupations, Known(w, b.copy),
         b.copy.gen <= w.camp.gen, NEW v, v = Occupies(w, a, b)
  PROVE  /\ Typed(v) /\ v.camp = w.camp /\ v.work = w.work /\ v.settleChain = w.settleChain
         /\ v.alarms = w.alarms /\ v.made = w.made /\ v.busy[a] = b
         /\ \A o \in Workers : o # a => v.busy[o] = w.busy[o]
         /\ RowsOf(v) = RowsOf(w)
<1>1. w \in Worlds /\ Lineages(w)
  BY DEF Typed
<1>2. /\ v \in Worlds /\ v.camp = w.camp /\ v.work = w.work /\ v.settleChain = w.settleChain
      /\ v.alarms = w.alarms /\ v.made = w.made /\ v.busy[a] = b
      /\ \A o \in Workers : o # a => v.busy[o] = w.busy[o]
  BY <1>1 DEF Worlds, Occupies
<1>3. SameLines(w, v)
  BY <1>2 DEF SameLines
<1>4. RowsOf(v) = RowsOf(w) /\ Lineages(v) /\ \A d : Known(w, d) => Known(v, d)
  BY <1>1, <1>3, LinesSame
<1> QED
  BY <1>2, <1>4 DEF Typed

LEMMA KnownCamp0 ==
  ASSUME NEW w, Typed(w)
  PROVE  Camp0 \in CampStates /\ Known(w, Camp0) /\ Camp0.gen = 0 /\ Unoccupied \in Occupations
         /\ Unoccupied.copy = Camp0 /\ Unoccupied.at = "rest"
<1>1. 1 \in Sprints /\ 1 \in Work /\ Sprints \subseteq Nat
  BY CampConstants DEF Sprints, Work
<1> DEFINE g == [s \in Sprints |-> IF s = 1 THEN [Sprint0 EXCEPT !.task = 1, !.tries = 1] ELSE Sprint0]
<1>2. /\ Sprint0 \in SprintStates /\ [Sprint0 EXCEPT !.task = 1, !.tries = 1] \in SprintStates
      /\ Sprint0.task = NoWork /\ Sprint0.tries = 0
      /\ [Sprint0 EXCEPT !.task = 1, !.tries = 1].task = 1
      /\ [Sprint0 EXCEPT !.task = 1, !.tries = 1].tries = 1
  <2>1. {0, 1} \subseteq 0..MaxWork /\ 0 \in 0..MaxNarrowings
    BY CampConstants
  <2> QED
    BY <1>1, <2>1 DEF Sprint0, SprintStates, NoWork
<1>3. g \in [Sprints -> SprintStates]
  BY <1>2
<1>4. Camp0 \in CampStates
  BY <1>1, <1>3, CampConstants DEF Camp0, CampStates, NoAppointment
<1>5. Camp0.sprint = g /\ Camp0.cur = 1 /\ Camp0.gen = 0
  BY DEF Camp0
<1>6. Known(w, Camp0)
  <2>1. 1 <= Cardinality(RowsOf(w)) /\ Cardinality(RowsOf(w)) \in Nat
    BY RowFacts DEF Typed
  <2> SUFFICES ASSUME NEW s \in Sprints
               PROVE  /\ g[s].task \in RowsOf(w) \cup {NoWork} /\ g[s].tries <= Cardinality(RowsOf(w))
                      /\ s > 1 => g[s].task = NoWork
    BY <1>5 DEF Known
  <2>2. CASE s = 1
    <3>1. g[s] = [Sprint0 EXCEPT !.task = 1, !.tries = 1]
      BY <2>2
    <3>2. 1 \in RowsOf(w)
      BY DEF Typed
    <3> HIDE DEF g
    <3>3. g[s].task = 1 /\ g[s].tries = 1
      BY <1>2, <3>1
    <3>4. ~(s > 1)
      BY <2>2
    <3> QED
      BY <2>1, <3>2, <3>3, <3>4
  <2>3. CASE s # 1
    BY <1>1, <1>2, <2>1, <2>3
  <2> QED
    BY <2>2, <2>3
<1>7. Unoccupied \in Occupations /\ Unoccupied.copy = Camp0 /\ Unoccupied.at = "rest"
  BY <1>4 DEF Unoccupied, Occupations
<1> QED
  BY <1>4, <1>5, <1>6, <1>7

\* A copy with the same tasks and no attempt more is known where the first one is.
LEMMA StillKnown ==
  ASSUME NEW w, NEW c \in CampStates, Known(w, c), Cardinality(RowsOf(w)) \in Nat,
         NEW d \in CampStates, d.cur = c.cur,
         \A s \in Sprints : /\ d.sprint[s].task = c.sprint[s].task
                            /\ d.sprint[s].tries <= c.sprint[s].tries
  PROVE  Known(w, d)
<1>1. \A s \in Sprints : c.sprint[s].tries \in Nat /\ d.sprint[s].tries \in Nat
  BY CampConstants DEF CampStates, SprintStates
<1> QED
  BY <1>1 DEF Known

\* A copy of the campaign, stopped, by appointment or without one.
FailedTill(c, n) == [c EXCEPT !.state = "failed", !.appt = n]
LEMMA FailedCopy ==
  ASSUME NEW c \in CampStates, NEW n \in Appointments \cup {NoAppointment}
  PROVE  LET d == FailedTill(c, n)
         IN  /\ d \in CampStates /\ d.state = "failed" /\ d.appt = n /\ d.cur = c.cur
             /\ d.sprint = c.sprint /\ d.gen = c.gen /\ d.stop = c.stop /\ d.owned = c.owned
             /\ d.revives = c.revives /\ Current(d) = Current(c)
             /\ \A w : Known(w, c) => Known(w, d)
<1> DEFINE d == FailedTill(c, n)
<1>1. /\ d \in CampStates /\ d.state = "failed" /\ d.appt = n /\ d.cur = c.cur
      /\ d.sprint = c.sprint /\ d.gen = c.gen /\ d.stop = c.stop /\ d.owned = c.owned
      /\ d.revives = c.revives
  BY DEF CampStates, FailedTill
<1> QED
  BY <1>1 DEF Current, Known

LEMMA LandsTyped ==
  ASSUME NEW w, Typed(w), NEW c \in CampStates, Known(w, c), NEW v, v = Lands(w, c)
  PROVE  Typed(v) /\ v.camp.gen \in {w.camp.gen, c.gen}
<1> DEFINE d == FailedTill(c, NoAppointment)
<1>1. d \in CampStates /\ Known(w, d) /\ d.gen = c.gen
  BY FailedCopy DEF FailedTill
<1>2. v = IF Older(w, c) THEN w ELSE RetiresAll(Saves(w, d), d, "none")
  BY DEF Lands, FailedTill
<1> HIDE DEF d
<1>3. Typed(Saves(w, d)) /\ Saves(w, d).camp.gen \in {w.camp.gen, c.gen}
  BY <1>1, SaveTyped
<1>4. /\ Typed(RetiresAll(Saves(w, d), d, "none"))
      /\ RetiresAll(Saves(w, d), d, "none").camp.gen \in {w.camp.gen, c.gen}
  <2>1. Saves(w, d) \in Worlds
    BY <1>3 DEF Typed
  <2>2. Calms(Saves(w, d), RetiresAll(Saves(w, d), d, "none"))
    BY <2>1, AllCalm
  <2> QED
    BY <1>3, <2>2, CalmTyped DEF Calms
<1> QED
  BY <1>2, <1>4

\* An alarm is set.
LEMMA SetsTyped ==
  ASSUME NEW w, Typed(w), NEW h \in Alarms, h.kind = "resubmit" => h.of <= w.camp.gen,
         NEW v, v = Sets(w, h)
  PROVE  /\ Typed(v) /\ v.camp = w.camp /\ v.work = w.work /\ v.settleChain = w.settleChain
         /\ v.busy = w.busy /\ v.made = w.made /\ v.alarms = w.alarms \cup {h}
         /\ RowsOf(v) = RowsOf(w)
<1>1. w \in Worlds /\ Lineages(w)
  BY DEF Typed
<1>2. /\ v \in Worlds /\ v.camp = w.camp /\ v.work = w.work /\ v.settleChain = w.settleChain
      /\ v.busy = w.busy /\ v.made = w.made /\ v.alarms = w.alarms \cup {h}
  BY <1>1 DEF Sets, Worlds
<1>3. SameLines(w, v)
  BY <1>2 DEF SameLines
<1>4. RowsOf(v) = RowsOf(w) /\ Lineages(v) /\ \A d : Known(w, d) => Known(v, d)
  BY <1>1, <1>3, LinesSame
<1> QED
  BY <1>2, <1>4 DEF Typed

\* The count of appointments goes up.
LEMMA MadeTyped ==
  ASSUME NEW w, Typed(w), w.made < MaxAppointments, NEW v, v = [w EXCEPT !.made = @ + 1]
  PROVE  /\ Typed(v) /\ v.camp = w.camp /\ v.work = w.work /\ v.settleChain = w.settleChain
         /\ v.busy = w.busy /\ v.alarms = w.alarms /\ v.made = w.made + 1
         /\ RowsOf(v) = RowsOf(w) /\ w.made + 1 \in Appointments
<1>1. w \in Worlds /\ Lineages(w)
  BY DEF Typed
<1>2. w.made + 1 \in 0..MaxAppointments /\ w.made + 1 \in Appointments
  BY <1>1, CampConstants DEF Worlds, Appointments
<1>3. /\ v \in Worlds /\ v.camp = w.camp /\ v.work = w.work /\ v.settleChain = w.settleChain
      /\ v.busy = w.busy /\ v.alarms = w.alarms /\ v.made = w.made + 1
  BY <1>1, <1>2 DEF Worlds
<1>4. SameLines(w, v)
  BY <1>3 DEF SameLines
<1>5. RowsOf(v) = RowsOf(w) /\ Lineages(v) /\ \A d : Known(w, d) => Known(v, d)
  BY <1>1, <1>4, LinesSame
<1> QED
  BY <1>2, <1>3, <1>5 DEF Typed

\* An appointment is made: the timer is set in any case, the campaign waits for
\* it unless the copy is of an earlier generation.
LEMMA ParksIs ==
  ASSUME NEW w, Typed(w), NEW c \in CampStates, Known(w, c), NEW v \in Parks(w, c)
  PROVE  /\ Typed(v) /\ v.work = w.work /\ v.settleChain = w.settleChain /\ v.busy = w.busy
         /\ v.alarms = w.alarms \cup {[kind |-> "revive", of |-> w.made + 1]}
         /\ w.made + 1 \in Appointments /\ v.made = w.made + 1
         /\ RowsOf(v) = RowsOf(w)
         /\ Older(w, c) => v.camp = w.camp
         /\ ~Older(w, c) =>
              /\ v.camp.state = "failed" /\ v.camp.appt = w.made + 1 /\ v.camp.cur = c.cur
              /\ v.camp.gen = c.gen /\ Current(v.camp) = Current(c)
              /\ v.camp.stop = (c.stop \/ (w.camp.stop /\ w.camp.gen = c.gen))
<1> DEFINE u == [w EXCEPT !.made = @ + 1]
           d == Parked(w, c)
           h == [kind |-> "revive", of |-> w.made + 1]
<1>1. ~NoRoom(w) /\ v = Sets(Saves(u, d), h)
  BY DEF Parks
<1>2. w \in Worlds /\ w.made \in 0..MaxAppointments
  BY DEF Typed, Worlds
<1>3. w.made < MaxAppointments
  BY <1>1, <1>2, CampConstants DEF NoRoom
<1>4. /\ Typed(u) /\ u.camp = w.camp /\ u.work = w.work /\ u.settleChain = w.settleChain
      /\ u.busy = w.busy /\ u.alarms = w.alarms /\ u.made = w.made + 1
      /\ RowsOf(u) = RowsOf(w) /\ w.made + 1 \in Appointments
  BY <1>3, MadeTyped
<1>5. /\ d \in CampStates /\ d.state = "failed" /\ d.appt = w.made + 1 /\ d.cur = c.cur
      /\ d.sprint = c.sprint /\ d.gen = c.gen /\ d.stop = c.stop /\ Current(d) = Current(c)
      /\ Known(w, d)
  <2>1. d = FailedTill(c, w.made + 1)
    BY DEF Parked, FailedTill
  <2> HIDE DEF d
  <2> QED
    BY <1>4, <2>1, FailedCopy
<1>6. Known(u, d) /\ (Older(u, d) <=> Older(w, c))
  BY <1>4, <1>5 DEF Known, Older
<1>7. h \in Alarms /\ h.kind # "resubmit"
  BY <1>4 DEF Alarms, Appointments
<1> DEFINE x == Saves(u, d)
<1> HIDE DEF u, d, h
<1>8. u \in Worlds
  BY <1>4 DEF Typed
<1>9. /\ x \in Worlds /\ x.work = u.work /\ x.settleChain = u.settleChain /\ x.busy = u.busy
      /\ x.alarms = u.alarms /\ x.made = u.made
      /\ Older(u, d) => x = u
      /\ ~Older(u, d) =>
              /\ x.camp.state = d.state /\ x.camp.cur = d.cur /\ x.camp.sprint = d.sprint
              /\ x.camp.appt = d.appt /\ x.camp.gen = d.gen /\ Current(x.camp) = Current(d)
              /\ x.camp.stop = (d.stop \/ (u.camp.stop /\ u.camp.gen = d.gen))
  BY <1>5, <1>8, SavesIs
<1>10. Typed(x) /\ RowsOf(x) = RowsOf(u)
  BY <1>4, <1>5, <1>6, SaveTyped
<1>11. v = Sets(x, h)
  BY <1>1
<1> HIDE DEF x
<1>12. /\ Typed(v) /\ v.camp = x.camp /\ v.work = x.work /\ v.settleChain = x.settleChain
       /\ v.busy = x.busy /\ v.made = x.made /\ v.alarms = x.alarms \cup {h}
       /\ RowsOf(v) = RowsOf(x)
  BY <1>7, <1>10, <1>11, SetsTyped
<1> QED
  BY <1>4, <1>5, <1>6, <1>9, <1>10, <1>12 DEF h

\* A sprint is submitted: one live row more, which the campaign knows as its
\* current sprint's.
LEMMA LaunchIs ==
  ASSUME NEW w, Typed(w), NEW c \in CampStates, Known(w, c), ~Older(w, c), NEW k \in BOOLEAN,
         NEW v \in Launches(w, c, k)
  PROVE  /\ Typed(v) /\ v.settleChain = w.settleChain /\ v.busy = w.busy /\ v.alarms = w.alarms
         /\ v.made = w.made
         /\ \E n \in Work, p \in RowsOf(w) \cup {NoWork} :
              /\ Grows(w, v, n, p) /\ \A t \in Work \ {n} : v.work[t] = w.work[t]
              /\ v.work[n].st = "live" /\ v.camp.state = "executing" /\ v.camp.cur = c.cur
              /\ Current(v.camp) = n /\ v.camp.gen = c.gen
              /\ v.camp.stop = (c.stop \/ (w.camp.stop /\ w.camp.gen = c.gen))
<1> DEFINE n == Cardinality(RowsOf(w)) + 1
           p == IF Current(c) = NoWork \/ StoppedByPerson(w, Current(c)) THEN NoWork ELSE Current(c)
           line == {n} \cup IF p = NoWork THEN {} ELSE w.work[p].line
           s == [c.sprint[c.cur] EXCEPT !.task = n, !.tries = @ + IF k THEN 1 ELSE 0]
           r == [st |-> "live", why |-> "none", line |-> line, by |-> "campaign"]
           u == [w EXCEPT !.work[n] = r]
           d == [c EXCEPT !.state = "executing", !.sprint[c.cur] = s,
                          !.owned = @ \cup {Min(line)}]
<1>1. w \in Worlds /\ Lineages(w) /\ 1 \in RowsOf(w)
  BY DEF Typed
<1>2. Cardinality(RowsOf(w)) \in Nat /\ RowsOf(w) = 1..Cardinality(RowsOf(w))
      /\ NoWork \notin RowsOf(w) /\ \A t \in RowsOf(w) : w.work[t].line \subseteq RowsOf(w)
  BY <1>1, RowFacts
<1>3. c.cur \in Sprints /\ c.sprint \in [Sprints -> SprintStates] /\ Current(c) \in RowsOf(w) \cup {NoWork}
  BY DEF CampStates, Known, Current
<1>4. p \in RowsOf(w) \cup {NoWork}
  BY <1>3
<1>5. n \in Work /\ v = Saves(u, d)
  BY <1>1, <1>3 DEF Launches
<1> HIDE DEF p
<1>6. line \subseteq Work /\ n \in line
  BY <1>2, <1>4, <1>5 DEF RowsOf
<1>7. Min(line) \in line
  <2>1. line \in SUBSET Nat
    BY <1>6, CampConstants DEF Work
  <2> HIDE DEF line
  <2> QED
    BY <1>6, <2>1, MinIs
<1>8. r \in RowStates /\ r.st = "live" /\ r.line = line /\ r.why = "none"
  BY <1>6 DEF RowStates
<1> HIDE DEF r
<1>9. /\ u \in Worlds /\ u.work[n] = r /\ \A t \in Work \ {n} : u.work[t] = w.work[t]
      /\ u.camp = w.camp /\ u.busy = w.busy /\ u.alarms = w.alarms /\ u.made = w.made
      /\ u.settleChain = w.settleChain
  BY <1>1, <1>5, <1>8 DEF Worlds
<1>10. n \notin RowsOf(w)
  BY <1>2
<1>11. Grows(w, u, n, p)
  <2>1. \A t \in RowsOf(w) : t \in Work \ {n} /\ u.work[t].line = w.work[t].line /\ u.work[t].st # "none"
    BY <1>9, <1>10 DEF RowsOf
  <2>2. \A t \in Work : t \notin RowsOf(w) /\ t # n => u.work[t] = w.work[t]
    BY <1>9
  <2> QED
    BY <1>4, <1>5, <1>8, <1>9, <2>1, <2>2 DEF Grows
<1> HIDE DEF u, line
<1>12. /\ Lineages(u) /\ RowsOf(u) = RowsOf(w) \cup {n} /\ Cardinality(RowsOf(u)) = n /\ n \in Nat
       /\ \A e \in CampStates : Known(w, e) => Known(u, e)
  BY <1>1, <1>11, NewRow
<1>13. Typed(u)
  <2>1. w.camp \in CampStates /\ \A a \in Workers : w.busy[a].copy \in CampStates
    BY <1>1 DEF Worlds, Occupations
  <2>2. Known(u, u.camp)
    BY <1>9, <1>12, <2>1 DEF Typed
  <2>3. \A a \in Workers : Known(u, u.busy[a].copy) /\ u.busy[a].copy.gen <= u.camp.gen
    BY <1>9, <1>12, <2>1 DEF Typed
  <2>4. \A h \in u.alarms : h.kind = "resubmit" => h.of <= u.camp.gen
    BY <1>9 DEF Typed
  <2> QED
    BY <1>1, <1>9, <1>12, <2>2, <2>3, <2>4 DEF Typed
<1>14. c.sprint[c.cur].tries + (IF k THEN 1 ELSE 0) \in 0..n /\ n <= MaxWork
  <2>1. c.sprint[c.cur].tries \in Nat /\ c.sprint[c.cur].tries <= Cardinality(RowsOf(w))
    BY <1>3, CampConstants DEF Known, SprintStates
  <2> QED
    BY <1>2, <1>5, <2>1, CampConstants DEF Work
<1>15. s \in SprintStates /\ s.task = n /\ s.tries <= n
  <2>1. c.sprint[c.cur] \in SprintStates
    BY <1>3
  <2>2. c.sprint[c.cur].tries + (IF k THEN 1 ELSE 0) \in 0..MaxWork
    BY <1>2, <1>14, CampConstants
  <2> DEFINE e == c.sprint[c.cur]
             x == c.sprint[c.cur].tries + (IF k THEN 1 ELSE 0)
  <2>3. s = [e EXCEPT !.task = n, !.tries = x]
    OBVIOUS
  <2>4. e \in SprintStates /\ x \in 0..MaxWork /\ x <= n
    BY <1>14, <2>1, <2>2
  <2> HIDE DEF n, e, x, s
  <2> QED
    BY <1>5, <2>3, <2>4 DEF SprintStates
<1> HIDE DEF s
<1>16. /\ d \in CampStates /\ d.state = "executing" /\ d.cur = c.cur /\ d.gen = c.gen /\ d.stop = c.stop
       /\ d.sprint = [c.sprint EXCEPT ![c.cur] = s]
  BY <1>3, <1>6, <1>7, <1>15 DEF CampStates
<1>17. Current(d) = n
  BY <1>3, <1>15, <1>16 DEF Current
<1>18. Known(u, d)
  <2> SUFFICES ASSUME NEW e \in Sprints
               PROVE  /\ d.sprint[e].task \in RowsOf(u) \cup {NoWork}
                      /\ d.sprint[e].tries <= n
                      /\ e > c.cur => d.sprint[e].task = NoWork
    BY <1>12, <1>16 DEF Known
  <2>1. CASE e = c.cur
    <3>0. c.cur \in Int
      BY <1>3 DEF Sprints
    <3>1. d.sprint[e] = s /\ ~(e > c.cur)
      BY <1>3, <1>16, <2>1, <3>0
    <3> QED
      BY <1>12, <1>15, <3>1
  <2>2. CASE e # c.cur
    <3>1. d.sprint[e] = c.sprint[e]
      BY <1>3, <1>16, <2>2
    <3>2. Known(u, c)
      BY <1>12
    <3> QED
      BY <1>12, <3>1, <3>2 DEF Known
  <2> QED
    BY <2>1, <2>2
<1>19. ~Older(u, d)
  BY <1>9, <1>16 DEF Older
<1> HIDE DEF d
<1>20. /\ v \in Worlds /\ v.work = u.work /\ v.settleChain = u.settleChain /\ v.busy = u.busy
       /\ v.alarms = u.alarms /\ v.made = u.made
       /\ v.camp.state = d.state /\ v.camp.cur = d.cur /\ v.camp.gen = d.gen /\ Current(v.camp) = Current(d)
       /\ v.camp.stop = (d.stop \/ (u.camp.stop /\ u.camp.gen = d.gen))
  BY <1>5, <1>9, <1>16, <1>19, SavesIs
<1>21. Typed(v)
  BY <1>5, <1>13, <1>16, <1>18, SaveTyped
<1>22. Grows(w, v, n, p)
  BY <1>11, <1>20 DEF Grows
<1> HIDE DEF n
<1> QED
  BY <1>4, <1>5, <1>8, <1>9, <1>16, <1>17, <1>20, <1>21, <1>22

\* The copies that handlers make of a copy: what each changes, and that it is a
\* copy that knows the same rows.
Anew(c) == [c EXCEPT !.state = "executing", !.appt = NoAppointment,
                     !.sprint[c.cur] = [Sprint0 EXCEPT !.task = Current(c)]]
OnceMore(c) == [c EXCEPT !.revives = @ + 1, !.sprint[c.cur].tries = 0]
Narrower(c) == [c EXCEPT !.sprint[c.cur].narrowed = @ + 1]
Charged(c) == [c EXCEPT !.sprint[c.cur].narrowed = 0]
SentBack(c) == [c EXCEPT !.sprint[c.cur].bounced = TRUE]

\* The same in what the properties tell apart.
Alike(c, d) ==
  /\ d \in CampStates /\ d.cur = c.cur /\ d.gen = c.gen /\ d.stop = c.stop /\ Current(d) = Current(c)
  /\ \A w : Typed(w) /\ Known(w, c) => Known(w, d)

LEMMA SprintChanged ==
  ASSUME NEW c \in CampStates, NEW s \in SprintStates, s.task = Current(c),
         s.tries <= c.sprint[c.cur].tries,
         NEW d \in CampStates, d.cur = c.cur, d.gen = c.gen, d.stop = c.stop,
         d.sprint = [c.sprint EXCEPT ![c.cur] = s]
  PROVE  Alike(c, d)
<1>1. c.cur \in Sprints /\ c.sprint \in [Sprints -> SprintStates]
  BY DEF CampStates
<1>2. \A e \in Sprints : d.sprint[e] = IF e = c.cur THEN s ELSE c.sprint[e]
  BY <1>1
<1>3. Current(d) = Current(c)
  BY <1>1, <1>2 DEF Current
<1>4. \A e \in Sprints : /\ d.sprint[e].task = c.sprint[e].task
                         /\ d.sprint[e].tries <= c.sprint[e].tries
  <2>1. \A e \in Sprints : c.sprint[e].tries \in Nat
    BY <1>1, CampConstants DEF SprintStates
  <2> QED
    BY <1>1, <1>2, <2>1 DEF Current
<1>5. ASSUME NEW w, Typed(w), Known(w, c) PROVE Known(w, d)
  <2>1. w \in Worlds /\ Lineages(w)
    BY <1>5 DEF Typed
  <2>2. Cardinality(RowsOf(w)) \in Nat
    BY <2>1, RowFacts
  <2> QED
    BY <1>4, <1>5, <2>2, StillKnown
<1> QED
  BY <1>3, <1>5 DEF Alike

LEMMA CopiesAlike ==
  ASSUME NEW c \in CampStates
  PROVE  /\ Alike(c, c)
         /\ Alike(c, Anew(c)) /\ Anew(c).state = "executing" /\ Anew(c).appt = NoAppointment
         /\ Alike(c, SentBack(c)) /\ SentBack(c).state = c.state /\ SentBack(c).appt = c.appt
         /\ Alike(c, Charged(c)) /\ Charged(c).state = c.state /\ Charged(c).appt = c.appt
         /\ c.revives < MaxSelfRevivals => Alike(c, OnceMore(c)) /\ OnceMore(c).state = c.state
         /\ c.sprint[c.cur].narrowed < MaxNarrowings =>
              Alike(c, Narrower(c)) /\ Narrower(c).state = c.state
<1> DEFINE e == c.sprint[c.cur]
<1>1. /\ c.cur \in Sprints /\ c.sprint \in [Sprints -> SprintStates] /\ e \in SprintStates
      /\ c.revives \in 0..MaxSelfRevivals /\ e.narrowed \in 0..MaxNarrowings /\ e.tries \in 0..MaxWork
      /\ e.task \in Work \cup {NoWork} /\ Current(c) = e.task
  BY DEF CampStates, SprintStates, Current
<1>2. 0 \in 0..MaxWork /\ 0 \in 0..MaxNarrowings /\ 0 <= e.tries /\ e.tries <= e.tries
  BY <1>1, CampConstants
<1> HIDE DEF e
<1>3. Alike(c, c)
  BY DEF Alike
<1>4. Alike(c, Anew(c)) /\ Anew(c).state = "executing" /\ Anew(c).appt = NoAppointment
  <2> DEFINE s == [Sprint0 EXCEPT !.task = Current(c)]
             d == Anew(c)
  <2>1. s \in SprintStates /\ s.task = Current(c) /\ s.tries = 0
    BY <1>1, <1>2 DEF Sprint0, SprintStates
  <2> HIDE DEF s
  <2>2. /\ d \in CampStates /\ d.cur = c.cur /\ d.gen = c.gen /\ d.stop = c.stop
        /\ d.sprint = [c.sprint EXCEPT ![c.cur] = s]
        /\ d.state = "executing" /\ d.appt = NoAppointment
    BY <1>1, <2>1 DEF Anew, CampStates, s
  <2> HIDE DEF d
  <2>3. Alike(c, d)
    BY <1>2, <2>1, <2>2, SprintChanged DEF e
  <2> QED
    BY <2>2, <2>3 DEF d
<1>5. Alike(c, SentBack(c)) /\ SentBack(c).state = c.state /\ SentBack(c).appt = c.appt
  <2> DEFINE s == [e EXCEPT !.bounced = TRUE]
             d == SentBack(c)
  <2>1. s \in SprintStates /\ s.task = Current(c) /\ s.tries = e.tries
    BY <1>1, <1>2 DEF SprintStates
  <2> HIDE DEF s
  <2>2. /\ d \in CampStates /\ d.cur = c.cur /\ d.gen = c.gen /\ d.stop = c.stop
        /\ d.sprint = [c.sprint EXCEPT ![c.cur] = s]
        /\ d.state = c.state /\ d.appt = c.appt
    BY <1>1, <2>1 DEF SentBack, CampStates, s, e
  <2> HIDE DEF d
  <2>3. Alike(c, d)
    BY <1>2, <2>1, <2>2, SprintChanged DEF e
  <2> QED
    BY <2>2, <2>3 DEF d
<1>6. Alike(c, Charged(c)) /\ Charged(c).state = c.state /\ Charged(c).appt = c.appt
  <2> DEFINE s == [e EXCEPT !.narrowed = 0]
             d == Charged(c)
  <2>1. s \in SprintStates /\ s.task = Current(c) /\ s.tries = e.tries
    BY <1>1, <1>2 DEF SprintStates
  <2> HIDE DEF s
  <2>2. /\ d \in CampStates /\ d.cur = c.cur /\ d.gen = c.gen /\ d.stop = c.stop
        /\ d.sprint = [c.sprint EXCEPT ![c.cur] = s]
        /\ d.state = c.state /\ d.appt = c.appt
    BY <1>1, <2>1 DEF Charged, CampStates, s, e
  <2> HIDE DEF d
  <2>3. Alike(c, d)
    BY <1>2, <2>1, <2>2, SprintChanged DEF e
  <2> QED
    BY <2>2, <2>3 DEF d
<1>7. ASSUME c.revives < MaxSelfRevivals
      PROVE  Alike(c, OnceMore(c)) /\ OnceMore(c).state = c.state
  <2> DEFINE s == [e EXCEPT !.tries = 0]
             d == OnceMore(c)
  <2>1. s \in SprintStates /\ s.task = Current(c) /\ s.tries = 0
    BY <1>1, <1>2 DEF SprintStates
  <2> HIDE DEF s
  <2>2. c.revives + 1 \in 0..MaxSelfRevivals
    BY <1>1, <1>7, CampConstants
  <2>3. /\ d \in CampStates /\ d.cur = c.cur /\ d.gen = c.gen /\ d.stop = c.stop
        /\ d.sprint = [c.sprint EXCEPT ![c.cur] = s]
        /\ d.state = c.state
    BY <1>1, <2>1, <2>2 DEF OnceMore, CampStates, s, e
  <2> HIDE DEF d
  <2>4. Alike(c, d)
    BY <1>2, <2>1, <2>3, SprintChanged DEF e
  <2> QED
    BY <2>3, <2>4 DEF d
<1>8. ASSUME c.sprint[c.cur].narrowed < MaxNarrowings
      PROVE  Alike(c, Narrower(c)) /\ Narrower(c).state = c.state
  <2> DEFINE s == [e EXCEPT !.narrowed = @ + 1]
             d == Narrower(c)
  <2>1. s \in SprintStates /\ s.task = Current(c) /\ s.tries = e.tries
    <3>1. e.narrowed + 1 \in 0..MaxNarrowings
      BY <1>1, <1>8, CampConstants DEF e
    <3> QED
      BY <1>1, <1>2, <3>1 DEF SprintStates
  <2> HIDE DEF s
  <2>2. /\ d \in CampStates /\ d.cur = c.cur /\ d.gen = c.gen /\ d.stop = c.stop
        /\ d.sprint = [c.sprint EXCEPT ![c.cur] = s]
        /\ d.state = c.state
    BY <1>1, <2>1 DEF Narrower, CampStates, s, e
  <2> HIDE DEF d
  <2>3. Alike(c, d)
    BY <1>2, <2>1, <2>2, SprintChanged DEF e
  <2> QED
    BY <2>2, <2>3 DEF d
<1> QED
  BY <1>3, <1>4, <1>5, <1>6, <1>7, <1>8

\* The next sprint, and another row for this one.
NextOf(c) == [c EXCEPT !.cur = @ + 1]
LEMMA NextCopy ==
  ASSUME NEW w, Typed(w), NEW c \in CampStates, Known(w, c), c.cur < Ladder
  PROVE  /\ NextOf(c) \in CampStates /\ NextOf(c).cur = c.cur + 1 /\ NextOf(c).gen = c.gen
         /\ NextOf(c).stop = c.stop /\ NextOf(c).state = c.state
         /\ Current(NextOf(c)) = NoWork /\ Known(w, NextOf(c))
<1> DEFINE d == NextOf(c)
<1>1. c.cur \in Sprints /\ c.cur \in Nat /\ c.cur + 1 \in Sprints /\ c.cur + 1 > c.cur
  BY CampConstants DEF CampStates, Sprints
<1>2. /\ d \in CampStates /\ d.cur = c.cur + 1 /\ d.gen = c.gen /\ d.stop = c.stop
      /\ d.state = c.state /\ d.sprint = c.sprint
  BY <1>1 DEF NextOf, CampStates
<1> HIDE DEF d
<1>3. Current(d) = NoWork
  BY <1>1, <1>2 DEF Current, Known
<1>4. \A s \in Sprints : s > c.cur + 1 => s > c.cur
  BY <1>1 DEF Sprints
<1>5. Known(w, d)
  BY <1>2, <1>4 DEF Known
<1> QED
  BY <1>2, <1>3, <1>5 DEF d

Adopting(w, c, t) == [c EXCEPT !.sprint[c.cur].task = t, !.owned = @ \cup {RootOf(w, t)}]
LEMMA AdoptedCopy ==
  ASSUME NEW w, Typed(w), NEW c \in CampStates, Known(w, c), NEW t \in RowsOf(w)
  PROVE  LET d == Adopting(w, c, t)
         IN  /\ d \in CampStates /\ d.cur = c.cur /\ d.gen = c.gen /\ d.stop = c.stop
             /\ d.state = c.state /\ d.appt = c.appt /\ Current(d) = t /\ Known(w, d)
<1> DEFINE d == Adopting(w, c, t)
           s == [c.sprint[c.cur] EXCEPT !.task = t]
<1>1. w \in Worlds /\ Lineages(w) /\ t \in Work
  BY DEF Typed, RowsOf
<1>2. RootOf(w, t) \in Work
  BY <1>1, RowFacts DEF RowsOf
<1>3. c.cur \in Sprints /\ c.sprint \in [Sprints -> SprintStates]
  BY DEF CampStates
<1>4. s \in SprintStates /\ s.task = t /\ s.tries = c.sprint[c.cur].tries
  BY <1>1, <1>3 DEF SprintStates
<1> HIDE DEF s
<1>5. /\ d \in CampStates /\ d.cur = c.cur /\ d.gen = c.gen /\ d.stop = c.stop
      /\ d.state = c.state /\ d.appt = c.appt /\ d.sprint = [c.sprint EXCEPT ![c.cur] = s]
  BY <1>2, <1>3, <1>4 DEF Adopting, CampStates, s
<1> HIDE DEF d
<1>6. \A e \in Sprints : d.sprint[e] = IF e = c.cur THEN s ELSE c.sprint[e]
  BY <1>3, <1>5
<1>7. Current(d) = t
  BY <1>3, <1>4, <1>5, <1>6 DEF Current
<1>8. c.cur \in Int
  BY <1>3 DEF Sprints
<1>9. Known(w, d)
  BY <1>4, <1>5, <1>6, <1>8 DEF Known
<1> QED
  BY <1>5, <1>7, <1>9 DEF d

\* A worker at rest: the one of the boot has the rest of its round to do.
Idle(a) == IF a = "boot" THEN [Unoccupied EXCEPT !.at = "tail"] ELSE Unoccupied

LEMMA RestTyped ==
  ASSUME NEW w, Typed(w), NEW a \in Workers, NEW v, v = AtRest(w, a)
  PROVE  /\ Typed(v) /\ v.camp = w.camp /\ v.work = w.work /\ v.settleChain = w.settleChain
         /\ v.alarms = w.alarms /\ v.made = w.made
         /\ v.busy[a].at = (IF a = "boot" THEN "tail" ELSE "rest")
         /\ \A o \in Workers : o # a => v.busy[o] = w.busy[o]
         /\ RowsOf(v) = RowsOf(w)
<1>1. /\ Camp0 \in CampStates /\ Known(w, Camp0) /\ Camp0.gen = 0 /\ Unoccupied \in Occupations
      /\ Unoccupied.copy = Camp0 /\ Unoccupied.at = "rest"
  BY KnownCamp0
<1>2. Idle(a) \in Occupations /\ Idle(a).copy = Camp0 /\ Idle(a).at = (IF a = "boot" THEN "tail" ELSE "rest")
  BY <1>1 DEF Idle, Occupations
<1>3. w.camp.gen \in Nat
  BY DEF Typed, Worlds, CampStates
<1>4. v = Occupies(w, a, Idle(a))
  BY DEF AtRest, Idle, Occupies
<1>5. Idle(a).copy.gen <= w.camp.gen
  BY <1>1, <1>2, <1>3
<1>6. Known(w, Idle(a).copy)
  BY <1>1, <1>2
<1> QED
  BY <1>2, <1>4, <1>5, <1>6, BusyTyped

\* What a worker goes on with, once it has saved it.
LEMMA SaveGen ==
  ASSUME NEW w \in Worlds, NEW c \in CampStates
  PROVE  c.gen <= Saves(w, c).camp.gen
<1>1. c.gen \in Nat /\ w.camp.gen \in Nat
  BY DEF Worlds, CampStates
<1>2. CASE Older(w, c)
  BY <1>1, <1>2, SavesIs DEF Older
<1>3. CASE ~Older(w, c)
  BY <1>1, <1>3, SavesIs
<1> QED
  BY <1>2, <1>3

Takes(w, a, p, c, l) == Occupies(w, a, [at |-> p, copy |-> c, live |-> l])
LEMMA AwaitsTyped ==
  ASSUME NEW w, Typed(w), NEW a \in Workers, NEW c \in CampStates, Known(w, c), c.gen <= w.camp.gen,
         NEW p \in {"judging", "narrowed", "overran", "advanced", "parked"}, NEW l \in BOOLEAN,
         NEW v, v = Takes(w, a, p, c, l)
  PROVE  /\ Typed(v) /\ v.camp = w.camp /\ v.work = w.work /\ v.settleChain = w.settleChain
         /\ v.alarms = w.alarms /\ v.made = w.made
         /\ v.busy[a].at = p /\ v.busy[a].copy = c /\ v.busy[a].live = l
         /\ \A o \in Workers : o # a => v.busy[o] = w.busy[o]
         /\ RowsOf(v) = RowsOf(w)
<1> DEFINE b == [at |-> p, copy |-> c, live |-> l]
<1>1. b \in Occupations /\ b.at = p /\ b.copy = c /\ b.live = l
  BY DEF Occupations
<1>2. v = Occupies(w, a, b)
  BY DEF Takes
<1> HIDE DEF b
<1> QED
  BY <1>1, <1>2, BusyTyped

LEMMA TipTyped ==
  ASSUME NEW w, Typed(w), NEW c \in CampStates, Known(w, c), NEW v, v = RetiresTip(w, c)
  PROVE  Typed(v) /\ Calms(w, v) /\ v.camp = w.camp /\ RowsOf(v) = RowsOf(w)
         /\ \A d : Known(w, d) => Known(v, d)
<1>1. w \in Worlds /\ Lineages(w)
  BY DEF Typed
<1>2. Calms(w, v)
  BY <1>1, TipCalm
<1>3. v.camp = w.camp
  BY <1>2 DEF Calms
<1> QED
  BY <1>1, <1>2, <1>3, CalmTyped, CalmLines

LEMMA AllTyped ==
  ASSUME NEW w, Typed(w), NEW c, NEW why \in {"none", "superseded"}, NEW v, v = RetiresAll(w, c, why)
  PROVE  Typed(v) /\ Calms(w, v) /\ v.camp = w.camp /\ RowsOf(v) = RowsOf(w)
         /\ \A d : Known(w, d) => Known(v, d)
<1>1. w \in Worlds /\ Lineages(w)
  BY DEF Typed
<1>2. Calms(w, v)
  BY <1>1, AllCalm
<1>3. v.camp = w.camp
  BY <1>2 DEF Calms
<1> QED
  BY <1>1, <1>2, <1>3, CalmTyped, CalmLines

LEMMA SubmitsTyped ==
  ASSUME NEW w, Typed(w), NEW c \in CampStates, Known(w, c), NEW k \in BOOLEAN,
         NEW v \in SubmitsSprint(w, c, k)
  PROVE  Typed(v) /\ v.camp.gen \in {w.camp.gen, c.gen}
<1>1. CASE w.camp.stop
  <2>1. v = Lands(w, c)
    BY <1>1 DEF SubmitsSprint
  <2> QED
    BY <2>1, LandsTyped
<1>2. CASE ~w.camp.stop /\ Older(w, c)
  <2>1. v = w
    BY <1>2 DEF SubmitsSprint
  <2> QED
    BY <2>1
<1>3. CASE ~w.camp.stop /\ ~Older(w, c)
  <2> DEFINE x == RetiresTip(w, c)
  <2>1. v \in Parks(x, c) \/ v \in Launches(x, c, k)
    BY <1>3 DEF SubmitsSprint
  <2>2. Typed(x) /\ x.camp = w.camp /\ Known(x, c)
    BY TipTyped
  <2>3. ~Older(x, c)
    BY <1>3, <2>2 DEF Older
  <2> HIDE DEF x
  <2> QED
    BY <2>1, <2>2, <2>3, ParksIs, LaunchIs
<1> QED
  BY <1>1, <1>2, <1>3

LEMMA RevivesTyped ==
  ASSUME NEW w, Typed(w), NEW c \in CampStates, Known(w, c), NEW v \in RevivesAt(w, c)
  PROVE  Typed(v) /\ v.camp.gen \in {w.camp.gen, c.gen}
<1> DEFINE x == RetiresTip(w, c)
           d == Anew(c)
           y == Saves(x, d)
<1>1. Typed(x) /\ Known(x, c) /\ x.camp = w.camp
  BY TipTyped
<1>2. d \in CampStates /\ Known(x, d) /\ d.gen = c.gen
  BY <1>1, CopiesAlike DEF Alike
<1>3. v \in SubmitsSprint(y, d, TRUE)
  BY DEF RevivesAt, Anew
<1> HIDE DEF x, d
<1>4. Typed(y) /\ RowsOf(y) = RowsOf(x) /\ y.camp.gen \in {w.camp.gen, c.gen}
  BY <1>1, <1>2, SaveTyped
<1>5. Known(y, d)
  BY <1>2, <1>4 DEF Known
<1> HIDE DEF y
<1>6. Typed(v) /\ v.camp.gen \in {y.camp.gen, d.gen}
  BY <1>2, <1>3, <1>4, <1>5, SubmitsTyped
<1> QED
  BY <1>2, <1>4, <1>6

LEMMA GivesUpTyped ==
  ASSUME NEW w, Typed(w), NEW c \in CampStates, Known(w, c), NEW v \in GivesUp(w, c)
  PROVE  Typed(v) /\ v.camp.gen \in {w.camp.gen, c.gen}
<1>1. CASE c.revives < MaxSelfRevivals
  <2>1. v \in Parks(w, OnceMore(c))
    BY <1>1 DEF GivesUp, OnceMore
  <2>2. OnceMore(c) \in CampStates /\ Known(w, OnceMore(c)) /\ OnceMore(c).gen = c.gen
    BY <1>1, CopiesAlike DEF Alike
  <2> QED
    BY <2>1, <2>2, ParksIs
<1>2. CASE ~(c.revives < MaxSelfRevivals)
  <2>1. v = Saves(w, FailedTill(c, NoAppointment))
    BY <1>2 DEF GivesUp, FailedTill
  <2>2. FailedTill(c, NoAppointment) \in CampStates /\ Known(w, FailedTill(c, NoAppointment))
        /\ FailedTill(c, NoAppointment).gen = c.gen
    BY FailedCopy
  <2> QED
    BY <2>1, <2>2, SaveTyped
<1> QED
  BY <1>1, <1>2

\* An overrun is narrowed, charged or the end of the sprint.
LEMMA OverrunsIs ==
  ASSUME NEW w, NEW a, NEW c, NEW v \in Overruns(w, a, c)
  PROVE  \/ /\ c.sprint[c.cur].narrowed < MaxNarrowings
            /\ v = Takes(Saves(w, Narrower(c)), a, "narrowed", Narrower(c),
                         w.work[NewestOf(w, Current(c))].st \in {"live", "paused"})
         \/ v = Takes(Saves(RetiresTip(w, c), c), a, "overran", c, FALSE)
         \/ \E u \in GivesUp(RetiresTip(w, c), Charged(c)) : v = AtRest(u, a)
BY DEF Overruns, Narrower, Charged, Takes, Occupies, Awaits

LEMMA OverrunsTyped ==
  ASSUME NEW w, Typed(w), NEW a \in Workers, NEW c \in CampStates, Known(w, c),
         NEW v \in Overruns(w, a, c)
  PROVE  Typed(v) /\ v.camp.gen \in {w.camp.gen, c.gen}
<1>1. w \in Worlds
  BY DEF Typed
<1>2. CASE /\ c.sprint[c.cur].narrowed < MaxNarrowings
           /\ v = Takes(Saves(w, Narrower(c)), a, "narrowed", Narrower(c),
                         w.work[NewestOf(w, Current(c))].st \in {"live", "paused"})
  <2> DEFINE d == Narrower(c)
             y == Saves(w, d)
             l == w.work[NewestOf(w, Current(c))].st \in {"live", "paused"}
  <2>1. d \in CampStates /\ Known(w, d) /\ d.gen = c.gen
    BY <1>2, CopiesAlike DEF Alike
  <2>2. v = Takes(y, a, "narrowed", d, l)
    BY <1>2
  <2>3. l \in BOOLEAN
    OBVIOUS
  <2> HIDE DEF d, l
  <2>4. Typed(y) /\ RowsOf(y) = RowsOf(w) /\ d.gen <= y.camp.gen /\ y.camp.gen \in {w.camp.gen, c.gen}
    BY <1>1, <2>1, SaveTyped, SaveGen
  <2>5. Known(y, d)
    BY <2>1, <2>4 DEF Known
  <2> HIDE DEF y
  <2> QED
    BY <2>1, <2>2, <2>3, <2>4, <2>5, AwaitsTyped
<1> DEFINE x == RetiresTip(w, c)
<1>3. Typed(x) /\ Known(x, c) /\ x \in Worlds /\ x.camp = w.camp
  BY TipTyped DEF Typed
<1>4. CASE v = Takes(Saves(x, c), a, "overran", c, FALSE)
  <2> DEFINE y == Saves(x, c)
             l == FALSE
  <2> HIDE DEF x
  <2>1. Typed(y) /\ RowsOf(y) = RowsOf(x) /\ c.gen <= y.camp.gen /\ y.camp.gen \in {w.camp.gen, c.gen}
    BY <1>3, SaveTyped, SaveGen
  <2>2. Known(y, c)
    BY <1>3, <2>1 DEF Known
  <2>3. v = Takes(y, a, "overran", c, l) /\ l \in BOOLEAN
    BY <1>4
  <2> HIDE DEF y, l
  <2> QED
    BY <2>1, <2>2, <2>3, AwaitsTyped
<1>5. CASE \E u \in GivesUp(x, Charged(c)) : v = AtRest(u, a)
  <2>1. PICK u \in GivesUp(x, Charged(c)) : v = AtRest(u, a)
    BY <1>5
  <2>2. Charged(c) \in CampStates /\ Known(x, Charged(c)) /\ Charged(c).gen = c.gen
    BY <1>3, CopiesAlike DEF Alike
  <2> HIDE DEF x
  <2>3. Typed(u) /\ u.camp.gen \in {w.camp.gen, c.gen}
    BY <1>3, <2>2, GivesUpTyped
  <2> QED
    BY <2>1, <2>3, RestTyped
<1>6. \/ /\ c.sprint[c.cur].narrowed < MaxNarrowings
         /\ v = Takes(Saves(w, Narrower(c)), a, "narrowed", Narrower(c),
                      w.work[NewestOf(w, Current(c))].st \in {"live", "paused"})
      \/ v = Takes(Saves(x, c), a, "overran", c, FALSE)
      \/ \E u \in GivesUp(x, Charged(c)) : v = AtRest(u, a)
  BY OverrunsIs, Zenon
<1> QED
  BY <1>2, <1>4, <1>5, <1>6, Zenon

LEMMA SprintFailsIs ==
  ASSUME NEW w, NEW a, NEW c, NEW k \in BOOLEAN, NEW v \in SprintFails(w, a, c, k)
  PROVE  \/ v \in Overruns(w, a, c)
         \/ \E j \in BOOLEAN : v \in SubmitsSprint(AtRest(w, a), c, j)
         \/ v \in Parks(AtRest(w, a), c)
         \/ v \in GivesUp(AtRest(w, a), c)
BY DEF SprintFails

LEMMA SprintFailsTyped ==
  ASSUME NEW w, Typed(w), NEW a \in Workers, NEW c \in CampStates, Known(w, c), NEW k \in BOOLEAN,
         NEW v \in SprintFails(w, a, c, k)
  PROVE  Typed(v) /\ v.camp.gen \in {w.camp.gen, c.gen}
<1> DEFINE r == AtRest(w, a)
<1>1. Typed(r) /\ RowsOf(r) = RowsOf(w) /\ r.camp = w.camp
  BY RestTyped
<1>2. Known(r, c)
  BY <1>1 DEF Known
<1>3. \/ v \in Overruns(w, a, c)
      \/ \E j \in BOOLEAN : v \in SubmitsSprint(r, c, j)
      \/ v \in Parks(r, c)
      \/ v \in GivesUp(r, c)
  BY SprintFailsIs
<1> HIDE DEF r
<1> QED
  BY <1>1, <1>2, <1>3, OverrunsTyped, SubmitsTyped, ParksIs, GivesUpTyped

LEMMA AdoptsTyped ==
  ASSUME NEW w, Typed(w), NEW c \in CampStates, Known(w, c), NEW t \in RowsOf(w)
  PROVE  Typed(Adopts(w, c, t)) /\ Adopts(w, c, t).camp.gen \in {w.camp.gen, c.gen}
<1>1. CASE Current(c) = t
  BY <1>1 DEF Adopts
<1>2. CASE Current(c) # t
  <2>1. Adopts(w, c, t) = Saves(w, Adopting(w, c, t))
    BY <1>2 DEF Adopts, Adopting
  <2> QED
    BY <2>1, AdoptedCopy, SaveTyped
<1> QED
  BY <1>1, <1>2

---------------------------------------------------------------------------
\* The types of the state.

\* The types of the state, with what the generation cannot pass.
IType ==
  /\ Typed(World) /\ barred \in BOOLEAN /\ raced \in BOOLEAN
  /\ wishes \in 0..MaxWishes /\ campBoots \in 0..MaxCampBoots /\ camp.gen <= wishes

LEMMA HappensIs ==
  ASSUME NEW w \in Worlds, Happens(w)
  PROVE  World' = w
<1>1. w = [camp |-> w.camp, work |-> w.work, settleChain |-> w.settleChain, busy |-> w.busy,
           alarms |-> w.alarms, made |-> w.made]
  BY DEF Worlds
<1> QED
  BY <1>1 DEF World, Happens

LEMMA TypedStep ==
  ASSUME IType, NEW w, Typed(w), Happens(w), w.camp.gen <= wishes', barred' \in BOOLEAN,
         raced' \in BOOLEAN, wishes' \in 0..MaxWishes, campBoots' \in 0..MaxCampBoots
  PROVE  IType'
<1>1. World' = w
  BY HappensIs DEF Typed
<1>2. camp' = w.camp
  BY DEF Happens
<1> QED
  BY <1>1, <1>2 DEF IType

LEMMA WorldIs ==
  /\ World.camp = camp /\ World.work = work /\ World.settleChain = settleChain
  /\ World.busy = busy /\ World.alarms = alarms /\ World.made = made
BY DEF World

\* A world that differs from a typed one in its chain.
Requeued(w, q) == [w EXCEPT !.settleChain = q]
LEMMA ChainTyped ==
  ASSUME NEW w, Typed(w), NEW q \in Seq(Handlings), NEW v, v = Requeued(w, q)
  PROVE  /\ Typed(v) /\ v.camp = w.camp /\ v.work = w.work /\ v.settleChain = q
         /\ v.busy = w.busy /\ v.alarms = w.alarms /\ v.made = w.made
         /\ RowsOf(v) = RowsOf(w)
<1>1. w \in Worlds /\ Lineages(w)
  BY DEF Typed
<1>2. /\ v \in Worlds /\ v.camp = w.camp /\ v.work = w.work /\ v.settleChain = q
      /\ v.busy = w.busy /\ v.made = w.made /\ v.alarms = w.alarms
  BY <1>1 DEF Requeued, Worlds
<1>3. SameLines(w, v)
  BY <1>2 DEF SameLines
<1>4. RowsOf(v) = RowsOf(w) /\ Lineages(v) /\ \A d : Known(w, d) => Known(v, d)
  BY <1>1, <1>3, LinesSame
<1> QED
  BY <1>2, <1>4 DEF Typed

\* A world in which the status of rows is another, and the chain.
Turned(w, v) ==
  /\ v \in Worlds /\ v.camp = w.camp /\ v.busy = w.busy /\ v.alarms \subseteq w.alarms
  /\ SameLines(w, v)

LEMMA TurnedTyped ==
  ASSUME NEW w, Typed(w), NEW v, Turned(w, v)
  PROVE  Typed(v)
<1>1. w \in Worlds /\ Lineages(w) /\ SameLines(w, v)
  BY DEF Typed, Turned
<1>2. Lineages(v) /\ RowsOf(v) = RowsOf(w) /\ \A c : Known(w, c) => Known(v, c)
  BY <1>1, LinesSame
<1>3. v \in Worlds /\ v.camp = w.camp /\ v.busy = w.busy /\ v.alarms \subseteq w.alarms
  BY DEF Turned
<1> QED
  BY <1>2, <1>3 DEF Typed

---------------------------------------------------------------------------
\* What the inductive invariant says of a world, and what keeps it.

\* A worker that decides about the sprint, in the present generation.
Deciding == {"judging", "narrowed", "overran"}
Holds(w, a) == w.busy[a].at \in Deciding /\ w.busy[a].copy.gen = w.camp.gen
Unheld(w) == \A a \in Workers : ~Holds(w, a)

\* The submission after an advance, on its way.
Advanced(w, a) == w.busy[a].at = "advanced" /\ w.busy[a].copy.gen = w.camp.gen
Due(w) == [kind |-> "resubmit", of |-> w.camp.gen] \in w.alarms
Coming(w) == Due(w) \/ \E a \in Workers : Advanced(w, a)

\* Nobody is about to decide or to submit.
Free(w) == Unheld(w) /\ ~Coming(w)

\* The end of the current sprint's line.
Tip(w) == NewestOf(w, Current(w.camp))

\* A decision is about an executing campaign's attempt; the resumption at boot
\* takes one while the chain rests.
Orderly(w) ==
  /\ w.busy["boot"].at \in Deciding => w.busy["chain"].at = "rest"
  /\ \A a \in Workers : w.busy[a].at \in Deciding =>
       w.busy[a].copy.state = "executing" /\ Current(w.busy[a].copy) # NoWork

\* A copy is what is stored in all that decides.
Matches(w, c) ==
  /\ w.camp.state = "executing" /\ w.camp.cur = c.cur /\ Current(w.camp) = Current(c)
  /\ c.stop => w.camp.stop

\* A decision is over what is stored, and a judgement over a completed attempt;
\* nothing of the next sprint was submitted before the one submission, to be
\* made once, and no appointment leads to it.
Agreed(w) ==
  /\ \A a \in Workers : Holds(w, a) =>
       /\ Matches(w, w.busy[a].copy)
       /\ w.busy[a].at = "judging" => w.work[Tip(w)].st = "completed"
  /\ Coming(w) => /\ Current(w.camp) = NoWork
                  /\ w.camp.state # "executing" => w.camp.appt = NoAppointment
  /\ Due(w) => \A a \in Workers : ~Advanced(w, a)
  /\ ~(Advanced(w, "chain") /\ Advanced(w, "boot"))

\* A look after a grace is at a sprint that was submitted, or at one gone by.
Pending(w, s) ==
  \/ [kind |-> "reconcile", of |-> s] \in w.alarms
  \/ \E i \in 1..Len(w.settleChain) : w.settleChain[i].what = "reconcile" /\ w.settleChain[i].of = s
Looked(w) ==
  \A s \in Sprints : Pending(w, s) => /\ s <= w.camp.cur
                                      /\ s = w.camp.cur => Current(w.camp) # NoWork

\* Only the end of the current line runs, or may be carried on by the executor,
\* and behind a completed attempt there is none.
Continuable(w, t) ==
  /\ w.work[t].st \in {"blocked", "paused"} /\ NewestOf(w, t) = t
  /\ \A u \in w.work[t].line : w.work[u].st = "cancelled" => w.work[u].why = "superseded"
Active(w, t) == w.work[t].st = "live" \/ Continuable(w, t)
OneTip(w) ==
  \A t \in RowsOf(w) :
    /\ Active(w, t) => Current(w.camp) # NoWork /\ t = Tip(w)
    /\ w.work[t].st = "completed" /\ Current(w.camp) \in w.work[t].line => t = Tip(w)

Core(w) == Orderly(w) /\ Looked(w) /\ OneTip(w)

\* What is going to happen about the current sprint, a stop, an appointment.
AboutIn(w, t) == Current(w.camp) = NoWork \/ SameTree(w, t, Current(w.camp))
StopWaits(w, i) ==
  /\ w.settleChain[i].what = "stop" /\ w.settleChain[i].gen = w.camp.gen
  /\ w.settleChain[i].of \in RowsOf(w) /\ AboutIn(w, w.settleChain[i].of)
Relevant(w, i) ==
  \/ w.settleChain[i].what = "settle" /\ Current(w.camp) \in w.work[w.settleChain[i].of].line
  \/ w.settleChain[i].what = "reconcile" /\ w.settleChain[i].of = w.camp.cur
  \/ StopWaits(w, i)
Decides(w, a) ==
  /\ Holds(w, a)
  /\ w.busy[a].at = "narrowed" /\ w.busy[a].live => w.work[Tip(w)].st \in {"live", "paused"}
Pursued(w) ==
  \/ \E a \in Workers : Decides(w, a) \/ Advanced(w, a)
  \/ \E h \in w.alarms : h.kind = "resubmit"
  \/ [kind |-> "reconcile", of |-> w.camp.cur] \in w.alarms
  \/ \E t \in RowsOf(w) : w.work[t].st = "live" /\ Current(w.camp) \in w.work[t].line
  \/ \E i \in 1..Len(w.settleChain) : Relevant(w, i)
Waited(w) ==
  \/ [kind |-> "revive", of |-> w.camp.appt] \in w.alarms
  \/ w.busy["boot"].at # "rest"
  \/ w.busy["chain"].at = "parked" /\ w.busy["chain"].copy.appt = w.camp.appt
Kept(w) ==
  /\ w.camp.state = "executing" => Pursued(w)
  /\ w.camp.state = "executing" /\ w.camp.stop => \E i \in 1..Len(w.settleChain) : StopWaits(w, i)
  /\ w.camp.state = "failed" /\ w.camp.appt # NoAppointment => Waited(w)

Sane(w) == Core(w) /\ Agreed(w) /\ Kept(w)

\* A person's stop is on record.
Silent(w) ==
  \/ w.camp.stop \/ w.camp.state = "cancelled"
  \/ w.camp.state = "failed" /\ StoppedByPerson(w, Current(w.camp))

\* The campaign submitted nothing.
Submitless(w, v) == \A t \in Work : w.work[t].st = "none" => v.work[t].by # "campaign"

---------------------------------------------------------------------------
\* A world that goes on about the same campaign: rows may be retired, revivals
\* appointed, and a worker with nothing of this generation go on with nothing of it.
Appoints(w, v) ==
  /\ w.alarms \subseteq v.alarms /\ \A h \in v.alarms : h \in w.alarms \/ h.kind = "revive"
Past(w, a) == ~Holds(w, a) /\ ~Advanced(w, a)
Drifts(w, v) ==
  /\ v \in Worlds /\ v.camp = w.camp /\ Wanes(w, v)
  /\ Appoints(w, v)
  /\ \A a \in Workers : v.busy[a] = w.busy[a] \/ (Past(w, a) /\ Past(v, a))
  /\ v.busy["boot"] = w.busy["boot"] \/ v.busy["boot"].at # "rest"
  /\ v.busy["chain"] = w.busy["chain"] \/ w.busy["chain"].at # "parked"

LEMMA SamePending ==
  ASSUME NEW w, NEW v, v.settleChain = w.settleChain, v.alarms = w.alarms, NEW s
  PROVE  Pending(v, s) <=> Pending(w, s)
BY DEF Pending

LEMMA SameActive ==
  ASSUME NEW w, NEW v, v.work = w.work, NEW t
  PROVE  Active(v, t) <=> Active(w, t)
<1>1. RowsOf(v) = RowsOf(w)
  BY DEF RowsOf
<1>2. NewestOf(v, t) = NewestOf(w, t)
  BY <1>1 DEF NewestOf
<1> QED
  BY <1>2 DEF Active, Continuable

LEMMA AppointsTrans ==
  ASSUME NEW w, NEW v
  PROVE  /\ v.alarms = w.alarms => Appoints(w, v)
         /\ \A h : v.alarms = w.alarms \cup {h} /\ h.kind = "revive" => Appoints(w, v)
         /\ \A x : Appoints(w, v) /\ Appoints(v, x) => Appoints(w, x)
BY DEF Appoints

LEMMA CalmDrifts ==
  ASSUME NEW w, NEW v, Calms(w, v)
  PROVE  Drifts(w, v)
BY DEF Calms, Drifts, Appoints

LEMMA WaneRows ==
  ASSUME NEW w, Typed(w), NEW v, v.camp = w.camp, Wanes(w, v)
  PROVE  /\ Tip(v) = Tip(w) /\ RowsOf(v) = RowsOf(w)
         /\ OneTip(w) => OneTip(v)
         /\ \A t \in Work : w.work[t].st \in {"completed", "cancelled"} => v.work[t] = w.work[t]
<1>1. w \in Worlds /\ Lineages(w) /\ SameLines(w, v)
  BY WaneLines DEF Typed
<1>2. /\ RowsOf(v) = RowsOf(w)
      /\ \A t : NewestOf(v, t) = NewestOf(w, t)
  BY <1>1, LinesSame
<1>3. Tip(v) = Tip(w)
  BY <1>2 DEF Tip
<1>4. \A t \in Work : /\ v.work[t].line = w.work[t].line
                      /\ v.work[t] = w.work[t] \/ (w.work[t].st \in Retirable /\ v.work[t].st = "cancelled")
  BY DEF Wanes
<1>5. \A t \in Work : w.work[t].st \in {"completed", "cancelled"} => v.work[t] = w.work[t]
  BY <1>4 DEF Retirable
<1>6. ASSUME NEW t \in RowsOf(w), Active(v, t)
      PROVE  Active(w, t)
  <2>1. t \in Work /\ w.work[t].line \subseteq Work
    BY <1>1 DEF RowsOf, Worlds, RowStates
  <2>2. CASE v.work[t].st = "live"
    BY <1>4, <2>1, <2>2 DEF Active
  <2>3. CASE Continuable(v, t)
    <3>1. v.work[t] = w.work[t]
      BY <1>4, <2>1, <2>3 DEF Continuable
    <3>2. \A u \in w.work[t].line : w.work[u].st = "cancelled" => w.work[u].why = "superseded"
      BY <1>5, <2>1, <2>3, <3>1 DEF Continuable
    <3> QED
      BY <1>2, <2>3, <3>1, <3>2 DEF Active, Continuable
  <2> QED
    BY <1>6, <2>2, <2>3 DEF Active
<1>7. ASSUME OneTip(w), NEW t \in RowsOf(w)
      PROVE  /\ Active(v, t) => Current(v.camp) # NoWork /\ t = Tip(v)
             /\ v.work[t].st = "completed" /\ Current(v.camp) \in v.work[t].line => t = Tip(v)
  <2>1. t \in Work
    BY DEF RowsOf
  <2>2. v.work[t].st = "completed" => v.work[t] = w.work[t]
    BY <1>4, <2>1
  <2> QED
    BY <1>3, <1>6, <1>7, <2>2 DEF OneTip
<1> QED
  BY <1>2, <1>3, <1>5, <1>7 DEF OneTip

LEMMA DriftLooked ==
  ASSUME NEW w, Typed(w), NEW v, Drifts(w, v)
  PROVE  /\ \A i \in 1..Len(w.settleChain) :
              i \in 1..Len(v.settleChain) /\ v.settleChain[i] = w.settleChain[i]
         /\ Looked(w) => Looked(v)
<1>1. w \in Worlds /\ v \in Worlds /\ v.camp = w.camp /\ Wanes(w, v)
  BY DEF Typed, Drifts
<1>2. \A i \in 1..Len(w.settleChain) : i \in 1..Len(v.settleChain) /\ v.settleChain[i] = w.settleChain[i]
  <2>1. Len(w.settleChain) \in Nat /\ Len(v.settleChain) \in Nat
    BY <1>1, LenProperties DEF Worlds
  <2> QED
    BY <1>1, <2>1 DEF Wanes
<1>3. \A s \in Sprints : Pending(v, s) => Pending(w, s)
  <2> SUFFICES ASSUME NEW s \in Sprints, Pending(v, s) PROVE Pending(w, s)
    OBVIOUS
  <2>1. CASE [kind |-> "reconcile", of |-> s] \in v.alarms
    BY <2>1 DEF Drifts, Pending, Appoints
  <2>2. CASE \E i \in 1..Len(v.settleChain) : v.settleChain[i].what = "reconcile" /\ v.settleChain[i].of = s
    <3>1. PICK i \in 1..Len(v.settleChain) : v.settleChain[i].what = "reconcile" /\ v.settleChain[i].of = s
      BY <2>2
    <3>2. ~(i > Len(w.settleChain))
      BY <1>1, <3>1 DEF Wanes
    <3>3. i \in 1..Len(w.settleChain)
      <4>1. Len(w.settleChain) \in Nat /\ Len(v.settleChain) \in Nat
        BY <1>1, LenProperties DEF Worlds
      <4> QED
        BY <3>2, <4>1
    <3> QED
      BY <1>2, <3>1, <3>3 DEF Pending
  <2> QED
    BY <2>1, <2>2 DEF Pending
<1>4. Looked(w) => Looked(v)
  BY <1>1, <1>3 DEF Looked
<1> QED
  BY <1>2, <1>4

LEMMA DriftRelevant ==
  ASSUME NEW w, Typed(w), NEW v, Drifts(w, v), NEW i \in 1..Len(w.settleChain)
  PROVE  /\ StopWaits(w, i) => StopWaits(v, i)
         /\ Relevant(w, i) => Relevant(v, i)
<1> DEFINE C == w.camp
<1>1. w \in Worlds /\ Lineages(w) /\ v.camp = C /\ Wanes(w, v) /\ SameLines(w, v)
  BY WaneLines DEF Typed, Drifts
<1>2. v.settleChain[i] = w.settleChain[i]
  BY DriftLooked
<1>3. \A t, u \in Work : SameTree(v, t, u) <=> SameTree(w, t, u)
  BY <1>1, LinesSame
<1>4. \A t \in Work : v.work[t].line = w.work[t].line
  BY <1>1 DEF Wanes
<1>5. Current(C) \in Work \cup {NoWork} /\ RowsOf(v) = RowsOf(w)
  <2>1. RowsOf(v) = RowsOf(w)
    BY <1>1, LinesSame
  <2> QED
    BY <1>1, <2>1 DEF Worlds, CampStates, SprintStates, Current
<1>6. w.settleChain[i].what \in {"settle", "stop"} => w.settleChain[i].of \in Work
  <2>1. w.settleChain[i] \in Handlings
    BY <1>1, ElementOfSeq DEF Worlds
  <2> QED
    BY <2>1 DEF Handlings
<1>7. StopWaits(w, i) => StopWaits(v, i)
  <2>1. CASE Current(C) = NoWork
    BY <1>1, <1>2, <1>5, <2>1 DEF StopWaits, AboutIn
  <2>2. CASE Current(C) # NoWork
    BY <1>1, <1>2, <1>3, <1>5, <1>6, <2>2 DEF StopWaits, AboutIn
  <2> QED
    BY <2>1, <2>2
<1> QED
  BY <1>1, <1>2, <1>4, <1>6, <1>7 DEF Relevant

LEMMA DriftSane ==
  ASSUME NEW w, Typed(w), NEW v, Drifts(w, v), Orderly(v), Sane(w)
  PROVE  Sane(v)
<1> DEFINE C == w.camp
<1>1. w \in Worlds /\ Lineages(w) /\ v \in Worlds /\ v.camp = C /\ Wanes(w, v) /\ SameLines(w, v)
  BY WaneLines DEF Typed, Drifts
<1>2. /\ RowsOf(v) = RowsOf(w) /\ Tip(v) = Tip(w) /\ OneTip(v)
      /\ \A t \in Work : w.work[t].st \in {"completed", "cancelled"} => v.work[t] = w.work[t]
  BY <1>1, WaneRows DEF Sane, Core
<1>3. \A t, u \in Work : SameTree(v, t, u) <=> SameTree(w, t, u)
  BY <1>1, LinesSame
<1>4. \A t \in Work : /\ v.work[t].line = w.work[t].line
                      /\ v.work[t] = w.work[t] \/ (w.work[t].st \in Retirable /\ v.work[t].st = "cancelled")
  BY <1>1 DEF Wanes
<1>5. C \in CampStates /\ Current(C) \in RowsOf(w) \cup {NoWork} /\ RowsOf(w) \subseteq Work
  BY <1>1 DEF Typed, Known, Worlds, CampStates, Current, RowsOf
<1>6. Due(v) <=> Due(w)
  BY <1>1 DEF Due, Drifts, Appoints
<1>7. \A a \in Workers : /\ Holds(v, a) => v.busy[a] = w.busy[a] /\ Holds(w, a)
                         /\ Holds(w, a) => v.busy[a] = w.busy[a] /\ Holds(v, a)
                         /\ Advanced(v, a) <=> Advanced(w, a)
  BY <1>1 DEF Drifts, Past, Holds, Advanced
<1>8. Current(C) # NoWork => Tip(w) \in Work /\ Tip(w) \in RowsOf(w) /\ Current(C) \in w.work[Tip(w)].line
  BY <1>1, <1>5, RowFacts DEF Tip
<1>9. \A a \in Workers : Holds(w, a) => Current(C) # NoWork
  BY DEF Sane, Core, Agreed, Orderly, Holds, Matches
<1>10. Agreed(v)
  <2>1. ASSUME NEW a \in Workers, Holds(v, a)
        PROVE  /\ Matches(v, v.busy[a].copy)
               /\ v.busy[a].at = "judging" => v.work[Tip(v)].st = "completed"
    <3>1. Holds(w, a) /\ v.busy[a] = w.busy[a]
      BY <1>7, <2>1
    <3>2. /\ Matches(w, w.busy[a].copy)
          /\ w.busy[a].at = "judging" => w.work[Tip(w)].st = "completed"
      BY <3>1 DEF Sane, Agreed
    <3>3. Tip(w) \in Work
      BY <1>8, <1>9, <3>1
    <3> QED
      BY <1>1, <1>2, <3>1, <3>2, <3>3 DEF Matches
  <2>2. Coming(v) <=> Coming(w)
    BY <1>6, <1>7 DEF Coming
  <2>3. "chain" \in Workers /\ "boot" \in Workers
    BY DEF Workers
  <2> QED
    BY <1>1, <1>6, <1>7, <2>1, <2>2, <2>3 DEF Agreed, Sane
<1>11. \A i \in 1..Len(w.settleChain) : i \in 1..Len(v.settleChain) /\ v.settleChain[i] = w.settleChain[i]
  BY DriftLooked
<1>13. Looked(v)
  BY DriftLooked DEF Sane, Core
<1>15. \A i \in 1..Len(w.settleChain) :
         (StopWaits(w, i) => StopWaits(v, i)) /\ (Relevant(w, i) => Relevant(v, i))
  BY DriftRelevant
<1>16. ASSUME C.state = "executing", NEW t \in Work, Current(C) \in w.work[t].line, v.work[t] # w.work[t]
       PROVE  \E i \in 1..Len(v.settleChain) : Relevant(v, i)
  <2>1. PICK i \in 1..Len(v.settleChain) : v.settleChain[i].what = "settle" /\ v.settleChain[i].of = t
    BY <1>1, <1>16 DEF Wanes
  <2> QED
    BY <1>1, <1>4, <1>16, <2>1 DEF Relevant
<1>17. C.state = "executing" => Pursued(v)
  <2> SUFFICES ASSUME C.state = "executing" PROVE Pursued(v)
    OBVIOUS
  <2>1. Pursued(w)
    BY DEF Sane, Kept
  <2>2. ASSUME NEW a \in Workers, Decides(w, a) PROVE Pursued(v)
    <3>1. Holds(v, a) /\ v.busy[a] = w.busy[a] /\ Tip(w) \in Work /\ Current(C) \in w.work[Tip(w)].line
      BY <1>7, <1>8, <1>9, <2>2 DEF Decides
    <3>2. CASE v.work[Tip(w)] = w.work[Tip(w)]
      BY <1>2, <2>2, <3>1, <3>2 DEF Decides, Pursued
    <3>3. CASE v.work[Tip(w)] # w.work[Tip(w)]
      BY <1>16, <3>1, <3>3 DEF Pursued
    <3> QED
      BY <3>2, <3>3
  <2>3. ASSUME NEW a \in Workers, Advanced(w, a) PROVE Pursued(v)
    BY <1>7, <2>3 DEF Pursued
  <2>4. ASSUME NEW h \in w.alarms,
               h.kind = "resubmit" \/ h = [kind |-> "reconcile", of |-> C.cur]
        PROVE  Pursued(v)
    BY <1>1, <2>4 DEF Pursued, Drifts, Appoints
  <2>5. ASSUME NEW t \in RowsOf(w), w.work[t].st = "live", Current(C) \in w.work[t].line
        PROVE  Pursued(v)
    <3>1. t \in Work
      BY <1>5
    <3>2. CASE v.work[t] = w.work[t]
      BY <1>1, <1>2, <2>5, <3>2 DEF Pursued
    <3>3. CASE v.work[t] # w.work[t]
      BY <1>16, <2>5, <3>1, <3>3 DEF Pursued
    <3> QED
      BY <3>2, <3>3
  <2>6. ASSUME NEW i \in 1..Len(w.settleChain), Relevant(w, i) PROVE Pursued(v)
    BY <1>11, <1>15, <2>6 DEF Pursued
  <2> QED
    BY <2>1, <2>2, <2>3, <2>4, <2>5, <2>6 DEF Pursued
<1>18. C.state = "executing" /\ C.stop => \E i \in 1..Len(v.settleChain) : StopWaits(v, i)
  BY <1>11, <1>15 DEF Sane, Kept
<1>19. C.state = "failed" /\ C.appt # NoAppointment => Waited(v)
  <2> SUFFICES ASSUME C.state = "failed", C.appt # NoAppointment PROVE Waited(v)
    OBVIOUS
  <2>1. Waited(w)
    BY DEF Sane, Kept
  <2> QED
    BY <1>1, <2>1 DEF Waited, Drifts, Appoints
<1> QED
  BY <1>1, <1>2, <1>10, <1>13, <1>17, <1>18, <1>19 DEF Sane, Core, Kept

\* Nor does a person's stop go, or a submission come.
LEMMA DriftSilent ==
  ASSUME NEW w, Typed(w), NEW v, v.camp = w.camp, Wanes(w, v)
  PROVE  Submitless(w, v) /\ (Silent(w) => Silent(v))
<1>1. w \in Worlds /\ Lineages(w) /\ SameLines(w, v)
  BY WaneLines DEF Typed
<1>2. RowsOf(v) = RowsOf(w) /\ \A t, u \in Work : SameTree(v, t, u) <=> SameTree(w, t, u)
  BY <1>1, LinesSame
<1>3. \A t \in Work : w.work[t].st = "cancelled" => v.work[t] = w.work[t]
  BY DEF Wanes, Retirable
<1>4. Current(w.camp) \in Work \cup {NoWork} /\ RowsOf(w) \subseteq Work
  BY <1>1 DEF Worlds, CampStates, SprintStates, Current, RowsOf
<1>5. StoppedByPerson(w, Current(w.camp)) => StoppedByPerson(v, Current(w.camp))
  BY <1>2, <1>3, <1>4 DEF StoppedByPerson
<1>6. ASSUME NEW t \in Work, w.work[t].st = "none" PROVE v.work[t].by # "campaign"
  <2>1. w.work[t] = Unborn /\ v.work[t].by = w.work[t].by
    BY <1>1, <1>6 DEF Lineages, Wanes
  <2> QED
    BY <2>1 DEF Unborn
<1> QED
  BY <1>5, <1>6 DEF Silent, Submitless

\* The campaign as stored changes, in the same place of the ladder.
Stays(w, v) ==
  /\ v.work = w.work /\ v.settleChain = w.settleChain
  /\ Appoints(w, v)
  /\ v.camp.cur = w.camp.cur /\ Current(v.camp) = Current(w.camp)

LEMMA SameStays ==
  ASSUME NEW w, NEW v, v.work = w.work, v.settleChain = w.settleChain, v.alarms = w.alarms,
         v.camp = w.camp
  PROVE  Stays(w, v)
BY DEF Stays, Appoints

LEMMA StayCore ==
  ASSUME NEW w, NEW v, Stays(w, v), Core(w), Orderly(v)
  PROVE  Core(v) /\ Tip(v) = Tip(w)
<1>1. RowsOf(v) = RowsOf(w) /\ Tip(v) = Tip(w) /\ \A t : NewestOf(v, t) = NewestOf(w, t)
  BY DEF Stays, RowsOf, Tip, NewestOf
<1>2. OneTip(v)
  BY <1>1 DEF Stays, Core, OneTip, Active, Continuable
<1>3. Looked(v)
  BY DEF Stays, Core, Looked, Pending, Appoints
<1> QED
  BY <1>1, <1>2, <1>3 DEF Core

LEMMA SameBusy ==
  ASSUME NEW w, NEW v, v.busy = w.busy, v.camp.gen = w.camp.gen,
         Appoints(w, v)
  PROVE  /\ (Orderly(w) => Orderly(v)) /\ (Unheld(w) => Unheld(v))
         /\ \A a \in Workers : /\ Holds(v, a) <=> Holds(w, a)
                               /\ Advanced(v, a) <=> Advanced(w, a)
         /\ (Due(v) <=> Due(w)) /\ (Coming(v) <=> Coming(w))
         /\ Free(w) => Free(v)
<1>1. \A a \in Workers : (Holds(v, a) <=> Holds(w, a)) /\ (Advanced(v, a) <=> Advanced(w, a))
  BY DEF Holds, Advanced
<1>2. Due(v) <=> Due(w)
  BY DEF Due, Appoints
<1>3. Coming(v) <=> Coming(w)
  BY <1>1, <1>2 DEF Coming
<1>4. (Orderly(w) => Orderly(v)) /\ (Unheld(w) => Unheld(v))
  BY <1>1 DEF Orderly, Unheld
<1> QED
  BY <1>1, <1>2, <1>3, <1>4 DEF Free

LEMMA FreeAgreed ==
  ASSUME NEW w, Free(w)
  PROVE  Agreed(w)
<1>1. ~Due(w) /\ \A a \in Workers : ~Holds(w, a) /\ ~Advanced(w, a)
  BY DEF Free, Unheld, Coming
<1>2. "chain" \in Workers
  BY DEF Workers
<1> QED
  BY <1>1, <1>2 DEF Agreed, Coming

\* The copy is of the present generation, and where the stored campaign is.
Abreast(w, c) ==
  c.gen = w.camp.gen /\ c.cur = w.camp.cur /\ Current(c) = Current(w.camp)

\* A save that keeps the place.
LEMMA SaveStays ==
  ASSUME NEW w, Typed(w), NEW c \in CampStates, Known(w, c), Abreast(w, c), NEW v, v = Saves(w, c)
  PROVE  /\ Typed(v) /\ Stays(w, v) /\ v.busy = w.busy /\ v.alarms = w.alarms /\ v.made = w.made
         /\ v.camp.gen = w.camp.gen /\ v.camp.state = c.state /\ v.camp.appt = c.appt
         /\ v.camp.stop = (c.stop \/ w.camp.stop) /\ ~Older(w, c)
         /\ RowsOf(v) = RowsOf(w) /\ \A d : Known(w, d) => Known(v, d)
<1>1. w \in Worlds /\ w.camp.gen \in Nat
  BY DEF Typed, Worlds, CampStates
<1>2. ~Older(w, c)
  BY <1>1 DEF Older, Abreast
<1>3. Typed(v) /\ RowsOf(v) = RowsOf(w)
  BY SaveTyped
<1>4. /\ v.work = w.work /\ v.settleChain = w.settleChain /\ v.busy = w.busy
      /\ v.alarms = w.alarms /\ v.made = w.made
      /\ v.camp.state = c.state /\ v.camp.cur = c.cur
      /\ v.camp.appt = c.appt /\ v.camp.gen = c.gen /\ Current(v.camp) = Current(c)
      /\ v.camp.stop = (c.stop \/ (w.camp.stop /\ w.camp.gen = c.gen))
  BY <1>1, <1>2, SavesIs
<1>5. \A d : Known(w, d) => Known(v, d)
  BY <1>3 DEF Known
<1> QED
  BY <1>2, <1>3, <1>4, <1>5 DEF Abreast, Stays, Appoints

\* A campaign that stopped, and waits for nothing.
LEMMA StoppedSane ==
  ASSUME NEW w, Typed(w), Core(w), Agreed(w), NEW v, Stays(w, v), v.busy = w.busy, v.camp.gen = w.camp.gen,
         Unheld(w), v.camp.state # "executing", v.camp.appt = NoAppointment
  PROVE  Sane(v)
<1>1. Appoints(w, v)
  BY DEF Stays
<1>2. /\ (Orderly(w) => Orderly(v)) /\ (Unheld(w) => Unheld(v))
      /\ \A a \in Workers : /\ Holds(v, a) <=> Holds(w, a)
                            /\ Advanced(v, a) <=> Advanced(w, a)
      /\ (Due(v) <=> Due(w)) /\ (Coming(v) <=> Coming(w))
  BY <1>1, SameBusy
<1>3. Core(v)
  BY <1>2, StayCore DEF Core
<1>4. "chain" \in Workers /\ "boot" \in Workers
  BY DEF Workers
<1>5. Agreed(v)
  BY <1>2, <1>4 DEF Agreed, Unheld, Stays
<1>6. Kept(v)
  BY DEF Kept
<1> QED
  BY <1>3, <1>5, <1>6 DEF Sane

LEMMA LandsSane ==
  ASSUME NEW w, Typed(w), NEW c \in CampStates, Known(w, c), Core(w), Agreed(w), Unheld(w),
         Abreast(w, c), NEW v, v = Lands(w, c)
  PROVE  Sane(v)
<1> DEFINE d == FailedTill(c, NoAppointment)
           x == Saves(w, d)
<1>1. d \in CampStates /\ Known(w, d) /\ Abreast(w, d) /\ d.state = "failed" /\ d.appt = NoAppointment
      /\ d.gen = c.gen
  <2>1. NoAppointment \in Appointments \cup {NoAppointment}
    OBVIOUS
  <2>2. /\ d \in CampStates /\ Known(w, d) /\ d.state = "failed" /\ d.appt = NoAppointment
        /\ d.gen = c.gen /\ d.cur = c.cur /\ Current(d) = Current(c)
    BY <2>1, FailedCopy
  <2> HIDE DEF d
  <2> QED
    BY <2>2 DEF Abreast
<1>2. v = IF Older(w, c) THEN w ELSE RetiresAll(x, d, "none")
  BY DEF Lands, FailedTill
<1> HIDE DEF d
<1>3. /\ Typed(x) /\ Stays(w, x) /\ x.busy = w.busy /\ x.camp.gen = w.camp.gen
      /\ x.camp.state = "failed" /\ x.camp.appt = NoAppointment /\ ~Older(w, d)
  BY <1>1, SaveStays
<1>4. ~Older(w, c)
  BY <1>1, <1>3 DEF Older
<1> HIDE DEF x
<1>5. Sane(x)
  BY <1>3, StoppedSane
<1>6. Calms(x, RetiresAll(x, d, "none"))
  BY <1>3, AllCalm DEF Typed
<1>7. Drifts(x, v) /\ v.busy = x.busy
  BY <1>2, <1>4, <1>6, CalmDrifts DEF Calms
<1>8. Orderly(v)
  BY <1>5, <1>7 DEF Sane, Core, Orderly
<1> QED
  BY <1>3, <1>5, <1>7, <1>8, DriftSane

\* An appointment is all that a free campaign needs.
LEMMA ParksSane ==
  ASSUME NEW w, Typed(w), NEW c \in CampStates, Known(w, c), Core(w), Free(w), Abreast(w, c),
         NEW v \in Parks(w, c)
  PROVE  Sane(v) /\ Free(v)
<1>1. /\ Typed(v) /\ v.work = w.work /\ v.settleChain = w.settleChain /\ v.busy = w.busy
      /\ v.alarms = w.alarms \cup {[kind |-> "revive", of |-> w.made + 1]}
      /\ ~Older(w, c) =>
              /\ v.camp.state = "failed" /\ v.camp.appt = w.made + 1 /\ v.camp.cur = c.cur
              /\ v.camp.gen = c.gen /\ Current(v.camp) = Current(c)
  BY ParksIs
<1>2. ~Older(w, c)
  BY DEF Older, Abreast, CampStates
<1>3. Stays(w, v) /\ v.camp.gen = w.camp.gen
  BY <1>1, <1>2 DEF Stays, Abreast, Appoints
<1>4. (Orderly(w) => Orderly(v)) /\ (Free(w) => Free(v))
  <2>1. Appoints(w, v)
    BY <1>1 DEF Appoints
  <2> QED
    BY <1>1, <1>3, <2>1, SameBusy
<1>5. Core(v)
  BY <1>3, <1>4, StayCore DEF Core
<1>6. Kept(v)
  BY <1>1, <1>2 DEF Kept, Waited
<1> QED
  BY <1>4, <1>5, <1>6, FreeAgreed DEF Sane

LEMMA LaunchSane ==
  ASSUME NEW w, Typed(w), NEW c \in CampStates, Known(w, c), Core(w), Free(w), Abreast(w, c),
         ~c.stop, ~w.camp.stop, Current(c) # NoWork => w.work[Tip(w)].st \notin Retirable,
         NEW k \in BOOLEAN, NEW v \in Launches(w, c, k)
  PROVE  Sane(v)
<1>1. ~Older(w, c)
  BY DEF Older, Abreast, CampStates
<1>2. /\ Typed(v) /\ v.settleChain = w.settleChain /\ v.busy = w.busy /\ v.alarms = w.alarms
      /\ \E n \in Work, p \in RowsOf(w) \cup {NoWork} :
              /\ Grows(w, v, n, p) /\ \A t \in Work \ {n} : v.work[t] = w.work[t]
              /\ v.work[n].st = "live" /\ v.camp.state = "executing" /\ v.camp.cur = c.cur
              /\ Current(v.camp) = n /\ v.camp.gen = c.gen
              /\ v.camp.stop = (c.stop \/ (w.camp.stop /\ w.camp.gen = c.gen))
  BY <1>1, LaunchIs
<1>3. PICK n \in Work, p \in RowsOf(w) \cup {NoWork} :
              /\ Grows(w, v, n, p) /\ \A t \in Work \ {n} : v.work[t] = w.work[t]
              /\ v.work[n].st = "live" /\ v.camp.state = "executing" /\ v.camp.cur = c.cur
              /\ Current(v.camp) = n /\ v.camp.gen = c.gen
              /\ v.camp.stop = (c.stop \/ (w.camp.stop /\ w.camp.gen = c.gen))
  BY <1>2
<1>4. w \in Worlds /\ Lineages(w)
  BY DEF Typed
<1>5. /\ Lineages(v) /\ RowsOf(v) = RowsOf(w) \cup {n} /\ n \notin RowsOf(w)
      /\ \A t \in RowsOf(w) : NewestOf(v, t) = IF t \in v.work[n].line THEN n ELSE NewestOf(w, t)
      /\ NewestOf(v, n) = n /\ n \in Nat
  BY <1>3, <1>4, NewRow
<1>6. \A t \in RowsOf(w) : t \in Work /\ v.work[t] = w.work[t] /\ w.work[t].line \subseteq RowsOf(w)
                            /\ NewestOf(w, t) \in RowsOf(w)
  BY <1>3, <1>4, <1>5, RowFacts DEF RowsOf
<1>7. Tip(v) = n /\ n # NoWork /\ n \in v.work[n].line
  BY <1>3, <1>5 DEF Tip, Grows, Work, NoWork
<1>8. ASSUME NEW t \in RowsOf(w), Active(v, t) PROVE FALSE
  <2>1. v.work[t] = w.work[t] /\ w.work[t].line \subseteq RowsOf(w)
    BY <1>6
  <2>2. Active(w, t)
    <3>1. CASE v.work[t].st = "live"
      BY <2>1, <3>1 DEF Active
    <3>2. CASE Continuable(v, t)
      <4>1. NewestOf(w, t) = t
        BY <1>5, <1>8, <3>2 DEF Continuable
      <4>2. \A u \in w.work[t].line : v.work[u] = w.work[u]
        BY <1>6
      <4> QED
        BY <2>1, <3>2, <4>1, <4>2 DEF Active, Continuable
    <3> QED
      BY <1>8, <3>1, <3>2 DEF Active
  <2>3. Current(w.camp) # NoWork /\ t = Tip(w)
    BY <2>2 DEF Core, OneTip
  <2>4. w.work[t].st \notin Retirable
    BY <2>3 DEF Abreast
  <2> QED
    BY <2>2, <2>4 DEF Active, Continuable, Retirable
<1>9. OneTip(v)
  <2> SUFFICES ASSUME NEW t \in RowsOf(v)
               PROVE  /\ Active(v, t) => Current(v.camp) # NoWork /\ t = Tip(v)
                      /\ v.work[t].st = "completed" /\ Current(v.camp) \in v.work[t].line => t = Tip(v)
    BY DEF OneTip
  <2>1. CASE t = n
    BY <1>3, <1>7, <2>1
  <2>2. CASE t \in RowsOf(w)
    BY <1>3, <1>5, <1>6, <1>8, <2>2
  <2> QED
    BY <1>5, <2>1, <2>2
<1>10. Looked(v)
  BY <1>2, <1>3, <1>7 DEF Core, Looked, Pending, Abreast
<1>11. (Orderly(w) => Orderly(v)) /\ (Free(w) => Free(v))
  BY <1>2, <1>3, SameBusy DEF Abreast, Appoints
<1>12. Kept(v)
  <2>1. ~v.camp.stop
    BY <1>3
  <2>2. Pursued(v)
    BY <1>3, <1>5, <1>7 DEF Pursued
  <2> QED
    BY <1>3, <2>1, <2>2 DEF Kept
<1> QED
  BY <1>9, <1>10, <1>11, <1>12, FreeAgreed DEF Sane, Core

LEMMA SubmitOlder ==
  ASSUME NEW w, NEW c, NEW k, Older(w, c), NEW v \in SubmitsSprint(w, c, k)
  PROVE  v = w
BY DEF SubmitsSprint, Lands

LEMMA SubmitSane ==
  ASSUME NEW w, Typed(w), NEW c \in CampStates, Known(w, c), Core(w), Free(w), Abreast(w, c),
         c.stop => w.camp.stop, NEW k \in BOOLEAN, NEW v \in SubmitsSprint(w, c, k)
  PROVE  Sane(v)
<1>0. ~Older(w, c) /\ Agreed(w) /\ Unheld(w)
  BY FreeAgreed DEF Older, Abreast, CampStates, Free
<1>1. CASE w.camp.stop
  <2>1. v = Lands(w, c)
    BY <1>1 DEF SubmitsSprint
  <2> QED
    BY <1>0, <2>1, LandsSane
<1>2. CASE ~w.camp.stop
  <2> DEFINE x == RetiresTip(w, c)
  <2>1. v \in Parks(x, c) \/ v \in Launches(x, c, k)
    BY <1>0, <1>2 DEF SubmitsSprint
  <2>2. Typed(x) /\ Calms(w, x) /\ x.camp = w.camp /\ Known(x, c)
    BY TipTyped
  <2>3. Current(c) # NoWork => x.work[NewestOf(w, Current(c))].st \notin Retirable
    BY TipCalm DEF Typed
  <2> HIDE DEF x
  <2>4. x.busy = w.busy /\ x.alarms = w.alarms /\ Wanes(w, x) /\ Abreast(x, c)
    BY <2>2 DEF Calms, Abreast
  <2>5. Tip(x) = Tip(w) /\ OneTip(x)
    BY <2>2, <2>4, WaneRows DEF Core
  <2>6. Drifts(w, x)
    BY <2>2, CalmDrifts
  <2>7. Orderly(x) /\ Free(x)
    BY <2>2, <2>4, SameBusy DEF Core, Appoints
  <2>8. Looked(x)
    BY <2>2, <2>4, DriftLooked, <2>6 DEF Core
  <2>9. Current(c) # NoWork => x.work[Tip(x)].st \notin Retirable
    BY <2>3, <2>5 DEF Tip, Abreast
  <2>10. Core(x)
    BY <2>5, <2>7, <2>8 DEF Core
  <2> QED
    BY <1>2, <2>1, <2>2, <2>4, <2>7, <2>9, <2>10, ParksSane, LaunchSane
<1> QED
  BY <1>1, <1>2

\* Over a person's stop, or with a copy of an earlier generation, nothing is
\* submitted, and the stop stays.
LEMMA SubmitSilent ==
  ASSUME NEW w, Typed(w), NEW c \in CampStates, Known(w, c), NEW k \in BOOLEAN,
         NEW v \in SubmitsSprint(w, c, k), Older(w, c) \/ w.camp.stop
  PROVE  /\ Submitless(w, v)
         /\ Older(w, c) \/ c.gen = w.camp.gen => (Silent(w) => Silent(v))
<1>1. CASE Older(w, c)
  <2>1. v = w
    BY <1>1, SubmitOlder
  <2>2. Lineages(w)
    BY DEF Typed
  <2> QED
    BY <2>1, <2>2 DEF Submitless, Lineages, Unborn
<1>2. CASE ~Older(w, c) /\ w.camp.stop
  <2> DEFINE d == FailedTill(c, NoAppointment)
             x == Saves(w, d)
  <2>1. v = RetiresAll(x, d, "none")
    BY <1>2 DEF SubmitsSprint, Lands, FailedTill
  <2>2. d \in CampStates /\ Known(w, d) /\ d.gen = c.gen
    BY FailedCopy
  <2> HIDE DEF d
  <2>3. Typed(x) /\ x.work = w.work
    BY <2>2, SaveTyped, SavesIs DEF Typed
  <2>4. c.gen = w.camp.gen => x.camp.stop
    <3>1. ~Older(w, d)
      BY <1>2, <2>2 DEF Older
    <3>2. x.camp.stop = (d.stop \/ (w.camp.stop /\ w.camp.gen = d.gen))
      BY <2>2, <3>1, SavesIs DEF Typed
    <3> QED
      BY <1>2, <2>2, <3>2
  <2> HIDE DEF x
  <2>5. v.camp = x.camp /\ Calms(x, v)
    BY <2>1, <2>3, AllTyped
  <2>6. Submitless(x, v)
    BY <2>3, <2>5, DriftSilent DEF Calms
  <2> QED
    BY <1>2, <2>3, <2>4, <2>5, <2>6 DEF Submitless, Silent
<1> QED
  BY <1>1, <1>2

LEMMA CalmCore ==
  ASSUME NEW w, Typed(w), Core(w), NEW v, Calms(w, v)
  PROVE  /\ Core(v) /\ Tip(v) = Tip(w) /\ v.busy = w.busy /\ v.camp = w.camp /\ v.alarms = w.alarms
         /\ Free(w) => Free(v)
<1>1. /\ v.camp = w.camp /\ v.busy = w.busy /\ v.alarms = w.alarms /\ Wanes(w, v)
  BY DEF Calms
<1>2. Tip(v) = Tip(w) /\ OneTip(v)
  BY <1>1, WaneRows DEF Core
<1>3. Looked(v)
  BY CalmDrifts, DriftLooked DEF Core
<1>4. Orderly(v) /\ (Free(w) => Free(v))
  BY <1>1, SameBusy DEF Core, Appoints
<1> QED
  BY <1>1, <1>2, <1>3, <1>4 DEF Core

\* Nothing of this generation is held or about to be submitted but by worker a.
Alone(w, a) ==
  /\ ~Due(w) /\ ~Advanced(w, a)
  /\ \A b \in Workers : b # a => ~Holds(w, b) /\ ~Advanced(w, b)
  /\ a = "boot" => w.busy["chain"].at = "rest"
  /\ a = "chain" => w.busy["boot"].at \notin Deciding

LEMMA AloneSame ==
  ASSUME NEW w, NEW a \in Workers, Alone(w, a), NEW v, v.busy = w.busy, v.camp.gen = w.camp.gen,
         Appoints(w, v)
  PROVE  Alone(v, a)
<1>1. /\ \A b \in Workers : /\ Holds(v, b) <=> Holds(w, b)
                            /\ Advanced(v, b) <=> Advanced(w, b)
      /\ Due(v) <=> Due(w)
  BY SameBusy
<1> QED
  BY <1>1 DEF Alone

\* The worker that puts its copy down leaves the campaign free.
LEMMA RestFrees ==
  ASSUME NEW w, Typed(w), NEW a \in Workers, NEW v, v = AtRest(w, a)
  PROVE  /\ Alone(w, a) => Free(v)
         /\ Orderly(w) => Orderly(v)
         /\ Stays(w, v) /\ v.camp = w.camp /\ Typed(v) /\ RowsOf(v) = RowsOf(w)
<1>1. /\ Typed(v) /\ v.camp = w.camp /\ v.work = w.work /\ v.settleChain = w.settleChain
      /\ v.alarms = w.alarms /\ v.made = w.made
      /\ v.busy[a].at = (IF a = "boot" THEN "tail" ELSE "rest")
      /\ \A o \in Workers : o # a => v.busy[o] = w.busy[o]
      /\ RowsOf(v) = RowsOf(w)
  BY RestTyped
<1>2. v.busy[a].at \in {"tail", "rest"} /\ (a = "chain" => v.busy[a].at = "rest")
  BY <1>1
<1>3. ~Holds(v, a) /\ ~Advanced(v, a)
  BY <1>2 DEF Holds, Advanced, Deciding
<1>4. \A o \in Workers : o # a => (Holds(v, o) <=> Holds(w, o)) /\ (Advanced(v, o) <=> Advanced(w, o))
  BY <1>1 DEF Holds, Advanced
<1>5. Alone(w, a) => Free(v)
  BY <1>1, <1>3, <1>4 DEF Alone, Free, Unheld, Coming, Due
<1>6. ASSUME Orderly(w) PROVE Orderly(v)
  <2>1. \A o \in Workers : v.busy[o].at \in Deciding => v.busy[o] = w.busy[o]
    BY <1>1, <1>2 DEF Deciding
  <2>2. v.busy["boot"].at \in Deciding => v.busy["chain"].at = "rest"
    <3>1. CASE a = "boot"
      BY <1>2, <3>1 DEF Deciding
    <3>2. CASE a = "chain"
      BY <1>2, <3>2
    <3> QED
      BY <3>1, <3>2 DEF Workers
  <2> QED
    BY <1>6, <2>1, <2>2 DEF Orderly
<1> QED
  BY <1>1, <1>5, <1>6 DEF Stays, Appoints

\* A campaign that failed with a timer for its appointment, or without one.
LEMMA FailsSane ==
  ASSUME NEW w, Core(w), NEW v, Stays(w, v), Orderly(v), Free(v), v.camp.state = "failed",
         v.camp.appt # NoAppointment => [kind |-> "revive", of |-> v.camp.appt] \in v.alarms
  PROVE  Sane(v)
<1>1. Core(v)
  BY StayCore
<1>2. Kept(v)
  BY DEF Kept, Waited
<1> QED
  BY <1>1, <1>2, FreeAgreed DEF Sane

\* An exhausted sprint.
LEMMA GivesUpIs ==
  ASSUME NEW w, Typed(w), NEW c \in CampStates, Known(w, c), NEW v \in GivesUp(w, c)
  PROVE  /\ v.work = w.work /\ v.settleChain = w.settleChain /\ v.busy = w.busy
         /\ Appoints(w, v)
         /\ Older(w, c) => v.camp = w.camp
         /\ ~Older(w, c) =>
              /\ v.camp.state = "failed" /\ v.camp.cur = c.cur /\ Current(v.camp) = Current(c)
              /\ v.camp.gen = c.gen /\ v.camp.stop = (c.stop \/ (w.camp.stop /\ w.camp.gen = c.gen))
              /\ v.camp.appt # NoAppointment => [kind |-> "revive", of |-> v.camp.appt] \in v.alarms
<1>1. CASE c.revives < MaxSelfRevivals
  <2> DEFINE d == OnceMore(c)
  <2>1. v \in Parks(w, d)
    BY <1>1 DEF GivesUp, OnceMore
  <2>2. d \in CampStates /\ Known(w, d) /\ d.gen = c.gen /\ d.cur = c.cur /\ d.stop = c.stop
        /\ Current(d) = Current(c)
    BY <1>1, CopiesAlike DEF Alike
  <2>3. Older(w, d) <=> Older(w, c)
    BY <2>2 DEF Older
  <2> HIDE DEF d
  <2> QED
    BY <2>1, <2>2, <2>3, ParksIs DEF Appoints
<1>2. CASE ~(c.revives < MaxSelfRevivals)
  <2> DEFINE d == FailedTill(c, NoAppointment)
  <2>1. v = Saves(w, d)
    BY <1>2 DEF GivesUp, FailedTill
  <2>2. /\ d \in CampStates /\ Known(w, d) /\ d.gen = c.gen /\ d.cur = c.cur /\ d.stop = c.stop
        /\ Current(d) = Current(c) /\ d.state = "failed" /\ d.appt = NoAppointment
    BY FailedCopy
  <2>3. Older(w, d) <=> Older(w, c)
    BY <2>2 DEF Older
  <2> HIDE DEF d
  <2> QED
    BY <2>1, <2>2, <2>3, SavesIs DEF Typed, Appoints
<1> QED
  BY <1>1, <1>2

\* A worker takes the campaign up to decide about its attempt.
Heeded(w) == w.camp.stop => \E i \in 1..Len(w.settleChain) : StopWaits(w, i)
LEMMA TakesSane ==
  ASSUME NEW w, Typed(w), Core(w), NEW a \in Workers, Alone(w, a), Heeded(w),
         NEW c \in CampStates, Known(w, c), Abreast(w, c), Matches(w, c), c.state = "executing",
         Current(c) # NoWork, NEW p \in Deciding, NEW l \in BOOLEAN,
         p = "judging" => w.work[Tip(w)].st = "completed",
         p = "narrowed" /\ l => w.work[Tip(w)].st \in {"live", "paused"},
         NEW v, v = Takes(w, a, p, c, l)
  PROVE  Sane(v)
<1>1. c.gen <= w.camp.gen
  BY DEF Abreast, CampStates
<1>2. p \in {"judging", "narrowed", "overran", "advanced", "parked"}
  BY DEF Deciding
<1>3. /\ Typed(v) /\ v.camp = w.camp /\ v.work = w.work /\ v.settleChain = w.settleChain
      /\ v.alarms = w.alarms /\ v.made = w.made
      /\ v.busy[a].at = p /\ v.busy[a].copy = c /\ v.busy[a].live = l
      /\ \A o \in Workers : o # a => v.busy[o] = w.busy[o]
      /\ RowsOf(v) = RowsOf(w)
  <2> DEFINE b == [at |-> p, copy |-> c, live |-> l]
  <2>1. b \in Occupations /\ b.at = p /\ b.copy = c /\ b.live = l
    BY <1>2 DEF Occupations
  <2>2. v = Occupies(w, a, b)
    BY DEF Takes
  <2> HIDE DEF b
  <2> QED
    BY <1>1, <2>1, <2>2, BusyTyped
<1>4. Holds(v, a) /\ ~Advanced(v, a)
  BY <1>3 DEF Holds, Advanced, Deciding, Abreast
<1>5. \A o \in Workers : o # a => ~Holds(v, o) /\ ~Advanced(v, o)
  BY <1>3 DEF Holds, Advanced, Alone
<1>6. ~Due(v) /\ ~Coming(v)
  BY <1>3, <1>4, <1>5 DEF Alone, Due, Coming
<1>7. Orderly(v)
  <2>1. \A o \in Workers : v.busy[o].at \in Deciding =>
           v.busy[o].copy.state = "executing" /\ Current(v.busy[o].copy) # NoWork
    BY <1>3 DEF Core, Orderly
  <2>2. v.busy["boot"].at \in Deciding => v.busy["chain"].at = "rest"
    <3>1. CASE a = "boot"
      BY <1>3, <3>1 DEF Alone, Workers
    <3>2. CASE a = "chain"
      BY <1>3, <3>2 DEF Alone, Workers
    <3> QED
      BY <3>1, <3>2 DEF Workers
  <2> QED
    BY <2>1, <2>2 DEF Orderly
<1>8. Stays(w, v)
  BY <1>3 DEF Stays, Appoints
<1>9. Core(v) /\ Tip(v) = Tip(w)
  BY <1>7, <1>8, StayCore
<1>10. Agreed(v)
  <2>1. Matches(v, v.busy[a].copy) /\ (v.busy[a].at = "judging" => v.work[Tip(v)].st = "completed")
    BY <1>3, <1>9 DEF Matches
  <2>2. ~(Advanced(v, "chain") /\ Advanced(v, "boot"))
    BY <1>4, <1>5 DEF Workers
  <2> QED
    BY <1>5, <1>6, <2>1, <2>2 DEF Agreed
<1>11. Decides(v, a)
  BY <1>3, <1>4, <1>9 DEF Decides
<1>12. Kept(v)
  <2>1. Pursued(v)
    BY <1>11 DEF Pursued
  <2>2. \A i : StopWaits(w, i) => StopWaits(v, i)
    BY <1>3 DEF StopWaits, AboutIn, SameTree, RootOf
  <2>3. v.camp.state = "executing"
    BY <1>3 DEF Matches
  <2> QED
    BY <1>3, <2>1, <2>2, <2>3 DEF Kept, Heeded
<1> QED
  BY <1>9, <1>10, <1>12 DEF Sane

LEMMA StaysHeeded ==
  ASSUME NEW w, NEW v, Stays(w, v), v.camp.gen = w.camp.gen
  PROVE  /\ \A i : StopWaits(v, i) <=> StopWaits(w, i)
         /\ Heeded(w) /\ (v.camp.stop => w.camp.stop) => Heeded(v)
<1>1. \A t, u : SameTree(v, t, u) <=> SameTree(w, t, u)
  BY DEF Stays, SameTree, RootOf
<1>2. \A i : StopWaits(v, i) <=> StopWaits(w, i)
  BY <1>1 DEF Stays, StopWaits, AboutIn, RowsOf
<1> QED
  BY <1>2 DEF Heeded, Stays

LEMMA CalmHeeded ==
  ASSUME NEW w, Typed(w), Heeded(w), NEW v, Calms(w, v)
  PROVE  Heeded(v)
<1>1. Drifts(w, v) /\ v.camp = w.camp
  BY CalmDrifts DEF Calms
<1>2. \A i \in 1..Len(w.settleChain) : i \in 1..Len(v.settleChain) /\ (StopWaits(w, i) => StopWaits(v, i))
  BY <1>1, DriftLooked, DriftRelevant
<1> QED
  BY <1>1, <1>2 DEF Heeded

\* What a worker may go on with: the campaign as stored, executing an attempt.
Able(w, a, c) ==
  /\ Typed(w) /\ Core(w) /\ Alone(w, a) /\ Heeded(w)
  /\ c \in CampStates /\ Known(w, c) /\ Abreast(w, c) /\ Matches(w, c)
  /\ c.state = "executing" /\ Current(c) # NoWork

LEMMA OverrunsSane ==
  ASSUME NEW w, NEW a \in Workers, NEW c, Able(w, a, c), NEW v \in Overruns(w, a, c)
  PROVE  Sane(v)
<1>1. /\ Typed(w) /\ Core(w) /\ Alone(w, a) /\ Heeded(w)
      /\ c \in CampStates /\ Known(w, c) /\ Abreast(w, c) /\ Matches(w, c)
      /\ c.state = "executing" /\ Current(c) # NoWork
  BY DEF Able
<1> DEFINE x == RetiresTip(w, c)
<1>2. /\ Typed(x) /\ Calms(w, x) /\ x.camp = w.camp /\ Known(x, c)
  BY <1>1, TipTyped
<1> HIDE DEF x
<1>3. /\ Core(x) /\ x.busy = w.busy /\ x.alarms = w.alarms
  BY <1>1, <1>2, CalmCore
<1>4. Alone(x, a) /\ Heeded(x) /\ Abreast(x, c) /\ Matches(x, c)
  BY <1>1, <1>2, <1>3, AloneSame, CalmHeeded DEF Abreast, Matches, Appoints
<1>5. ASSUME c.sprint[c.cur].narrowed < MaxNarrowings,
             v = Takes(Saves(w, Narrower(c)), a, "narrowed", Narrower(c),
                       w.work[NewestOf(w, Current(c))].st \in {"live", "paused"})
      PROVE  Sane(v)
  <2> DEFINE d == Narrower(c)
             y == Saves(w, d)
             l == w.work[NewestOf(w, Current(c))].st \in {"live", "paused"}
             p == "narrowed"
  <2>1. /\ d \in CampStates /\ Known(w, d) /\ d.gen = c.gen /\ d.cur = c.cur /\ d.stop = c.stop
        /\ Current(d) = Current(c) /\ d.state = c.state
    BY <1>1, <1>5, CopiesAlike DEF Alike
  <2>2. v = Takes(y, a, p, d, l) /\ p \in Deciding /\ p # "judging" /\ l \in BOOLEAN
    BY <1>5 DEF Deciding
  <2>3. l => w.work[Tip(w)].st \in {"live", "paused"}
    BY <1>1 DEF Tip, Abreast
  <2> HIDE DEF d, l, p
  <2>4. Abreast(w, d)
    BY <1>1, <2>1 DEF Abreast
  <2>5. /\ Typed(y) /\ Stays(w, y) /\ y.busy = w.busy /\ y.alarms = w.alarms
        /\ y.camp.gen = w.camp.gen /\ y.camp.state = d.state
        /\ y.camp.stop = (d.stop \/ w.camp.stop) /\ Known(y, d)
    BY <1>1, <2>1, <2>4, SaveStays
  <2> HIDE DEF y
  <2>6. Orderly(y) /\ Alone(y, a)
    BY <1>1, <2>5, SameBusy, AloneSame DEF Core, Appoints
  <2>7. Core(y) /\ Tip(y) = Tip(w)
    BY <1>1, <2>5, <2>6, StayCore
  <2>8. Heeded(y)
    BY <1>1, <2>1, <2>5, StaysHeeded DEF Matches
  <2>9. Abreast(y, d) /\ Matches(y, d) /\ d.state = "executing" /\ Current(d) # NoWork
    BY <1>1, <2>1, <2>5 DEF Abreast, Matches, Stays
  <2>10. y.work = w.work
    BY <2>5 DEF Stays
  <2> QED
    BY <2>1, <2>2, <2>3, <2>5, <2>6, <2>7, <2>8, <2>9, <2>10, TakesSane
<1>6. ASSUME v = Takes(Saves(x, c), a, "overran", c, FALSE)
      PROVE  Sane(v)
  <2> DEFINE y == Saves(x, c)
             l == FALSE
             p == "overran"
  <2>1. v = Takes(y, a, p, c, l) /\ p \in Deciding /\ p # "judging" /\ p # "narrowed" /\ l \in BOOLEAN
    BY <1>6 DEF Deciding
  <2> HIDE DEF l, p
  <2>2. /\ Typed(y) /\ Stays(x, y) /\ y.busy = x.busy /\ y.alarms = x.alarms
        /\ y.camp.gen = x.camp.gen /\ y.camp.state = c.state
        /\ y.camp.stop = (c.stop \/ x.camp.stop) /\ Known(y, c)
    BY <1>1, <1>2, <1>4, SaveStays
  <2> HIDE DEF y
  <2>3. Orderly(y) /\ Alone(y, a)
    BY <1>3, <1>4, <2>2, SameBusy, AloneSame DEF Core, Appoints
  <2>4. Core(y)
    BY <1>3, <2>2, <2>3, StayCore
  <2>5. Heeded(y)
    BY <1>4, <2>2, StaysHeeded DEF Matches
  <2>6. Abreast(y, c) /\ Matches(y, c)
    BY <1>1, <1>4, <2>2 DEF Abreast, Matches, Stays
  <2> QED
    BY <1>1, <2>1, <2>2, <2>3, <2>4, <2>5, <2>6, TakesSane
<1>7. ASSUME \E u \in GivesUp(x, Charged(c)) : v = AtRest(u, a)
      PROVE  Sane(v)
  <2> DEFINE d == Charged(c)
  <2>1. PICK u \in GivesUp(x, d) : v = AtRest(u, a)
    BY <1>7
  <2>2. /\ d \in CampStates /\ Known(x, d) /\ d.gen = c.gen /\ d.cur = c.cur /\ Current(d) = Current(c)
    BY <1>1, <1>2, CopiesAlike DEF Alike
  <2> HIDE DEF d
  <2>3. ~Older(x, d)
    BY <1>4, <2>2 DEF Older, Abreast, CampStates
  <2>4. /\ u.work = x.work /\ u.settleChain = x.settleChain /\ u.busy = x.busy
        /\ Appoints(x, u)
        /\ u.camp.state = "failed" /\ u.camp.cur = d.cur /\ Current(u.camp) = Current(d)
        /\ u.camp.gen = d.gen
        /\ u.camp.appt # NoAppointment => [kind |-> "revive", of |-> u.camp.appt] \in u.alarms
    BY <1>2, <2>2, <2>3, GivesUpIs
  <2>5. Typed(u)
    BY <1>2, <2>2, GivesUpTyped
  <2>6. Alone(u, a) /\ Orderly(u)
    BY <1>3, <1>4, <2>2, <2>4, AloneSame, SameBusy DEF Abreast, Core
  <2>7. Free(v) /\ Orderly(v) /\ v.camp = u.camp /\ Stays(u, v)
    BY <2>1, <2>5, <2>6, RestFrees
  <2>8. Stays(x, v) /\ u.alarms \subseteq v.alarms
    BY <1>4, <2>2, <2>4, <2>7 DEF Stays, Abreast, Appoints
  <2> QED
    BY <1>3, <2>4, <2>7, <2>8, FailsSane
<1>8. \/ /\ c.sprint[c.cur].narrowed < MaxNarrowings
         /\ v = Takes(Saves(w, Narrower(c)), a, "narrowed", Narrower(c),
                      w.work[NewestOf(w, Current(c))].st \in {"live", "paused"})
      \/ v = Takes(Saves(x, c), a, "overran", c, FALSE)
      \/ \E u \in GivesUp(x, Charged(c)) : v = AtRest(u, a)
  BY OverrunsIs, Zenon DEF x
<1> QED
  BY <1>5, <1>6, <1>7, <1>8, Zenon

LEMMA SprintFailsSane ==
  ASSUME NEW w, NEW a \in Workers, NEW c, Able(w, a, c), NEW k \in BOOLEAN,
         NEW v \in SprintFails(w, a, c, k)
  PROVE  Sane(v)
<1>1. /\ Typed(w) /\ Core(w) /\ Alone(w, a)
      /\ c \in CampStates /\ Known(w, c) /\ Abreast(w, c) /\ Matches(w, c)
  BY DEF Able
<1> DEFINE r == AtRest(w, a)
<1>2. /\ Free(r) /\ Orderly(r) /\ Stays(w, r) /\ r.camp = w.camp /\ Typed(r) /\ RowsOf(r) = RowsOf(w)
  BY <1>1, RestFrees DEF Core
<1>3. \/ v \in Overruns(w, a, c)
      \/ \E j \in BOOLEAN : v \in SubmitsSprint(r, c, j)
      \/ v \in Parks(r, c)
      \/ v \in GivesUp(r, c)
  BY SprintFailsIs
<1> HIDE DEF r
<1>4. Core(r) /\ Known(r, c) /\ Abreast(r, c) /\ (c.stop => r.camp.stop)
  BY <1>1, <1>2, StayCore DEF Known, Abreast, Matches
<1>5. CASE v \in GivesUp(r, c)
  <2>1. ~Older(r, c)
    BY <1>1, <1>4 DEF Older, Abreast, CampStates
  <2>2. /\ v.work = r.work /\ v.settleChain = r.settleChain /\ v.busy = r.busy
        /\ Appoints(r, v)
        /\ v.camp.state = "failed" /\ v.camp.cur = c.cur /\ Current(v.camp) = Current(c)
        /\ v.camp.gen = c.gen
        /\ v.camp.appt # NoAppointment => [kind |-> "revive", of |-> v.camp.appt] \in v.alarms
    BY <1>1, <1>2, <1>4, <1>5, <2>1, GivesUpIs
  <2>3. Stays(r, v) /\ v.camp.gen = r.camp.gen
    BY <1>4, <2>2 DEF Stays, Abreast
  <2>4. Free(v) /\ Orderly(v)
    BY <1>2, <2>2, <2>3, SameBusy
  <2> QED
    BY <1>4, <2>2, <2>3, <2>4, FailsSane
<1> QED
  BY <1>1, <1>2, <1>3, <1>4, <1>5, OverrunsSane, SubmitSane, ParksSane

\* A worker with a copy of an earlier generation.
Outdated(w, a, c) ==
  /\ Typed(w) /\ Orderly(w) /\ c \in CampStates /\ Known(w, c) /\ Older(w, c)
  /\ c.state = "executing" /\ Current(c) # NoWork
  /\ Past(w, a) /\ w.busy[a].at # "parked"
  /\ a = "boot" => w.busy["chain"].at = "rest"
  /\ a = "chain" => w.busy["boot"].at \notin Deciding

LEMMA WorkerDrifts ==
  ASSUME NEW w, NEW a \in Workers, NEW c, Outdated(w, a, c),
         NEW v \in Worlds, v.camp = w.camp, Wanes(w, v),
         Appoints(w, v),
         \A o \in Workers : o # a => v.busy[o] = w.busy[o],
         a = "boot" => v.busy[a].at # "rest",
         \/ /\ v.busy[a].copy.gen = c.gen
            /\ v.busy[a].at \in Deciding =>
                 v.busy[a].copy.state = "executing" /\ Current(v.busy[a].copy) # NoWork
         \/ v.busy[a].at \in {"rest", "tail"}
  PROVE  Drifts(w, v) /\ Orderly(v)
<1>1. c.gen # w.camp.gen
  BY DEF Older, Outdated, CampStates
<1>2. ~Holds(v, a) /\ ~Advanced(v, a)
  BY <1>1 DEF Holds, Advanced, Deciding
<1>3. Drifts(w, v)
  BY <1>2 DEF Drifts, Past, Outdated, Workers
<1>4. \A o \in Workers : v.busy[o].at \in Deciding =>
         v.busy[o].copy.state = "executing" /\ Current(v.busy[o].copy) # NoWork
  <2>1. \A o \in Workers : o # a /\ v.busy[o].at \in Deciding =>
         v.busy[o].copy.state = "executing" /\ Current(v.busy[o].copy) # NoWork
    BY DEF Outdated, Orderly
  <2>2. v.busy[a].at \in Deciding =>
         v.busy[a].copy.state = "executing" /\ Current(v.busy[a].copy) # NoWork
    BY DEF Deciding
  <2> QED
    BY <2>1, <2>2
<1>5. v.busy["boot"].at \in Deciding => v.busy["chain"].at = "rest"
  <2>1. CASE a = "boot"
    BY <2>1 DEF Outdated, Workers
  <2>2. CASE a = "chain"
    BY <2>2 DEF Outdated, Workers
  <2> QED
    BY <2>1, <2>2 DEF Workers
<1> QED
  BY <1>3, <1>4, <1>5 DEF Orderly

LEMMA OverrunsOlder ==
  ASSUME NEW w, NEW a \in Workers, NEW c, Outdated(w, a, c), NEW v \in Overruns(w, a, c)
  PROVE  Drifts(w, v) /\ Orderly(v)
<1>1. /\ Typed(w) /\ w \in Worlds /\ c \in CampStates /\ Known(w, c) /\ Older(w, c)
      /\ c.state = "executing" /\ Current(c) # NoWork /\ c.gen <= w.camp.gen
  BY DEF Outdated, Typed, Older, Worlds, CampStates
<1> DEFINE x == RetiresTip(w, c)
<1>2. /\ Typed(x) /\ Calms(w, x) /\ x.camp = w.camp /\ Known(x, c)
  BY <1>1, TipTyped
<1> HIDE DEF x
<1>3. /\ x.busy = w.busy /\ x.alarms = w.alarms /\ Wanes(w, x) /\ Wanes(w, w)
      /\ Older(x, c) /\ x \in Worlds
  BY <1>1, <1>2, CalmSame DEF Calms, Older
<1>4. ASSUME c.sprint[c.cur].narrowed < MaxNarrowings,
             v = Takes(Saves(w, Narrower(c)), a, "narrowed", Narrower(c),
                       w.work[NewestOf(w, Current(c))].st \in {"live", "paused"})
      PROVE  Drifts(w, v) /\ Orderly(v)
  <2> DEFINE d == Narrower(c)
             l == w.work[NewestOf(w, Current(c))].st \in {"live", "paused"}
  <2>1. /\ d \in CampStates /\ Known(w, d) /\ d.gen = c.gen /\ Current(d) = Current(c) /\ d.state = c.state
    BY <1>1, <1>4, CopiesAlike DEF Alike
  <2>2. Saves(w, d) = w
    <3>1. Older(w, d)
      BY <1>1, <2>1 DEF Older
    <3> QED
      BY <3>1 DEF Saves
  <2>3. v = Takes(w, a, "narrowed", d, l) /\ "narrowed" \in Deciding /\ l \in BOOLEAN
    BY <1>4, <2>2 DEF Deciding
  <2> HIDE DEF d, l
  <2>4. /\ Typed(v) /\ v.camp = w.camp /\ v.work = w.work /\ v.settleChain = w.settleChain
        /\ v.alarms = w.alarms /\ v.busy[a].at = "narrowed" /\ v.busy[a].copy = d
        /\ \A o \in Workers : o # a => v.busy[o] = w.busy[o]
    BY <1>1, <2>1, <2>3, AwaitsTyped
  <2>5. Wanes(w, v) /\ v \in Worlds
    BY <1>3, <2>4 DEF Wanes, Typed
  <2> QED
    BY <1>1, <2>1, <2>3, <2>4, <2>5, WorkerDrifts DEF Appoints
<1>5. ASSUME v = Takes(Saves(x, c), a, "overran", c, FALSE)
      PROVE  Drifts(w, v) /\ Orderly(v)
  <2> DEFINE l == FALSE
  <2>1. Saves(x, c) = x
    BY <1>3 DEF Saves
  <2>2. v = Takes(x, a, "overran", c, l) /\ "overran" \in Deciding /\ l \in BOOLEAN
    BY <1>5, <2>1 DEF Deciding
  <2> HIDE DEF l
  <2>3. /\ Typed(v) /\ v.camp = x.camp /\ v.work = x.work /\ v.settleChain = x.settleChain
        /\ v.alarms = x.alarms /\ v.busy[a].at = "overran" /\ v.busy[a].copy = c
        /\ \A o \in Workers : o # a => v.busy[o] = x.busy[o]
    <3> DEFINE b == [at |-> "overran", copy |-> c, live |-> l]
    <3>1. b \in Occupations /\ b.at = "overran" /\ b.copy = c
      BY <1>1, <2>2 DEF Occupations
    <3>2. v = Occupies(x, a, b) /\ c.gen <= x.camp.gen
      BY <1>1, <1>2, <2>2 DEF Takes
    <3> HIDE DEF b
    <3> QED
      BY <1>2, <3>1, <3>2, BusyTyped
  <2>4. Wanes(w, v) /\ v \in Worlds
    BY <1>3, <2>3 DEF Wanes, Typed
  <2>5. Appoints(w, v) /\ \A o \in Workers : o # a => v.busy[o] = w.busy[o]
    BY <1>3, <2>3 DEF Appoints
  <2>6. /\ v.busy[a].copy.gen = c.gen /\ v.busy[a].at # "rest" /\ v.camp = w.camp
        /\ v.busy[a].copy.state = "executing" /\ Current(v.busy[a].copy) # NoWork
    BY <1>1, <1>2, <2>3
  <2> QED
    BY <2>4, <2>5, <2>6, WorkerDrifts
<1>6. ASSUME \E u \in GivesUp(x, Charged(c)) : v = AtRest(u, a)
      PROVE  Drifts(w, v) /\ Orderly(v)
  <2> DEFINE d == Charged(c)
  <2>1. PICK u \in GivesUp(x, d) : v = AtRest(u, a)
    BY <1>6
  <2>2. d \in CampStates /\ Known(x, d) /\ d.gen = c.gen
    BY <1>1, <1>2, CopiesAlike DEF Alike
  <2> HIDE DEF d
  <2>3. Older(x, d)
    BY <1>3, <2>2 DEF Older
  <2>4. /\ u.work = x.work /\ u.settleChain = x.settleChain /\ u.busy = x.busy
        /\ Appoints(x, u)
        /\ u.camp = x.camp
    BY <1>2, <2>1, <2>2, <2>3, GivesUpIs, Zenon
  <2>5. Typed(u)
    BY <1>2, <2>2, GivesUpTyped
  <2>6. /\ Typed(v) /\ v.camp = u.camp /\ v.work = u.work /\ v.settleChain = u.settleChain
        /\ v.alarms = u.alarms /\ v.busy[a].at = (IF a = "boot" THEN "tail" ELSE "rest")
        /\ \A o \in Workers : o # a => v.busy[o] = u.busy[o]
    BY <2>1, <2>5, RestTyped
  <2>7. Wanes(w, v) /\ v \in Worlds
    BY <1>3, <2>4, <2>6 DEF Wanes, Typed
  <2>8. v.busy[a].at \in {"rest", "tail"} /\ (a = "boot" => v.busy[a].at # "rest")
    BY <2>6
  <2>9. Appoints(w, v) /\ v.camp = w.camp /\ \A o \in Workers : o # a => v.busy[o] = w.busy[o]
    BY <1>2, <1>3, <2>4, <2>6 DEF Appoints
  <2> QED
    BY <2>7, <2>8, <2>9, WorkerDrifts
<1>7. \/ /\ c.sprint[c.cur].narrowed < MaxNarrowings
         /\ v = Takes(Saves(w, Narrower(c)), a, "narrowed", Narrower(c),
                      w.work[NewestOf(w, Current(c))].st \in {"live", "paused"})
      \/ v = Takes(Saves(x, c), a, "overran", c, FALSE)
      \/ \E u \in GivesUp(x, Charged(c)) : v = AtRest(u, a)
  BY OverrunsIs, Zenon DEF x
<1> QED
  BY <1>4, <1>5, <1>6, <1>7, Zenon

\* Whatever it does with that copy, the campaign as stored is not touched.
LEMMA SprintFailsOlder ==
  ASSUME NEW w, NEW a \in Workers, NEW c, Outdated(w, a, c), NEW k \in BOOLEAN,
         NEW v \in SprintFails(w, a, c, k)
  PROVE  Drifts(w, v) /\ Orderly(v)
<1>1. Typed(w) /\ w \in Worlds /\ c \in CampStates /\ Known(w, c) /\ Older(w, c)
  BY DEF Outdated, Typed
<1> DEFINE r == AtRest(w, a)
<1>2. /\ Typed(r) /\ r.camp = w.camp /\ r.work = w.work /\ r.settleChain = w.settleChain
      /\ r.alarms = w.alarms /\ r.busy[a].at = (IF a = "boot" THEN "tail" ELSE "rest")
      /\ \A o \in Workers : o # a => r.busy[o] = w.busy[o]
      /\ RowsOf(r) = RowsOf(w)
  BY <1>1, RestTyped
<1>3. \/ v \in Overruns(w, a, c)
      \/ \E j \in BOOLEAN : v \in SubmitsSprint(r, c, j)
      \/ v \in Parks(r, c)
      \/ v \in GivesUp(r, c)
  BY SprintFailsIs
<1> HIDE DEF r
<1>4. Known(r, c) /\ Older(r, c)
  BY <1>1, <1>2 DEF Known, Older
<1>5. ASSUME ~(v \in Overruns(w, a, c)) PROVE Drifts(w, v) /\ Orderly(v)
  <2>1. /\ Typed(v) /\ v.camp = r.camp /\ v.work = r.work /\ v.settleChain = r.settleChain
        /\ v.busy = r.busy /\ Appoints(r, v)
    <3>1. CASE \E j \in BOOLEAN : v \in SubmitsSprint(r, c, j)
      BY <1>2, <1>4, <3>1, SubmitOlder DEF Appoints
    <3>2. CASE v \in Parks(r, c)
      BY <1>1, <1>2, <1>4, <3>2, ParksIs DEF Appoints
    <3>3. CASE v \in GivesUp(r, c)
      <4>1. Typed(v)
        BY <1>1, <1>2, <1>4, <3>3, GivesUpTyped
      <4> QED
        BY <1>1, <1>2, <1>4, <3>3, <4>1, GivesUpIs, Zenon
    <3> QED
      BY <1>3, <1>5, <3>1, <3>2, <3>3
  <2>2. Wanes(w, v) /\ v \in Worlds
    BY <1>1, <1>2, <2>1, CalmSame DEF Calms, Wanes, Typed
  <2>3. v.busy[a].at \in {"rest", "tail"} /\ (a = "boot" => v.busy[a].at # "rest")
    BY <1>2, <2>1
  <2> QED
    BY <1>2, <2>1, <2>2, <2>3, WorkerDrifts DEF Appoints
<1> QED
  BY <1>5, OverrunsOlder

\* A revival, in the same generation of a free campaign, or in a new one.
LEMMA RevivesSane ==
  ASSUME NEW w, Typed(w), Core(w), NEW c \in CampStates, Known(w, c), w.camp.gen <= c.gen,
         c.cur = w.camp.cur, Current(c) = Current(w.camp), c.gen = w.camp.gen => Free(w),
         NEW v \in RevivesAt(w, c)
  PROVE  Sane(v)
<1> DEFINE x == RetiresTip(w, c)
           d == Anew(c)
           y == Saves(x, d)
           k == TRUE
<1>1. v \in SubmitsSprint(y, d, k) /\ k \in BOOLEAN
  BY DEF RevivesAt, Anew
<1> HIDE DEF k
<1>2. Typed(x) /\ Known(x, c) /\ x.camp = w.camp /\ Calms(w, x) /\ x \in Worlds
  BY TipTyped DEF Typed
<1> HIDE DEF x
<1>3. Core(x) /\ x.busy = w.busy /\ x.alarms = w.alarms /\ (Free(w) => Free(x))
  BY <1>2, CalmCore
<1>4. d \in CampStates /\ Known(x, d) /\ d.gen = c.gen /\ d.cur = c.cur /\ Current(d) = Current(c)
      /\ d.stop = c.stop
  BY <1>2, CopiesAlike DEF Alike
<1> HIDE DEF d
<1>5. ~Older(x, d)
  BY <1>2, <1>4 DEF Older, Worlds, CampStates
<1>6. /\ y.work = x.work /\ y.settleChain = x.settleChain /\ y.busy = x.busy /\ y.alarms = x.alarms
      /\ y.camp.cur = d.cur /\ y.camp.gen = d.gen /\ Current(y.camp) = Current(d)
      /\ y.camp.stop = (d.stop \/ (x.camp.stop /\ x.camp.gen = d.gen))
  BY <1>2, <1>4, <1>5, SavesIs
<1>7. Typed(y) /\ RowsOf(y) = RowsOf(x)
  BY <1>2, <1>4, SaveTyped
<1> HIDE DEF y
<1>8. Known(y, d) /\ Stays(x, y) /\ Abreast(y, d) /\ (d.stop => y.camp.stop)
  BY <1>2, <1>4, <1>6, <1>7 DEF Known, Stays, Abreast, Appoints
<1>9. Free(y)
  <2>1. CASE c.gen = w.camp.gen
    <3>1. y.camp.gen = x.camp.gen /\ Appoints(x, y) /\ Free(x)
      BY <1>2, <1>3, <1>4, <1>6, <2>1 DEF Appoints
    <3> QED
      BY <1>6, <3>1, SameBusy
  <2>2. CASE c.gen # w.camp.gen
    <3>1. c.gen \in Nat /\ w.camp.gen \in Nat
      BY <1>2 DEF Worlds, CampStates
    <3>2. w.camp.gen < c.gen
      BY <2>2, <3>1
    <3>3. \A a \in Workers : w.busy[a].copy.gen \in Nat /\ w.busy[a].copy.gen <= w.camp.gen
      BY <1>2, <1>3 DEF Typed, Worlds, Occupations, CampStates
    <3>4. \A a \in Workers : w.busy[a].copy.gen # c.gen
      BY <3>1, <3>2, <3>3
    <3>5. [kind |-> "resubmit", of |-> c.gen] \notin w.alarms
      BY <3>1, <3>2 DEF Typed
    <3>6. y.busy = w.busy /\ y.alarms = w.alarms /\ y.camp.gen = c.gen
      BY <1>3, <1>4, <1>6
    <3> QED
      BY <3>4, <3>5, <3>6 DEF Free, Unheld, Coming, Holds, Advanced, Due
  <2> QED
    BY <2>1, <2>2
<1>10. Orderly(y)
  BY <1>3, <1>6 DEF Core, Orderly
<1>11. Core(y)
  BY <1>3, <1>8, <1>10, StayCore
<1> QED
  BY <1>1, <1>4, <1>7, <1>8, <1>9, <1>11, SubmitSane

---------------------------------------------------------------------------
\* A recorded stop outlives the saves of its generation.
LEMMA StopSaved ==
  ASSUME NEW w \in Worlds, NEW c \in CampStates, ~Older(w, c), c.gen = w.camp.gen,
         NEW v, v = Saves(w, c)
  PROVE  w.camp.stop => v.camp.stop
<1>1. /\ v.camp.gen = c.gen
      /\ v.camp.stop = (c.stop \/ (w.camp.stop /\ w.camp.gen = c.gen))
  BY SavesIs
<1> QED
  BY <1>1
LEMMA StopGiven ==
  ASSUME NEW w, Typed(w), NEW c \in CampStates, Known(w, c), ~Older(w, c), c.gen = w.camp.gen,
         NEW v \in GivesUp(w, c)
  PROVE  v.work = w.work /\ (w.camp.stop => v.camp.stop)
<1>1. /\ v.camp.gen = c.gen /\ v.work = w.work
      /\ v.camp.stop = (c.stop \/ (w.camp.stop /\ w.camp.gen = c.gen))
  BY GivesUpIs
<1> QED
  BY <1>1

LEMMA SubmitlessTrans ==
  ASSUME NEW w, NEW x, NEW v
  PROVE  /\ SameLines(w, x) /\ Submitless(x, v) => Submitless(w, v)
         /\ x.work = w.work /\ Submitless(x, v) => Submitless(w, v)
         /\ Submitless(w, x) /\ v.work = x.work => Submitless(w, v)
         /\ Lineages(w) /\ v.work = w.work => Submitless(w, v)
BY DEF SameLines, Submitless, Lineages, Unborn

\* Of a campaign with a recorded stop no handler submits.
LEMMA RevivesSilent ==
  ASSUME NEW w, Typed(w), NEW c \in CampStates, Known(w, c), c.gen = w.camp.gen, w.camp.stop,
         NEW v \in RevivesAt(w, c)
  PROVE  Submitless(w, v) /\ Silent(v)
<1> DEFINE x == RetiresTip(w, c)
           d == Anew(c)
           y == Saves(x, d)
           k == TRUE
<1>1. v \in SubmitsSprint(y, d, k) /\ k \in BOOLEAN
  BY DEF RevivesAt, Anew
<1> HIDE DEF k
<1>2. Typed(x) /\ Known(x, c) /\ x.camp = w.camp /\ Calms(w, x) /\ x \in Worlds /\ w \in Worlds
  BY TipTyped DEF Typed
<1> HIDE DEF x
<1>3. d \in CampStates /\ Known(x, d) /\ d.gen = c.gen
  BY <1>2, CopiesAlike DEF Alike
<1> HIDE DEF d
<1>4. ~Older(x, d)
  BY <1>2, <1>3 DEF Older, Worlds, CampStates
<1>5. y.work = x.work /\ y.camp.gen = d.gen /\ y.camp.stop
  <2>1. y.work = x.work /\ y.camp.gen = d.gen
    BY <1>2, <1>3, <1>4, SavesIs
  <2>2. d.gen = x.camp.gen
    BY <1>2, <1>3
  <2>3. x.camp.stop => y.camp.stop
    BY <1>2, <1>3, <1>4, <2>2, StopSaved
  <2> QED
    BY <1>2, <2>1, <2>3
<1>6. Typed(y) /\ RowsOf(y) = RowsOf(x)
  BY <1>2, <1>3, SaveTyped
<1> HIDE DEF y
<1>7. Known(y, d) /\ Silent(y)
  BY <1>3, <1>5, <1>6 DEF Known, Silent
<1>8. Submitless(y, v) /\ Silent(v)
  BY <1>1, <1>3, <1>5, <1>6, <1>7, SubmitSilent
<1>9. SameLines(w, x)
  BY <1>2, WaneLines DEF Calms
<1> QED
  BY <1>5, <1>8, <1>9, SubmitlessTrans

LEMMA OverrunsSilent ==
  ASSUME NEW w, Typed(w), NEW a \in Workers, NEW c \in CampStates, Known(w, c), c.gen = w.camp.gen,
         w.camp.stop, NEW v \in Overruns(w, a, c)
  PROVE  Submitless(w, v) /\ Silent(v)
<1> DEFINE x == RetiresTip(w, c)
<1>1. Typed(x) /\ Known(x, c) /\ x.camp = w.camp /\ Calms(w, x) /\ x \in Worlds /\ w \in Worlds /\ Lineages(w)
  BY TipTyped DEF Typed
<1> HIDE DEF x
<1>2. ~Older(w, c) /\ ~Older(x, c)
  BY <1>1 DEF Older, Worlds, CampStates
<1>3. Submitless(w, x)
  BY <1>1, DriftSilent DEF Calms
<1>4. ASSUME c.sprint[c.cur].narrowed < MaxNarrowings,
             v = Takes(Saves(w, Narrower(c)), a, "narrowed", Narrower(c),
                       w.work[NewestOf(w, Current(c))].st \in {"live", "paused"})
      PROVE  Submitless(w, v) /\ Silent(v)
  <2> DEFINE d == Narrower(c)
             y == Saves(w, d)
  <2>1. d \in CampStates /\ d.gen = c.gen
    BY <1>4, CopiesAlike DEF Alike
  <2> HIDE DEF d
  <2>2. y.work = w.work /\ y.camp.stop
    <3>1. ~Older(w, d)
      BY <1>2, <2>1 DEF Older
    <3>2. y.work = w.work /\ y.camp.stop = (d.stop \/ (w.camp.stop /\ w.camp.gen = d.gen))
      BY <1>1, <2>1, <3>1, SavesIs
    <3> QED
      BY <2>1, <3>2
  <2>3. v.work = y.work /\ v.camp = y.camp
    <3> HIDE DEF y
    <3>1. \E b : v = Occupies(y, a, b)
      BY <1>4 DEF Takes, d, y
    <3>2. y \in Worlds
      BY <1>1, <2>1, SavesIs DEF y
    <3> QED
      BY <3>1, <3>2 DEF Occupies, Worlds
  <2> HIDE DEF y
  <2> QED
    BY <1>1, <2>2, <2>3, SubmitlessTrans DEF Silent
<1>5. ASSUME v = Takes(Saves(x, c), a, "overran", c, FALSE)
      PROVE  Submitless(w, v) /\ Silent(v)
  <2> DEFINE y == Saves(x, c)
  <2>1. y.work = x.work /\ y.camp.stop /\ y \in Worlds
    <3>1. /\ y.work = x.work /\ y \in Worlds
          /\ y.camp.stop = (c.stop \/ (x.camp.stop /\ x.camp.gen = c.gen))
      BY <1>1, <1>2, SavesIs
    <3> QED
      BY <1>1, <3>1
  <2>2. v.work = y.work /\ v.camp = y.camp
    <3> HIDE DEF y
    <3>1. \E b : v = Occupies(y, a, b)
      BY <1>5 DEF Takes, y
    <3> QED
      BY <2>1, <3>1 DEF Occupies, Worlds
  <2> HIDE DEF y
  <2> QED
    BY <1>3, <2>1, <2>2, SubmitlessTrans DEF Silent
<1>6. ASSUME \E u \in GivesUp(x, Charged(c)) : v = AtRest(u, a)
      PROVE  Submitless(w, v) /\ Silent(v)
  <2> DEFINE d == Charged(c)
  <2>1. PICK u \in GivesUp(x, d) : v = AtRest(u, a)
    BY <1>6
  <2>2. d \in CampStates /\ Known(x, d) /\ d.gen = c.gen
    BY <1>1, CopiesAlike DEF Alike
  <2> HIDE DEF d
  <2>3. ~Older(x, d)
    BY <1>2, <2>2 DEF Older
  <2>4. u.work = x.work /\ u.camp.stop
    <3>2. d.gen = x.camp.gen
      BY <1>1, <2>2
    <3>3. u.work = x.work /\ (x.camp.stop => u.camp.stop)
      BY <1>1, <2>1, <2>2, <2>3, <3>2, StopGiven, Zenon
    <3> QED
      BY <1>1, <3>3
  <2>5. Typed(u)
    BY <1>1, <2>1, <2>2, GivesUpTyped
  <2>6. v.work = u.work /\ v.camp = u.camp
    BY <2>1, <2>5, RestTyped
  <2> QED
    BY <1>3, <2>4, <2>6, SubmitlessTrans DEF Silent
<1>7. \/ /\ c.sprint[c.cur].narrowed < MaxNarrowings
         /\ v = Takes(Saves(w, Narrower(c)), a, "narrowed", Narrower(c),
                      w.work[NewestOf(w, Current(c))].st \in {"live", "paused"})
      \/ v = Takes(Saves(x, c), a, "overran", c, FALSE)
      \/ \E u \in GivesUp(x, Charged(c)) : v = AtRest(u, a)
  BY OverrunsIs, Zenon DEF x
<1> QED
  BY <1>4, <1>5, <1>6, <1>7, Zenon

LEMMA SprintFailsSilent ==
  ASSUME NEW w, Typed(w), NEW a \in Workers, NEW c \in CampStates, Known(w, c), c.gen = w.camp.gen,
         w.camp.stop, NEW k \in BOOLEAN, NEW v \in SprintFails(w, a, c, k)
  PROVE  Submitless(w, v) /\ Silent(v)
<1> DEFINE r == AtRest(w, a)
<1>1. Typed(r) /\ r.camp = w.camp /\ r.work = w.work /\ RowsOf(r) = RowsOf(w) /\ Lineages(w)
  BY RestTyped DEF Typed
<1>2. \/ v \in Overruns(w, a, c)
      \/ \E j \in BOOLEAN : v \in SubmitsSprint(r, c, j)
      \/ v \in Parks(r, c)
      \/ v \in GivesUp(r, c)
  BY SprintFailsIs
<1> HIDE DEF r
<1>3. Known(r, c) /\ Silent(r)
  BY <1>1 DEF Known, Silent
<1>4. ~Older(r, c)
  BY <1>1 DEF Older, CampStates
<1>5. ASSUME NEW j \in BOOLEAN, v \in SubmitsSprint(r, c, j) PROVE Submitless(w, v) /\ Silent(v)
  BY <1>1, <1>3, <1>5, SubmitSilent, SubmitlessTrans
<1>6. CASE v \in Parks(r, c)
  <2>1. v.work = r.work /\ v.camp.stop = (c.stop \/ (r.camp.stop /\ r.camp.gen = c.gen))
    BY <1>1, <1>3, <1>4, <1>6, ParksIs
  <2> QED
    BY <1>1, <2>1, SubmitlessTrans DEF Silent
<1>7. CASE v \in GivesUp(r, c)
  <2>1. v.work = r.work /\ v.camp.stop = (c.stop \/ (r.camp.stop /\ r.camp.gen = c.gen))
    BY <1>1, <1>3, <1>4, <1>7, GivesUpIs
  <2> QED
    BY <1>1, <2>1, SubmitlessTrans DEF Silent
<1> QED
  BY <1>2, <1>5, <1>6, <1>7, OverrunsSilent

\* The campaign follows its attempt to the live end of its line.
LEMMA AdoptsSane ==
  ASSUME NEW w, Typed(w), Core(w), Free(w), Heeded(w), w.camp.state = "executing",
         Current(w.camp) # NoWork, w.work[Tip(w)].st = "live",
         NEW v, v = Adopts(w, w.camp, Tip(w))
  PROVE  Sane(v) /\ Submitless(w, v) /\ (w.camp.stop => v.camp.stop)
<1> DEFINE c == w.camp
           n == Tip(w)
<1>1. w \in Worlds /\ Lineages(w) /\ c \in CampStates /\ Known(w, c) /\ Current(c) \in RowsOf(w)
  BY DEF Typed, Worlds, Known, CampStates, Current
<1>2. n \in RowsOf(w) /\ Current(c) \in w.work[n].line /\ NewestOf(w, n) = n /\ n # NoWork /\ n \in Work
      /\ RowsOf(w) \subseteq Work
  BY <1>1, RowFacts, NewestStays DEF Tip, RowsOf
<1>3. w.work[n].st = "live" /\ v = Adopts(w, c, n) /\ c.state = "executing"
  OBVIOUS
<1>4. \A u \in RowsOf(w) : n \in w.work[u].line => Current(c) \in w.work[u].line
  BY <1>1, <1>2, SameLine
<1>5. SameTree(w, n, Current(c)) /\ SameTree(w, Current(c), n)
  BY <1>1, <1>2, SameLine
<1>6. \A u \in RowsOf(w) : /\ Active(w, u) => u = n
                           /\ w.work[u].st = "completed" /\ Current(c) \in w.work[u].line => u = n
  BY DEF Core, OneTip
<1> HIDE DEF n
<1>7. CASE Current(c) = n
  <2>1. v = w
    BY <1>3, <1>7 DEF Adopts
  <2>2. Pursued(w)
    BY <1>2, <1>3 DEF Pursued
  <2>3. Kept(w)
    BY <1>3, <2>2 DEF Kept, Heeded
  <2>4. Submitless(w, w)
    BY <1>1, SubmitlessTrans
  <2> QED
    BY <2>1, <2>3, <2>4, FreeAgreed DEF Sane
<1>8. CASE Current(c) # n
  <2> DEFINE d == Adopting(w, c, n)
  <2>1. v = Saves(w, d)
    BY <1>3, <1>8 DEF Adopts, Adopting
  <2>2. /\ d \in CampStates /\ d.cur = c.cur /\ d.gen = c.gen /\ d.stop = c.stop
        /\ d.state = c.state /\ d.appt = c.appt /\ Current(d) = n /\ Known(w, d)
    BY <1>1, <1>2, AdoptedCopy
  <2> HIDE DEF d
  <2>3. ~Older(w, d)
    BY <1>1, <2>2 DEF Older, CampStates
  <2>4. /\ v \in Worlds /\ v.work = w.work /\ v.settleChain = w.settleChain /\ v.busy = w.busy
        /\ v.alarms = w.alarms
        /\ v.camp.state = "executing" /\ v.camp.cur = c.cur /\ v.camp.gen = c.gen /\ Current(v.camp) = n
    BY <1>1, <1>3, <2>1, <2>2, <2>3, SavesIs
  <2>5. w.camp.stop => v.camp.stop
    BY <1>1, <2>1, <2>2, <2>3, StopSaved
  <2>6. v.camp.stop => w.camp.stop
    <3>1. v.camp.stop = (d.stop \/ (w.camp.stop /\ w.camp.gen = d.gen)) /\ v.camp.cur = d.cur
      BY <1>1, <2>1, <2>2, <2>3, SavesIs
    <3> QED
      BY <2>2, <3>1
  <2>7. /\ RowsOf(v) = RowsOf(w) /\ \A t : NewestOf(v, t) = NewestOf(w, t)
        /\ \A t, u : SameTree(v, t, u) <=> SameTree(w, t, u)
    BY <2>4 DEF RowsOf, NewestOf, SameTree, RootOf
  <2>8. Tip(v) = n
    BY <1>2, <2>4, <2>7 DEF Tip
  <2>9. OneTip(v)
    <3>1. \A u \in RowsOf(w) : Active(v, u) => Active(w, u)
      BY <2>4, <2>7 DEF Active, Continuable
    <3> QED
      BY <1>2, <1>4, <1>6, <2>4, <2>7, <2>8, <3>1 DEF OneTip
  <2>10. Looked(v)
    BY <1>2, <2>4 DEF Core, Looked, Pending
  <2>11. Orderly(v) /\ Free(v)
    BY <2>4, SameBusy DEF Core, Appoints
  <2>12. Pursued(v)
    <3>1. n \in w.work[n].line
      BY <1>1, <1>2 DEF Lineages
    <3>2. n \in RowsOf(v) /\ v.work[n].st = "live" /\ Current(v.camp) \in v.work[n].line
      BY <1>2, <1>3, <2>4, <2>7, <3>1
    <3> QED
      BY <3>2 DEF Pursued
  <2>13. ASSUME NEW i \in 1..Len(w.settleChain), StopWaits(w, i) PROVE StopWaits(v, i)
    <3>1. w.settleChain[i].of \in Work
      <4>1. w.settleChain[i] \in Handlings
        BY <1>1, ElementOfSeq DEF Worlds
      <4> QED
        BY <2>13, <4>1 DEF Handlings, StopWaits
    <3>2. SameTree(w, w.settleChain[i].of, Current(c))
      BY <2>13 DEF StopWaits, AboutIn
    <3>3. SameTree(w, w.settleChain[i].of, n)
      BY <1>5, <3>2 DEF SameTree
    <3> QED
      BY <2>4, <2>7, <2>13, <3>3 DEF StopWaits, AboutIn
  <2>14. Kept(v)
    BY <2>4, <2>6, <2>12, <2>13 DEF Kept, Heeded
  <2>15. Submitless(w, v)
    <3>1. Submitless(w, w)
      BY <1>1, SubmitlessTrans
    <3> QED
      BY <2>4, <3>1 DEF Submitless
  <2> QED
    BY <2>5, <2>9, <2>10, <2>11, <2>14, <2>15, FreeAgreed DEF Sane, Core
<1> QED
  BY <1>7, <1>8

==============================================================================
