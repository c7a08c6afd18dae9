--------------------------- MODULE Campaign_proofs ---------------------------
(***************************************************************************)
(* What a campaign promises, for any ladder, limits and bounds. IInv is    *)
(* the inductive invariant. A step is sound when it leads to a sane world, *)
(* keeps a stop on record, and submits nothing in a silent world; StepHolds*)
(* makes of that a step of the specification. Each action has a lemma of   *)
(* its own, with what it does to a world before it.                        *)
(***************************************************************************)
EXTENDS CampaignWorlds_proofs

---------------------------------------------------------------------------
\* The inductive invariant, and the tasks' own steps.

\* The inductive invariant: until a copy went on that should not have, the
\* stored campaign, the rows and what is pending agree, and a stop is on record.
IInv ==
  /\ IType
  /\ ~raced => Sane(World)
  /\ ~raced /\ barred => Silent(World)

\* Between two states with a person's stop the campaign submits nothing.
Quiet == barred /\ barred' => Submitless(World, World')
Hushed(w, v) == Silent(w) => Silent(v) /\ Submitless(w, v)

\* A step into a sane world that keeps a stop.
Sound(w, v) == Typed(v) /\ v.camp.gen <= w.camp.gen /\ Sane(v) /\ Hushed(w, v)

LEMMA StepHolds ==
  ASSUME IInv, ~raced, NEW v, Typed(v), Happens(v), v.camp.gen <= wishes',
         wishes' \in 0..MaxWishes, campBoots' \in 0..MaxCampBoots, barred' \in BOOLEAN,
         raced' \in BOOLEAN, ~raced' => Sane(v), ~raced' /\ barred' => Silent(v),
         barred /\ barred' => Submitless(World, v)
  PROVE  IInv' /\ Quiet
<1>1. World' = v
  BY HappensIs DEF Typed
<1>2. IType'
  BY TypedStep DEF IInv
<1> QED
  BY <1>1, <1>2 DEF IInv, Quiet

LEMMA StepKeeps ==
  ASSUME IInv, Unasked, raced' \in BOOLEAN, NEW v, Happens(v), Typed(v), v.camp.gen <= camp.gen,
         Hushed(World, v), ~raced' => Sane(v)
  PROVE  IInv' /\ Quiet
<1>1. /\ wishes' = wishes /\ campBoots' = campBoots /\ barred' = barred /\ ~raced
      /\ wishes \in 0..MaxWishes /\ campBoots \in 0..MaxCampBoots /\ barred \in BOOLEAN
      /\ camp.gen <= wishes
  BY DEF Unasked, IInv, IType
<1>2. v.camp.gen <= wishes'
  <2>1. v.camp.gen \in Nat /\ camp.gen \in Nat /\ wishes \in Nat
    BY <1>1, WorldIs DEF IInv, IType, Typed, Worlds, CampStates
  <2> QED
    BY <1>1, <2>1
<1>3. barred => Silent(World)
  BY <1>1 DEF IInv
<1> QED
  BY <1>1, <1>2, <1>3, StepHolds DEF Hushed

LEMMA StepSound ==
  ASSUME IInv, Undisturbed, NEW v, Happens(v), Sound(World, v)
  PROVE  IInv' /\ Quiet
<1>1. Unasked /\ raced' \in BOOLEAN
  BY DEF Undisturbed, IInv, IType
<1> QED
  BY <1>1, StepKeeps, WorldIs DEF Sound

LEMMA StepDrifts ==
  ASSUME NEW w, Typed(w), Sane(w), NEW v, Typed(v), Drifts(w, v), Orderly(v)
  PROVE  Sound(w, v)
<1>1. Sane(v)
  BY DriftSane DEF Sane, Core
<1>2. Hushed(w, v) /\ v.camp = w.camp
  BY DriftSilent DEF Hushed, Drifts
<1>3. v.camp.gen <= w.camp.gen
  BY <1>2 DEF Typed, Worlds, CampStates
<1> QED
  BY <1>1, <1>2, <1>3 DEF Sound

LEMMA SoundTrans ==
  ASSUME NEW w, NEW x, NEW v, Typed(w), Typed(x), Sound(w, x), Sound(x, v), SameLines(w, x)
  PROVE  Sound(w, v)
<1>1. v.camp.gen <= w.camp.gen
  BY DEF Sound, Typed, Worlds, CampStates
<1>2. Submitless(x, v) => Submitless(w, v)
  BY SubmitlessTrans
<1> QED
  BY <1>1, <1>2 DEF Sound, Hushed

---------------------------------------------------------------------------
\* A row ends.
Ended(w, t, s) == [w EXCEPT !.work[t].st = s]
LEMMA EndsSound ==
  ASSUME NEW w, Typed(w), Sane(w), NEW t \in Work, w.work[t].st = "live",
         NEW s \in {"completed", "blocked"},
         NEW v, v = Hears(Ended(w, t, s), {t})
  PROVE  Sound(w, v)
<1> DEFINE x == Ended(w, t, s)
           ts == {u \in {t} : x.camp.state = "executing" /\ Current(x.camp) \in x.work[u].line}
           C == w.camp
<1>1. w \in Worlds /\ Lineages(w) /\ RowsOf(w) \subseteq Work /\ t \in RowsOf(w)
  BY DEF Typed, RowsOf
<1>2. /\ x \in Worlds /\ x.camp = C /\ x.busy = w.busy /\ x.alarms = w.alarms
      /\ x.settleChain = w.settleChain
      /\ x.work[t].st = s /\ x.work[t].line = w.work[t].line /\ x.work[t].by = w.work[t].by
      /\ \A u \in Work : u # t => x.work[u] = w.work[u]
  BY <1>1 DEF Ended, Worlds, RowStates
<1>3. v = Queued(x, ts) /\ ts \in SUBSET Work
  BY <1>1 DEF Hears
<1> HIDE DEF x, ts
<1>4. v \in Worlds /\ v.camp = C /\ v.busy = w.busy /\ v.alarms = w.alarms /\ v.work = x.work
  BY <1>2, <1>3, QueuedIs
<1>19. \A u \in ts : \E i \in 1..Len(v.settleChain) :
         v.settleChain[i].what = "settle" /\ v.settleChain[i].of = u
  BY <1>2, <1>3, QueuedIs
<1>20. \A i \in 1..Len(w.settleChain) : v.settleChain[i] = w.settleChain[i]
  BY <1>2, <1>3, QueuedIs
<1>21. \A i \in 1..Len(v.settleChain) : i > Len(w.settleChain) => v.settleChain[i].what = "settle"
  BY <1>2, <1>3, QueuedIs
<1>22. Len(w.settleChain) <= Len(v.settleChain)
  BY <1>2, <1>3, QueuedIs
<1>5. Len(w.settleChain) \in Nat /\ Len(v.settleChain) \in Nat
  BY <1>1, <1>4, LenProperties DEF Worlds
<1>6. SameLines(w, v) /\ \A u \in Work : u # t => v.work[u] = w.work[u]
  BY <1>1, <1>2, <1>4 DEF SameLines
<1>7. /\ RowsOf(v) = RowsOf(w) /\ Lineages(v)
      /\ \A u : NewestOf(v, u) = NewestOf(w, u)
      /\ \A u, o \in Work : SameTree(v, u, o) <=> SameTree(w, u, o)
  BY <1>1, <1>6, LinesSame
<1>8. Typed(v)
  BY <1>4, <1>6, TurnedTyped DEF Turned
<1>9. Current(C) # NoWork /\ t = Tip(w) /\ OneTip(w)
  BY <1>1 DEF Sane, Core, OneTip, Active
<1>10. Tip(v) = t
  BY <1>4, <1>7, <1>9 DEF Tip
<1>11. Current(C) \in RowsOf(w)
  BY <1>1, <1>9 DEF Typed, Known, Worlds, CampStates, Current
<1>12. Current(C) \in w.work[t].line /\ w.work[t].line \subseteq Work
  BY <1>1, <1>9, <1>11, RowFacts DEF Tip
<1>13. ASSUME NEW u \in RowsOf(w), Active(v, u) PROVE u = t
  <2>1. CASE u = t
    BY <2>1
  <2>2. CASE u # t
    <3>1. v.work[u] = w.work[u] /\ w.work[u].line \subseteq Work
      BY <1>1, <1>6, <2>2 DEF Worlds, RowStates
    <3>2. CASE v.work[u].st = "live"
      BY <1>9, <3>1, <3>2 DEF OneTip, Active
    <3>3. CASE Continuable(v, u)
      <4>1. \A o \in w.work[u].line : w.work[o].st = "cancelled" => w.work[o].why = "superseded"
        BY <1>6, <3>1, <3>3 DEF Continuable
      <4>2. Continuable(w, u)
        BY <1>7, <3>1, <3>3, <4>1 DEF Continuable
      <4> QED
        BY <1>9, <4>2 DEF OneTip, Active
    <3> QED
      BY <1>13, <3>2, <3>3 DEF Active
  <2> QED
    BY <2>1, <2>2
<1>14. OneTip(v)
  <2>1. \A u \in RowsOf(w) : v.work[u].st = "completed" /\ Current(C) \in v.work[u].line => u = t
    BY <1>1, <1>6, <1>9 DEF OneTip
  <2> QED
    BY <1>4, <1>7, <1>9, <1>10, <1>13, <2>1 DEF OneTip
<1>15. Core(v)
  <2>1. \A p : Pending(v, p) => Pending(w, p)
    <3>1. \A i \in 1..Len(v.settleChain) : v.settleChain[i].what = "reconcile" =>
             i \in 1..Len(w.settleChain) /\ v.settleChain[i] = w.settleChain[i]
      <4> SUFFICES ASSUME NEW i \in 1..Len(v.settleChain), v.settleChain[i].what = "reconcile"
                   PROVE  i \in 1..Len(w.settleChain) /\ v.settleChain[i] = w.settleChain[i]
        OBVIOUS
      <4>1. ~(i > Len(w.settleChain))
        BY <1>21
      <4>2. i \in 1..Len(w.settleChain)
        BY <1>5, <4>1
      <4> QED
        BY <1>20, <4>2
    <3> QED
      BY <1>4, <3>1 DEF Pending
  <2>2. Looked(v)
    BY <1>4, <2>1 DEF Looked, Sane, Core
  <2>3. Orderly(v)
    BY <1>4 DEF Orderly, Sane, Core
  <2> QED
    BY <1>14, <2>2, <2>3 DEF Core
<1>16. Agreed(v)
  <2>1. \A a \in Workers : /\ Holds(v, a) <=> Holds(w, a)
                           /\ Advanced(v, a) <=> Advanced(w, a)
    BY <1>4 DEF Holds, Advanced
  <2>2. \A a \in Workers : Holds(w, a) => w.busy[a].at # "judging"
    BY <1>9 DEF Sane, Agreed
  <2>3. (Due(v) <=> Due(w)) /\ (Coming(v) <=> Coming(w))
    BY <1>4, <2>1 DEF Due, Coming
  <2>4. "chain" \in Workers /\ "boot" \in Workers
    BY DEF Workers
  <2> QED
    BY <1>4, <2>1, <2>2, <2>3, <2>4 DEF Sane, Agreed, Matches
<1>17. Kept(v)
  <2>1. ASSUME C.state = "executing" PROVE Pursued(v)
    <3>1. t \in ts
      BY <1>2, <1>12, <2>1 DEF ts
    <3>2. PICK i \in 1..Len(v.settleChain) : v.settleChain[i].what = "settle" /\ v.settleChain[i].of = t
      BY <1>19, <3>1
    <3>3. Relevant(v, i)
      BY <1>2, <1>4, <1>12, <3>2 DEF Relevant
    <3> QED
      BY <3>3 DEF Pursued
  <2>2. ASSUME NEW i \in 1..Len(w.settleChain), StopWaits(w, i)
        PROVE  i \in 1..Len(v.settleChain) /\ StopWaits(v, i)
    <3>1. i \in 1..Len(v.settleChain) /\ v.settleChain[i] = w.settleChain[i]
      <4>1. i \in 1..Len(v.settleChain)
        BY <1>5, <1>22
      <4> QED
        BY <1>20, <4>1
    <3>2. w.settleChain[i].of \in Work
      BY <1>1, <2>2 DEF StopWaits
    <3> QED
      BY <1>1, <1>4, <1>7, <1>11, <2>2, <3>1, <3>2 DEF StopWaits, AboutIn
  <2>3. ASSUME Waited(w) PROVE Waited(v)
    BY <1>4, <2>3 DEF Waited
  <2> QED
    BY <1>4, <2>1, <2>2, <2>3 DEF Sane, Kept
<1>18. Hushed(w, v)
  <2>1. StoppedByPerson(w, Current(C)) => StoppedByPerson(v, Current(C))
    BY <1>1, <1>6, <1>7, <1>11 DEF StoppedByPerson
  <2>2. Submitless(w, v)
    <3>1. \A u \in Work : w.work[u].st = "none" => v.work[u] = w.work[u]
      BY <1>6 DEF SameLines
    <3>2. \A u \in Work : w.work[u].st = "none" => w.work[u] = Unborn
      BY <1>1 DEF Lineages
    <3>3. Unborn.by # "campaign"
      BY DEF Unborn
    <3> QED
      BY <3>1, <3>2, <3>3 DEF Submitless
  <2> QED
    BY <1>4, <2>1, <2>2 DEF Hushed, Silent
<1>23. v.camp.gen <= w.camp.gen
  BY <1>1, <1>4 DEF Worlds, CampStates
<1> QED
  BY <1>8, <1>15, <1>16, <1>17, <1>18, <1>23 DEF Sound, Sane

LEMMA RowEndsHolds ==
  ASSUME IInv, NEW t \in Work, NEW s \in {"completed", "blocked"}, RowEnds(t, s)
  PROVE  IInv' /\ Quiet
<1> DEFINE v == Hears(Ended(World, t, s), {t})
<1>1. Happens(v) /\ Undisturbed /\ World.work[t].st = "live"
  BY WorldIs DEF RowEnds, Ended
<1>2. Typed(World) /\ Sane(World)
  BY <1>1 DEF Undisturbed, Unasked, IInv, IType
<1>3. Sound(World, v)
  BY <1>1, <1>2, EndsSound
<1> HIDE DEF v
<1> QED
  BY <1>1, <1>3, StepSound

\* The executor carries the last row of a branch on.
Carried(r) ==
  [r EXCEPT !.st = IF r.st = "paused" THEN "cancelled" ELSE @,
            !.why = IF r.st = "paused" THEN "superseded" ELSE @]
Carrier(r, n) == [st |-> "live", why |-> "none", line |-> r.line \cup {n}, by |-> "executor"]
Continued(w, t, n) ==
  [w EXCEPT !.work = [u \in Work |-> IF u = n THEN Carrier(w.work[t], n)
                                     ELSE IF u = t THEN Carried(w.work[t]) ELSE w.work[u]]]

LEMMA CarriedOn ==
  ASSUME NEW W \in [Work -> RowStates], NEW n \in Work, NEW t \in Work, n # t, NEW p,
         p = (W[t].st = "paused")
  PROVE  [W EXCEPT ![n] = Carrier(W[t], n),
                   ![t].st = IF p THEN "cancelled" ELSE @,
                   ![t].why = IF p THEN "superseded" ELSE @]
           = [u \in Work |-> IF u = n THEN Carrier(W[t], n)
                             ELSE IF u = t THEN Carried(W[t]) ELSE W[u]]
<1> DEFINE f == [W EXCEPT ![n] = Carrier(W[t], n),
                          ![t].st = IF p THEN "cancelled" ELSE @,
                          ![t].why = IF p THEN "superseded" ELSE @]
<1>1. f = [u \in Work |-> f[u]]
  OBVIOUS
<1>2. f[n] = Carrier(W[t], n)
  OBVIOUS
<1>3. f[t] = Carried(W[t])
  BY DEF RowStates, Carried
<1>4. \A u \in Work : u # n /\ u # t => f[u] = W[u]
  OBVIOUS
<1> DEFINE g == [u \in Work |-> IF u = n THEN Carrier(W[t], n)
                                ELSE IF u = t THEN Carried(W[t]) ELSE W[u]]
<1>5. f = g
  <2> HIDE DEF f
  <2> QED
    BY <1>1, <1>2, <1>3, <1>4
<1> QED
  BY <1>5, Zenon

LEMMA ContinuedIs ==
  ASSUME NEW w, Typed(w), NEW t \in Work, w.work[t].st \in {"blocked", "paused"},
         NEW n \in Work, n = Cardinality(RowsOf(w)) + 1, NEW v, v = Continued(w, t, n)
  PROVE  /\ Grows(w, v, n, t) /\ v.camp = w.camp /\ v.busy = w.busy /\ v.alarms = w.alarms
         /\ v.settleChain = w.settleChain
         /\ v.work[n].st = "live" /\ v.work[n].by = "executor"
         /\ v.work[t].st \in {"blocked", "cancelled"} /\ v.work[t].line = w.work[t].line
         /\ \A u \in Work : u \notin {n, t} => v.work[u] = w.work[u]
         /\ w.work[t].why # "user" => v.work[t].why # "user"
<1>1. w \in Worlds /\ Lineages(w) /\ t \in RowsOf(w) /\ RowsOf(w) \subseteq Work
  BY DEF Typed, RowsOf
<1>2. n \notin RowsOf(w)
  BY <1>1, RowFacts DEF Work
<1>3. n # t /\ t # NoWork /\ t \in Nat
  BY <1>1, <1>2 DEF Work, NoWork
<1> DEFINE old == w.work[t]
           r == Carrier(old, n)
           o == Carried(old)
           W == [u \in Work |-> IF u = n THEN r ELSE IF u = t THEN o ELSE w.work[u]]
<1>4. old \in RowStates /\ w.work \in [Work -> RowStates]
  BY <1>1 DEF Worlds
<1>5. r \in RowStates /\ o \in RowStates
  BY <1>4 DEF RowStates, Carrier, Carried
<1>6. /\ o.line = old.line /\ o.st \in {"blocked", "cancelled"}
      /\ old.why # "user" => o.why # "user"
  BY <1>1, <1>4 DEF RowStates, Carried
<1>7. v = [w EXCEPT !.work = W]
  BY <1>3, <1>4 DEF Continued
<1>8. /\ W \in [Work -> RowStates] /\ W[n] = r /\ W[t] = o
      /\ \A u \in Work : u \notin {n, t} => W[u] = w.work[u]
  BY <1>3, <1>4, <1>5
<1>9. r.st = "live" /\ r.by = "executor" /\ r.line = old.line \cup {n}
  BY DEF Carrier
<1> HIDE DEF r, o, W
<1>10. /\ v \in Worlds /\ v.camp = w.camp /\ v.busy = w.busy /\ v.alarms = w.alarms
       /\ v.settleChain = w.settleChain /\ v.work = W
  BY <1>1, <1>7, <1>8 DEF Worlds
<1>11. \A u \in RowsOf(w) : v.work[u].line = w.work[u].line /\ v.work[u].st # "none"
  <2> SUFFICES ASSUME NEW u \in RowsOf(w)
               PROVE  v.work[u].line = w.work[u].line /\ v.work[u].st # "none"
    OBVIOUS
  <2>1. CASE u = t
    BY <1>6, <1>8, <1>10, <2>1
  <2>2. CASE u # t
    BY <1>1, <1>2, <1>8, <1>10, <2>2 DEF RowsOf
  <2> QED
    BY <2>1, <2>2
<1>12. Grows(w, v, n, t)
  <2>1. v.work[n].st # "none" /\ v.work[n].line = {n} \cup w.work[t].line
    BY <1>8, <1>9, <1>10
  <2>2. \A u \in Work : u \notin RowsOf(w) /\ u # n => v.work[u] = w.work[u]
    BY <1>1, <1>8, <1>10
  <2> QED
    BY <1>1, <1>3, <1>10, <1>11, <2>1, <2>2 DEF Grows
<1> QED
  BY <1>6, <1>8, <1>9, <1>10, <1>12

\* One row more, below the end of the current line.
LEMMA GrownTyped ==
  ASSUME NEW w, Typed(w), NEW v, NEW n, NEW p, Grows(w, v, n, p), v.camp = w.camp,
         v.busy = w.busy, v.alarms = w.alarms
  PROVE  Typed(v)
<1>1. w \in Worlds /\ Lineages(w) /\ w.camp \in CampStates /\ \A a \in Workers : w.busy[a].copy \in CampStates
  BY DEF Typed, Worlds, Occupations
<1>2. /\ Lineages(v) /\ RowsOf(v) = RowsOf(w) \cup {n}
      /\ \A c \in CampStates : Known(w, c) => Known(v, c)
  BY <1>1, NewRow
<1>3. v \in Worlds
  BY DEF Grows
<1> QED
  BY <1>1, <1>2, <1>3 DEF Typed

LEMMA ContinuedSound ==
  ASSUME NEW w, Typed(w), Sane(w), NEW t \in Work, Continuable(w, t),
         NEW n \in Work, n = Cardinality(RowsOf(w)) + 1, NEW v, v = Continued(w, t, n)
  PROVE  Sound(w, v)
<1> DEFINE C == w.camp
<1>1. w \in Worlds /\ Lineages(w) /\ t \in RowsOf(w) /\ RowsOf(w) \subseteq Work
      /\ w.work[t].st \in {"blocked", "paused"} /\ NewestOf(w, t) = t
  BY DEF Typed, RowsOf, Continuable
<1>2. Grows(w, v, n, t) /\ v.camp = C /\ v.busy = w.busy /\ v.alarms = w.alarms
      /\ v.settleChain = w.settleChain
  BY <1>1, ContinuedIs
<1>3. v.work[n].st = "live" /\ v.work[n].by = "executor"
      /\ v.work[t].st \in {"blocked", "cancelled"} /\ v.work[t].line = w.work[t].line
  BY <1>1, ContinuedIs
<1>4. \A u \in Work : u \notin {n, t} => v.work[u] = w.work[u]
  BY <1>1, ContinuedIs
<1>5. /\ Lineages(v) /\ RowsOf(v) = RowsOf(w) \cup {n} /\ n \notin RowsOf(w) /\ NewestOf(v, n) = n
      /\ \A u \in RowsOf(w) : /\ RootOf(v, u) = RootOf(w, u)
                              /\ NewestOf(v, u) = IF u \in v.work[n].line THEN n ELSE NewestOf(w, u)
  BY <1>1, <1>2, NewRow
<1>6. v.work[n].line = {n} \cup w.work[t].line /\ n # t /\ t \in w.work[t].line
  BY <1>1, <1>2, <1>5 DEF Grows, Lineages, Work, NoWork
<1>7. Typed(v)
  BY <1>2, GrownTyped
<1>8. Current(C) # NoWork /\ t = Tip(w) /\ OneTip(w)
  BY <1>1 DEF Sane, Core, OneTip, Active
<1>9. Current(C) \in RowsOf(w)
  BY <1>1, <1>8 DEF Typed, Known, Worlds, CampStates, Current
<1>10. Current(C) \in w.work[t].line
  BY <1>1, <1>8, <1>9, RowFacts DEF Tip
<1>11. Tip(v) = n
  BY <1>2, <1>5, <1>6, <1>9, <1>10 DEF Tip
<1>12. ASSUME NEW u \in RowsOf(w) PROVE ~Active(v, u)
  <2>1. CASE u = t
    <3>1. NewestOf(v, u) # u
      BY <1>1, <1>5, <1>6, <2>1
    <3> QED
      BY <1>3, <2>1, <3>1 DEF Active, Continuable
  <2>2. CASE u # t
    <3>1. u \in Work /\ u # n /\ v.work[u] = w.work[u] /\ w.work[u].line \subseteq RowsOf(w)
      BY <1>1, <1>4, <1>5, <2>2, RowFacts
    <3>2. CASE v.work[u].st = "live"
      BY <1>8, <2>2, <3>1, <3>2 DEF OneTip, Active
    <3>3. CASE Continuable(v, u)
      <4>1. \A o \in w.work[u].line : w.work[o].st = "cancelled" => w.work[o].why = "superseded"
        <5> SUFFICES ASSUME NEW o \in w.work[u].line, w.work[o].st = "cancelled"
                     PROVE  w.work[o].why = "superseded"
          OBVIOUS
        <5>1. o # t /\ o # n /\ o \in Work
          BY <1>1, <1>5, <3>1
        <5>2. v.work[o] = w.work[o]
          BY <1>4, <5>1
        <5> QED
          BY <3>1, <3>3, <5>2 DEF Continuable
      <4>2. NewestOf(w, u) = u
        BY <1>5, <3>1, <3>3 DEF Continuable
      <4>3. Continuable(w, u)
        BY <3>1, <3>3, <4>1, <4>2 DEF Continuable
      <4> QED
        BY <1>8, <2>2, <4>3 DEF OneTip, Active
    <3> QED
      BY <3>2, <3>3 DEF Active
  <2> QED
    BY <2>1, <2>2
<1>13. ASSUME NEW u \in RowsOf(w), v.work[u].st = "completed", Current(C) \in v.work[u].line PROVE FALSE
  <2>1. u # t /\ u # n /\ u \in Work
    BY <1>1, <1>3, <1>5, <1>13
  <2>2. v.work[u] = w.work[u]
    BY <1>4, <2>1
  <2> QED
    BY <1>8, <1>13, <2>1, <2>2 DEF OneTip
<1>14. OneTip(v)
  BY <1>2, <1>3, <1>5, <1>8, <1>11, <1>12, <1>13 DEF OneTip
<1>15. Core(v)
  <2>1. Looked(v)
    BY <1>2 DEF Looked, Pending, Sane, Core
  <2>2. Orderly(v)
    BY <1>2 DEF Orderly, Sane, Core
  <2> QED
    BY <1>14, <2>1, <2>2 DEF Core
<1>16. Agreed(v)
  <2>1. \A a \in Workers : /\ Holds(v, a) <=> Holds(w, a)
                           /\ Advanced(v, a) <=> Advanced(w, a)
    BY <1>2 DEF Holds, Advanced
  <2>2. \A a \in Workers : Holds(w, a) => w.busy[a].at # "judging"
    BY <1>1, <1>8 DEF Sane, Agreed
  <2>3. (Due(v) <=> Due(w)) /\ (Coming(v) <=> Coming(w))
    BY <1>2, <2>1 DEF Due, Coming
  <2>4. "chain" \in Workers /\ "boot" \in Workers
    BY DEF Workers
  <2> QED
    BY <1>2, <2>1, <2>2, <2>3, <2>4 DEF Sane, Agreed, Matches
<1>17. Kept(v)
  <2>1. Pursued(v)
    <3>1. n \in RowsOf(v) /\ Current(v.camp) \in v.work[n].line
      BY <1>2, <1>5, <1>6, <1>10
    <3> QED
      BY <1>3, <3>1 DEF Pursued
  <2>2. ASSUME NEW i, StopWaits(w, i) PROVE StopWaits(v, i)
    <3>1. w.settleChain[i].of \in RowsOf(w) /\ w.settleChain[i].of \in RowsOf(v)
      BY <1>5, <2>2 DEF StopWaits
    <3>2. SameTree(w, w.settleChain[i].of, Current(C)) <=> SameTree(v, w.settleChain[i].of, Current(C))
      BY <1>5, <1>9, <3>1 DEF SameTree
    <3> QED
      BY <1>2, <2>2, <3>1, <3>2 DEF StopWaits, AboutIn
  <2>3. ASSUME Waited(w) PROVE Waited(v)
    BY <1>2, <2>3 DEF Waited
  <2> QED
    BY <1>2, <2>1, <2>2, <2>3 DEF Sane, Kept
<1>18. Hushed(w, v)
  <2>1. ASSUME StoppedByPerson(w, Current(C)) PROVE StoppedByPerson(v, Current(C))
    <3>1. PICK u \in RowsOf(w) : /\ SameTree(w, u, Current(C)) /\ w.work[u].st = "cancelled"
                                 /\ w.work[u].why = "user"
      BY <2>1 DEF StoppedByPerson
    <3>2. u # t /\ u # n /\ u \in Work /\ u \in RowsOf(v)
      BY <1>1, <1>5, <3>1
    <3>3. SameTree(v, u, Current(C)) /\ v.work[u] = w.work[u]
      BY <1>4, <1>5, <1>9, <3>1, <3>2 DEF SameTree
    <3> QED
      BY <1>8, <3>1, <3>2, <3>3 DEF StoppedByPerson
  <2>2. ASSUME NEW u \in Work, w.work[u].st = "none" PROVE v.work[u].by # "campaign"
    <3>1. CASE u = n
      BY <1>3, <3>1
    <3>2. CASE u # n
      <4>1. u # t
        BY <1>1, <2>2
      <4>2. w.work[u] = Unborn /\ v.work[u] = w.work[u]
        BY <1>1, <1>4, <2>2, <3>2, <4>1 DEF Lineages
      <4> QED
        BY <4>2 DEF Unborn
    <3> QED
      BY <3>1, <3>2
  <2> QED
    BY <1>2, <2>1, <2>2 DEF Hushed, Silent, Submitless
<1>19. v.camp.gen <= w.camp.gen
  BY <1>1, <1>2 DEF Worlds, CampStates
<1> QED
  BY <1>7, <1>15, <1>16, <1>17, <1>18, <1>19 DEF Sound, Sane

LEMMA RowContinuesHolds ==
  ASSUME IInv, NEW t \in Work, RowContinues(t)
  PROVE  IInv' /\ Quiet
<1> DEFINE n == Cardinality(RowsOf(World)) + 1
           v == Continued(World, t, n)
<1>1. n \in Work /\ Undisturbed /\ Continuable(World, t)
  BY WorldIs DEF RowContinues, Continuable
<1>2. Typed(World) /\ Sane(World)
  BY <1>1 DEF Undisturbed, Unasked, IInv, IType
<1>3. Happens(v)
  <2>1. World \in Worlds /\ work \in [Work -> RowStates] /\ Lineages(World) /\ t \in RowsOf(World)
    BY <1>1, <1>2, WorldIs DEF Typed, Worlds, Continuable, RowsOf
  <2>2. n # t
    <3>1. n \notin RowsOf(World)
      BY <1>1, <2>1, RowFacts DEF Work
    <3> QED
      BY <2>1, <3>1
  <2> HIDE DEF n
  <2>3. v.work = [u \in Work |-> IF u = n THEN Carrier(work[t], n)
                                ELSE IF u = t THEN Carried(work[t]) ELSE work[u]]
    BY <2>1, WorldIs DEF Continued, Worlds
  <2>4. /\ v.camp = camp /\ v.settleChain = settleChain /\ v.busy = busy /\ v.alarms = alarms
        /\ v.made = made
    BY <2>1, WorldIs DEF Continued, Worlds
  <2>5. work' = v.work
    <3> DEFINE p == work[t].st = "paused"
    <3>1. work' = [work EXCEPT ![n] = Carrier(work[t], n),
                               ![t].st = IF p THEN "cancelled" ELSE @,
                               ![t].why = IF p THEN "superseded" ELSE @]
      BY DEF RowContinues, Carrier, n
    <3>2. n \in Work /\ t \in Work /\ p = (work[t].st = "paused")
      BY <1>1, <2>1 DEF n
    <3> HIDE DEF p
    <3>3. [work EXCEPT ![n] = Carrier(work[t], n),
                       ![t].st = IF p THEN "cancelled" ELSE @,
                       ![t].why = IF p THEN "superseded" ELSE @]
            = [u \in Work |-> IF u = n THEN Carrier(work[t], n)
                              ELSE IF u = t THEN Carried(work[t]) ELSE work[u]]
      BY <2>1, <2>2, <3>2, CarriedOn, Zenon
    <3> QED
      BY <2>3, <3>1, <3>3, Zenon DEF p
  <2>6. UNCHANGED <<camp, settleChain, busy, alarms, made>>
    BY DEF RowContinues
  <2> QED
    BY <2>4, <2>5, <2>6 DEF Happens
<1> HIDE DEF v
<1>4. Sound(World, v)
  BY <1>1, <1>2, ContinuedSound DEF v
<1> QED
  BY <1>1, <1>3, <1>4, StepSound

---------------------------------------------------------------------------
\* The person.

\* A person stops a row.
Struck(w, t) == [w EXCEPT !.work[t].st = "cancelled", !.work[t].why = "user"]
StopItem(w, t) == [what |-> "stop", of |-> t, gen |-> w.camp.gen]
Stamped(w, t, b) ==
  [Struck(w, t) EXCEPT !.camp.stop = @ \/ b, !.settleChain = Append(@, StopItem(w, t))]

\* What either does to the row, and to nothing else of the work.
Strikes(w, v, t) ==
  /\ v \in Worlds /\ SameLines(w, v) /\ v.busy = w.busy /\ v.alarms = w.alarms /\ v.made = w.made
  /\ v.work[t].st = "cancelled" /\ v.work[t].why = "user"
  /\ \A u \in Work : u # t => v.work[u] = w.work[u]
  /\ v.camp.state = w.camp.state /\ v.camp.cur = w.camp.cur /\ Current(v.camp) = Current(w.camp)
  /\ v.camp.gen = w.camp.gen /\ v.camp.appt = w.camp.appt
  /\ v.camp.sprint = w.camp.sprint

LEMMA StruckIs ==
  ASSUME NEW w, Typed(w), NEW t \in RowsOf(w), NEW v, v = Struck(w, t)
  PROVE  Strikes(w, v, t) /\ v.camp = w.camp /\ v.settleChain = w.settleChain
<1>1. w \in Worlds /\ t \in Work /\ w.work[t].st # "none"
  BY DEF Typed, RowsOf
<1> DEFINE r == [w.work[t] EXCEPT !.st = "cancelled", !.why = "user"]
           W == [w.work EXCEPT ![t] = r]
<1>4. w.work \in [Work -> RowStates] /\ w.work[t] \in RowStates
  BY <1>1 DEF Worlds
<1>5. r \in RowStates /\ r.st = "cancelled" /\ r.why = "user" /\ r.line = w.work[t].line
  BY <1>4 DEF RowStates
<1>6. v = [w EXCEPT !.work = W]
  BY <1>1, <1>4 DEF Struck
<1> HIDE DEF r
<1>7. W \in [Work -> RowStates] /\ W[t] = r /\ \A u \in Work : u # t => W[u] = w.work[u]
  BY <1>1, <1>4, <1>5
<1> HIDE DEF W
<1>2. /\ v \in Worlds /\ v.camp = w.camp /\ v.settleChain = w.settleChain /\ v.busy = w.busy
      /\ v.alarms = w.alarms /\ v.made = w.made /\ v.work[t] = r
      /\ \A u \in Work : u # t => v.work[u] = w.work[u]
  BY <1>1, <1>6, <1>7 DEF Worlds
<1>3. SameLines(w, v)
  BY <1>1, <1>2, <1>5 DEF SameLines
<1> QED
  BY <1>2, <1>3, <1>5 DEF Strikes

LEMMA StampedIs ==
  ASSUME NEW w, Typed(w), NEW t \in RowsOf(w), NEW b \in BOOLEAN, NEW v, v = Stamped(w, t, b)
  PROVE  /\ Strikes(w, v, t) /\ v.settleChain = Append(w.settleChain, StopItem(w, t))
         /\ (w.camp.stop => v.camp.stop) /\ (b => v.camp.stop)
         /\ (v.camp.stop => w.camp.stop \/ b)
<1> DEFINE x == Struck(w, t)
           c == [w.camp EXCEPT !.stop = @ \/ b]
           q == Append(w.settleChain, StopItem(w, t))
<1>1. Strikes(w, x, t) /\ x.camp = w.camp /\ x.settleChain = w.settleChain
  BY StruckIs
<1>2. v = [x EXCEPT !.camp = c, !.settleChain = q]
  BY <1>1 DEF Stamped, Strikes, Worlds
<1> HIDE DEF x
<1>3. w \in Worlds /\ w.camp \in CampStates /\ w.settleChain \in Seq(Handlings) /\ t \in Work
  BY DEF Typed, Worlds, RowsOf
<1>4. StopItem(w, t) \in Handlings
  BY <1>3 DEF StopItem, Handlings, CampStates
<1>5. q \in Seq(Handlings)
  BY <1>3, <1>4, AppendProperties
<1>6. /\ c \in CampStates /\ c.state = w.camp.state /\ c.cur = w.camp.cur /\ c.sprint = w.camp.sprint
      /\ c.gen = w.camp.gen /\ c.appt = w.camp.appt
  BY <1>3 DEF CampStates
<1>7. (w.camp.stop => c.stop) /\ (b => c.stop) /\ (c.stop => w.camp.stop \/ b)
  BY <1>3 DEF CampStates
<1>8. Current(c) = Current(w.camp)
  BY <1>6 DEF Current
<1> HIDE DEF c, q
<1>9. /\ v \in Worlds /\ v.camp = c /\ v.settleChain = q /\ v.work = x.work /\ v.busy = x.busy
      /\ v.alarms = x.alarms /\ v.made = x.made
  BY <1>1, <1>2, <1>5, <1>6 DEF Strikes, Worlds
<1>10. SameLines(w, v)
  BY <1>1, <1>9 DEF Strikes, SameLines
<1>11. Strikes(w, v, t)
  BY <1>1, <1>6, <1>8, <1>9, <1>10 DEF Strikes
<1> QED
  BY <1>7, <1>9, <1>11 DEF q

\* Of all the rest the stop of a row keeps: Core, what is agreed, and the types.
LEMMA StrikesCore ==
  ASSUME NEW w, Typed(w), Sane(w), NEW t \in RowsOf(w), w.work[t].st # "completed",
         NEW v, Strikes(w, v, t), w.camp.stop => v.camp.stop,
         \A s \in Sprints : Pending(v, s) => Pending(w, s)
  PROVE  /\ Typed(v) /\ Core(v) /\ Agreed(v) /\ Tip(v) = Tip(w) /\ RowsOf(v) = RowsOf(w)
         /\ \A u, o \in Work : SameTree(v, u, o) <=> SameTree(w, u, o)
         /\ \A a \in Workers : (Holds(v, a) <=> Holds(w, a)) /\ (Advanced(v, a) <=> Advanced(w, a))
         /\ Submitless(w, v)
<1> DEFINE C == w.camp
<1>1. w \in Worlds /\ Lineages(w) /\ RowsOf(w) \subseteq Work /\ t \in Work /\ SameLines(w, v)
      /\ v \in Worlds
  BY DEF Typed, RowsOf, Strikes
<1>2. /\ RowsOf(v) = RowsOf(w) /\ Lineages(v)
      /\ \A u : NewestOf(v, u) = NewestOf(w, u)
      /\ \A u, o \in Work : SameTree(v, u, o) <=> SameTree(w, u, o)
      /\ \A c : Known(w, c) => Known(v, c)
  BY <1>1, LinesSame
<1>3. /\ v.busy = w.busy /\ v.alarms = w.alarms /\ v.work[t].st = "cancelled" /\ v.work[t].why = "user"
      /\ \A u \in Work : u # t => v.work[u] = w.work[u]
      /\ v.camp.state = C.state /\ v.camp.cur = C.cur /\ Current(v.camp) = Current(C)
      /\ v.camp.gen = C.gen /\ v.camp.appt = C.appt /\ v.camp.sprint = C.sprint
  BY DEF Strikes
<1>4. Typed(v)
  BY <1>1, <1>2, <1>3 DEF Typed, Known
<1>5. Tip(v) = Tip(w)
  BY <1>2, <1>3 DEF Tip
<1>6. \A u \in RowsOf(w) : v.work[u].line = w.work[u].line /\ w.work[u].line \subseteq Work
  BY <1>1 DEF SameLines, Worlds, RowStates
<1>7. ASSUME NEW u \in RowsOf(w), Active(v, u) PROVE Active(w, u)
  <2>1. CASE v.work[u].st = "live"
    BY <1>1, <1>3, <2>1 DEF Active
  <2>2. CASE Continuable(v, u)
    <3>1. t \notin w.work[u].line
      BY <1>3, <1>6, <2>2 DEF Continuable
    <3>2. u # t
      BY <1>3, <2>2 DEF Continuable
    <3>3. \A o \in w.work[u].line : v.work[o] = w.work[o]
      BY <1>3, <1>6, <3>1
    <3> QED
      BY <1>1, <1>2, <1>3, <1>6, <2>2, <3>2, <3>3 DEF Active, Continuable
  <2> QED
    BY <1>7, <2>1, <2>2 DEF Active
<1>8. \A u \in RowsOf(w) : v.work[u].st = "completed" => v.work[u] = w.work[u]
  BY <1>1, <1>3
<1>9. OneTip(v)
  BY <1>2, <1>3, <1>5, <1>7, <1>8 DEF Sane, Core, OneTip
<1>10. Looked(v)
  BY <1>3 DEF Sane, Core, Looked
<1>11. Orderly(v)
  BY <1>3 DEF Sane, Core, Orderly
<1>12. \A a \in Workers : (Holds(v, a) <=> Holds(w, a)) /\ (Advanced(v, a) <=> Advanced(w, a))
  BY <1>3 DEF Holds, Advanced
<1>13. Agreed(v)
  <2>1. (Due(v) <=> Due(w)) /\ (Coming(v) <=> Coming(w))
    BY <1>3, <1>12 DEF Due, Coming
  <2>2. ASSUME NEW a \in Workers, Holds(w, a)
        PROVE  /\ Matches(v, v.busy[a].copy)
               /\ v.busy[a].at = "judging" => v.work[Tip(v)].st = "completed"
    <3>1. /\ Matches(w, w.busy[a].copy)
          /\ w.busy[a].at = "judging" => w.work[Tip(w)].st = "completed"
      BY <2>2 DEF Sane, Agreed
    <3>2. Matches(v, v.busy[a].copy)
      BY <1>3, <3>1 DEF Matches
    <3>3. Tip(w) \in Work
      <4>1. Current(C) # NoWork
        BY <2>2, <3>1 DEF Sane, Core, Orderly, Holds, Matches
      <4>2. Current(C) \in RowsOf(w)
        BY <1>1, <4>1 DEF Typed, Known, Worlds, CampStates, Current
      <4> QED
        BY <1>1, <4>2, RowFacts DEF Tip
    <3> QED
      BY <1>3, <1>5, <3>1, <3>2, <3>3
  <2>3. "chain" \in Workers /\ "boot" \in Workers
    BY DEF Workers
  <2> QED
    BY <1>3, <1>12, <2>1, <2>2, <2>3 DEF Sane, Agreed
<1>14. Submitless(w, v)
  <2>1. \A u \in Work : w.work[u].st = "none" => w.work[u] = Unborn /\ v.work[u] = w.work[u]
    BY <1>1, <1>3 DEF Lineages, RowsOf
  <2> QED
    BY <2>1 DEF Submitless, Unborn
<1> QED
  BY <1>2, <1>4, <1>5, <1>9, <1>10, <1>11, <1>12, <1>13, <1>14 DEF Core

\* What waits in the chain waits on, where the chain is as long or longer.
Lengthens(w, v) ==
  \A i \in 1..Len(w.settleChain) : i \in 1..Len(v.settleChain) /\ v.settleChain[i] = w.settleChain[i]
LEMMA StrikesRelevant ==
  ASSUME NEW w, Typed(w), NEW t \in RowsOf(w), NEW v, Strikes(w, v, t), Lengthens(w, v),
         NEW i \in 1..Len(w.settleChain)
  PROVE  /\ i \in 1..Len(v.settleChain)
         /\ StopWaits(w, i) => StopWaits(v, i)
         /\ Relevant(w, i) => Relevant(v, i)
<1>1. w \in Worlds /\ Lineages(w) /\ RowsOf(w) \subseteq Work /\ SameLines(w, v)
  BY DEF Typed, RowsOf, Strikes
<1>2. RowsOf(v) = RowsOf(w) /\ \A u, o \in Work : SameTree(v, u, o) <=> SameTree(w, u, o)
  BY <1>1, LinesSame
<1>3. i \in 1..Len(v.settleChain) /\ v.settleChain[i] = w.settleChain[i]
  BY DEF Lengthens
<1>4. /\ Current(w.camp) \in Work \cup {NoWork} /\ v.camp.gen = w.camp.gen /\ v.camp.cur = w.camp.cur
      /\ Current(v.camp) = Current(w.camp)
  BY <1>1 DEF Worlds, CampStates, SprintStates, Current, Strikes
<1>5. StopWaits(w, i) => StopWaits(v, i)
  BY <1>1, <1>2, <1>3, <1>4 DEF StopWaits, AboutIn
<1>6. w.settleChain[i].what = "settle" => v.work[w.settleChain[i].of].line = w.work[w.settleChain[i].of].line
  <2>1. w.settleChain[i] \in Handlings
    BY <1>1, ElementOfSeq DEF Worlds
  <2>2. w.settleChain[i].what = "settle" => w.settleChain[i].of \in Work
    BY <2>1 DEF Handlings
  <2> QED
    BY <1>1, <2>2 DEF SameLines
<1> QED
  BY <1>3, <1>4, <1>5, <1>6 DEF Relevant

\* The stop of a row of the current sprint's tree waits in the chain; that of
\* another row leaves what is going to happen.
LEMMA StrikesKept ==
  ASSUME NEW w, Typed(w), Sane(w), NEW t \in RowsOf(w), w.work[t].st # "completed",
         NEW v, Strikes(w, v, t), Lengthens(w, v), w.camp.stop => v.camp.stop,
         \A s \in Sprints : Pending(v, s) => Pending(w, s),
         v.camp.stop => w.camp.stop \/ \E i \in 1..Len(v.settleChain) : StopWaits(v, i),
         \/ w.camp.state # "executing"
         \/ \E i \in 1..Len(v.settleChain) : StopWaits(v, i)
         \/ Current(w.camp) = NoWork
         \/ ~SameTree(w, t, Current(w.camp))
  PROVE  Typed(v) /\ v.camp.gen <= w.camp.gen /\ Sane(v) /\ Submitless(w, v)
         /\ (Silent(w) => Silent(v))
<1> DEFINE C == w.camp
<1>1. w \in Worlds /\ Lineages(w) /\ RowsOf(w) \subseteq Work /\ t \in Work /\ SameLines(w, v)
  BY DEF Typed, RowsOf, Strikes
<1>2. /\ v.busy = w.busy /\ v.alarms = w.alarms
      /\ \A u \in Work : u # t => v.work[u] = w.work[u]
  BY DEF Strikes
<1>3. /\ v.camp.state = C.state /\ v.camp.cur = C.cur /\ Current(v.camp) = Current(C)
      /\ v.camp.gen = C.gen /\ v.camp.appt = C.appt
  BY DEF Strikes
<1>4. /\ Typed(v) /\ Core(v) /\ Agreed(v) /\ Tip(v) = Tip(w) /\ RowsOf(v) = RowsOf(w)
      /\ \A u, o \in Work : SameTree(v, u, o) <=> SameTree(w, u, o)
      /\ Submitless(w, v)
  BY StrikesCore
<1>5. \A a \in Workers : (Holds(v, a) <=> Holds(w, a)) /\ (Advanced(v, a) <=> Advanced(w, a))
  BY StrikesCore
<1>6. \A i \in 1..Len(w.settleChain) : /\ i \in 1..Len(v.settleChain)
                                       /\ StopWaits(w, i) => StopWaits(v, i)
                                       /\ Relevant(w, i) => Relevant(v, i)
  BY StrikesRelevant
<1>7. Current(C) # NoWork => /\ Current(C) \in RowsOf(w) /\ Tip(w) \in RowsOf(w)
                             /\ SameTree(w, Tip(w), Current(C))
  <2> SUFFICES ASSUME Current(C) # NoWork
               PROVE  /\ Current(C) \in RowsOf(w) /\ Tip(w) \in RowsOf(w)
                      /\ SameTree(w, Tip(w), Current(C))
    OBVIOUS
  <2>1. Current(C) \in RowsOf(w)
    BY <1>1 DEF Typed, Known, Worlds, CampStates, Current
  <2>2. Tip(w) \in RowsOf(w) /\ Current(C) \in w.work[Tip(w)].line
    BY <1>1, <2>1, RowFacts DEF Tip
  <2>3. SameTree(w, Tip(w), Current(C))
    BY <1>1, <2>2, SameLine
  <2> QED
    BY <2>1, <2>2, <2>3
<1>8. ASSUME C.state = "executing" PROVE Pursued(v)
  <2>1. CASE \E i \in 1..Len(v.settleChain) : StopWaits(v, i)
    BY <2>1 DEF Pursued, Relevant
  <2>2. CASE Current(C) = NoWork \/ ~SameTree(w, t, Current(C))
    <3>1. Pursued(w)
      BY <1>8 DEF Sane, Kept
    <3>2. ASSUME NEW a \in Workers, Decides(w, a) PROVE Pursued(v)
      <4>1. Holds(w, a) /\ Current(C) # NoWork
        BY <3>2 DEF Decides, Sane, Core, Agreed, Orderly, Holds, Matches
      <4>2. Tip(w) # t /\ Tip(w) \in Work
        BY <1>1, <1>7, <2>2, <4>1 DEF SameTree
      <4>3. v.work[Tip(v)] = w.work[Tip(w)]
        BY <1>2, <1>4, <4>2
      <4>4. Decides(v, a)
        BY <1>2, <1>5, <3>2, <4>3 DEF Decides
      <4> QED
        BY <4>4 DEF Pursued
    <3>3. ASSUME NEW a \in Workers, Advanced(w, a) PROVE Pursued(v)
      BY <1>5, <3>3 DEF Pursued
    <3>4. ASSUME NEW h \in w.alarms,
                 h.kind = "resubmit" \/ h = [kind |-> "reconcile", of |-> C.cur]
          PROVE  Pursued(v)
      BY <1>2, <1>3, <3>4 DEF Pursued
    <3>5. ASSUME NEW u \in RowsOf(w), w.work[u].st = "live", Current(C) \in w.work[u].line
          PROVE  Pursued(v)
      <4>1. Current(C) \in RowsOf(w) /\ SameTree(w, u, Current(C))
        BY <1>1, <3>5, SameLine
      <4>2. Current(C) # NoWork
        BY <1>1, <4>1 DEF Work, NoWork
      <4>3. u # t
        BY <2>2, <4>1, <4>2
      <4> QED
        BY <1>1, <1>2, <1>3, <1>4, <3>5, <4>3 DEF Pursued
    <3>6. ASSUME NEW i \in 1..Len(w.settleChain), Relevant(w, i) PROVE Pursued(v)
      BY <1>6, <3>6 DEF Pursued
    <3> QED
      BY <3>1, <3>2, <3>3, <3>4, <3>5, <3>6 DEF Pursued
  <2> QED
    BY <1>8, <2>1, <2>2
<1>9. Kept(v)
  <2>1. C.state = "executing" /\ v.camp.stop => \E i \in 1..Len(v.settleChain) : StopWaits(v, i)
    BY <1>6 DEF Sane, Kept
  <2>2. Waited(w) => Waited(v)
    BY <1>2, <1>3 DEF Waited
  <2> QED
    BY <1>3, <1>8, <2>1, <2>2 DEF Sane, Kept
<1>10. Silent(w) => Silent(v)
  <2>1. StoppedByPerson(w, Current(C)) => StoppedByPerson(v, Current(C))
    <3> SUFFICES ASSUME StoppedByPerson(w, Current(C)) PROVE StoppedByPerson(v, Current(C))
      OBVIOUS
    <3>1. PICK u \in RowsOf(w) : /\ SameTree(w, u, Current(C)) /\ w.work[u].st = "cancelled"
                                 /\ w.work[u].why = "user"
      BY DEF StoppedByPerson
    <3>2. Current(C) # NoWork
      BY DEF StoppedByPerson
    <3>3. SameTree(v, u, Current(C)) /\ u \in RowsOf(v)
      BY <1>1, <1>4, <1>7, <3>1, <3>2
    <3>4. v.work[u].st = "cancelled" /\ v.work[u].why = "user"
      BY <1>1, <1>2, <3>1 DEF Strikes
    <3> QED
      BY <3>2, <3>3, <3>4 DEF StoppedByPerson
  <2> QED
    BY <1>3, <2>1 DEF Silent
<1>11. v.camp.gen <= w.camp.gen
  BY <1>1, <1>3 DEF Worlds, CampStates
<1> QED
  BY <1>4, <1>9, <1>10, <1>11 DEF Sane

\* Of the tree of the current sprint the campaign owns every row.
Owned(w, t) ==
  t \in w.camp.owned \/ \E s \in Sprints :
    w.camp.sprint[s].task # NoWork /\ SameTree(w, t, w.camp.sprint[s].task)

LEMMA StruckSound ==
  ASSUME NEW w, Typed(w), Sane(w), NEW t \in RowsOf(w), w.work[t].st # "completed",
         w.camp.state = "executing" => ~Owned(w, t), NEW v, v = Struck(w, t)
  PROVE  /\ Typed(v) /\ v.camp.gen <= w.camp.gen /\ Sane(v) /\ Submitless(w, v)
         /\ Silent(w) => Silent(v)
         /\ w.camp.state = "failed" /\ Current(w.camp) # NoWork /\ AboutIn(w, t) => Silent(v)
<1>1. Strikes(w, v, t) /\ v.camp = w.camp /\ v.settleChain = w.settleChain
  BY StruckIs
<1>2. Lengthens(w, v)
  BY <1>1 DEF Lengthens
<1>3. \A s \in Sprints : Pending(v, s) => Pending(w, s)
  BY <1>1 DEF Pending, Strikes
<1>4. \/ w.camp.state # "executing" \/ Current(w.camp) = NoWork
      \/ ~SameTree(w, t, Current(w.camp))
  BY DEF Owned, Current, Typed, Worlds, CampStates
<1>5. /\ Typed(v) /\ v.camp.gen <= w.camp.gen /\ Sane(v) /\ Submitless(w, v)
      /\ Silent(w) => Silent(v)
  BY <1>1, <1>2, <1>3, <1>4, StrikesKept
<1>6. ASSUME w.camp.state = "failed", Current(w.camp) # NoWork, AboutIn(w, t)
      PROVE  Silent(v)
  <2>1. SameTree(w, t, Current(w.camp)) /\ Current(w.camp) \in Work /\ t \in Work
    BY <1>6 DEF AboutIn, RowsOf, Typed, Worlds, CampStates, SprintStates, Current
  <2>2. t \in RowsOf(v) /\ SameTree(v, t, Current(w.camp))
    BY <1>1, <2>1, StrikesCore, <1>3
  <2>3. v.work[t].st = "cancelled" /\ v.work[t].why = "user"
    BY <1>1 DEF Strikes
  <2>4. StoppedByPerson(v, Current(w.camp))
    BY <1>6, <2>2, <2>3 DEF StoppedByPerson
  <2> QED
    BY <1>1, <1>6, <2>4 DEF Silent
<1> QED
  BY <1>5, <1>6

LEMMA StampedSound ==
  ASSUME NEW w, Typed(w), Sane(w), NEW t \in RowsOf(w), w.work[t].st # "completed",
         NEW b, b = AboutIn(w, t), NEW v, v = Stamped(w, t, b)
  PROVE  /\ Typed(v) /\ v.camp.gen <= w.camp.gen /\ Sane(v) /\ Submitless(w, v)
         /\ Silent(w) => Silent(v)
         /\ AboutIn(w, t) => Silent(v)
<1>0. b \in BOOLEAN
  BY DEF AboutIn, SameTree
<1> DEFINE q == w.settleChain
           n == Len(q) + 1
<1>1. /\ Strikes(w, v, t) /\ v.settleChain = Append(q, StopItem(w, t))
      /\ (w.camp.stop => v.camp.stop) /\ (b => v.camp.stop)
      /\ (v.camp.stop => w.camp.stop \/ b)
  BY <1>0, StampedIs
<1>2. w \in Worlds /\ q \in Seq(Handlings) /\ Len(q) \in Nat
  BY LenProperties DEF Typed, Worlds
<1>3. /\ Len(v.settleChain) = n /\ v.settleChain[n] = StopItem(w, t)
      /\ \A i \in 1..Len(q) : v.settleChain[i] = q[i]
  <2>1. StopItem(w, t) \in Handlings
    BY <1>2 DEF StopItem, Handlings, Worlds, CampStates, RowsOf
  <2> HIDE DEF q
  <2> QED
    BY <1>1, <1>2, <2>1, AppendProperties
<1>4. Lengthens(w, v)
  <2> SUFFICES ASSUME NEW i \in 1..Len(q) PROVE i \in 1..n /\ v.settleChain[i] = q[i]
    BY <1>3 DEF Lengthens
  <2>1. i \in 1..n
    BY <1>2
  <2> QED
    BY <1>3, <2>1
<1>5. \A s \in Sprints : Pending(v, s) => Pending(w, s)
  <2>1. StopItem(w, t).what = "stop"
    BY DEF StopItem
  <2>2. \A i \in 1..n : i = n \/ i \in 1..Len(q)
    BY <1>2
  <2>3. \A i \in 1..Len(v.settleChain) : v.settleChain[i].what = "reconcile" =>
           i \in 1..Len(q) /\ v.settleChain[i] = q[i]
    BY <1>3, <2>1, <2>2
  <2> QED
    BY <1>1, <2>3 DEF Pending, Strikes
<1>6. SameLines(w, v) /\ RowsOf(v) = RowsOf(w) /\ \A u, o \in Work : SameTree(v, u, o) <=> SameTree(w, u, o)
  BY <1>2, LinesSame, <1>1 DEF Strikes, Typed
<1>7. b => StopWaits(v, n) /\ n \in 1..Len(v.settleChain)
  <2>1. n \in 1..n
    BY <1>2
  <2>2. StopItem(w, t).what = "stop" /\ StopItem(w, t).gen = w.camp.gen /\ StopItem(w, t).of = t
    BY DEF StopItem
  <2>3. AboutIn(w, t) => AboutIn(v, t)
    <3>1. Current(w.camp) \in Work \cup {NoWork} /\ t \in Work
      BY <1>2 DEF RowsOf, Worlds, CampStates, SprintStates, Current
    <3>2. Current(v.camp) = Current(w.camp)
      BY <1>1 DEF Strikes
    <3>3. Current(w.camp) # NoWork /\ SameTree(w, t, Current(w.camp)) => SameTree(v, t, Current(w.camp))
      BY <1>6, <3>1
    <3> QED
      BY <3>2, <3>3 DEF AboutIn
  <2>4. v.camp.gen = w.camp.gen
    BY <1>1 DEF Strikes
  <2> QED
    BY <1>3, <1>6, <2>1, <2>2, <2>3, <2>4 DEF StopWaits
<1>8. \/ \E i \in 1..Len(v.settleChain) : StopWaits(v, i)
      \/ ~SameTree(w, t, Current(w.camp))
  BY <1>7 DEF AboutIn
<1> QED
  BY <1>1, <1>4, <1>5, <1>7, <1>8, StrikesKept DEF Silent

LEMMA StopsRowHolds ==
  ASSUME IInv, NEW t \in Work, StopsRow(t)
  PROVE  IInv' /\ Quiet
<1> DEFINE w == World
           h == camp.state = "executing" /\ OwnsRow(camp, t)
           b == AboutIn(w, t)
           v == IF h THEN Stamped(w, t, b) ELSE Struck(w, t)
<1>1. Wish /\ t \in RowsOf(w) /\ w.work[t].st # "completed"
  BY WorldIs DEF StopsRow, Retirable, RowsOf
<1>2. b <=> AboutCurrent(camp, t)
  BY WorldIs DEF AboutIn, AboutCurrent
<1>3. OwnsRow(camp, t) <=> Owned(w, t)
  BY WorldIs DEF OwnsRow, Owned
<1>4. b = AboutCurrent(camp, t)
  BY WorldIs DEF AboutIn, AboutCurrent
<1>5. Happens(v)
  BY <1>4, WorldIs DEF StopsRow, Stamped, Struck, StopItem
<1>6. barred' = (barred \/ (h /\ b) \/ (camp.state = "failed" /\ Current(camp) # NoWork /\ b))
  BY <1>4 DEF StopsRow
<1>7. /\ ~raced /\ wishes < MaxWishes /\ wishes' = wishes + 1 /\ raced' = raced
      /\ campBoots' = campBoots
  BY <1>1 DEF Wish
<1>8. Typed(w) /\ Sane(w) /\ camp.gen <= wishes /\ wishes \in 0..MaxWishes /\ campBoots \in 0..MaxCampBoots
      /\ barred \in BOOLEAN /\ raced \in BOOLEAN /\ camp.gen \in Nat
  BY <1>7, WorldIs DEF IInv, IType, Typed, Worlds, CampStates
<1>9. /\ Typed(v) /\ v.camp.gen <= w.camp.gen /\ Sane(v) /\ Submitless(w, v)
      /\ Silent(w) => Silent(v)
      /\ h /\ b => Silent(v)
      /\ camp.state = "failed" /\ Current(camp) # NoWork /\ b => Silent(v)
  <2>1. CASE h
    <3>1. v = Stamped(w, t, b) /\ camp.state = "executing"
      BY <2>1
    <3> HIDE DEF v, w
    <3> QED
      BY <1>1, <1>8, <3>1, StampedSound
  <2>2. CASE ~h
    <3>1. v = Struck(w, t) /\ (w.camp.state = "executing" => ~Owned(w, t))
      BY <1>3, <2>2, WorldIs
    <3>2. w.camp = camp
      BY WorldIs
    <3> HIDE DEF v, w
    <3> QED
      BY <1>1, <1>8, <2>2, <3>1, <3>2, StruckSound
  <2> QED
    BY <2>1, <2>2
<1>10. v.camp.gen <= wishes' /\ wishes' \in 0..MaxWishes
  <2>1. v.camp.gen \in Nat /\ w.camp.gen = camp.gen
    BY <1>9, WorldIs DEF Typed, Worlds, CampStates
  <2> HIDE DEF v, w
  <2> QED
    BY <1>7, <1>8, <1>9, <2>1, CampConstants
<1>11. barred' \in BOOLEAN /\ (barred' => barred \/ (h /\ b) \/ (camp.state = "failed" /\ Current(camp) # NoWork /\ b))
  BY <1>6
<1>12. barred => Silent(w)
  BY <1>7 DEF IInv
<1>13. barred' => Silent(v)
  <2> HIDE DEF v, w, h, b
  <2> QED
    BY <1>9, <1>11, <1>12
<1> HIDE DEF v, h, b
<1> QED
  BY <1>5, <1>7, <1>8, <1>9, <1>10, <1>11, <1>13, StepHolds

\* A person's word begins a generation, which nothing in memory is of yet.
Voided(c) == [c EXCEPT !.state = "cancelled", !.appt = NoAppointment, !.gen = @ + 1]
Restarted(c) == [c EXCEPT !.gen = @ + 1, !.stop = FALSE]
LEMMA NewGeneration ==
  ASSUME NEW w, Typed(w), w.camp.gen < MaxWishes
  PROVE  /\ Voided(w.camp) \in CampStates /\ Voided(w.camp).gen = w.camp.gen + 1
         /\ Voided(w.camp).cur = w.camp.cur /\ Current(Voided(w.camp)) = Current(w.camp)
         /\ Voided(w.camp).state = "cancelled" /\ Voided(w.camp).appt = NoAppointment
         /\ Known(w, Voided(w.camp))
         /\ Restarted(w.camp) \in CampStates /\ Restarted(w.camp).gen = w.camp.gen + 1
         /\ Restarted(w.camp).cur = w.camp.cur /\ Current(Restarted(w.camp)) = Current(w.camp)
         /\ Known(w, Restarted(w.camp))
         /\ w.camp.gen \in Nat
<1> DEFINE C == w.camp
<1>1. C \in CampStates /\ Known(w, C)
  BY DEF Typed, Worlds
<1> HIDE DEF C
<1>2. C.gen \in 0..MaxWishes /\ C.gen + 1 \in 0..MaxWishes /\ MaxWishes \in Nat
  BY <1>1, CampConstants DEF C, CampStates
<1>3. /\ Voided(C) \in CampStates /\ Voided(C).gen = C.gen + 1 /\ Voided(C).cur = C.cur
      /\ Voided(C).sprint = C.sprint /\ Voided(C).state = "cancelled" /\ Voided(C).appt = NoAppointment
  BY <1>1, <1>2 DEF Voided, CampStates
<1>4. /\ Restarted(C) \in CampStates /\ Restarted(C).gen = C.gen + 1 /\ Restarted(C).cur = C.cur
      /\ Restarted(C).sprint = C.sprint
  BY <1>1, <1>2 DEF Restarted, CampStates
<1>5. Current(Voided(C)) = Current(C) /\ Current(Restarted(C)) = Current(C)
  BY <1>3, <1>4 DEF Current
<1>6. Known(w, Voided(C)) /\ Known(w, Restarted(C))
  BY <1>1, <1>3, <1>4 DEF Known
<1> QED
  BY <1>2, <1>3, <1>4, <1>5, <1>6 DEF C

LEMMA GenerationFrees ==
  ASSUME NEW w, Typed(w), NEW v, v.busy = w.busy, v.alarms = w.alarms, v.camp.gen = w.camp.gen + 1
  PROVE  Free(v)
<1>1. w.camp.gen \in Nat /\ \A a \in Workers : w.busy[a].copy.gen \in Nat /\ w.busy[a].copy.gen <= w.camp.gen
  BY DEF Typed, Worlds, Occupations, CampStates
<1>2. \A a \in Workers : w.busy[a].copy.gen # v.camp.gen
  BY <1>1
<1>3. ~(v.camp.gen <= w.camp.gen)
  BY <1>1
<1>4. [kind |-> "resubmit", of |-> v.camp.gen] \notin v.alarms
  BY <1>3 DEF Typed
<1> QED
  BY <1>2, <1>4 DEF Free, Unheld, Coming, Holds, Advanced, Due

LEMMA CancelsSound ==
  ASSUME NEW w, Typed(w), Sane(w), w.camp.gen < MaxWishes, NEW c, c = Voided(w.camp),
         NEW v, v = RetiresAll(Saves(w, c), c, "none")
  PROVE  Typed(v) /\ Sane(v) /\ Silent(v) /\ v.camp.gen = w.camp.gen + 1 /\ Submitless(w, v)
<1> DEFINE x == Saves(w, c)
<1>1. /\ c \in CampStates /\ c.gen = w.camp.gen + 1 /\ c.cur = w.camp.cur
      /\ Current(c) = Current(w.camp) /\ c.state = "cancelled" /\ c.appt = NoAppointment /\ Known(w, c)
      /\ w.camp.gen \in Nat
  BY NewGeneration
<1>2. ~Older(w, c)
  BY <1>1 DEF Older
<1>3. w \in Worlds
  BY DEF Typed
<1>4. /\ x.work = w.work /\ x.settleChain = w.settleChain /\ x.busy = w.busy /\ x.alarms = w.alarms
      /\ x.camp.state = "cancelled" /\ x.camp.cur = w.camp.cur /\ x.camp.gen = w.camp.gen + 1
      /\ x.camp.appt = NoAppointment /\ Current(x.camp) = Current(w.camp)
  BY <1>1, <1>2, <1>3, SavesIs
<1>5. Typed(x)
  BY <1>1, SaveTyped
<1>6. v = RetiresAll(x, c, "none")
  OBVIOUS
<1> HIDE DEF x
<1>7. Typed(v) /\ Calms(x, v) /\ v.camp = x.camp
  BY <1>5, <1>6, AllTyped
<1>8. Free(x)
  BY <1>4, GenerationFrees
<1>9. Core(x)
  <2>1. Stays(w, x)
    BY <1>4 DEF Stays, Appoints
  <2>2. Orderly(x)
    BY <1>4 DEF Sane, Core, Orderly
  <2> QED
    BY <2>1, <2>2, StayCore DEF Sane
<1>10. Kept(x)
  BY <1>4 DEF Kept
<1>11. Sane(x)
  BY <1>8, <1>9, <1>10, FreeAgreed DEF Sane
<1>12. Core(v)
  BY <1>5, <1>7, <1>9, CalmCore
<1>13. Drifts(x, v)
  BY <1>7, CalmDrifts
<1>14. Sane(v)
  BY <1>5, <1>11, <1>12, <1>13, DriftSane DEF Core
<1>15. Submitless(x, v)
  BY <1>5, <1>7, DriftSilent DEF Calms
<1>16. Submitless(w, v)
  BY <1>4, <1>15, SubmitlessTrans
<1> QED
  BY <1>4, <1>7, <1>14, <1>16 DEF Silent

LEMMA CancelsCampaignHolds ==
  ASSUME IInv, CancelsCampaign
  PROVE  IInv' /\ Quiet
<1> DEFINE w == World
           c == Voided(w.camp)
           v == RetiresAll(Saves(w, c), c, "none")
<1>1. Wish /\ Happens(v) /\ barred' = TRUE
  BY WorldIs DEF CancelsCampaign, Voided
<1>2. /\ ~raced /\ wishes < MaxWishes /\ wishes' = wishes + 1 /\ raced' = raced
      /\ campBoots' = campBoots
  BY <1>1 DEF Wish
<1>3. Typed(w) /\ Sane(w) /\ camp.gen <= wishes /\ wishes \in 0..MaxWishes /\ campBoots \in 0..MaxCampBoots
      /\ raced \in BOOLEAN /\ camp.gen \in Nat /\ MaxWishes \in Nat /\ w.camp.gen = camp.gen
  BY <1>2, WorldIs, CampConstants DEF IInv, IType, Typed, Worlds, CampStates
<1> HIDE DEF w
<1>4. w.camp.gen < MaxWishes
  BY <1>2, <1>3
<1>5. Typed(v) /\ Sane(v) /\ Silent(v) /\ v.camp.gen = w.camp.gen + 1 /\ Submitless(w, v)
  BY <1>3, <1>4, CancelsSound
<1>6. v.camp.gen <= wishes' /\ wishes' \in 0..MaxWishes
  BY <1>2, <1>3, <1>5
<1> HIDE DEF v
<1>7. campBoots' \in 0..MaxCampBoots /\ barred' \in BOOLEAN /\ raced' \in BOOLEAN
  BY <1>1, <1>2, <1>3
<1> QED
  BY <1>1, <1>2, <1>5, <1>6, <1>7, StepHolds DEF w

LEMMA RevivesCampaignHolds ==
  ASSUME IInv, RevivesCampaign
  PROVE  IInv' /\ Quiet
<1> DEFINE w == World
           c == Restarted(w.camp)
<1>1. Wish /\ barred' = FALSE /\ \E v \in RevivesAt(w, c) : Happens(v)
  BY WorldIs DEF RevivesCampaign, Restarted
<1>2. /\ ~raced /\ wishes < MaxWishes /\ wishes' = wishes + 1 /\ raced' = raced
      /\ campBoots' = campBoots
  BY <1>1 DEF Wish
<1>3. Typed(w) /\ Sane(w) /\ camp.gen <= wishes /\ wishes \in 0..MaxWishes /\ campBoots \in 0..MaxCampBoots
      /\ raced \in BOOLEAN /\ camp.gen \in Nat /\ MaxWishes \in Nat /\ w.camp.gen = camp.gen
  BY <1>2, WorldIs, CampConstants DEF IInv, IType, Typed, Worlds, CampStates
<1> HIDE DEF w
<1>4. w.camp.gen < MaxWishes
  BY <1>2, <1>3
<1>5. /\ c \in CampStates /\ c.gen = w.camp.gen + 1 /\ c.cur = w.camp.cur
      /\ Current(c) = Current(w.camp) /\ Known(w, c) /\ w.camp.gen \in Nat
  BY <1>3, <1>4, NewGeneration
<1> HIDE DEF c
<1>6. PICK v \in RevivesAt(w, c) : Happens(v)
  BY <1>1
<1>7. Typed(v) /\ v.camp.gen \in {w.camp.gen, c.gen}
  BY <1>3, <1>5, <1>6, RevivesTyped
<1>8. Sane(v)
  <2>1. Core(w) /\ w.camp.gen <= c.gen /\ c.gen # w.camp.gen
    BY <1>3, <1>5 DEF Sane
  <2> QED
    BY <1>3, <1>5, <1>6, <2>1, RevivesSane
<1>9. v.camp.gen <= wishes' /\ wishes' \in 0..MaxWishes
  BY <1>2, <1>3, <1>5, <1>7
<1>10. campBoots' \in 0..MaxCampBoots /\ barred' \in BOOLEAN /\ raced' \in BOOLEAN /\ ~barred'
  BY <1>1, <1>2, <1>3
<1> QED
  BY <1>2, <1>6, <1>7, <1>8, <1>9, <1>10, StepHolds

---------------------------------------------------------------------------
\* The chain.

\* The chain takes its first handler.
Popped(w) == Requeued(w, Tail(w.settleChain))

LEMMA PoppedIs ==
  ASSUME NEW w, Typed(w), w.settleChain # <<>>, NEW x, x = Popped(w)
  PROVE  /\ Typed(x) /\ x.camp = w.camp /\ x.work = w.work /\ x.busy = w.busy /\ x.alarms = w.alarms
         /\ RowsOf(x) = RowsOf(w) /\ Tip(x) = Tip(w) /\ SameLines(w, x)
         /\ \A u, o : SameTree(x, u, o) <=> SameTree(w, u, o)
         /\ w.settleChain[1] = Head(w.settleChain) /\ Head(w.settleChain) \in Handlings
         /\ 1 \in 1..Len(w.settleChain)
         /\ \A i \in 1..Len(x.settleChain) :
              i + 1 \in 1..Len(w.settleChain) /\ x.settleChain[i] = w.settleChain[i + 1]
         /\ \A i \in 1..Len(w.settleChain) : i # 1 =>
              i - 1 \in 1..Len(x.settleChain) /\ x.settleChain[i - 1] = w.settleChain[i]
<1> DEFINE q == w.settleChain
           r == Tail(q)
<1>1. q \in Seq(Handlings) /\ q # <<>> /\ w \in Worlds
  BY DEF Typed, Worlds
<1>2. /\ r \in Seq(Handlings) /\ Len(q) \in Nat /\ Len(q) >= 1 /\ Len(r) = Len(q) - 1
      /\ q[1] = Head(q) /\ Head(q) \in Handlings /\ \A i \in 1..Len(r) : r[i] = q[i + 1]
  <2> HIDE DEF q
  <2>1. Len(q) \in Nat /\ Len(q) # 0
    BY <1>1, LenProperties, EmptySeq
  <2> QED
    BY <1>1, <2>1, HeadTailProperties
<1> HIDE DEF q, r
<1>3. x = Requeued(w, r)
  BY DEF Popped, q, r
<1>4. /\ Typed(x) /\ x.camp = w.camp /\ x.work = w.work /\ x.settleChain = r
      /\ x.busy = w.busy /\ x.alarms = w.alarms /\ x.made = w.made
      /\ RowsOf(x) = RowsOf(w)
  BY <1>2, <1>3, ChainTyped
<1>5. /\ Tip(x) = Tip(w) /\ SameLines(w, x)
      /\ \A u, o : SameTree(x, u, o) <=> SameTree(w, u, o)
  BY <1>4 DEF Tip, NewestOf, SameLines, SameTree, RootOf
<1>6. 1 \in 1..Len(q)
  BY <1>2
<1>7. \A i \in 1..Len(r) : i + 1 \in 1..Len(q) /\ r[i] = q[i + 1]
  BY <1>2
<1>8. \A i \in 1..Len(q) : i # 1 => i - 1 \in 1..Len(r) /\ r[i - 1] = q[i]
  <2> SUFFICES ASSUME NEW i \in 1..Len(q), i # 1 PROVE i - 1 \in 1..Len(r) /\ r[i - 1] = q[i]
    OBVIOUS
  <2>1. i - 1 \in 1..Len(r) /\ (i - 1) + 1 = i
    BY <1>2
  <2> QED
    BY <1>2, <2>1
<1> QED
  BY <1>2, <1>4, <1>5, <1>6, <1>7, <1>8 DEF q

\* What it does not take stays to be done.
LEMMA PoppedSane ==
  ASSUME NEW w, Typed(w), Sane(w), w.settleChain # <<>>, NEW x, x = Popped(w)
  PROVE  /\ Core(x) /\ Agreed(x) /\ (Silent(w) <=> Silent(x)) /\ Submitless(w, x)
         /\ w.camp.state = "executing" /\ ~StopWaits(w, 1) => Heeded(x)
         /\ (w.camp.state = "executing" => ~Relevant(w, 1)) => Kept(x)
<1>1. /\ Typed(x) /\ x.camp = w.camp /\ x.work = w.work /\ x.busy = w.busy /\ x.alarms = w.alarms
      /\ RowsOf(x) = RowsOf(w) /\ Tip(x) = Tip(w)
      /\ \A u, o : SameTree(x, u, o) <=> SameTree(w, u, o)
  BY PoppedIs
<1>2. \A i \in 1..Len(x.settleChain) :
         i + 1 \in 1..Len(w.settleChain) /\ x.settleChain[i] = w.settleChain[i + 1]
  BY PoppedIs
<1>3. \A i \in 1..Len(w.settleChain) : i # 1 =>
         i - 1 \in 1..Len(x.settleChain) /\ x.settleChain[i - 1] = w.settleChain[i]
  BY PoppedIs
<1>4. Core(w) /\ Agreed(w) /\ Kept(w) /\ Typed(w) /\ Lineages(w)
  BY DEF Sane, Typed
<1>5. Looked(x)
  <2>1. \A s \in Sprints : Pending(x, s) => Pending(w, s)
    BY <1>1, <1>2 DEF Pending
  <2> QED
    BY <1>1, <1>4, <2>1 DEF Core, Looked
<1>6. Orderly(x) /\ OneTip(x)
  <2>1. \A t : NewestOf(x, t) = NewestOf(w, t)
    BY <1>1 DEF NewestOf
  <2>2. \A t : Active(x, t) <=> Active(w, t)
    BY <1>1, <2>1 DEF Active, Continuable
  <2> QED
    BY <1>1, <1>4, <2>2 DEF Core, Orderly, OneTip
<1>7. Agreed(x)
  <2>1. \A a \in Workers : (Holds(x, a) <=> Holds(w, a)) /\ (Advanced(x, a) <=> Advanced(w, a))
    BY <1>1 DEF Holds, Advanced
  <2>2. (Due(x) <=> Due(w)) /\ (Coming(x) <=> Coming(w))
    BY <1>1, <2>1 DEF Due, Coming
  <2>3. "chain" \in Workers /\ "boot" \in Workers
    BY DEF Workers
  <2> QED
    BY <1>1, <1>4, <2>1, <2>2, <2>3 DEF Agreed, Matches
<1>8. Silent(w) <=> Silent(x)
  BY <1>1 DEF Silent, StoppedByPerson
<1>9. Submitless(w, x)
  BY <1>1, <1>4, SubmitlessTrans
<1>10. \A i \in 1..Len(w.settleChain) : i # 1 =>
         /\ StopWaits(w, i) => StopWaits(x, i - 1)
         /\ Relevant(w, i) => Relevant(x, i - 1)
  <2> SUFFICES ASSUME NEW i \in 1..Len(w.settleChain), i # 1
               PROVE  /\ StopWaits(w, i) => StopWaits(x, i - 1)
                      /\ Relevant(w, i) => Relevant(x, i - 1)
    OBVIOUS
  <2>1. x.settleChain[i - 1] = w.settleChain[i]
    BY <1>3
  <2>2. StopWaits(w, i) => StopWaits(x, i - 1)
    BY <1>1, <2>1 DEF StopWaits, AboutIn
  <2> QED
    BY <1>1, <2>1, <2>2 DEF Relevant
<1>11. ASSUME w.camp.state = "executing", ~StopWaits(w, 1) PROVE Heeded(x)
  <2> SUFFICES ASSUME w.camp.stop PROVE \E i \in 1..Len(x.settleChain) : StopWaits(x, i)
    BY <1>1 DEF Heeded
  <2>1. PICK i \in 1..Len(w.settleChain) : StopWaits(w, i)
    BY <1>4, <1>11 DEF Kept
  <2>2. i # 1
    BY <1>11, <2>1
  <2> QED
    BY <1>3, <1>10, <2>1, <2>2
<1>12. ASSUME w.camp.state = "executing" => ~Relevant(w, 1) PROVE Kept(x)
  <2>1. ASSUME w.camp.state = "executing" PROVE Pursued(x)
    <3>1. Pursued(w)
      BY <1>4, <2>1 DEF Kept
    <3>2. ASSUME NEW i \in 1..Len(w.settleChain), Relevant(w, i) PROVE Pursued(x)
      <4>1. i # 1
        BY <1>12, <2>1, <3>2
      <4> QED
        BY <1>3, <1>10, <3>2, <4>1 DEF Pursued
    <3>3. \A a \in Workers : (Decides(w, a) => Decides(x, a)) /\ (Advanced(w, a) => Advanced(x, a))
      BY <1>1 DEF Decides, Holds, Advanced
    <3> QED
      BY <1>1, <3>1, <3>2, <3>3 DEF Pursued
  <2>2. w.camp.state = "executing" /\ w.camp.stop => \E i \in 1..Len(x.settleChain) : StopWaits(x, i)
    <3>1. w.camp.state = "executing" => ~StopWaits(w, 1)
      BY <1>12 DEF Relevant
    <3> QED
      BY <1>1, <1>11, <3>1 DEF Heeded
  <2>3. Waited(w) => Waited(x)
    BY <1>1 DEF Waited
  <2> QED
    BY <1>1, <1>4, <2>1, <2>2, <2>3 DEF Kept
<1> QED
  BY <1>5, <1>6, <1>7, <1>8, <1>9, <1>11, <1>12 DEF Core

\* With the sprint submitted and no worker at it, the chain has the campaign.
LEMMA ChainAlone ==
  ASSUME NEW w, Agreed(w), w.busy["chain"].at = "rest", w.busy["boot"].at \notin Deciding,
         Current(w.camp) # NoWork
  PROVE  Free(w) /\ Unheld(w) /\ Alone(w, "chain") /\ "chain" \in Workers
<1>1. ~Coming(w)
  BY DEF Agreed
<1>2. \A a \in Workers : a = "chain" \/ a = "boot"
  BY DEF Workers
<1>3. \A a \in Workers : ~Holds(w, a)
  BY <1>2 DEF Holds, Deciding
<1>4. "chain" \in Workers
  BY DEF Workers
<1> QED
  BY <1>1, <1>3, <1>4 DEF Free, Unheld, Coming, Alone

\* An alarm of another matter than the submission that is due.
LEMMA AlarmCore ==
  ASSUME NEW w, Core(w), Agreed(w), NEW h, h.kind = "resubmit" => h.of # w.camp.gen,
         h.kind = "reconcile" => h = [kind |-> "reconcile", of |-> w.camp.cur] /\ Current(w.camp) # NoWork,
         h.kind \in {"reconcile", "revive", "resubmit"},
         NEW v, v.camp = w.camp, v.work = w.work, v.busy = w.busy, v.settleChain = w.settleChain,
         v.alarms = w.alarms \cup {h}
  PROVE  /\ Core(v) /\ Agreed(v) /\ (Kept(w) => Kept(v)) /\ (Silent(w) <=> Silent(v))
         /\ (Heeded(w) => Heeded(v))
<1>1. /\ RowsOf(v) = RowsOf(w) /\ Tip(v) = Tip(w) /\ \A t : NewestOf(v, t) = NewestOf(w, t)
      /\ \A t, u : SameTree(v, t, u) <=> SameTree(w, t, u)
  BY DEF RowsOf, Tip, NewestOf, SameTree, RootOf
<1>2. Orderly(v) /\ OneTip(v)
  <2>1. \A t : Active(v, t) <=> Active(w, t)
    BY <1>1 DEF Active, Continuable
  <2> QED
    BY <1>1, <2>1 DEF Core, Orderly, OneTip
<1>3. Looked(v)
  <2> SUFFICES ASSUME NEW s \in Sprints, Pending(v, s)
               PROVE  s <= w.camp.cur /\ (s = w.camp.cur => Current(w.camp) # NoWork)
    BY DEF Looked
  <2>1. CASE Pending(w, s)
    BY <2>1 DEF Core, Looked
  <2>2. CASE h = [kind |-> "reconcile", of |-> s]
    <3>1. s = w.camp.cur /\ Current(w.camp) # NoWork
      BY <2>2
    <3> QED
      BY <3>1 DEF Sprints
  <2> QED
    BY <2>1, <2>2 DEF Pending
<1>4. \A a \in Workers : /\ Holds(v, a) <=> Holds(w, a)
                         /\ Advanced(v, a) <=> Advanced(w, a)
                         /\ Decides(v, a) <=> Decides(w, a)
  BY <1>1 DEF Holds, Advanced, Decides
<1>5. (Due(v) <=> Due(w)) /\ (Coming(v) <=> Coming(w))
  <2>1. Due(v) <=> Due(w)
    <3>1. [kind |-> "resubmit", of |-> w.camp.gen] # h
      OBVIOUS
    <3> QED
      BY <3>1 DEF Due
  <2> QED
    BY <1>4, <2>1 DEF Coming
<1>6. Agreed(v)
  <2>1. "chain" \in Workers /\ "boot" \in Workers
    BY DEF Workers
  <2> QED
    BY <1>1, <1>4, <1>5, <2>1 DEF Agreed, Matches
<1>7. \A i : (StopWaits(v, i) <=> StopWaits(w, i)) /\ (Relevant(v, i) <=> Relevant(w, i))
  BY <1>1 DEF StopWaits, Relevant, AboutIn
<1>8. Kept(w) => Kept(v)
  <2>1. Pursued(w) => Pursued(v)
    BY <1>1, <1>4, <1>7 DEF Pursued
  <2>2. Waited(w) => Waited(v)
    BY DEF Waited
  <2> QED
    BY <1>7, <2>1, <2>2 DEF Kept
<1>9. (Silent(w) <=> Silent(v)) /\ (Heeded(w) => Heeded(v))
  BY <1>1, <1>7 DEF Silent, Heeded, StoppedByPerson
<1> QED
  BY <1>2, <1>3, <1>6, <1>8, <1>9 DEF Core

\* What the chain makes of its first handler: a world that is sane unless the
\* resumption at boot holds a copy, and in any case no less silent.
Handled(w, v) ==
  /\ Typed(v) /\ v.camp.gen <= w.camp.gen /\ Hushed(w, v)
  /\ w.busy["boot"].at \notin Deciding => Sane(v)

LEMMA SameHushed ==
  ASSUME NEW w, Typed(w), NEW v, v.camp = w.camp, v.work = w.work
  PROVE  Hushed(w, v) /\ v.camp.gen <= w.camp.gen
<1>1. Submitless(w, v)
  BY SubmitlessTrans DEF Typed
<1>2. Silent(w) => Silent(v)
  BY DEF Silent, StoppedByPerson, RowsOf, SameTree, RootOf
<1> QED
  BY <1>1, <1>2 DEF Hushed, Typed, Worlds, CampStates

\* The chain begins to judge the campaign as stored.
LEMMA JudgesHandled ==
  ASSUME NEW w, Typed(w), Sane(w), w.settleChain # <<>>, w.busy["chain"].at = "rest",
         NEW x, x = Popped(w), w.camp.state = "executing", ~StopWaits(w, 1),
         Current(w.camp) # NoWork, w.work[Tip(w)].st = "completed",
         NEW l, l = FALSE, NEW v, v = Takes(x, "chain", "judging", w.camp, l)
  PROVE  Handled(w, v)
<1> DEFINE a == "chain"
           p == "judging"
<1>0. a \in Workers /\ p \in Deciding /\ p # "narrowed" /\ l \in BOOLEAN /\ p = "judging"
      /\ v = Takes(x, a, p, w.camp, l)
      /\ p \in {"judging", "narrowed", "overran", "advanced", "parked"}
  BY DEF Workers, Deciding
<1>1. /\ Typed(x) /\ x.camp = w.camp /\ x.work = w.work /\ x.busy = w.busy /\ x.alarms = w.alarms
      /\ RowsOf(x) = RowsOf(w) /\ Tip(x) = Tip(w)
  BY PoppedIs
<1>2. Core(x) /\ Agreed(x) /\ Heeded(x)
  BY PoppedSane
<1>3. w.camp \in CampStates /\ Known(x, w.camp) /\ w.camp.gen <= x.camp.gen
  BY <1>1 DEF Typed, Worlds, CampStates
<1>4. w.busy["boot"].at \notin Deciding => Alone(x, "chain")
  BY <1>1, <1>2, ChainAlone
<1> HIDE DEF a, p
<1>5. Typed(v) /\ v.camp = x.camp /\ v.work = x.work
  <2> DEFINE b == [at |-> p, copy |-> w.camp, live |-> l]
  <2>1. b \in Occupations /\ b.copy = w.camp
    BY <1>0, <1>3 DEF Occupations
  <2>2. v = Occupies(x, a, b)
    BY <1>0 DEF Takes
  <2> HIDE DEF b
  <2> QED
    BY <1>0, <1>1, <1>3, <2>1, <2>2, BusyTyped
<1>6. ASSUME w.busy["boot"].at \notin Deciding PROVE Sane(v)
  <2>1. Alone(x, a)
    BY <1>4, <1>6 DEF a
  <2>2. Abreast(x, w.camp) /\ Matches(x, w.camp)
    BY <1>1 DEF Abreast, Matches
  <2> QED
    BY <1>0, <1>1, <1>2, <1>3, <2>1, <2>2, TakesSane
<1>7. Hushed(w, v) /\ v.camp.gen <= w.camp.gen
  BY <1>1, <1>5, SameHushed
<1> QED
  BY <1>5, <1>6, <1>7 DEF Handled

\* The chain puts the campaign off to a look after the grace.
LEMMA PutsOffHandled ==
  ASSUME NEW w, Typed(w), Sane(w), w.settleChain # <<>>,
         NEW x, x = Popped(w), w.camp.state = "executing", ~StopWaits(w, 1),
         Current(w.camp) # NoWork,
         NEW h, h = [kind |-> "reconcile", of |-> w.camp.cur], NEW v, v = Sets(x, h)
  PROVE  Handled(w, v)
<1>1. /\ Typed(x) /\ x.camp = w.camp /\ x.work = w.work
  BY PoppedIs
<1>2. Core(x) /\ Agreed(x) /\ Heeded(x)
  BY PoppedSane
<1>3. h \in Alarms /\ h.kind = "reconcile"
  BY <1>1 DEF Alarms, Typed, Worlds, CampStates, Sprints
<1>4. /\ Typed(v) /\ v.camp = x.camp /\ v.work = x.work /\ v.settleChain = x.settleChain
      /\ v.busy = x.busy /\ v.alarms = x.alarms \cup {h}
  BY <1>1, <1>3, SetsTyped
<1>5. Core(v) /\ Agreed(v) /\ Heeded(v)
  BY <1>1, <1>2, <1>3, <1>4, AlarmCore
<1>6. Pursued(v)
  BY <1>1, <1>4 DEF Pursued
<1>7. Kept(v)
  BY <1>1, <1>4, <1>5, <1>6 DEF Kept, Heeded
<1>8. Hushed(w, v) /\ v.camp.gen <= w.camp.gen
  BY <1>1, <1>4, SameHushed
<1> QED
  BY <1>4, <1>5, <1>7, <1>8 DEF Handled, Sane

\* What the chain has no more to do with.
LEMMA DropsHandled ==
  ASSUME NEW w, Typed(w), Sane(w), w.settleChain # <<>>, NEW v, v = Popped(w),
         w.camp.state = "executing" => ~Relevant(w, 1)
  PROVE  Handled(w, v)
<1>1. Typed(v) /\ v.camp = w.camp /\ v.work = w.work
  BY PoppedIs
<1>2. Sane(v)
  BY PoppedSane DEF Sane
<1>3. Hushed(w, v) /\ v.camp.gen <= w.camp.gen
  BY <1>1, SameHushed
<1> QED
  BY <1>1, <1>2, <1>3 DEF Handled

\* A recorded stop is carried out.
LEMMA LandsHandled ==
  ASSUME NEW w, Typed(w), Sane(w), w.settleChain # <<>>, w.busy["chain"].at = "rest",
         NEW x, x = Popped(w), w.camp.state = "executing", NEW v, v = Lands(x, w.camp)
  PROVE  Handled(w, v)
<1> DEFINE c == w.camp
           d == FailedTill(c, NoAppointment)
           y == Saves(x, d)
<1>1. /\ Typed(x) /\ x.camp = w.camp /\ x.work = w.work /\ x.busy = w.busy /\ RowsOf(x) = RowsOf(w)
  BY PoppedIs
<1>2. Core(x) /\ Agreed(x) /\ (Silent(w) <=> Silent(x)) /\ Submitless(w, x)
  BY PoppedSane
<1>3. c \in CampStates /\ Known(x, c) /\ Abreast(x, c) /\ c.gen \in Nat
  BY <1>1 DEF Typed, Worlds, Abreast, CampStates
<1>4. Typed(v) /\ v.camp.gen \in {x.camp.gen, c.gen}
  BY <1>1, <1>3, LandsTyped
<1>5. v.camp.gen <= w.camp.gen
  BY <1>1, <1>3, <1>4
<1>6. ASSUME w.busy["boot"].at \notin Deciding PROVE Sane(v)
  <2>1. Unheld(x)
    BY <1>1, <1>6 DEF Unheld, Holds, Workers, Deciding
  <2> QED
    BY <1>1, <1>2, <1>3, <2>1, LandsSane
<1>7. Hushed(w, v)
  <2> SUFFICES ASSUME Silent(w) PROVE Silent(v) /\ Submitless(w, v)
    BY DEF Hushed
  <2>1. x.camp.stop
    BY <1>1 DEF Silent
  <2> DEFINE k == TRUE
  <2>2. v \in SubmitsSprint(x, c, k) /\ k \in BOOLEAN
    BY <2>1 DEF SubmitsSprint
  <2> HIDE DEF k
  <2>3. Submitless(x, v) /\ (Silent(x) => Silent(v))
    BY <1>1, <1>3, <2>1, <2>2, SubmitSilent
  <2> QED
    BY <1>1, <1>2, <2>3, SubmitlessTrans
<1> QED
  BY <1>4, <1>5, <1>6, <1>7 DEF Handled

LEMMA StepHandled ==
  ASSUME IInv, NEW k, Handles(k), NEW v, Happens(v), Handled(World, v)
  PROVE  IInv' /\ Quiet
<1>1. Unasked /\ raced' = (busy["boot"].at \in {"judging", "narrowed", "overran"})
  BY DEF Handles
<1>2. raced' \in BOOLEAN /\ (~raced' => Sane(v))
  <2>1. raced' \in BOOLEAN
    BY <1>1
  <2>2. ~raced' => ~(busy["boot"].at \in {"judging", "narrowed", "overran"})
    BY <1>1
  <2>3. World.busy["boot"].at = busy["boot"].at
    BY WorldIs
  <2>4. ~raced' => World.busy["boot"].at \notin Deciding
    BY <2>2, <2>3 DEF Deciding
  <2> QED
    BY <2>1, <2>4 DEF Handled
<1> QED
  BY <1>1, <1>2, WorldIs, StepKeeps DEF Handled

LEMMA HandlesIs ==
  ASSUME IInv, NEW k, Handles(k)
  PROVE  /\ Typed(World) /\ Sane(World) /\ World.settleChain # <<>> /\ Head(World.settleChain).what = k
         /\ World.busy["chain"].at = "rest" /\ Rest = Popped(World)
<1>1. ~raced /\ World.settleChain # <<>> /\ Head(World.settleChain).what = k /\ World.busy["chain"].at = "rest"
  BY WorldIs DEF Handles, Unasked
<1>2. Rest = Popped(World)
  BY WorldIs DEF Rest, Popped, Requeued
<1> QED
  BY <1>1, <1>2 DEF IInv, IType

LEMMA HandlesSettleHolds ==
  ASSUME IInv, HandlesSettle
  PROVE  IInv' /\ Quiet
<1> DEFINE w == World
           t == Head(w.settleChain).of
           ours == w.camp.state = "executing" /\ Current(w.camp) \in w.work[t].line
           x == Popped(w)
           l == FALSE
           h == [kind |-> "reconcile", of |-> w.camp.cur]
           v == IF ~ours THEN x
                ELSE IF w.work[t].st = "completed" THEN Takes(x, "chain", "judging", w.camp, l)
                ELSE Sets(x, h)
<1>1. Handles("settle")
  BY DEF HandlesSettle
<1>2. /\ Typed(w) /\ Sane(w) /\ w.settleChain # <<>> /\ Head(w.settleChain).what = "settle"
      /\ w.busy["chain"].at = "rest" /\ Rest = x
  BY <1>1, HandlesIs
<1>3. Happens(v)
  BY <1>2, WorldIs DEF HandlesSettle, Takes, Occupies, Awaits
<1> HIDE DEF w
<1>4. w.settleChain[1] = Head(w.settleChain) /\ Head(w.settleChain) \in Handlings /\ 1 \in 1..Len(w.settleChain)
  BY <1>2, PoppedIs
<1>5. t \in Work /\ ~StopWaits(w, 1)
  BY <1>2, <1>4 DEF Handlings, StopWaits
<1>6. Handled(w, v)
  <2>1. CASE ~ours
    <3>1. v = x /\ (w.camp.state = "executing" => ~Relevant(w, 1))
      BY <1>2, <1>4, <1>5, <2>1 DEF Relevant
    <3> HIDE DEF v
    <3> QED
      BY <1>2, <3>1, DropsHandled
  <2>2. CASE ours
    <3>1. Current(w.camp) \in w.work[t].line /\ w.camp.state = "executing"
      BY <2>2
    <3>2. w.work[t].line \subseteq Work /\ Lineages(w)
      BY <1>2, <1>5 DEF Typed, Worlds, RowStates
    <3>3. Current(w.camp) # NoWork
      BY <3>1, <3>2 DEF Work, NoWork
    <3>4. t \in RowsOf(w)
      BY <1>5, <3>1, <3>2 DEF Lineages, RowsOf, Unborn
    <3>5. CASE w.work[t].st = "completed"
      <4>1. t = Tip(w)
        BY <1>2, <3>1, <3>4, <3>5 DEF Sane, Core, OneTip
      <4>2. v = Takes(x, "chain", "judging", w.camp, l)
        BY <2>2, <3>5
      <4> HIDE DEF v
      <4> QED
        BY <1>2, <1>5, <3>1, <3>3, <3>5, <4>1, <4>2, JudgesHandled
    <3>6. CASE w.work[t].st # "completed"
      <4>1. v = Sets(x, h)
        BY <2>2, <3>6
      <4> HIDE DEF v
      <4> QED
        BY <1>2, <1>5, <3>1, <3>3, <4>1, PutsOffHandled
    <3> QED
      BY <3>5, <3>6
  <2> QED
    BY <2>1, <2>2
<1> HIDE DEF v
<1> QED
  BY <1>1, <1>3, <1>6, StepHandled DEF w

LEMMA HandlesStopHolds ==
  ASSUME IInv, HandlesStop
  PROVE  IInv' /\ Quiet
<1> DEFINE w == World
           m == Head(w.settleChain)
           about == w.camp.gen = m.gen /\ w.camp.state = "executing" /\ AboutIn(w, m.of)
           x == Popped(w)
           v == IF about THEN Lands(x, w.camp) ELSE x
<1>1. Handles("stop")
  BY DEF HandlesStop
<1>2. /\ Typed(w) /\ Sane(w) /\ w.settleChain # <<>> /\ Head(w.settleChain).what = "stop"
      /\ w.busy["chain"].at = "rest" /\ Rest = x
  BY <1>1, HandlesIs
<1>3. Happens(v)
  BY <1>2, WorldIs DEF HandlesStop, AboutIn, AboutCurrent
<1> HIDE DEF w
<1>4. w.settleChain[1] = m
  BY <1>2, PoppedIs
<1>5. Handled(w, v)
  <2>1. CASE about
    <3>1. v = Lands(x, w.camp) /\ w.camp.state = "executing"
      BY <2>1
    <3> HIDE DEF v
    <3> QED
      BY <1>2, <3>1, LandsHandled
  <2>2. CASE ~about
    <3>1. v = x /\ (w.camp.state = "executing" => ~Relevant(w, 1))
      BY <1>2, <1>4, <2>2 DEF Relevant, StopWaits
    <3> HIDE DEF v
    <3> QED
      BY <1>2, <3>1, DropsHandled
  <2> QED
    BY <2>1, <2>2
<1> HIDE DEF v
<1> QED
  BY <1>1, <1>3, <1>5, StepHandled DEF w

\* The chain goes on with the campaign as stored.
LEMMA ChainAble ==
  ASSUME NEW w, Typed(w), Sane(w), w.settleChain # <<>>, w.busy["chain"].at = "rest",
         NEW x, x = Popped(w), w.camp.state = "executing", ~StopWaits(w, 1),
         Current(w.camp) # NoWork
  PROVE  /\ Typed(x) /\ x.camp = w.camp /\ w.camp \in CampStates /\ Known(x, w.camp)
         /\ w.camp.gen \in Nat /\ "chain" \in Workers
         /\ Core(x) /\ Heeded(x) /\ RowsOf(x) = RowsOf(w) /\ Tip(x) = Tip(w) /\ x.work = w.work
         /\ Submitless(w, x) /\ (Silent(w) => x.camp.stop)
         /\ w.busy["boot"].at \notin Deciding => Able(x, "chain", w.camp) /\ Free(x)
<1>1. /\ Typed(x) /\ x.camp = w.camp /\ x.work = w.work /\ x.busy = w.busy
      /\ RowsOf(x) = RowsOf(w) /\ Tip(x) = Tip(w)
  BY PoppedIs
<1>2. Core(x) /\ Agreed(x) /\ Heeded(x) /\ Submitless(w, x)
  BY PoppedSane
<1>3. w.camp \in CampStates /\ Known(x, w.camp) /\ w.camp.gen \in Nat
  BY <1>1 DEF Typed, Worlds, CampStates
<1>4. Silent(w) => x.camp.stop
  BY <1>1 DEF Silent
<1>5. "chain" \in Workers
  BY DEF Workers
<1>6. ASSUME w.busy["boot"].at \notin Deciding PROVE Able(x, "chain", w.camp) /\ Free(x)
  <2>1. Alone(x, "chain") /\ Free(x)
    BY <1>1, <1>2, <1>6, ChainAlone
  <2>2. Abreast(x, w.camp) /\ Matches(x, w.camp)
    BY <1>1 DEF Abreast, Matches
  <2> QED
    BY <1>1, <1>2, <1>3, <2>1, <2>2 DEF Able
<1> QED
  BY <1>1, <1>2, <1>3, <1>4, <1>5, <1>6

LEMMA OverrunsHandled ==
  ASSUME NEW w, Typed(w), Sane(w), w.settleChain # <<>>, w.busy["chain"].at = "rest",
         NEW x, x = Popped(w), w.camp.state = "executing", ~StopWaits(w, 1),
         Current(w.camp) # NoWork, NEW v \in Overruns(x, "chain", w.camp)
  PROVE  Handled(w, v)
<1>1. /\ Typed(x) /\ x.camp = w.camp /\ w.camp \in CampStates /\ Known(x, w.camp)
      /\ w.camp.gen \in Nat /\ "chain" \in Workers /\ x.work = w.work
      /\ Submitless(w, x) /\ (Silent(w) => x.camp.stop)
      /\ w.busy["boot"].at \notin Deciding => Able(x, "chain", w.camp)
  BY ChainAble
<1>2. Typed(v) /\ v.camp.gen \in {x.camp.gen, w.camp.gen}
  BY <1>1, OverrunsTyped
<1>3. Silent(w) => Submitless(x, v) /\ Silent(v)
  BY <1>1, OverrunsSilent
<1>4. w.busy["boot"].at \notin Deciding => Sane(v)
  BY <1>1, OverrunsSane
<1>5. Hushed(w, v)
  BY <1>1, <1>3, SubmitlessTrans DEF Hushed
<1>6. v.camp.gen <= w.camp.gen
  BY <1>1, <1>2
<1> QED
  BY <1>2, <1>4, <1>5, <1>6 DEF Handled

LEMMA SprintFailsHandled ==
  ASSUME NEW w, Typed(w), Sane(w), w.settleChain # <<>>, w.busy["chain"].at = "rest",
         NEW x, x = Popped(w), w.camp.state = "executing", ~StopWaits(w, 1),
         Current(w.camp) # NoWork, NEW k \in BOOLEAN, NEW v \in SprintFails(x, "chain", w.camp, k)
  PROVE  Handled(w, v)
<1>1. /\ Typed(x) /\ x.camp = w.camp /\ w.camp \in CampStates /\ Known(x, w.camp)
      /\ w.camp.gen \in Nat /\ "chain" \in Workers /\ x.work = w.work
      /\ Submitless(w, x) /\ (Silent(w) => x.camp.stop)
      /\ w.busy["boot"].at \notin Deciding => Able(x, "chain", w.camp)
  BY ChainAble
<1>2. Typed(v) /\ v.camp.gen \in {x.camp.gen, w.camp.gen}
  BY <1>1, SprintFailsTyped
<1>3. Silent(w) => Submitless(x, v) /\ Silent(v)
  BY <1>1, SprintFailsSilent
<1>4. w.busy["boot"].at \notin Deciding => Sane(v)
  BY <1>1, SprintFailsSane
<1>5. Hushed(w, v)
  BY <1>1, <1>3, SubmitlessTrans DEF Hushed
<1>6. v.camp.gen <= w.camp.gen
  BY <1>1, <1>2
<1> QED
  BY <1>2, <1>4, <1>5, <1>6 DEF Handled

LEMMA AdoptsKeeps ==
  ASSUME NEW w, Typed(w), NEW t \in RowsOf(w), NEW v, v = Adopts(w, w.camp, t)
  PROVE  Typed(v) /\ v.camp.gen = w.camp.gen /\ v.work = w.work /\ (w.camp.stop => v.camp.stop)
<1>1. w \in Worlds /\ w.camp \in CampStates /\ Known(w, w.camp) /\ w.camp.gen \in Nat
  BY DEF Typed, Worlds, CampStates
<1>2. Typed(v) /\ v.camp.gen = w.camp.gen
  BY <1>1, AdoptsTyped
<1>3. CASE Current(w.camp) = t
  BY <1>2, <1>3 DEF Adopts
<1>4. CASE Current(w.camp) # t
  <2> DEFINE d == Adopting(w, w.camp, t)
  <2>1. v = Saves(w, d)
    BY <1>4 DEF Adopts, Adopting
  <2>2. d \in CampStates /\ d.gen = w.camp.gen
    BY <1>1, AdoptedCopy
  <2> HIDE DEF d
  <2>3. ~Older(w, d)
    BY <1>1, <2>2 DEF Older
  <2>4. v.work = w.work
    BY <1>1, <2>1, <2>2, SavesIs
  <2>5. w.camp.stop => v.camp.stop
    BY <1>1, <2>1, <2>2, <2>3, StopSaved
  <2> QED
    BY <1>2, <2>4, <2>5
<1> QED
  BY <1>3, <1>4

LEMMA AdoptsHandled ==
  ASSUME NEW w, Typed(w), Sane(w), w.settleChain # <<>>, w.busy["chain"].at = "rest",
         NEW x, x = Popped(w), w.camp.state = "executing", ~StopWaits(w, 1),
         Current(w.camp) # NoWork, w.work[Tip(w)].st = "live", NEW v, v = Adopts(x, w.camp, Tip(w))
  PROVE  Handled(w, v)
<1>1. /\ Typed(x) /\ x.camp = w.camp /\ w.camp.gen \in Nat /\ x.work = w.work
      /\ Core(x) /\ Heeded(x) /\ Tip(x) = Tip(w)
      /\ Submitless(w, x) /\ (Silent(w) => x.camp.stop)
      /\ w.busy["boot"].at \notin Deciding => Free(x)
  BY ChainAble
<1>2. v = Adopts(x, x.camp, Tip(x)) /\ x.camp.state = "executing" /\ Current(x.camp) # NoWork
      /\ x.work[Tip(x)].st = "live"
  BY <1>1
<1>3. Tip(x) \in RowsOf(x)
  <2>1. Current(x.camp) \in RowsOf(x) /\ x \in Worlds /\ Lineages(x)
    BY <1>1, <1>2 DEF Typed, Known, Worlds, CampStates, Current
  <2> QED
    BY <2>1, RowFacts DEF Tip
<1>4. Typed(v) /\ v.camp.gen = x.camp.gen /\ v.work = x.work /\ (x.camp.stop => v.camp.stop)
  BY <1>1, <1>2, <1>3, AdoptsKeeps
<1>5. w.busy["boot"].at \notin Deciding => Sane(v)
  BY <1>1, <1>2, AdoptsSane
<1>6. Hushed(w, v)
  BY <1>1, <1>4, SubmitlessTrans DEF Hushed, Silent
<1>7. v.camp.gen <= w.camp.gen
  BY <1>1, <1>4
<1> QED
  BY <1>4, <1>5, <1>6, <1>7 DEF Handled

LEMMA HandlesReconcileHolds ==
  ASSUME IInv, HandlesReconcile
  PROVE  IInv' /\ Quiet
<1> DEFINE w == World
           c == w.camp
           s == Head(w.settleChain).of
           x == Popped(w)
           l == FALSE
           h == [kind |-> "reconcile", of |-> c.cur]
           k == TRUE
<1>1. Handles("reconcile")
  BY DEF HandlesReconcile
<1>2. /\ Typed(w) /\ Sane(w) /\ w.settleChain # <<>> /\ Head(w.settleChain).what = "reconcile"
      /\ w.busy["chain"].at = "rest" /\ Rest = x
  BY <1>1, HandlesIs
<1>3. PICK v \in Reconciles(s) : Happens(v)
  BY WorldIs DEF HandlesReconcile
<1>4. w.settleChain[1] = Head(w.settleChain) /\ Head(w.settleChain) \in Handlings /\ 1 \in 1..Len(w.settleChain)
  BY <1>2, PoppedIs
<1>5. s \in Sprints /\ ~StopWaits(w, 1)
  BY <1>2, <1>4 DEF Handlings, StopWaits
<1>6. \/ ~(c.state = "executing" /\ c.cur = s) /\ v = x
      \/ /\ c.state = "executing" /\ c.cur = s
         /\ \/ v = Lands(x, c)
            \/ w.work[Tip(w)].st = "live" /\ v \in Overruns(x, "chain", c)
            \/ w.work[Tip(w)].st = "live" /\ v = Adopts(x, c, Tip(w))
            \/ w.work[Tip(w)].st = "completed" /\ v = Takes(x, "chain", "judging", c, l)
            \/ v \in SprintFails(x, "chain", c, k)
            \/ v = Sets(x, h)
  <2>1. camp = c /\ work = w.work /\ World = w /\ NewestOf(World, Current(camp)) = Tip(w)
    BY WorldIs DEF Tip
  <2>2. Awaits(Rest, "chain", "judging", camp) = Takes(x, "chain", "judging", c, l)
    BY <1>2, <2>1 DEF Takes, Occupies, Awaits
  <2>3. k = TRUE /\ [kind |-> "reconcile", of |-> s] = IF c.cur = s THEN h ELSE [kind |-> "reconcile", of |-> s]
    OBVIOUS
  <2>4. Rest = x
    BY <1>2
  <2> HIDE DEF w, x, l, h, k, s
  <2>5. CASE c.state # "executing" \/ c.cur # s
    <3>1. Reconciles(s) = {x}
      BY <2>1, <2>4, <2>5 DEF Reconciles
    <3> QED
      BY <1>3, <2>5, <3>1
  <2>6. CASE ~(c.state # "executing" \/ c.cur # s)
    <3>1. CASE StoppedByPerson(w, Current(c))
      <4>1. Reconciles(s) = {Lands(x, c)}
        BY <2>1, <2>4, <2>6, <3>1 DEF Reconciles
      <4> QED
        BY <1>3, <2>6, <4>1
    <3>2. CASE ~StoppedByPerson(w, Current(c)) /\ w.work[Tip(w)].st = "live"
      <4>1. Reconciles(s) = Overruns(x, "chain", c) \cup {Adopts(x, c, Tip(w))}
        BY <2>1, <2>4, <2>6, <3>2 DEF Reconciles
      <4> QED
        BY <1>3, <2>6, <3>2, <4>1
    <3>3. CASE ~StoppedByPerson(w, Current(c)) /\ w.work[Tip(w)].st = "completed"
      <4>1. Reconciles(s) = {Takes(x, "chain", "judging", c, l)}
        BY <2>1, <2>2, <2>4, <2>6, <3>3 DEF Reconciles
      <4> QED
        BY <1>3, <2>6, <3>3, <4>1
    <3>4. CASE ~StoppedByPerson(w, Current(c)) /\ w.work[Tip(w)].st \notin {"live", "completed"}
      <4>1. Reconciles(s) = SprintFails(x, "chain", c, k) \cup {Sets(x, h)}
        BY <2>1, <2>3, <2>4, <2>6, <3>4 DEF Reconciles
      <4> QED
        BY <1>3, <2>6, <4>1
    <3> QED
      BY <3>1, <3>2, <3>3, <3>4
  <2> QED
    BY <2>5, <2>6
<1>7. k \in BOOLEAN
  OBVIOUS
<1> HIDE DEF w, x, l, h, k, s
<1>8. ASSUME c.state = "executing", c.cur = s PROVE Current(c) # NoWork
  <2>1. Pending(w, s)
    BY <1>2, <1>4 DEF Pending, s
  <2> QED
    BY <1>2, <1>5, <1>8, <2>1 DEF Sane, Core, Looked
<1>9. Handled(w, v)
  <2>1. CASE ~(c.state = "executing" /\ c.cur = s) /\ v = x
    <3>1. c.state = "executing" => ~Relevant(w, 1)
      BY <1>2, <1>4, <1>5, <2>1 DEF Relevant, s
    <3> QED
      BY <1>2, <2>1, <3>1, DropsHandled DEF x
  <2>2. CASE c.state = "executing" /\ c.cur = s
    <3>1. Current(c) # NoWork /\ c.state = "executing"
      BY <1>8, <2>2
    <3>2. CASE v = Lands(x, c)
      BY <1>2, <3>1, <3>2, LandsHandled DEF x
    <3>3. CASE v \in Overruns(x, "chain", c)
      BY <1>2, <1>5, <3>1, <3>3, OverrunsHandled DEF x
    <3>4. CASE w.work[Tip(w)].st = "live" /\ v = Adopts(x, c, Tip(w))
      BY <1>2, <1>5, <3>1, <3>4, AdoptsHandled DEF x
    <3>5. CASE w.work[Tip(w)].st = "completed" /\ v = Takes(x, "chain", "judging", c, l)
      BY <1>2, <1>5, <3>1, <3>5, JudgesHandled DEF x, l
    <3>6. CASE v \in SprintFails(x, "chain", c, k)
      BY <1>2, <1>5, <1>7, <3>1, <3>6, SprintFailsHandled DEF x
    <3>7. CASE v = Sets(x, h)
      BY <1>2, <1>5, <3>1, <3>7, PutsOffHandled DEF x, h
    <3> QED
      BY <1>6, <2>2, <3>2, <3>3, <3>4, <3>5, <3>6, <3>7
  <2> QED
    BY <1>6, <2>1, <2>2
<1> QED
  BY <1>1, <1>3, <1>9, StepHandled DEF w

---------------------------------------------------------------------------
\* The ends of a judgement.

\* A worker with a decision holds the campaign as stored, or an older copy.
LEMMA HolderAble ==
  ASSUME NEW w, Typed(w), Sane(w), NEW a \in Workers, w.busy[a].at \in Deciding,
         NEW c, c = w.busy[a].copy
  PROVE  /\ c \in CampStates /\ Known(w, c) /\ c.gen \in Nat /\ w.camp.gen \in Nat /\ c.gen <= w.camp.gen
         /\ c.gen = w.camp.gen => /\ Able(w, a, c) /\ ~Older(w, c) /\ w.camp.state = "executing"
                                  /\ Holds(w, a) /\ (Silent(w) => w.camp.stop)
         /\ c.gen # w.camp.gen => Outdated(w, a, c)
<1>1. c \in CampStates /\ Known(w, c) /\ c.gen \in Nat /\ w.camp.gen \in Nat /\ c.gen <= w.camp.gen
  BY DEF Typed, Worlds, Occupations, CampStates
<1>2. c.state = "executing" /\ Current(c) # NoWork /\ Orderly(w)
  BY DEF Sane, Core, Orderly
<1>3. Workers = {"chain", "boot"} /\ "rest" \notin Deciding /\ "advanced" \notin Deciding /\ "parked" \notin Deciding
  BY DEF Workers, Deciding
<1>4. /\ a = "boot" => w.busy["chain"].at = "rest"
      /\ a = "chain" => w.busy["boot"].at \notin Deciding
  BY <1>2, <1>3 DEF Orderly
<1>5. ASSUME c.gen = w.camp.gen
      PROVE  /\ Able(w, a, c) /\ ~Older(w, c) /\ w.camp.state = "executing"
             /\ Holds(w, a) /\ (Silent(w) => w.camp.stop)
  <2>1. Holds(w, a)
    BY <1>5 DEF Holds
  <2>2. Matches(w, c)
    BY <2>1 DEF Sane, Agreed
  <2>3. w.camp.state = "executing" /\ Abreast(w, c)
    BY <1>5, <2>2 DEF Matches, Abreast
  <2>4. ~Coming(w)
    <3>1. Current(w.camp) # NoWork
      BY <1>2, <2>2 DEF Matches
    <3> QED
      BY <3>1 DEF Sane, Agreed
  <2>5. ASSUME NEW b \in Workers, b # a PROVE ~Holds(w, b)
    BY <1>3, <1>4, <2>5 DEF Holds
  <2>6. Alone(w, a)
    BY <1>4, <2>4, <2>5 DEF Alone, Coming
  <2>7. Heeded(w)
    BY <2>3 DEF Heeded, Sane, Kept
  <2>8. ~Older(w, c)
    BY <1>1, <1>5 DEF Older
  <2>9. Silent(w) => w.camp.stop
    BY <2>3 DEF Silent
  <2>10. Core(w)
    BY DEF Sane
  <2> QED
    BY <1>1, <1>2, <2>1, <2>2, <2>3, <2>6, <2>7, <2>8, <2>9, <2>10 DEF Able
<1>6. ASSUME c.gen # w.camp.gen PROVE Outdated(w, a, c)
  <2>1. Older(w, c)
    BY <1>1, <1>6 DEF Older
  <2>2. Past(w, a) /\ w.busy[a].at # "parked"
    BY <1>3, <1>6 DEF Past, Holds, Advanced
  <2> QED
    BY <1>1, <1>2, <1>4, <2>1, <2>2 DEF Outdated
<1> QED
  BY <1>1, <1>5, <1>6

\* An older copy is put away.
LEMMA RestSound ==
  ASSUME NEW w, Typed(w), Sane(w), NEW a \in Workers, NEW c, Outdated(w, a, c),
         NEW v, v = AtRest(w, a)
  PROVE  Sound(w, v)
<1>1. /\ Typed(v) /\ v.camp = w.camp /\ v.work = w.work /\ v.settleChain = w.settleChain
      /\ v.alarms = w.alarms /\ v.busy[a].at = (IF a = "boot" THEN "tail" ELSE "rest")
      /\ \A o \in Workers : o # a => v.busy[o] = w.busy[o]
  BY RestTyped
<1>2. v \in Worlds /\ Wanes(w, v)
  BY <1>1 DEF Typed, Wanes, Worlds
<1>3. Appoints(w, v)
  BY <1>1, AppointsTrans
<1>4. v.busy[a].at \in {"rest", "tail"} /\ (a = "boot" => v.busy[a].at # "rest")
  BY <1>1
<1>5. Drifts(w, v) /\ Orderly(v)
  BY <1>1, <1>2, <1>3, <1>4, WorkerDrifts
<1> QED
  BY <1>1, <1>5, StepDrifts

\* The completion turns out to be none.
LEMMA TurnsOutSound ==
  ASSUME NEW w, Typed(w), Sane(w), NEW a \in Workers, w.busy[a].at \in Deciding,
         NEW c, c = w.busy[a].copy, NEW k \in BOOLEAN, NEW v \in SprintFails(w, a, c, k)
  PROVE  Sound(w, v)
<1>1. /\ c \in CampStates /\ Known(w, c) /\ c.gen \in Nat /\ w.camp.gen \in Nat /\ c.gen <= w.camp.gen
      /\ c.gen = w.camp.gen => Able(w, a, c) /\ (Silent(w) => w.camp.stop)
      /\ c.gen # w.camp.gen => Outdated(w, a, c)
  BY HolderAble
<1>2. Typed(v) /\ v.camp.gen \in {w.camp.gen, c.gen}
  BY <1>1, SprintFailsTyped
<1>3. CASE c.gen = w.camp.gen
  <2>1. Able(w, a, c) /\ (Silent(w) => w.camp.stop)
    BY <1>1, <1>3
  <2>2. Sane(v)
    BY <2>1, SprintFailsSane
  <2>3. w.camp.stop => Submitless(w, v) /\ Silent(v)
    BY <1>1, <1>3, SprintFailsSilent
  <2>4. v.camp.gen <= w.camp.gen
    BY <1>1, <1>2
  <2> QED
    BY <1>2, <2>1, <2>2, <2>3, <2>4 DEF Sound, Hushed
<1>4. CASE c.gen # w.camp.gen
  <2>1. Outdated(w, a, c)
    BY <1>1, <1>4
  <2>2. Drifts(w, v) /\ Orderly(v)
    BY <2>1, SprintFailsOlder
  <2> QED
    BY <1>2, <2>2, StepDrifts
<1> QED
  BY <1>3, <1>4

LEMMA TurnsOutFailedHolds ==
  ASSUME IInv, NEW a \in Workers, TurnsOutFailed(a)
  PROVE  IInv' /\ Quiet
<1> DEFINE w == World
           c == w.busy[a].copy
           k == (a = "chain")
<1>1. Undisturbed /\ ~raced /\ w.busy[a].at = "judging"
  BY WorldIs DEF TurnsOutFailed, JudgedBy, Undisturbed, Unasked
<1>2. PICK v \in SprintFails(w, a, c, k) : Happens(v)
  BY WorldIs DEF TurnsOutFailed, Held
<1>3. Typed(w) /\ Sane(w)
  BY <1>1 DEF IInv, IType
<1>4. k \in BOOLEAN /\ w.busy[a].at \in Deciding
  BY <1>1 DEF Deciding
<1> HIDE DEF w, k
<1>5. Sound(w, v)
  BY <1>2, <1>3, <1>4, TurnsOutSound
<1> QED
  BY <1>1, <1>2, <1>5, StepSound DEF w

\* A worker that comes to rest leaves the campaign free.
LEMMA RestReady ==
  ASSUME NEW w, NEW a \in Workers, NEW c, Able(w, a, c), NEW r, r = AtRest(w, a)
  PROVE  /\ Typed(r) /\ Core(r) /\ Free(r) /\ Abreast(r, c) /\ Known(r, c) /\ c \in CampStates
         /\ r.camp = w.camp /\ r.work = w.work /\ SameLines(w, r) /\ (c.stop => r.camp.stop)
         /\ Stays(w, r) /\ Heeded(r) /\ RowsOf(r) = RowsOf(w)
<1>1. Typed(w) /\ Core(w) /\ Alone(w, a) /\ Heeded(w) /\ Abreast(w, c) /\ Matches(w, c) /\ c \in CampStates
      /\ Known(w, c)
  BY DEF Able
<1>2. Free(r) /\ Orderly(r) /\ Stays(w, r) /\ r.camp = w.camp /\ Typed(r) /\ RowsOf(r) = RowsOf(w)
  BY <1>1, RestFrees DEF Core
<1>3. Core(r)
  BY <1>1, <1>2, StayCore
<1>4. Abreast(r, c) /\ Known(r, c) /\ (c.stop => r.camp.stop)
  BY <1>1, <1>2 DEF Abreast, Known, Matches
<1>5. Heeded(r)
  BY <1>1, <1>2, StaysHeeded
<1>6. r.work = w.work
  BY <1>2 DEF Stays
<1>7. SameLines(w, r)
  BY <1>6 DEF SameLines
<1> QED
  BY <1>1, <1>2, <1>3, <1>4, <1>5, <1>6, <1>7

LEMMA SubmitSound ==
  ASSUME NEW w, NEW r, Typed(r), SameLines(w, r), r.camp.gen = w.camp.gen, Core(r), Free(r),
         NEW c \in CampStates, Known(r, c), Abreast(r, c), c.stop => r.camp.stop,
         Silent(w) => r.camp.stop, NEW k \in BOOLEAN, NEW v \in SubmitsSprint(r, c, k)
  PROVE  Sound(w, v)
<1>1. Sane(v)
  BY SubmitSane
<1>2. Typed(v) /\ v.camp.gen \in {r.camp.gen, c.gen}
  BY SubmitsTyped
<1>3. c.gen = r.camp.gen /\ r.camp.gen \in Nat
  BY DEF Abreast, Typed, Worlds, CampStates
<1>4. r.camp.stop => Submitless(r, v) /\ Silent(v)
  <2> SUFFICES ASSUME r.camp.stop PROVE Submitless(r, v) /\ Silent(v)
    OBVIOUS
  <2>1. Submitless(r, v) /\ (Silent(r) => Silent(v))
    BY <1>3, SubmitSilent
  <2>2. Silent(r)
    BY DEF Silent
  <2> QED
    BY <2>1, <2>2
<1>5. Hushed(w, v)
  BY <1>4, SubmitlessTrans DEF Hushed
<1>6. v.camp.gen <= w.camp.gen
  BY <1>2, <1>3
<1> QED
  BY <1>1, <1>2, <1>5, <1>6 DEF Sound

LEMMA BouncesSound ==
  ASSUME NEW w, Typed(w), Sane(w), NEW a \in Workers, w.busy[a].at \in Deciding,
         NEW c, c = w.busy[a].copy, NEW r, r = AtRest(w, a), NEW d, d = SentBack(c),
         NEW k \in BOOLEAN, NEW v \in SubmitsSprint(Saves(r, d), d, k)
  PROVE  Sound(w, v)
<1>1. /\ c \in CampStates /\ Known(w, c) /\ c.gen \in Nat /\ w.camp.gen \in Nat /\ c.gen <= w.camp.gen
      /\ c.gen = w.camp.gen => Able(w, a, c) /\ (Silent(w) => w.camp.stop)
      /\ c.gen # w.camp.gen => Outdated(w, a, c)
  BY HolderAble
<1>2. Alike(c, d)
  BY <1>1, CopiesAlike
<1>3. d \in CampStates /\ d.gen = c.gen /\ d.stop = c.stop /\ d.cur = c.cur /\ Current(d) = Current(c)
  BY <1>2 DEF Alike
<1>4. CASE c.gen = w.camp.gen
  <2>1. Able(w, a, c) /\ (Silent(w) => w.camp.stop)
    BY <1>1, <1>4
  <2>2. /\ Typed(r) /\ Core(r) /\ Free(r) /\ Abreast(r, c) /\ Known(r, c)
        /\ r.camp = w.camp /\ r.work = w.work /\ (c.stop => r.camp.stop)
    BY <2>1, RestReady
  <2>3. Known(r, d) /\ Abreast(r, d)
    BY <1>2, <1>3, <2>2 DEF Alike, Abreast
  <2> DEFINE y == Saves(r, d)
  <2>4. /\ Typed(y) /\ Stays(r, y) /\ y.busy = r.busy
        /\ y.camp.gen = r.camp.gen /\ y.camp.stop = (d.stop \/ r.camp.stop)
        /\ \A e : Known(r, e) => Known(y, e)
    BY <1>3, <2>2, <2>3, SaveStays
  <2>5. v \in SubmitsSprint(y, d, k)
    OBVIOUS
  <2> HIDE DEF y
  <2>6. Appoints(r, y) /\ y.work = r.work /\ y.camp.cur = r.camp.cur /\ Current(y.camp) = Current(r.camp)
    BY <2>4 DEF Stays
  <2>7. Free(y) /\ Orderly(y)
    BY <2>2, <2>4, <2>6, SameBusy DEF Core
  <2>8. Core(y)
    BY <2>2, <2>4, <2>7, StayCore
  <2>9. Abreast(y, d) /\ Known(y, d)
    BY <2>3, <2>4, <2>6 DEF Abreast
  <2>10. SameLines(w, y) /\ y.camp.gen = w.camp.gen
    BY <2>2, <2>4, <2>6 DEF SameLines
  <2>11. (d.stop => y.camp.stop) /\ (Silent(w) => y.camp.stop)
    BY <2>1, <2>2, <2>4
  <2> QED
    BY <1>3, <2>4, <2>5, <2>7, <2>8, <2>9, <2>10, <2>11, SubmitSound
<1>5. CASE c.gen # w.camp.gen
  <2>1. Outdated(w, a, c)
    BY <1>1, <1>5
  <2>2. r.camp = w.camp
    BY RestTyped
  <2>3. Older(r, d)
    BY <1>1, <1>3, <1>5, <2>2 DEF Older
  <2>4. Saves(r, d) = r
    BY <2>3 DEF Saves
  <2>5. v \in SubmitsSprint(r, d, k)
    BY <2>4
  <2>6. v = r
    BY <2>3, <2>5, SubmitOlder
  <2> QED
    BY <2>1, <2>6, RestSound
<1> QED
  BY <1>4, <1>5

\* The narrowed sprint, or the one over its time box, is submitted.
LEMMA ToldSubmitSound ==
  ASSUME NEW w, Typed(w), Sane(w), NEW a \in Workers, w.busy[a].at \in Deciding,
         NEW c, c = w.busy[a].copy, NEW r, r = AtRest(w, a),
         NEW k \in BOOLEAN, NEW v \in SubmitsSprint(r, c, k)
  PROVE  Sound(w, v)
<1>1. /\ c \in CampStates /\ Known(w, c) /\ c.gen \in Nat /\ w.camp.gen \in Nat /\ c.gen <= w.camp.gen
      /\ c.gen = w.camp.gen => Able(w, a, c) /\ (Silent(w) => w.camp.stop)
      /\ c.gen # w.camp.gen => Outdated(w, a, c)
  BY HolderAble
<1>2. CASE c.gen = w.camp.gen
  <2>1. Able(w, a, c) /\ (Silent(w) => w.camp.stop)
    BY <1>1, <1>2
  <2>2. /\ Typed(r) /\ Core(r) /\ Free(r) /\ Abreast(r, c) /\ Known(r, c)
        /\ r.camp = w.camp /\ SameLines(w, r) /\ (c.stop => r.camp.stop)
    BY <2>1, RestReady
  <2>3. r.camp.gen = w.camp.gen /\ (Silent(w) => r.camp.stop)
    BY <2>1, <2>2
  <2> QED
    BY <1>1, <2>2, <2>3, SubmitSound
<1>3. CASE c.gen # w.camp.gen
  <2>1. Outdated(w, a, c)
    BY <1>1, <1>3
  <2>2. r.camp = w.camp
    BY RestTyped
  <2>3. Older(r, c)
    BY <1>1, <1>3, <2>2 DEF Older
  <2>4. v = r
    BY <2>3, SubmitOlder
  <2> QED
    BY <2>1, <2>4, RestSound
<1> QED
  BY <1>2, <1>3

LEMMA NarrowedSubmitSound ==
  ASSUME NEW w, Typed(w), Sane(w), NEW a \in Workers, w.busy[a].at \in Deciding,
         NEW c, c = w.busy[a].copy, NEW r, r = AtRest(w, a), NEW y, y = RetiresTip(r, c),
         NEW k \in BOOLEAN, NEW v \in SubmitsSprint(y, c, k)
  PROVE  Sound(w, v)
<1>1. /\ c \in CampStates /\ Known(w, c) /\ c.gen \in Nat /\ w.camp.gen \in Nat /\ c.gen <= w.camp.gen
      /\ c.gen = w.camp.gen => Able(w, a, c) /\ (Silent(w) => w.camp.stop)
      /\ c.gen # w.camp.gen => Outdated(w, a, c)
  BY HolderAble
<1>2. /\ Typed(r) /\ r.camp = w.camp /\ r.work = w.work /\ r.settleChain = w.settleChain
      /\ r.alarms = w.alarms /\ r.busy[a].at = (IF a = "boot" THEN "tail" ELSE "rest")
      /\ \A o \in Workers : o # a => r.busy[o] = w.busy[o]
      /\ RowsOf(r) = RowsOf(w)
  BY RestTyped
<1>3. Known(r, c)
  BY <1>1, <1>2 DEF Known
<1>4. Typed(y) /\ Calms(r, y) /\ y.camp = r.camp /\ (\A d : Known(r, d) => Known(y, d))
  BY <1>1, <1>2, <1>3, TipTyped
<1>5. y \in Worlds /\ y.busy = r.busy /\ y.alarms = r.alarms /\ Wanes(r, y)
  BY <1>4 DEF Calms
<1>6. Wanes(w, y)
  BY <1>2, <1>5, WanesSame
<1>7. SameLines(w, y)
  BY <1>6, WaneLines
<1>8. CASE c.gen = w.camp.gen
  <2>1. Able(w, a, c) /\ (Silent(w) => w.camp.stop)
    BY <1>1, <1>8
  <2>2. Core(r) /\ Free(r) /\ Abreast(r, c) /\ (c.stop => r.camp.stop)
    BY <2>1, RestReady
  <2>3. Core(y) /\ Free(y)
    BY <1>2, <1>4, <2>2, CalmCore
  <2>4. Abreast(y, c) /\ Known(y, c) /\ (c.stop => y.camp.stop)
    BY <1>3, <1>4, <2>2 DEF Abreast
  <2>5. y.camp.gen = w.camp.gen /\ (Silent(w) => y.camp.stop)
    BY <1>2, <1>4, <2>1
  <2> QED
    BY <1>1, <1>4, <1>7, <2>3, <2>4, <2>5, SubmitSound
<1>9. CASE c.gen # w.camp.gen
  <2>1. Outdated(w, a, c)
    BY <1>1, <1>9
  <2>2. y.camp = w.camp
    BY <1>2, <1>4
  <2>3. Older(y, c)
    BY <1>1, <1>9, <2>2 DEF Older
  <2>4. v = y
    BY <2>3, SubmitOlder
  <2>5. Appoints(w, y)
    BY <1>2, <1>5, AppointsTrans
  <2>6. y.busy[a].at \in {"rest", "tail"} /\ (a = "boot" => y.busy[a].at # "rest")
        /\ \A o \in Workers : o # a => y.busy[o] = w.busy[o]
    BY <1>2, <1>5
  <2>7. Drifts(w, y) /\ Orderly(y)
    BY <1>5, <1>6, <2>1, <2>2, <2>5, <2>6, WorkerDrifts
  <2>8. Sound(w, y)
    BY <1>4, <2>7, StepDrifts
  <2> QED
    BY <2>4, <2>8
<1> QED
  BY <1>8, <1>9

LEMMA BouncesHolds ==
  ASSUME IInv, NEW a \in Workers, Bounces(a)
  PROVE  IInv' /\ Quiet
<1> DEFINE w == World
           c == w.busy[a].copy
           d == SentBack(c)
           r == AtRest(w, a)
           k == FALSE
<1>1. Undisturbed /\ ~raced /\ w.busy[a].at = "judging"
  BY WorldIs DEF Bounces, JudgedBy, Undisturbed, Unasked
<1>2. PICK v \in SubmitsSprint(Saves(r, d), d, k) : Happens(v)
  BY WorldIs DEF Bounces, Held, SentBack, Done
<1>3. Typed(w) /\ Sane(w)
  BY <1>1 DEF IInv, IType
<1>4. k \in BOOLEAN /\ w.busy[a].at \in Deciding
  BY <1>1 DEF Deciding
<1> HIDE DEF w, k, r, d
<1>5. Sound(w, v)
  BY <1>2, <1>3, <1>4, BouncesSound DEF r, d
<1> QED
  BY <1>1, <1>2, <1>5, StepSound DEF w

\* The attempt that was narrowed has ended: its handler waits in the chain.
LEMMA NarrowedEndsSound ==
  ASSUME NEW w, Typed(w), Sane(w), NEW a \in Workers, w.busy[a].at = "narrowed", w.busy[a].live,
         NEW c, c = w.busy[a].copy, w.work[NewestOf(w, Current(c))].st \notin {"live", "paused"},
         NEW v, v = AtRest(w, a)
  PROVE  Sound(w, v)
<1>0. w.busy[a].at \in Deciding
  BY DEF Deciding
<1>1. /\ c.gen = w.camp.gen => Able(w, a, c) /\ w.camp.state = "executing" /\ Holds(w, a)
      /\ c.gen # w.camp.gen => Outdated(w, a, c)
  BY <1>0, HolderAble
<1>2. CASE c.gen = w.camp.gen
  <2>1. Able(w, a, c) /\ w.camp.state = "executing"
    BY <1>1, <1>2
  <2>2. /\ Typed(v) /\ Core(v) /\ Free(v) /\ v.camp = w.camp /\ v.work = w.work
        /\ Stays(w, v) /\ Heeded(v) /\ RowsOf(v) = RowsOf(w)
    BY <2>1, RestReady
  <2>3. Alone(w, a) /\ Matches(w, c)
    BY <2>1 DEF Able
  <2>4. Tip(w) = NewestOf(w, Current(c))
    BY <2>3 DEF Matches, Tip
  <2>5. ~Decides(w, a)
    BY <2>4 DEF Decides
  <2>6. \A b \in Workers : ~Decides(w, b) /\ ~Advanced(w, b)
    BY <2>3, <2>5 DEF Alone, Decides
  <2>7. Pursued(w)
    BY <2>1 DEF Sane, Kept
  <2>8. v.alarms = w.alarms /\ v.settleChain = w.settleChain
    BY RestTyped
  <2>9. Tip(v) = Tip(w)
    BY <2>2 DEF Tip, NewestOf
  <2>10. \A i : StopWaits(v, i) <=> StopWaits(w, i)
    BY <2>2, StaysHeeded
  <2>11. \A i : Relevant(w, i) => Relevant(v, i)
    BY <2>2, <2>8, <2>10 DEF Relevant
  <2>12. Pursued(v)
    BY <2>2, <2>6, <2>7, <2>8, <2>11 DEF Pursued
  <2>13. Kept(v)
    BY <2>1, <2>2, <2>12 DEF Kept, Heeded
  <2>14. Agreed(v)
    BY <2>2, FreeAgreed
  <2>15. Hushed(w, v) /\ v.camp.gen <= w.camp.gen
    BY <2>2, SameHushed
  <2> QED
    BY <2>2, <2>13, <2>14, <2>15 DEF Sound, Sane
<1>3. CASE c.gen # w.camp.gen
  BY <1>1, <1>3, RestSound
<1> QED
  BY <1>2, <1>3

LEMMA NarrowedHolds ==
  ASSUME IInv, NEW a \in Workers, Narrowed(a)
  PROVE  IInv' /\ Quiet
<1> DEFINE w == World
           c == w.busy[a].copy
           r == AtRest(w, a)
           y == RetiresTip(r, c)
           k == FALSE
           ended == w.busy[a].live /\ w.work[NewestOf(w, Current(c))].st \notin {"live", "paused"}
<1>1. Undisturbed /\ ~raced /\ w.busy[a].at = "narrowed"
  BY WorldIs DEF Narrowed, Undisturbed, Unasked
<1>2. PICK v \in (IF ended THEN {r} ELSE SubmitsSprint(y, c, k)) : Happens(v)
  BY WorldIs DEF Narrowed, Held, Done
<1>3. Typed(w) /\ Sane(w)
  BY <1>1 DEF IInv, IType
<1>4. k \in BOOLEAN /\ w.busy[a].at \in Deciding
  BY <1>1 DEF Deciding
<1> HIDE DEF w, k, r, y
<1>5. Sound(w, v)
  <2>1. CASE ended
    BY <1>1, <1>2, <1>3, <2>1, NarrowedEndsSound DEF r
  <2>2. CASE ~ended
    <3>1. v \in SubmitsSprint(y, c, k)
      BY <1>2, <2>2
    <3> HIDE DEF ended
    <3> QED
      BY <1>3, <1>4, <3>1, NarrowedSubmitSound DEF r, y
  <2> QED
    BY <2>1, <2>2
<1> QED
  BY <1>1, <1>2, <1>5, StepSound DEF w

\* A worker that no longer decides leaves the order.
LEMMA OnwardOrderly ==
  ASSUME NEW w, NEW a \in Workers, Orderly(w), Alone(w, a), NEW v, v.busy[a].at \notin Deciding,
         \A o \in Workers : o # a => v.busy[o] = w.busy[o]
  PROVE  Orderly(v)
<1>1. Workers = {"chain", "boot"}
  BY DEF Workers
<1>2. \A b \in Workers : v.busy[b].at \in Deciding => b # a
  OBVIOUS
<1>3. v.busy["boot"].at \in Deciding => v.busy["chain"].at = "rest"
  <2>1. CASE a = "boot"
    BY <1>1, <1>2, <2>1
  <2>2. CASE a = "chain"
    BY <1>1, <2>2 DEF Alone
  <2> QED
    BY <1>1, <2>1, <2>2
<1> QED
  BY <1>1, <1>2, <1>3 DEF Orderly

\* A worker goes on with an older copy.
LEMMA OnwardSound ==
  ASSUME NEW w, Typed(w), Sane(w), NEW a \in Workers, NEW c, Outdated(w, a, c),
         NEW d \in CampStates, Known(w, d), d.gen = c.gen,
         NEW p \in {"advanced", "parked"}, NEW l \in BOOLEAN, NEW v, v = Takes(w, a, p, d, l)
  PROVE  Sound(w, v)
<1>1. d.gen <= w.camp.gen /\ c.gen \in Nat /\ w.camp.gen \in Nat
  BY DEF Outdated, Older, Typed, Worlds, CampStates
<1>2. /\ Typed(v) /\ v.camp = w.camp /\ v.work = w.work /\ v.settleChain = w.settleChain
      /\ v.alarms = w.alarms /\ v.busy[a].at = p /\ v.busy[a].copy = d
      /\ \A o \in Workers : o # a => v.busy[o] = w.busy[o]
  BY <1>1, AwaitsTyped
<1>3. v \in Worlds /\ Wanes(w, v)
  BY <1>2 DEF Typed, Wanes, Worlds
<1>4. Appoints(w, v)
  BY <1>2, AppointsTrans
<1>5. v.busy[a].at # "rest" /\ v.busy[a].at \notin Deciding /\ v.busy[a].copy.gen = c.gen
  BY <1>2 DEF Deciding
<1>6. Drifts(w, v) /\ Orderly(v)
  BY <1>2, <1>3, <1>4, <1>5, WorkerDrifts
<1> QED
  BY <1>2, <1>6, StepDrifts

\* The ladder is climbed: the submission of the next sprint is on its way.
LEMMA AdvancesSound ==
  ASSUME NEW w, Typed(w), Sane(w), NEW a \in Workers, w.busy[a].at = "judging",
         w.busy[a].copy.cur < Ladder, NEW l \in BOOLEAN
  PROVE  LET n == NextOf(w.busy[a].copy)
         IN  Sound(w, Takes(Saves(w, n), a, "advanced", n, l))
<1> DEFINE c == w.busy[a].copy
           n == NextOf(c)
           v == Takes(Saves(w, n), a, "advanced", n, l)
<1>0. w.busy[a].at \in Deciding /\ c.cur < Ladder
  BY DEF Deciding
<1> HIDE DEF c, n, v
<1> SUFFICES Sound(w, v)
  BY DEF c, n, v
<1>1. /\ c \in CampStates /\ Known(w, c) /\ c.gen \in Nat /\ w.camp.gen \in Nat /\ c.gen <= w.camp.gen
      /\ c.gen = w.camp.gen => /\ Able(w, a, c) /\ ~Older(w, c) /\ w.camp.state = "executing"
                               /\ Holds(w, a) /\ (Silent(w) => w.camp.stop)
      /\ c.gen # w.camp.gen => Outdated(w, a, c)
  BY <1>0, HolderAble DEF c
<1>2. /\ n \in CampStates /\ n.cur = c.cur + 1 /\ n.gen = c.gen
      /\ n.stop = c.stop /\ n.state = c.state /\ Current(n) = NoWork /\ Known(w, n)
  BY <1>0, <1>1, NextCopy DEF n
<1>3. CASE c.gen = w.camp.gen
  <2>1. Able(w, a, c) /\ Holds(w, a) /\ (Silent(w) => w.camp.stop) /\ ~Older(w, n)
    BY <1>1, <1>2, <1>3 DEF Older
  <2>2. Alone(w, a) /\ Matches(w, c) /\ Core(w) /\ Heeded(w) /\ c.state = "executing"
    BY <2>1 DEF Able
  <2>3. w.work[Tip(w)].st = "completed"
    BY <2>1 DEF Sane, Agreed
  <2> DEFINE y == Saves(w, n)
  <2>4. /\ y.work = w.work /\ y.settleChain = w.settleChain /\ y.busy = w.busy
        /\ y.alarms = w.alarms
        /\ y.camp.state = n.state /\ y.camp.cur = n.cur /\ y.camp.gen = n.gen
        /\ Current(y.camp) = Current(n)
        /\ y.camp.stop = (n.stop \/ (w.camp.stop /\ w.camp.gen = n.gen))
    <3>1. w \in Worlds
      BY DEF Typed
    <3> QED
      BY <1>2, <2>1, <3>1, SavesIs
  <2>5. Typed(y) /\ RowsOf(y) = RowsOf(w)
    BY <1>2, SaveTyped
  <2>6. v = Takes(y, a, "advanced", n, l)
    BY DEF v
  <2> HIDE DEF y
  <2>7. Known(y, n) /\ n.gen <= y.camp.gen
    <3>1. Known(y, n)
      BY <1>2, <2>5 DEF Known
    <3>2. y.camp.gen = n.gen /\ n.gen \in Nat
      BY <1>1, <1>2, <2>4
    <3> QED
      BY <3>1, <3>2
  <2>8. /\ Typed(v) /\ v.camp = y.camp /\ v.work = y.work /\ v.settleChain = y.settleChain
        /\ v.alarms = y.alarms /\ v.busy[a].at = "advanced" /\ v.busy[a].copy = n
        /\ \A o \in Workers : o # a => v.busy[o] = y.busy[o]
        /\ RowsOf(v) = RowsOf(y)
    BY <1>2, <2>5, <2>6, <2>7, AwaitsTyped
  <2>9. /\ v.camp.state = "executing" /\ v.camp.cur = w.camp.cur + 1 /\ v.camp.gen = w.camp.gen
        /\ Current(v.camp) = NoWork /\ (v.camp.stop => w.camp.stop) /\ (w.camp.stop => v.camp.stop)
    <3>1. v.camp.state = "executing" /\ v.camp.cur = c.cur + 1 /\ v.camp.gen = w.camp.gen
          /\ Current(v.camp) = NoWork
      BY <1>2, <1>3, <2>2, <2>4, <2>8
    <3>2. v.camp.stop = (c.stop \/ w.camp.stop)
      BY <1>2, <1>3, <2>4, <2>8
    <3>3. w.camp.cur = c.cur /\ (c.stop => w.camp.stop)
      BY <2>2 DEF Matches
    <3>4. (v.camp.stop => w.camp.stop) /\ (w.camp.stop => v.camp.stop)
      BY <3>2, <3>3
    <3> QED
      BY <3>1, <3>3, <3>4
  <2>10. /\ v.work = w.work /\ v.settleChain = w.settleChain /\ v.alarms = w.alarms
         /\ RowsOf(v) = RowsOf(w)
         /\ \A o \in Workers : o # a => v.busy[o] = w.busy[o]
    BY <2>4, <2>5, <2>8
  <2>11. Advanced(v, a)
    <3>1. v.busy[a].copy.gen = v.camp.gen
      BY <1>2, <1>3, <2>8, <2>9
    <3> QED
      BY <2>8, <3>1 DEF Advanced
  <2>12. \A b \in Workers : ~Holds(v, b)
    <3>1. ~Holds(v, a)
      BY <2>8 DEF Holds, Deciding
    <3>2. \A b \in Workers : b # a => ~Holds(v, b)
      BY <2>2, <2>9, <2>10 DEF Alone, Holds
    <3> QED
      BY <3>1, <3>2
  <2>13. \A b \in Workers : b # a => ~Advanced(v, b)
    BY <2>2, <2>9, <2>10 DEF Alone, Advanced
  <2>14. ~Due(v)
    BY <2>2, <2>9, <2>10 DEF Alone, Due
  <2>15. Agreed(v)
    <3>1. ~(Advanced(v, "chain") /\ Advanced(v, "boot"))
      BY <2>13 DEF Workers
    <3> QED
      BY <2>9, <2>12, <2>14, <3>1 DEF Agreed
  <2>16. Orderly(v)
    <3>1. Orderly(w) /\ Alone(w, a)
      BY <2>2 DEF Core
    <3>2. v.busy[a].at \notin Deciding
      BY <2>8 DEF Deciding
    <3> QED
      BY <2>10, <3>1, <3>2, OnwardOrderly
  <2>17. Looked(v)
    <3>1. Looked(w) /\ w.camp.cur \in Nat
      BY <2>2 DEF Core, Typed, Worlds, CampStates, Sprints
    <3>2. \A s \in Sprints : Pending(v, s) => Pending(w, s)
      <4>1. v.settleChain = w.settleChain /\ v.alarms = w.alarms
        BY <2>10
      <4> QED
        BY <4>1, SamePending
    <3>3. \A s \in Sprints : Pending(v, s) => s <= w.camp.cur /\ s \in Nat
      BY <3>1, <3>2 DEF Looked, Sprints
    <3>4. \A s \in Sprints : Pending(v, s) => s <= v.camp.cur /\ s # v.camp.cur
      BY <2>9, <3>1, <3>3
    <3> QED
      BY <3>4 DEF Looked
  <2>18. OneTip(v)
    <3>1. \A t \in RowsOf(w) : Active(w, t) => t = Tip(w)
      BY <2>2 DEF Core, OneTip
    <3>2. ~Active(w, Tip(w))
      BY <2>3 DEF Active, Continuable
    <3>3. \A t : Active(v, t) <=> Active(w, t)
      BY <2>10, SameActive
    <3>4. \A t \in RowsOf(v) : Current(v.camp) \notin v.work[t].line
      <4>1. Lineages(v) /\ Current(v.camp) = 0
        BY <2>8, <2>9 DEF Typed, NoWork
      <4>2. \A t \in RowsOf(v) : v.work[t].line \subseteq 1..t
        BY <4>1 DEF Lineages
      <4>3. \A t : 0 \notin 1..t
        OBVIOUS
      <4> QED
        BY <4>1, <4>2, <4>3
    <3> QED
      BY <2>10, <3>1, <3>2, <3>3, <3>4 DEF OneTip
  <2>19. Kept(v)
    <3>1. Pursued(v)
      BY <2>11 DEF Pursued
    <3>2. v.camp.stop => \E i \in 1..Len(v.settleChain) : StopWaits(v, i)
      <4>1. v.settleChain = w.settleChain /\ RowsOf(v) = RowsOf(w)
        BY <2>10
      <4>2. \A i \in 1..Len(w.settleChain) : StopWaits(w, i) => StopWaits(v, i)
        BY <2>9, <4>1 DEF StopWaits, AboutIn
      <4>3. v.camp.stop => \E i \in 1..Len(w.settleChain) : StopWaits(w, i)
        BY <2>2, <2>9 DEF Heeded
      <4> QED
        BY <4>1, <4>2, <4>3
    <3> QED
      BY <2>9, <3>1, <3>2 DEF Kept
  <2>20. Hushed(w, v)
    <3>1. Submitless(w, v)
      <4>1. Lineages(w)
        BY DEF Typed
      <4> QED
        BY <2>10, <4>1, SubmitlessTrans
    <3> QED
      BY <2>1, <2>9, <3>1 DEF Hushed, Silent
  <2> QED
    BY <1>1, <2>8, <2>9, <2>15, <2>16, <2>17, <2>18, <2>19, <2>20 DEF Sound, Sane, Core
<1>4. CASE c.gen # w.camp.gen
  <2>1. Outdated(w, a, c)
    BY <1>1, <1>4
  <2>2. Saves(w, n) = w
    BY <1>1, <1>2, <1>4 DEF Saves, Older
  <2>3. v = Takes(w, a, "advanced", n, l)
    BY <2>2 DEF v
  <2>4. "advanced" \in {"advanced", "parked"}
    OBVIOUS
  <2> QED
    BY <1>2, <2>1, <2>3, <2>4, OnwardSound
<1> QED
  BY <1>3, <1>4

LEMMA AdvancesHolds ==
  ASSUME IInv, NEW a \in Workers, Advances(a)
  PROVE  IInv' /\ Quiet
<1> DEFINE w == World
           c == w.busy[a].copy
           n == NextOf(c)
           l == FALSE
           v == Takes(Saves(w, n), a, "advanced", n, l)
<1>1. Undisturbed /\ ~raced /\ w.busy[a].at = "judging" /\ c.cur < Ladder
  BY WorldIs DEF Advances, Held, JudgedBy, Undisturbed, Unasked
<1>2. Happens(v)
  BY WorldIs DEF Advances, Held, NextOf, Takes, Occupies, Awaits
<1>3. Typed(w) /\ Sane(w)
  BY <1>1 DEF IInv, IType
<1>4. l \in BOOLEAN
  OBVIOUS
<1> HIDE DEF w, l, n
<1>5. Sound(w, v)
  BY <1>1, <1>3, <1>4, AdvancesSound DEF n
<1> HIDE DEF v
<1> QED
  BY <1>1, <1>2, <1>5, StepSound DEF w

\* An older copy is put away, and rows are retired.
LEMMA RestCalmSound ==
  ASSUME NEW w, Typed(w), Sane(w), NEW a \in Workers, NEW c, Outdated(w, a, c),
         NEW r, r = AtRest(w, a), NEW v, Calms(r, v)
  PROVE  Sound(w, v)
<1>1. /\ Typed(r) /\ r.camp = w.camp /\ r.work = w.work /\ r.settleChain = w.settleChain
      /\ r.alarms = w.alarms /\ r.busy[a].at = (IF a = "boot" THEN "tail" ELSE "rest")
      /\ \A o \in Workers : o # a => r.busy[o] = w.busy[o]
  BY RestTyped
<1>2. v \in Worlds /\ v.camp = r.camp /\ v.busy = r.busy /\ v.alarms = r.alarms /\ Wanes(r, v)
  BY DEF Calms
<1>3. Wanes(w, v)
  BY <1>1, <1>2 DEF Wanes
<1>4. Appoints(w, v)
  BY <1>1, <1>2, AppointsTrans
<1>5. /\ v.busy[a].at \in {"rest", "tail"} /\ (a = "boot" => v.busy[a].at # "rest")
      /\ \A o \in Workers : o # a => v.busy[o] = w.busy[o]
  BY <1>1, <1>2
<1>6. v.camp = w.camp
  BY <1>1, <1>2
<1>7. Drifts(w, v) /\ Orderly(v)
  BY <1>2, <1>3, <1>4, <1>5, <1>6, WorkerDrifts
<1>8. Typed(v)
  BY <1>1, CalmTyped
<1> QED
  BY <1>7, <1>8, StepDrifts

\* The last sprint's judgement ends the campaign, one way or the other.
LEMMA FinishesSound ==
  ASSUME NEW w, Typed(w), NEW a \in Workers, NEW c, Able(w, a, c), Silent(w) => w.camp.stop,
         NEW r, r = AtRest(w, a), NEW d \in CampStates, Known(r, d), Abreast(r, d),
         d.state \in {"failed", "done"}, d.state = "failed" => d.appt = NoAppointment,
         NEW why \in {"none", "superseded"}, NEW y, y = Saves(r, d), NEW v, v = RetiresAll(y, d, why)
  PROVE  Sound(w, v)
<1>1. /\ Typed(r) /\ Core(r) /\ Free(r) /\ r.camp = w.camp /\ r.work = w.work
  BY RestReady
<1>2. /\ Typed(y) /\ Stays(r, y) /\ y.busy = r.busy
      /\ y.camp.gen = r.camp.gen /\ y.camp.state = d.state /\ y.camp.appt = d.appt
      /\ y.camp.stop = (d.stop \/ r.camp.stop)
  BY <1>1, SaveStays
<1>3. Appoints(r, y) /\ y.work = r.work
  BY <1>2 DEF Stays
<1>4. Free(y) /\ Orderly(y)
  BY <1>1, <1>2, <1>3, SameBusy DEF Core
<1>5. Core(y)
  BY <1>1, <1>2, <1>4, StayCore
<1>6. Kept(y)
  BY <1>2 DEF Kept
<1>7. Sane(y)
  BY <1>4, <1>5, <1>6, FreeAgreed DEF Sane
<1>8. Typed(v) /\ Calms(y, v) /\ v.camp = y.camp
  BY <1>2, AllTyped
<1>9. Sane(v)
  <2>1. Core(v)
    BY <1>2, <1>5, <1>8, CalmCore
  <2>2. Drifts(y, v)
    BY <1>8, CalmDrifts
  <2>3. Orderly(v)
    BY <2>1 DEF Core
  <2> QED
    BY <1>2, <1>7, <2>2, <2>3, DriftSane
<1>10. Hushed(w, v)
  <2>1. Wanes(y, v)
    BY <1>8 DEF Calms
  <2>2. Submitless(y, v) /\ (Silent(y) => Silent(v))
    BY <1>2, <1>8, <2>1, DriftSilent
  <2>3. Silent(w) => Silent(y)
    BY <1>1, <1>2 DEF Silent
  <2>4. y.work = w.work
    BY <1>1, <1>3
  <2>5. Submitless(w, v)
    BY <2>2, <2>4, SubmitlessTrans
  <2> QED
    BY <2>2, <2>3, <2>5 DEF Hushed
<1>11. v.camp.gen <= w.camp.gen
  BY <1>1, <1>2, <1>8 DEF Typed, Worlds, CampStates
<1> QED
  BY <1>8, <1>9, <1>10, <1>11 DEF Sound

LEMMA StopsShortSound ==
  ASSUME NEW w, Typed(w), Sane(w), NEW a \in Workers, w.busy[a].at \in Deciding,
         NEW c, c = w.busy[a].copy, NEW r, r = AtRest(w, a), NEW d, d = FailedTill(c, NoAppointment),
         NEW v, v = RetiresAll(Saves(r, d), d, "superseded")
  PROVE  Sound(w, v)
<1>1. /\ c \in CampStates /\ Known(w, c) /\ c.gen \in Nat /\ w.camp.gen \in Nat /\ c.gen <= w.camp.gen
      /\ c.gen = w.camp.gen => Able(w, a, c) /\ (Silent(w) => w.camp.stop)
      /\ c.gen # w.camp.gen => Outdated(w, a, c)
  BY HolderAble
<1>2. NoAppointment \in Appointments \cup {NoAppointment} /\ "superseded" \in {"none", "superseded"}
  OBVIOUS
<1>3. /\ d \in CampStates /\ d.state = "failed" /\ d.appt = NoAppointment /\ d.cur = c.cur
      /\ d.gen = c.gen /\ Current(d) = Current(c) /\ (\A u : Known(u, c) => Known(u, d))
  BY <1>1, <1>2, FailedCopy
<1>4. Typed(r) /\ r.camp = w.camp
  BY RestTyped
<1>5. CASE c.gen = w.camp.gen
  <2>1. Able(w, a, c) /\ (Silent(w) => w.camp.stop)
    BY <1>1, <1>5
  <2>2. Known(r, c) /\ Abreast(r, c)
    BY <2>1, RestReady
  <2>3. Known(r, d) /\ Abreast(r, d)
    BY <1>3, <2>2 DEF Abreast
  <2> DEFINE y == Saves(r, d)
  <2>4. v = RetiresAll(y, d, "superseded") /\ d.state \in {"failed", "done"}
    BY <1>3
  <2> HIDE DEF y
  <2> QED
    BY <1>2, <1>3, <2>1, <2>3, <2>4, FinishesSound DEF y
<1>6. CASE c.gen # w.camp.gen
  <2>1. Outdated(w, a, c)
    BY <1>1, <1>6
  <2>2. Saves(r, d) = r
    BY <1>1, <1>3, <1>4, <1>6 DEF Saves, Older
  <2>3. Calms(r, v)
    BY <1>2, <1>4, <2>2, AllTyped
  <2> QED
    BY <2>1, <2>3, RestCalmSound
<1> QED
  BY <1>5, <1>6

Finished(c) == [c EXCEPT !.state = "done"]

LEMMA FinishedCopy ==
  ASSUME NEW c \in CampStates, NEW d, d = Finished(c)
  PROVE  /\ d \in CampStates /\ d.state = "done" /\ d.cur = c.cur /\ d.gen = c.gen
         /\ Current(d) = Current(c) /\ \A w : Known(w, c) => Known(w, d)
<1>1. d \in CampStates /\ d.state = "done" /\ d.cur = c.cur /\ d.gen = c.gen /\ d.sprint = c.sprint
  BY DEF Finished, CampStates
<1> QED
  BY <1>1 DEF Current, Known

LEMMA DeliversSound ==
  ASSUME NEW w, Typed(w), Sane(w), NEW a \in Workers, w.busy[a].at \in Deciding,
         NEW c, c = w.busy[a].copy, NEW r, r = AtRest(w, a), NEW d, d = Finished(c),
         NEW v, v = IF Older(w, d) THEN r ELSE RetiresAll(Saves(r, d), d, "none")
  PROVE  Sound(w, v)
<1>1. /\ c \in CampStates /\ Known(w, c) /\ c.gen \in Nat /\ w.camp.gen \in Nat /\ c.gen <= w.camp.gen
      /\ c.gen = w.camp.gen => Able(w, a, c) /\ (Silent(w) => w.camp.stop)
      /\ c.gen # w.camp.gen => Outdated(w, a, c)
  BY HolderAble
<1>2. "none" \in {"none", "superseded"}
  OBVIOUS
<1>3. /\ d \in CampStates /\ d.state = "done" /\ d.cur = c.cur
      /\ d.gen = c.gen /\ Current(d) = Current(c) /\ (\A u : Known(u, c) => Known(u, d))
  BY <1>1, FinishedCopy
<1>5. CASE c.gen = w.camp.gen
  <2>1. Able(w, a, c) /\ (Silent(w) => w.camp.stop)
    BY <1>1, <1>5
  <2>2. Known(r, c) /\ Abreast(r, c)
    BY <2>1, RestReady
  <2>3. Known(r, d) /\ Abreast(r, d)
    BY <1>3, <2>2 DEF Abreast
  <2> DEFINE y == Saves(r, d)
  <2>4. v = RetiresAll(y, d, "none") /\ d.state \in {"failed", "done"} /\ d.state # "failed"
    BY <1>1, <1>3, <1>5 DEF Older
  <2> HIDE DEF y
  <2> QED
    BY <1>2, <1>3, <2>1, <2>3, <2>4, FinishesSound DEF y
<1>6. CASE c.gen # w.camp.gen
  <2>1. Outdated(w, a, c)
    BY <1>1, <1>6
  <2>2. v = r
    BY <1>1, <1>3, <1>6 DEF Older
  <2> QED
    BY <2>1, <2>2, RestSound
<1> QED
  BY <1>5, <1>6

LEMMA StopsShortHolds ==
  ASSUME IInv, NEW a \in Workers, StopsShort(a)
  PROVE  IInv' /\ Quiet
<1> DEFINE w == World
           c == w.busy[a].copy
           r == AtRest(w, a)
           d == FailedTill(c, NoAppointment)
           v == RetiresAll(Saves(r, d), d, "superseded")
<1>1. Undisturbed /\ ~raced /\ w.busy[a].at \in Deciding
  BY WorldIs DEF StopsShort, JudgedBy, Undisturbed, Unasked, Deciding
<1>2. Happens(v)
  BY WorldIs DEF StopsShort, Held, Done, FailedTill
<1>3. Typed(w) /\ Sane(w)
  BY <1>1 DEF IInv, IType
<1> HIDE DEF w, r, d
<1>4. Sound(w, v)
  BY <1>1, <1>3, StopsShortSound DEF r, d
<1> HIDE DEF v
<1> QED
  BY <1>1, <1>2, <1>4, StepSound DEF w

LEMMA DeliversHolds ==
  ASSUME IInv, NEW a \in Workers, Delivers(a)
  PROVE  IInv' /\ Quiet
<1> DEFINE w == World
           c == w.busy[a].copy
           r == AtRest(w, a)
           d == Finished(c)
           v == IF Older(w, d) THEN r ELSE RetiresAll(Saves(r, d), d, "none")
<1>1. Undisturbed /\ ~raced /\ w.busy[a].at \in Deciding
  BY WorldIs DEF Delivers, JudgedBy, Undisturbed, Unasked, Deciding
<1>2. Happens(v)
  BY WorldIs DEF Delivers, Held, Done, Finished
<1>3. Typed(w) /\ Sane(w)
  BY <1>1 DEF IInv, IType
<1> HIDE DEF w, r, d
<1>4. Sound(w, v)
  BY <1>1, <1>3, DeliversSound DEF r, d
<1> HIDE DEF v
<1> QED
  BY <1>1, <1>2, <1>4, StepSound DEF w

Counted(w) == [w EXCEPT !.made = @ + 1]

Parting(w, v, a, n) ==
  /\ Typed(v) /\ v.camp = w.camp /\ Wanes(w, v) /\ Appoints(w, v)
  /\ \A o \in Workers : o # a => v.busy[o] = w.busy[o]
  /\ v.busy[a].at = "parked" /\ v.busy[a].copy.gen = n

LEMMA ParkedOlder ==
  ASSUME NEW w, Typed(w), Sane(w), NEW a \in Workers, NEW c, Outdated(w, a, c),
         NEW v, Parting(w, v, a, c.gen)
  PROVE  Sound(w, v)
<1>1. /\ Typed(v) /\ v.camp = w.camp /\ Wanes(w, v) /\ Appoints(w, v)
      /\ \A o \in Workers : o # a => v.busy[o] = w.busy[o]
      /\ v.busy[a].at = "parked" /\ v.busy[a].copy.gen = c.gen
  BY DEF Parting
<1>2. v \in Worlds /\ v.busy[a].at # "rest" /\ v.busy[a].at \notin Deciding
  BY <1>1 DEF Typed, Deciding
<1>3. Drifts(w, v) /\ Orderly(v)
  BY <1>1, <1>2, WorkerDrifts
<1> QED
  BY <1>1, <1>3, StepDrifts

\* The last sprint waits for another round of proofs.
LEMMA LacksProofsSound ==
  ASSUME NEW w, Typed(w), Sane(w), w.made < MaxAppointments, NEW a \in Workers,
         w.busy[a].at \in Deciding,
         NEW l \in BOOLEAN
  PROVE  LET d == FailedTill(w.busy[a].copy, w.made + 1)
         IN  Sound(w, Takes(RetiresAll(Saves(Counted(w), d), d, "superseded"), a, "parked", d, l))
<1> DEFINE c == w.busy[a].copy
           m == Counted(w)
           d == FailedTill(c, w.made + 1)
           y == Saves(m, d)
           z == RetiresAll(y, d, "superseded")
           v == Takes(z, a, "parked", d, l)
<1> HIDE DEF c, m, d, y, z, v
<1> SUFFICES Sound(w, v)
  BY DEF c, m, d, y, z, v
<1>1. /\ c \in CampStates /\ Known(w, c) /\ c.gen \in Nat /\ w.camp.gen \in Nat /\ c.gen <= w.camp.gen
      /\ c.gen = w.camp.gen => Able(w, a, c) /\ (Silent(w) => w.camp.stop)
      /\ c.gen # w.camp.gen => Outdated(w, a, c)
  BY HolderAble DEF c
<1>2. /\ Typed(m) /\ m.camp = w.camp /\ m.work = w.work /\ m.settleChain = w.settleChain
      /\ m.busy = w.busy /\ m.alarms = w.alarms /\ w.made + 1 \in Appointments /\ RowsOf(m) = RowsOf(w)
  <2>1. m = [w EXCEPT !.made = @ + 1]
    BY DEF m, Counted
  <2> QED
    BY <2>1, MadeTyped
<1>3. "superseded" \in {"none", "superseded"} /\ w.made + 1 \in Appointments \cup {NoAppointment}
  BY <1>2
<1>4. /\ d \in CampStates /\ d.state = "failed" /\ d.appt = w.made + 1 /\ d.cur = c.cur
      /\ d.gen = c.gen /\ d.stop = c.stop /\ Current(d) = Current(c) /\ (\A u : Known(u, c) => Known(u, d))
  BY <1>1, <1>3, FailedCopy DEF d
<1>5. Known(m, d)
  BY <1>1, <1>2, <1>4 DEF Known
<1>6. Typed(y) /\ RowsOf(y) = RowsOf(w) /\ y.camp.gen = w.camp.gen
  <2>1. Typed(y) /\ RowsOf(y) = RowsOf(m) /\ y.camp.gen \in {m.camp.gen, d.gen}
    BY <1>2, <1>4, <1>5, SaveTyped DEF y
  <2>2. d.gen <= y.camp.gen
    BY <1>2, <1>4, SaveGen DEF y, Typed
  <2>3. Older(m, d) => y = m
    BY DEF y, Saves
  <2> QED
    BY <1>1, <1>2, <1>4, <2>1, <2>2, <2>3 DEF Older
<1>7. y.work = w.work /\ y.settleChain = w.settleChain /\ y.busy = w.busy /\ y.alarms = w.alarms
  BY <1>2, <1>4, SavesIs DEF y, Typed
<1>8. Typed(z) /\ Calms(y, z) /\ z.camp = y.camp /\ RowsOf(z) = RowsOf(y) /\ (\A e : Known(y, e) => Known(z, e))
  BY <1>3, <1>6, AllTyped DEF z
<1>9. z.busy = w.busy /\ z.alarms = w.alarms /\ Wanes(y, z)
  BY <1>7, <1>8 DEF Calms
<1>10. Known(z, d) /\ d.gen <= z.camp.gen
  <2>1. Known(y, d)
    BY <1>2, <1>5, <1>6 DEF Known
  <2>2. d.gen <= z.camp.gen
    BY <1>1, <1>4, <1>6, <1>8
  <2> QED
    BY <1>8, <2>1, <2>2
<1>11. /\ Typed(v) /\ v.camp = z.camp /\ v.work = z.work /\ v.settleChain = z.settleChain
       /\ v.alarms = z.alarms /\ v.busy[a].at = "parked" /\ v.busy[a].copy = d
       /\ \A o \in Workers : o # a => v.busy[o] = z.busy[o]
       /\ RowsOf(v) = RowsOf(z)
  <2>1. "parked" \in {"judging", "narrowed", "overran", "advanced", "parked"}
    OBVIOUS
  <2>2. Typed(z) /\ d \in CampStates /\ Known(z, d) /\ d.gen <= z.camp.gen
    BY <1>4, <1>8, <1>10
  <2> DEFINE b == [at |-> "parked", copy |-> d, live |-> l]
  <2>3. b \in Occupations /\ b.at = "parked" /\ b.copy = d
    BY <2>2 DEF Occupations
  <2>4. v = Occupies(z, a, b)
    BY DEF v, Takes
  <2> HIDE DEF b
  <2>5. /\ Typed(v) /\ v.camp = z.camp /\ v.work = z.work /\ v.settleChain = z.settleChain
        /\ v.alarms = z.alarms /\ v.made = z.made /\ v.busy[a] = b
        /\ \A o \in Workers : o # a => v.busy[o] = z.busy[o]
        /\ RowsOf(v) = RowsOf(z)
    BY <2>2, <2>3, <2>4, BusyTyped
  <2> QED
    BY <2>3, <2>5
<1>12. v.alarms = w.alarms /\ \A o \in Workers : o # a => v.busy[o] = w.busy[o]
  <2>1. v.alarms = z.alarms /\ \A o \in Workers : o # a => v.busy[o] = z.busy[o]
    BY <1>11
  <2>2. z.busy = w.busy /\ z.alarms = w.alarms
    BY <1>9
  <2> QED
    BY <2>1, <2>2
<1>a. /\ v.camp = y.camp /\ v.busy[a].at = "parked" /\ v.busy[a].copy = d
      /\ v.work = z.work /\ v.settleChain = z.settleChain
  BY <1>8, <1>11
<1>13. CASE c.gen = w.camp.gen
  <2>1. Able(w, a, c) /\ (Silent(w) => w.camp.stop)
    BY <1>1, <1>13
  <2>2. Core(w) /\ Alone(w, a) /\ Abreast(w, c)
    BY <2>1 DEF Able
  <2>3. Abreast(m, d)
    BY <1>2, <1>4, <2>2 DEF Abreast
  <2>4. /\ Stays(m, y) /\ y.camp.state = "failed" /\ y.camp.appt = d.appt
        /\ y.camp.stop = (d.stop \/ m.camp.stop)
    BY <1>2, <1>4, <1>5, <2>3, SaveStays DEF y
  <2>5. Stays(w, y)
    BY <1>2, <1>7, <2>4, AppointsTrans DEF Stays
  <2>6. Orderly(y)
    BY <1>7, <2>2 DEF Core, Orderly
  <2>7. Core(y)
    BY <2>2, <2>5, <2>6, StayCore
  <2>8. Core(z)
    BY <1>6, <1>8, <2>7, CalmCore
  <2>9. Orderly(v)
    <3>1. v.busy[a].at \notin Deciding
      BY <1>a DEF Deciding
    <3>2. Orderly(w) /\ Alone(w, a)
      BY <2>2 DEF Core
    <3>3. \A o \in Workers : o # a => v.busy[o] = w.busy[o]
      BY <1>12
    <3> QED
      BY <3>1, <3>2, <3>3, OnwardOrderly
  <2>10. Stays(z, v)
    BY <1>11, SameStays
  <2>11. Core(v)
    BY <2>8, <2>9, <2>10, StayCore
  <2>12. v.camp.gen = w.camp.gen /\ v.camp.state = "failed" /\ v.camp.appt = d.appt
    BY <1>6, <1>a, <2>4
  <2>13. Free(v)
    <3>1. ~Holds(v, a) /\ ~Advanced(v, a)
      BY <1>a DEF Holds, Advanced, Deciding
    <3>2. \A b \in Workers : b # a => ~Holds(v, b) /\ ~Advanced(v, b)
      <4> SUFFICES ASSUME NEW b \in Workers, b # a PROVE ~Holds(v, b) /\ ~Advanced(v, b)
        OBVIOUS
      <4>1. ~Holds(w, b) /\ ~Advanced(w, b)
        BY <2>2 DEF Alone
      <4>2. v.busy[b] = w.busy[b]
        BY <1>12
      <4> QED
        BY <2>12, <4>1, <4>2 DEF Holds, Advanced
    <3>3. ~Due(v)
      BY <1>12, <2>2, <2>12 DEF Alone, Due
    <3> QED
      BY <3>1, <3>2, <3>3 DEF Free, Unheld, Coming
  <2>14. Kept(v)
    <3>1. Workers = {"chain", "boot"}
      BY DEF Workers
    <3>2. Waited(v)
      <4>1. CASE a = "boot"
        BY <1>a, <4>1 DEF Waited
      <4>2. CASE a = "chain"
        <5>1. v.busy["chain"].at = "parked" /\ v.busy["chain"].copy.appt = v.camp.appt
          BY <1>a, <2>12, <4>2
        <5> QED
          BY <5>1 DEF Waited
      <4> QED
        BY <3>1, <4>1, <4>2
    <3> QED
      BY <2>12, <3>2 DEF Kept
  <2>15. Hushed(w, v)
    <3>1. Submitless(y, z) /\ (Silent(y) => Silent(z))
      BY <1>6, <1>8, <1>9, DriftSilent
    <3>2. Silent(w) => v.camp.stop
      BY <1>2, <1>a, <2>1, <2>4
    <3>3. Submitless(w, v)
      <4>1. Submitless(w, z)
        BY <1>7, <3>1, SubmitlessTrans
      <4> QED
        BY <1>11, <4>1, SubmitlessTrans
    <3> QED
      BY <3>2, <3>3 DEF Hushed, Silent
  <2>16. v.camp.gen <= w.camp.gen
    BY <1>1, <2>12
  <2> QED
    BY <1>11, <2>11, <2>13, <2>14, <2>15, <2>16, FreeAgreed DEF Sound, Sane
<1>14. CASE c.gen # w.camp.gen
  <2>1. Outdated(w, a, c)
    BY <1>1, <1>14
  <2>2. y = m
    BY <1>1, <1>2, <1>4, <1>14 DEF y, Saves, Older
  <2>3. v.camp = w.camp
    BY <1>2, <1>a, <2>2
  <2>4. Wanes(w, v)
    <3>1. m.work = w.work /\ m.settleChain = w.settleChain /\ m.camp = w.camp
      BY <1>2
    <3>2. Wanes(m, z) /\ v.work = z.work /\ v.settleChain = z.settleChain
      BY <1>9, <1>a, <2>2
    <3> QED
      BY <3>1, <3>2, WanesSame
  <2>5. Appoints(w, v)
    BY <1>12, AppointsTrans
  <2>6. \A o \in Workers : o # a => v.busy[o] = w.busy[o]
    BY <1>12
  <2>7. v.busy[a].at = "parked" /\ v.busy[a].copy.gen = c.gen /\ Typed(v)
    BY <1>4, <1>a, <1>11
  <2>8. Parting(w, v, a, c.gen)
    BY <2>3, <2>4, <2>5, <2>6, <2>7 DEF Parting
  <2> QED
    BY <2>1, <2>8, ParkedOlder
<1> QED
  BY <1>13, <1>14

LEMMA LacksProofsHolds ==
  ASSUME IInv, NEW a \in Workers, LacksProofs(a)
  PROVE  IInv' /\ Quiet
<1> DEFINE w == World
           c == w.busy[a].copy
           m == Counted(w)
           d == FailedTill(c, w.made + 1)
           y == Saves(m, d)
           z == RetiresAll(y, d, "superseded")
           l == FALSE
           v == Takes(z, a, "parked", d, l)
<1>1. Undisturbed /\ ~raced /\ w.busy[a].at \in Deciding
  BY WorldIs DEF LacksProofs, JudgedBy, Undisturbed, Unasked, Deciding
<1>2. Happens(v)
  BY WorldIs DEF LacksProofs, Held, FailedTill, Parked, Counted, Takes, Occupies, Awaits
<1>3. Typed(w) /\ Sane(w)
  BY <1>1 DEF IInv, IType
<1>4. w.made < MaxAppointments
  <2>1. w.made # MaxAppointments
    BY WorldIs DEF LacksProofs, NoRoom
  <2>2. w.made \in 0..MaxAppointments
    BY <1>3 DEF Typed, Worlds
  <2> QED
    BY <2>1, <2>2, CampConstants
<1>5. l \in BOOLEAN
  OBVIOUS
<1> HIDE DEF w, m, d, y, z, l
<1>6. Sound(w, v)
  BY <1>1, <1>3, <1>4, <1>5, LacksProofsSound DEF m, d, y, z
<1> HIDE DEF v
<1> QED
  BY <1>1, <1>2, <1>6, StepSound DEF w

\* A worker that decides nothing, and submits nothing, comes to rest.
LEMMA PastRests ==
  ASSUME NEW w, Typed(w), Sane(w), NEW a \in Workers, Past(w, a),
         NEW r, r.camp = w.camp, r.work = w.work, r.settleChain = w.settleChain,
         r.alarms = w.alarms, r.busy[a].at \in {"rest", "tail"}, a = "chain" => r.busy[a].at = "rest",
         \A o \in Workers : o # a => r.busy[o] = w.busy[o]
  PROVE  /\ Core(r) /\ Agreed(r)
         /\ w.camp.state = "executing" => Pursued(r)
         /\ w.camp.state = "executing" => Heeded(r)
<1>1. /\ r.camp = w.camp /\ r.work = w.work /\ r.settleChain = w.settleChain
      /\ r.alarms = w.alarms /\ RowsOf(r) = RowsOf(w)
      /\ \A o \in Workers : o # a => r.busy[o] = w.busy[o]
  BY DEF RowsOf
<1>2. r.busy[a].at \in {"rest", "tail"} /\ r.busy[a].at \notin Deciding
  BY DEF Deciding
<1>3. Core(w) /\ Agreed(w) /\ Kept(w)
  BY DEF Sane
<1>4. Stays(w, r) /\ Orderly(r)
  <2>1. Stays(w, r)
    BY <1>1, AppointsTrans DEF Stays
  <2>2. Workers = {"chain", "boot"} /\ Orderly(w)
    BY <1>3 DEF Workers, Core
  <2>3. \A b \in Workers : r.busy[b].at \in Deciding => b # a
    BY <1>2
  <2>4. r.busy["boot"].at \in Deciding => r.busy["chain"].at = "rest"
    BY <1>1, <2>2, <2>3 DEF Orderly
  <2> QED
    BY <1>1, <2>1, <2>2, <2>3, <2>4 DEF Orderly
<1>5. Core(r) /\ Tip(r) = Tip(w)
  BY <1>3, <1>4, StayCore
<1>6. ~Holds(r, a) /\ ~Advanced(r, a)
  BY <1>2 DEF Holds, Advanced, Deciding
<1>7. ASSUME NEW b \in Workers, b # a
      PROVE  /\ Holds(r, b) <=> Holds(w, b)
             /\ Advanced(r, b) <=> Advanced(w, b)
             /\ r.busy[b] = w.busy[b]
  <2>1. r.busy[b] = w.busy[b]
    BY <1>1, <1>7
  <2> QED
    BY <1>1, <2>1 DEF Holds, Advanced
<1>8. (Due(r) <=> Due(w)) /\ (\A b \in Workers : Advanced(r, b) => Advanced(w, b))
  BY <1>1, <1>6, <1>7 DEF Due
<1>9. Agreed(r)
  <2>1. ASSUME NEW b \in Workers, Holds(r, b)
        PROVE  /\ Matches(r, r.busy[b].copy)
               /\ r.busy[b].at = "judging" => r.work[Tip(r)].st = "completed"
    <3>1. b # a
      BY <1>6, <2>1
    <3>2. Holds(w, b) /\ r.busy[b] = w.busy[b]
      BY <1>7, <2>1, <3>1
    <3>3. /\ Matches(w, w.busy[b].copy)
          /\ w.busy[b].at = "judging" => w.work[Tip(w)].st = "completed"
      BY <1>3, <3>2 DEF Agreed
    <3> QED
      BY <1>1, <1>5, <3>2, <3>3 DEF Matches
  <2>2. Coming(r) => Coming(w)
    BY <1>8 DEF Coming
  <2>3. Coming(r) => /\ Current(r.camp) = NoWork
                     /\ r.camp.state # "executing" => r.camp.appt = NoAppointment
    BY <1>1, <1>3, <2>2 DEF Agreed
  <2>4. Due(r) => \A b \in Workers : ~Advanced(r, b)
    BY <1>3, <1>8 DEF Agreed
  <2>5. ~(Advanced(r, "chain") /\ Advanced(r, "boot"))
    BY <1>3, <1>8 DEF Agreed, Workers
  <2> QED
    BY <2>1, <2>3, <2>4, <2>5 DEF Agreed
<1>10. \A i : StopWaits(r, i) <=> StopWaits(w, i)
  BY <1>1, <1>4, StaysHeeded
<1>11. ASSUME w.camp.state = "executing" PROVE Pursued(r)
  <2>1. Pursued(w)
    BY <1>3, <1>11 DEF Kept
  <2>2. ASSUME NEW b \in Workers, Decides(w, b) PROVE Decides(r, b)
    <3>1. b # a /\ Holds(w, b)
      BY <2>2 DEF Decides, Past
    <3>2. r.busy[b] = w.busy[b] /\ Holds(r, b)
      BY <1>7, <3>1
    <3> QED
      BY <1>1, <1>5, <2>2, <3>2 DEF Decides
  <2>3. ASSUME NEW b \in Workers, Advanced(w, b) PROVE Advanced(r, b)
    BY <1>7, <2>3 DEF Past
  <2>4. \A i : Relevant(w, i) => Relevant(r, i)
    BY <1>1, <1>10 DEF Relevant
  <2>5. r.camp = w.camp /\ r.work = w.work /\ r.settleChain = w.settleChain /\ r.alarms = w.alarms
        /\ RowsOf(r) = RowsOf(w)
    BY <1>1
  <2> QED
    BY <2>1, <2>2, <2>3, <2>4, <2>5 DEF Pursued
<1>12. ASSUME w.camp.state = "executing" PROVE Heeded(r)
  <2>1. Heeded(w)
    BY <1>3, <1>12 DEF Kept, Heeded
  <2> QED
    BY <1>1, <1>4, <2>1, StaysHeeded
<1> QED
  BY <1>5, <1>9, <1>11, <1>12

LEMMA RestPast ==
  ASSUME NEW w, Typed(w), Sane(w), NEW a \in Workers, Past(w, a), NEW r, r = AtRest(w, a)
  PROVE  /\ Typed(r) /\ r.camp = w.camp /\ r.work = w.work /\ r.settleChain = w.settleChain
         /\ r.alarms = w.alarms /\ r.busy[a].at \in {"rest", "tail"}
         /\ a = "boot" => r.busy[a].at # "rest"
         /\ \A o \in Workers : o # a => r.busy[o] = w.busy[o]
         /\ Core(r) /\ Agreed(r)
         /\ w.camp.state = "executing" => Pursued(r)
         /\ w.camp.state = "executing" => Heeded(r)
<1>1. /\ Typed(r) /\ r.camp = w.camp /\ r.work = w.work /\ r.settleChain = w.settleChain
      /\ r.alarms = w.alarms /\ r.busy[a].at = (IF a = "boot" THEN "tail" ELSE "rest")
      /\ \A o \in Workers : o # a => r.busy[o] = w.busy[o]
  BY RestTyped
<1>2. /\ r.busy[a].at \in {"rest", "tail"} /\ (a = "boot" => r.busy[a].at # "rest")
      /\ a = "chain" => r.busy[a].at = "rest"
  BY <1>1
<1>3. /\ Core(r) /\ Agreed(r)
      /\ w.camp.state = "executing" => Pursued(r)
      /\ w.camp.state = "executing" => Heeded(r)
  BY <1>1, <1>2, PastRests
<1> QED
  BY <1>1, <1>2, <1>3

\* The timer of the next delivery round is set.
LEMMA ToldParkedSound ==
  ASSUME NEW w, Typed(w), Sane(w), NEW a \in Workers, w.busy[a].at = "parked",
         NEW c, c = w.busy[a].copy
  PROVE  Sound(w, Sets(AtRest(w, a), [kind |-> "revive", of |-> c.appt]))
<1> DEFINE h == [kind |-> "revive", of |-> c.appt]
           r == AtRest(w, a)
           v == Sets(r, h)
<1>1. Past(w, a)
  BY DEF Past, Holds, Advanced, Deciding
<1> HIDE DEF h, r, v
<1> SUFFICES Sound(w, v)
  BY DEF v, h, r
<1>2. /\ Typed(r) /\ r.camp = w.camp /\ r.work = w.work /\ r.settleChain = w.settleChain
      /\ r.alarms = w.alarms
      /\ a = "boot" => r.busy[a].at # "rest"
      /\ \A o \in Workers : o # a => r.busy[o] = w.busy[o]
      /\ Core(r) /\ Agreed(r)
      /\ w.camp.state = "executing" => Pursued(r)
      /\ w.camp.state = "executing" => Heeded(r)
  BY <1>1, RestPast DEF r
<1>3. h \in Alarms /\ h.kind = "revive"
  <2>1. c.appt \in Nat
    BY CampConstants DEF Typed, Worlds, Occupations, CampStates, Appointments, NoAppointment
  <2> QED
    BY <2>1 DEF h, Alarms
<1>4. /\ Typed(v) /\ v.camp = r.camp /\ v.work = r.work /\ v.settleChain = r.settleChain
      /\ v.busy = r.busy /\ v.alarms = r.alarms \cup {h} /\ RowsOf(v) = RowsOf(r)
  BY <1>2, <1>3, SetsTyped DEF v
<1>5. Core(v) /\ Agreed(v) /\ (Heeded(r) => Heeded(v))
  BY <1>2, <1>3, <1>4, AlarmCore
<1>6. Pursued(r) => Pursued(v)
  <2>1. \A b : /\ Decides(r, b) => Decides(v, b)
               /\ Advanced(r, b) => Advanced(v, b)
    BY <1>4 DEF Decides, Holds, Advanced, Tip, NewestOf
  <2>2. \A i : Relevant(r, i) => Relevant(v, i)
    BY <1>4 DEF Relevant, StopWaits, AboutIn, SameTree, RootOf
  <2>3. /\ v.camp = r.camp /\ v.work = r.work /\ v.settleChain = r.settleChain
        /\ RowsOf(v) = RowsOf(r) /\ \A u \in r.alarms : u \in v.alarms
    BY <1>4
  <2> QED
    BY <2>1, <2>2, <2>3 DEF Pursued
<1>7. Waited(w) => Waited(v)
  <2>1. CASE w.busy["boot"].at # "rest"
    <3>1. v.busy["boot"].at # "rest"
      BY <1>2, <1>4, <2>1 DEF Workers
    <3> QED
      BY <3>1 DEF Waited
  <2>2. CASE [kind |-> "revive", of |-> w.camp.appt] \in w.alarms
    BY <1>2, <1>4, <2>2 DEF Waited
  <2>3. CASE w.busy["chain"].at = "parked" /\ w.busy["chain"].copy.appt = w.camp.appt
    <3>1. CASE a = "chain"
      <4>1. h = [kind |-> "revive", of |-> v.camp.appt] /\ h \in v.alarms
        BY <1>2, <1>4, <2>3, <3>1 DEF h
      <4> QED
        BY <4>1 DEF Waited
    <3>2. CASE a = "boot"
      <4>1. v.busy["boot"].at # "rest"
        BY <1>2, <1>4, <3>2
      <4> QED
        BY <4>1 DEF Waited
    <3> QED
      BY <3>1, <3>2 DEF Workers
  <2> QED
    BY <2>1, <2>2, <2>3 DEF Waited
<1>8. Kept(v)
  BY <1>2, <1>4, <1>5, <1>6, <1>7 DEF Kept, Heeded, Sane
<1>9. Hushed(w, v) /\ v.camp.gen <= w.camp.gen
  BY <1>2, <1>4, SameHushed
<1> QED
  BY <1>4, <1>5, <1>8, <1>9 DEF Sound, Sane

\* The timers do not matter to the rows.
LEMMA AlarmsAside ==
  ASSUME NEW w, NEW v, v.camp = w.camp, v.work = w.work, v.busy = w.busy,
         v.settleChain = w.settleChain,
         \A s \in Sprints : [kind |-> "reconcile", of |-> s] \in v.alarms
                              => [kind |-> "reconcile", of |-> s] \in w.alarms
  PROVE  (Core(w) => Core(v)) /\ (Heeded(w) => Heeded(v)) /\ Tip(v) = Tip(w)
<1>1. /\ RowsOf(v) = RowsOf(w) /\ Tip(v) = Tip(w) /\ \A t : NewestOf(v, t) = NewestOf(w, t)
      /\ \A t, u : SameTree(v, t, u) <=> SameTree(w, t, u)
  BY DEF RowsOf, Tip, NewestOf, SameTree, RootOf
<1>2. ASSUME Core(w) PROVE Orderly(v) /\ OneTip(v)
  <2>1. \A t : Active(v, t) <=> Active(w, t)
    BY <1>1 DEF Active, Continuable
  <2> QED
    BY <1>1, <1>2, <2>1 DEF Core, Orderly, OneTip
<1>3. ASSUME Core(w) PROVE Looked(v)
  <2>1. \A s \in Sprints : Pending(v, s) => Pending(w, s)
    BY DEF Pending
  <2> QED
    BY <1>3, <2>1 DEF Core, Looked
<1>4. \A i : StopWaits(v, i) <=> StopWaits(w, i)
  BY <1>1 DEF StopWaits, AboutIn
<1> QED
  BY <1>1, <1>2, <1>3, <1>4 DEF Core, Heeded

\* The submission after an advance is armed.
LEMMA ToldAdvancedSound ==
  ASSUME NEW w, Typed(w), Sane(w), NEW a \in Workers, w.busy[a].at = "advanced",
         NEW c, c = w.busy[a].copy
  PROVE  Sound(w, Sets(AtRest(w, a), [kind |-> "resubmit", of |-> c.gen]))
<1> DEFINE h == [kind |-> "resubmit", of |-> c.gen]
           r == AtRest(w, a)
           v == Sets(r, h)
<1> HIDE DEF h, r, v
<1> SUFFICES Sound(w, v)
  BY DEF v, h, r
<1>1. /\ Typed(r) /\ r.camp = w.camp /\ r.work = w.work /\ r.settleChain = w.settleChain
      /\ r.alarms = w.alarms /\ r.busy[a].at = (IF a = "boot" THEN "tail" ELSE "rest")
      /\ \A o \in Workers : o # a => r.busy[o] = w.busy[o]
      /\ RowsOf(r) = RowsOf(w)
  BY RestTyped DEF r
<1>2. c.gen \in Nat /\ w.camp.gen \in Nat /\ c.gen <= w.camp.gen
  BY DEF Typed, Worlds, Occupations, CampStates
<1>3. h \in Alarms /\ h.kind = "resubmit" /\ h.of = c.gen
  BY <1>2 DEF h, Alarms
<1>4. /\ Typed(v) /\ v.camp = r.camp /\ v.work = r.work /\ v.settleChain = r.settleChain
      /\ v.busy = r.busy /\ v.alarms = r.alarms \cup {h} /\ RowsOf(v) = RowsOf(r)
  BY <1>1, <1>2, <1>3, SetsTyped DEF v
<1>5. Hushed(w, v) /\ v.camp.gen <= w.camp.gen
  BY <1>1, <1>4, SameHushed
<1>6. CASE c.gen = w.camp.gen
  <2>1. Advanced(w, a) /\ Coming(w)
    BY <1>6 DEF Advanced, Coming
  <2>2. Core(w) /\ Agreed(w) /\ Kept(w)
    BY DEF Sane
  <2>3. /\ Current(w.camp) = NoWork
        /\ w.camp.state # "executing" => w.camp.appt = NoAppointment
    BY <2>1, <2>2 DEF Agreed
  <2>4. \A b \in Workers : b # a => ~Advanced(w, b)
    BY <2>1, <2>2 DEF Agreed, Workers
  <2>5. Core(r)
    <3>1. Orderly(r) /\ Stays(w, r)
      BY <2>2, RestFrees DEF r, Core
    <3> QED
      BY <2>2, <3>1, StayCore
  <2>6. Core(v)
    <3>1. \A s \in Sprints : [kind |-> "reconcile", of |-> s] \in v.alarms
                               => [kind |-> "reconcile", of |-> s] \in r.alarms
      BY <1>3, <1>4
    <3> QED
      BY <1>4, <2>5, <3>1, AlarmsAside
  <2>7. \A b \in Workers : ~Holds(v, b) /\ ~Advanced(v, b)
    <3>1. ~Holds(v, a) /\ ~Advanced(v, a)
      BY <1>1, <1>4 DEF Holds, Advanced, Deciding
    <3>2. ASSUME NEW b \in Workers, b # a PROVE ~Holds(v, b) /\ ~Advanced(v, b)
      <4>1. v.busy[b] = w.busy[b] /\ v.camp = w.camp
        BY <1>1, <1>4, <3>2
      <4>2. ~Advanced(v, b)
        BY <2>4, <3>2, <4>1 DEF Advanced
      <4>3. ~Holds(w, b)
        BY <2>2, <2>3 DEF Agreed, Matches, Core, Orderly, Holds
      <4> QED
        BY <4>1, <4>2, <4>3 DEF Holds
    <3> QED
      BY <3>1, <3>2
  <2>8. Agreed(v)
    <3>1. Current(v.camp) = NoWork /\ (v.camp.state # "executing" => v.camp.appt = NoAppointment)
      BY <1>1, <1>4, <2>3
    <3>2. ~Advanced(v, "chain")
      BY <2>7 DEF Workers
    <3> QED
      BY <2>7, <3>1, <3>2 DEF Agreed
  <2>9. Pursued(v)
    BY <1>3, <1>4 DEF Pursued
  <2>10. w.camp.state = "executing" => (Heeded(w) => Heeded(v))
    <3>1. Heeded(w) => Heeded(r)
      <4>1. Stays(w, r) /\ r.camp = w.camp
        BY <1>1, AppointsTrans DEF Stays
      <4> QED
        BY <4>1, StaysHeeded
    <3>2. Heeded(r) => Heeded(v)
      <4>1. \A s \in Sprints : [kind |-> "reconcile", of |-> s] \in v.alarms
                                 => [kind |-> "reconcile", of |-> s] \in r.alarms
        BY <1>3, <1>4
      <4> QED
        BY <1>4, <4>1, AlarmsAside
    <3> QED
      BY <3>1, <3>2
  <2>11. Kept(v)
    BY <1>1, <1>4, <2>2, <2>3, <2>9, <2>10 DEF Kept, Heeded
  <2> QED
    BY <1>4, <1>5, <2>6, <2>8, <2>11 DEF Sound, Sane
<1>7. CASE c.gen # w.camp.gen
  <2>1. Past(w, a)
    BY <1>7 DEF Past, Holds, Advanced, Deciding
  <2>2. /\ r.busy[a].at \in {"rest", "tail"} /\ (a = "boot" => r.busy[a].at # "rest")
        /\ Core(r) /\ Agreed(r)
        /\ w.camp.state = "executing" => Pursued(r)
        /\ w.camp.state = "executing" => Heeded(r)
    BY <2>1, RestPast DEF r
  <2>3. Waited(w) => Waited(r)
    <3>1. w.busy["boot"].at # "rest" => r.busy["boot"].at # "rest"
      BY <1>1 DEF Workers
    <3>2. w.busy["chain"].at = "parked" => r.busy["chain"] = w.busy["chain"]
      BY <1>1 DEF Workers
    <3> QED
      BY <1>1, <3>1, <3>2 DEF Waited
  <2>4. Kept(r)
    BY <1>1, <2>2, <2>3 DEF Kept, Heeded, Sane
  <2>5. Core(v) /\ Agreed(v) /\ Kept(v)
    BY <1>1, <1>3, <1>4, <1>7, <2>2, <2>4, AlarmCore
  <2> QED
    BY <1>4, <1>5, <2>5 DEF Sound, Sane
<1> QED
  BY <1>6, <1>7

LEMMA ToldHolds ==
  ASSUME IInv, NEW a \in Workers, Told(a)
  PROVE  IInv' /\ Quiet
<1> DEFINE w == World
           c == w.busy[a].copy
           r == AtRest(w, a)
           k == TRUE
           g == [kind |-> "resubmit", of |-> c.gen]
           h == [kind |-> "revive", of |-> c.appt]
<1>1. Undisturbed /\ ~raced
  BY DEF Told, Undisturbed, Unasked
<1>2. Typed(w) /\ Sane(w)
  BY <1>1 DEF IInv, IType
<1>3. \E v : /\ Happens(v)
             /\ \/ w.busy[a].at = "advanced" /\ v = Sets(r, g)
                \/ w.busy[a].at = "parked" /\ v = Sets(r, h)
                \/ w.busy[a].at = "overran" /\ v \in SubmitsSprint(r, c, k)
  <2>1. CASE w.busy[a].at = "advanced"
    BY <2>1, WorldIs DEF Told, Held, Done
  <2>2. CASE w.busy[a].at = "parked"
    BY <2>2, WorldIs DEF Told, Held, Done
  <2>3. CASE w.busy[a].at = "overran"
    BY <2>3, WorldIs DEF Told, Held, Done
  <2> QED
    BY <2>1, <2>2, <2>3, WorldIs DEF Told
<1>4. k \in BOOLEAN
  OBVIOUS
<1> HIDE DEF w, k, r, g, h
<1>5. PICK v : /\ Happens(v)
               /\ \/ w.busy[a].at = "advanced" /\ v = Sets(r, g)
                  \/ w.busy[a].at = "parked" /\ v = Sets(r, h)
                  \/ w.busy[a].at = "overran" /\ v \in SubmitsSprint(r, c, k)
  BY <1>3
<1>6. CASE w.busy[a].at = "advanced" /\ v = Sets(r, g)
  <2>1. Sound(w, Sets(AtRest(w, a), [kind |-> "resubmit", of |-> c.gen]))
    BY <1>2, <1>6, ToldAdvancedSound
  <2>2. Sound(w, v)
    BY <1>6, <2>1 DEF r, g
  <2> QED
    BY <1>1, <1>5, <2>2, StepSound DEF w
<1>7. CASE w.busy[a].at = "parked" /\ v = Sets(r, h)
  <2>1. Sound(w, Sets(AtRest(w, a), [kind |-> "revive", of |-> c.appt]))
    BY <1>2, <1>7, ToldParkedSound
  <2>2. Sound(w, v)
    BY <1>7, <2>1 DEF r, h
  <2> QED
    BY <1>1, <1>5, <2>2, StepSound DEF w
<1>8. CASE w.busy[a].at = "overran" /\ v \in SubmitsSprint(r, c, k)
  <2>1. w.busy[a].at \in Deciding
    BY <1>8 DEF Deciding
  <2>2. Sound(w, v)
    BY <1>2, <1>4, <1>8, <2>1, ToldSubmitSound DEF r
  <2> QED
    BY <1>1, <1>5, <2>2, StepSound DEF w
<1> QED
  BY <1>5, <1>6, <1>7, <1>8

---------------------------------------------------------------------------
\* The timers.

\* A timer rings.
Rung(w, h) == [w EXCEPT !.alarms = @ \ {h}]

LEMMA RungIs ==
  ASSUME NEW w, Typed(w), NEW h, NEW x, x = Rung(w, h)
  PROVE  /\ Typed(x) /\ x.camp = w.camp /\ x.work = w.work /\ x.settleChain = w.settleChain
         /\ x.busy = w.busy /\ x.made = w.made /\ x.alarms = w.alarms \ {h} /\ RowsOf(x) = RowsOf(w)
         /\ SameLines(w, x)
<1>1. w \in Worlds
  BY DEF Typed
<1>2. /\ x \in Worlds /\ x.camp = w.camp /\ x.work = w.work /\ x.settleChain = w.settleChain
      /\ x.busy = w.busy /\ x.made = w.made /\ x.alarms = w.alarms \ {h}
  BY <1>1 DEF Rung, Worlds
<1>3. SameLines(w, x)
  BY <1>2 DEF SameLines
<1>4. Typed(x)
  <2>1. x.alarms \subseteq w.alarms
    BY <1>2
  <2> QED
    BY <1>2, <1>3, <2>1, TurnedTyped DEF Turned
<1> QED
  BY <1>2, <1>3, <1>4 DEF RowsOf

LEMMA RungSame ==
  ASSUME NEW w, Typed(w), Sane(w), NEW h, NEW x, x = Rung(w, h)
  PROVE  /\ Core(x) /\ Tip(x) = Tip(w) /\ (Heeded(w) => Heeded(x))
         /\ \A a \in Workers : /\ Holds(x, a) <=> Holds(w, a)
                               /\ Advanced(x, a) <=> Advanced(w, a)
                               /\ Decides(x, a) <=> Decides(w, a)
         /\ Due(x) => Due(w)
         /\ \A i : (StopWaits(x, i) <=> StopWaits(w, i)) /\ (Relevant(x, i) <=> Relevant(w, i))
         /\ Agreed(x) /\ (Silent(w) <=> Silent(x)) /\ Hushed(w, x)
<1>1. /\ Typed(x) /\ x.camp = w.camp /\ x.work = w.work /\ x.settleChain = w.settleChain
      /\ x.busy = w.busy /\ x.alarms = w.alarms \ {h} /\ RowsOf(x) = RowsOf(w)
  BY RungIs
<1>2. Core(x) /\ Tip(x) = Tip(w) /\ (Heeded(w) => Heeded(x))
  <2>1. \A s \in Sprints : [kind |-> "reconcile", of |-> s] \in x.alarms
                           => [kind |-> "reconcile", of |-> s] \in w.alarms
    BY <1>1
  <2> QED
    BY <1>1, <2>1, AlarmsAside DEF Sane
<1>3. \A a \in Workers : /\ Holds(x, a) <=> Holds(w, a)
                         /\ Advanced(x, a) <=> Advanced(w, a)
                         /\ Decides(x, a) <=> Decides(w, a)
  BY <1>1, <1>2 DEF Holds, Advanced, Decides
<1>4. Due(x) => Due(w)
  BY <1>1 DEF Due
<1>5. \A t, u : SameTree(x, t, u) <=> SameTree(w, t, u)
  BY <1>1 DEF SameTree, RootOf
<1>6. \A i : (StopWaits(x, i) <=> StopWaits(w, i)) /\ (Relevant(x, i) <=> Relevant(w, i))
  BY <1>1, <1>5 DEF StopWaits, Relevant, AboutIn
<1>7. Agreed(x)
  <2>1. "chain" \in Workers /\ "boot" \in Workers
    BY DEF Workers
  <2>2. Coming(x) => Coming(w)
    BY <1>3, <1>4 DEF Coming
  <2>3. Agreed(w)
    BY DEF Sane
  <2> QED
    BY <1>1, <1>2, <1>3, <1>4, <2>1, <2>2, <2>3 DEF Agreed, Matches
<1>8. Silent(w) <=> Silent(x)
  BY <1>1, <1>5 DEF Silent, StoppedByPerson
<1>9. Hushed(w, x)
  BY <1>1, SameHushed
<1> QED
  BY <1>2, <1>3, <1>4, <1>6, <1>7, <1>8, <1>9

LEMMA RungPursued ==
  ASSUME NEW w, Typed(w), Sane(w), NEW h, h.kind = "revive", NEW x, x = Rung(w, h), Pursued(w)
  PROVE  Pursued(x)
<1>1. /\ x.camp = w.camp /\ x.work = w.work /\ x.settleChain = w.settleChain
      /\ x.alarms = w.alarms \ {h} /\ RowsOf(x) = RowsOf(w)
  BY RungIs
<1>2. \A a \in Workers : /\ Advanced(x, a) <=> Advanced(w, a)
                         /\ Decides(x, a) <=> Decides(w, a)
  BY RungSame
<1>3. \A i : Relevant(x, i) <=> Relevant(w, i)
  BY RungSame
<1>4. \A g \in w.alarms : g.kind # "revive" => g \in x.alarms
  BY <1>1
<1>5. CASE \E a \in Workers : Decides(w, a) \/ Advanced(w, a)
  BY <1>2, <1>5 DEF Pursued
<1>6. CASE \E g \in w.alarms : g.kind = "resubmit"
  BY <1>4, <1>6 DEF Pursued
<1>7. CASE [kind |-> "reconcile", of |-> w.camp.cur] \in w.alarms
  <2>1. [kind |-> "reconcile", of |-> w.camp.cur] \in x.alarms
    BY <1>4, <1>7
  <2> QED
    BY <1>1, <2>1 DEF Pursued
<1>8. CASE \E t \in RowsOf(w) : w.work[t].st = "live" /\ Current(w.camp) \in w.work[t].line
  BY <1>1, <1>8 DEF Pursued
<1>9. CASE \E i \in 1..Len(w.settleChain) : Relevant(w, i)
  BY <1>1, <1>3, <1>9 DEF Pursued
<1> QED
  BY <1>5, <1>6, <1>7, <1>8, <1>9 DEF Pursued

LEMMA RungKept ==
  ASSUME NEW w, Typed(w), Sane(w), NEW h, h.kind = "revive", NEW x, x = Rung(w, h),
         w.camp.state = "failed" /\ w.camp.appt # NoAppointment => h.of # w.camp.appt
  PROVE  Sound(w, x)
<1>1. /\ Typed(x) /\ x.camp = w.camp /\ x.settleChain = w.settleChain
      /\ x.busy = w.busy /\ x.alarms = w.alarms \ {h}
  BY RungIs
<1>2. Core(x) /\ Agreed(x) /\ Hushed(w, x) /\ (Heeded(w) => Heeded(x))
  BY RungSame
<1>3. w.camp.state = "executing" => Pursued(x)
  BY RungPursued DEF Sane, Kept
<1>4. ASSUME w.camp.state = "failed", w.camp.appt # NoAppointment PROVE Waited(x)
  <2>1. Waited(w)
    BY <1>4 DEF Sane, Kept
  <2>2. [kind |-> "revive", of |-> w.camp.appt] # h
    BY <1>4
  <2> QED
    BY <1>1, <2>1, <2>2 DEF Waited
<1>5. Kept(x)
  BY <1>1, <1>2, <1>3, <1>4 DEF Kept, Heeded, Sane
<1>6. x.camp.gen <= w.camp.gen
  BY <1>1 DEF Typed, Worlds, CampStates
<1> QED
  BY <1>1, <1>2, <1>5, <1>6 DEF Sound, Sane

---------------------------------------------------------------------------
\* The grace of a sprint ends.
LEMMA GraceSound ==
  ASSUME NEW w, Typed(w), Sane(w), NEW s \in Sprints, NEW h, h = [kind |-> "reconcile", of |-> s],
         h \in w.alarms, NEW q, q = [what |-> "reconcile", of |-> s, gen |-> 0],
         NEW x, x = Rung(w, h), NEW v, v = Requeued(x, Append(w.settleChain, q))
  PROVE  Sound(w, v)
<1>1. /\ Typed(x) /\ x.camp = w.camp /\ x.work = w.work /\ x.settleChain = w.settleChain
      /\ x.busy = w.busy /\ x.alarms = w.alarms \ {h} /\ RowsOf(x) = RowsOf(w)
  BY RungIs
<1>2. w.settleChain \in Seq(Handlings) /\ q \in Handlings
  BY CampConstants DEF Typed, Worlds, Handlings
<1>3. Append(w.settleChain, q) \in Seq(Handlings)
  BY <1>2
<1>4. /\ Typed(v) /\ v.camp = x.camp /\ v.work = x.work /\ v.settleChain = Append(w.settleChain, q)
      /\ v.busy = x.busy /\ v.alarms = x.alarms /\ RowsOf(v) = RowsOf(x)
  <2> DEFINE k == Append(w.settleChain, q)
  <2>1. k \in Seq(Handlings) /\ v = Requeued(x, k)
    BY <1>3
  <2> HIDE DEF k
  <2>2. /\ Typed(v) /\ v.camp = x.camp /\ v.work = x.work /\ v.settleChain = k
        /\ v.busy = x.busy /\ v.alarms = x.alarms /\ RowsOf(v) = RowsOf(x)
    BY <1>1, <2>1, ChainTyped
  <2> QED
    BY <2>2 DEF k
<1>5. /\ v.camp = w.camp /\ v.work = w.work /\ v.busy = w.busy /\ v.alarms = w.alarms \ {h}
      /\ RowsOf(v) = RowsOf(w)
  BY <1>1, <1>4
<1>6. LET n == Len(w.settleChain) IN
      /\ Len(v.settleChain) = n + 1 /\ n \in Nat /\ v.settleChain[n + 1] = q
      /\ \A i \in 1..n : v.settleChain[i] = w.settleChain[i] /\ i \in 1..Len(v.settleChain)
  BY <1>2, <1>4
<1>7. /\ Tip(v) = Tip(w) /\ \A t : NewestOf(v, t) = NewestOf(w, t)
      /\ \A t, u : SameTree(v, t, u) <=> SameTree(w, t, u)
  BY <1>5 DEF RowsOf, Tip, NewestOf, SameTree, RootOf
<1>8. Core(w) /\ Agreed(w) /\ Kept(w)
  BY DEF Sane
<1>9. Orderly(v) /\ OneTip(v)
  <2>1. \A t : Active(v, t) <=> Active(w, t)
    BY <1>5, <1>7 DEF Active, Continuable
  <2> QED
    BY <1>5, <1>7, <1>8, <2>1 DEF Core, Orderly, OneTip
<1>10. Looked(v)
  <2>1. ASSUME NEW z \in Sprints, Pending(v, z) PROVE Pending(w, z)
    <3>1. CASE [kind |-> "reconcile", of |-> z] \in v.alarms
      BY <1>5, <3>1 DEF Pending
    <3>2. CASE \E i \in 1..Len(v.settleChain) : v.settleChain[i].what = "reconcile" /\ v.settleChain[i].of = z
      <4>1. PICK i \in 1..Len(v.settleChain) : v.settleChain[i].what = "reconcile" /\ v.settleChain[i].of = z
        BY <3>2
      <4>2. CASE i \in 1..Len(w.settleChain)
        BY <1>6, <4>1, <4>2 DEF Pending
      <4>3. CASE i \notin 1..Len(w.settleChain)
        <5>1. i = Len(w.settleChain) + 1
          BY <1>6, <4>1, <4>3
        <5>2. z = s
          BY <1>6, <4>1, <5>1
        <5> QED
          BY <5>2 DEF Pending
      <4> QED
        BY <4>2, <4>3
    <3> QED
      BY <2>1, <3>1, <3>2 DEF Pending
  <2> QED
    BY <1>5, <1>8, <2>1 DEF Core, Looked
<1>11. \A a \in Workers : /\ Holds(v, a) <=> Holds(w, a)
                          /\ Advanced(v, a) <=> Advanced(w, a)
                          /\ Decides(v, a) <=> Decides(w, a)
  BY <1>5, <1>7 DEF Holds, Advanced, Decides
<1>12. Agreed(v)
  <2>1. "chain" \in Workers /\ "boot" \in Workers
    BY DEF Workers
  <2>2. Due(v) <=> Due(w)
    BY <1>5 DEF Due
  <2>3. Coming(v) <=> Coming(w)
    BY <1>11, <2>2 DEF Coming
  <2> QED
    BY <1>5, <1>7, <1>8, <1>11, <2>1, <2>2, <2>3 DEF Agreed, Matches
<1>13. \A i \in 1..Len(w.settleChain) :
         /\ StopWaits(w, i) => StopWaits(v, i)
         /\ Relevant(w, i) => Relevant(v, i)
         /\ i \in 1..Len(v.settleChain)
  BY <1>5, <1>6, <1>7 DEF StopWaits, Relevant, AboutIn
<1>14. Pursued(w) => Pursued(v)
  <2>1. CASE \E a \in Workers : Decides(w, a) \/ Advanced(w, a)
    BY <1>11, <2>1 DEF Pursued
  <2>2. CASE \E g \in w.alarms : g.kind = "resubmit"
    BY <1>5, <2>2 DEF Pursued
  <2>3. CASE [kind |-> "reconcile", of |-> w.camp.cur] \in w.alarms
    <3>1. CASE s = w.camp.cur
      <4>1. Relevant(v, Len(w.settleChain) + 1)
        BY <1>5, <1>6, <3>1 DEF Relevant
      <4>2. Len(w.settleChain) + 1 \in 1..Len(v.settleChain)
        BY <1>6
      <4> QED
        BY <4>1, <4>2 DEF Pursued
    <3>2. CASE s # w.camp.cur
      <4>1. [kind |-> "reconcile", of |-> w.camp.cur] # h
        BY <3>2
      <4>2. [kind |-> "reconcile", of |-> v.camp.cur] \in v.alarms
        BY <1>5, <2>3, <4>1
      <4> QED
        BY <4>2 DEF Pursued
    <3> QED
      BY <3>1, <3>2
  <2>4. CASE \E t \in RowsOf(w) : w.work[t].st = "live" /\ Current(w.camp) \in w.work[t].line
    BY <1>5, <2>4 DEF Pursued
  <2>5. CASE \E i \in 1..Len(w.settleChain) : Relevant(w, i)
    BY <1>13, <2>5 DEF Pursued
  <2> QED
    BY <2>1, <2>2, <2>3, <2>4, <2>5 DEF Pursued
<1>15. Waited(w) => Waited(v)
  <2>1. [kind |-> "revive", of |-> w.camp.appt] # h
    OBVIOUS
  <2> QED
    BY <1>5, <2>1 DEF Waited
<1>16. Kept(v)
  <2>1. (\E i \in 1..Len(w.settleChain) : StopWaits(w, i)) => \E i \in 1..Len(v.settleChain) : StopWaits(v, i)
    BY <1>13
  <2> QED
    BY <1>5, <1>8, <1>14, <1>15, <2>1 DEF Kept
<1>17. Hushed(w, v) /\ v.camp.gen <= w.camp.gen
  BY <1>5, SameHushed
<1> QED
  BY <1>4, <1>9, <1>10, <1>12, <1>16, <1>17 DEF Sound, Sane, Core

LEMMA GraceEndsHolds ==
  ASSUME IInv, NEW s \in Sprints, GraceEnds(s)
  PROVE  IInv' /\ Quiet
<1> DEFINE w == World
           h == [kind |-> "reconcile", of |-> s]
           q == [what |-> "reconcile", of |-> s, gen |-> 0]
           x == Rung(w, h)
           v == Requeued(x, Append(w.settleChain, q))
<1>1. Undisturbed /\ ~raced /\ h \in w.alarms
  BY WorldIs DEF GraceEnds, Rings, Undisturbed, Unasked
<1>2. Happens(v)
  BY WorldIs DEF GraceEnds, Silenced, Rung, Requeued, World
<1>3. Typed(w) /\ Sane(w)
  BY <1>1 DEF IInv, IType
<1> HIDE DEF w, h, q, x
<1>4. Sound(w, v)
  BY <1>1, <1>3, GraceSound DEF h, q, x
<1> HIDE DEF v
<1> QED
  BY <1>1, <1>2, <1>4, StepSound DEF w

\* The one submission of the next sprint.
LEMMA DueSound ==
  ASSUME NEW w, Typed(w), Sane(w), w.camp.state = "executing",
         NEW h, h = [kind |-> "resubmit", of |-> w.camp.gen], h \in w.alarms,
         NEW x, x = Rung(w, h), NEW k \in BOOLEAN, NEW v \in SubmitsSprint(x, w.camp, k)
  PROVE  Sound(w, v)
<1>1. /\ Typed(x) /\ x.camp = w.camp /\ x.alarms = w.alarms \ {h} /\ SameLines(w, x)
  BY RungIs
<1>2. /\ Core(x) /\ \A a \in Workers : /\ Holds(x, a) <=> Holds(w, a)
                                       /\ Advanced(x, a) <=> Advanced(w, a)
  BY RungSame
<1>3. Agreed(w) /\ Orderly(w)
  BY DEF Sane, Core
<1>4. Due(w) /\ Coming(w)
  BY DEF Due, Coming
<1>5. Current(w.camp) = NoWork /\ (\A a \in Workers : ~Advanced(w, a))
  BY <1>3, <1>4 DEF Agreed
<1>6. \A a \in Workers : ~Holds(w, a)
  BY <1>3, <1>5 DEF Agreed, Matches, Orderly, Holds
<1>7. ~Due(x)
  BY <1>1 DEF Due
<1>8. Free(x)
  BY <1>2, <1>5, <1>6, <1>7 DEF Free, Unheld, Coming
<1>9. w.camp \in CampStates /\ Known(x, w.camp) /\ Abreast(x, w.camp)
  BY <1>1 DEF Typed, Worlds, Abreast
<1>10. Silent(w) => x.camp.stop
  BY <1>1 DEF Silent
<1>11. x.camp.gen = w.camp.gen /\ (w.camp.stop => x.camp.stop)
  BY <1>1
<1> QED
  BY <1>1, <1>2, <1>8, <1>9, <1>10, <1>11, SubmitSound

LEMMA NextSprintHolds ==
  ASSUME IInv, NEW g \in 0..MaxWishes, NextSprint(g)
  PROVE  IInv' /\ Quiet
<1> DEFINE w == World
           h == [kind |-> "resubmit", of |-> g]
           x == Rung(w, h)
           k == TRUE
<1>1. Unasked /\ ~raced /\ h \in w.alarms /\ raced' = (camp.state = "executing" /\ camp.gen # g)
  BY WorldIs DEF NextSprint, Unasked
<1>2. PICK v \in (IF w.camp.state = "executing" THEN SubmitsSprint(x, w.camp, k) ELSE {x}) : Happens(v)
  BY WorldIs DEF NextSprint, Silenced, Rung
<1>3. Typed(w) /\ Sane(w) /\ k \in BOOLEAN
  BY <1>1 DEF IInv, IType
<1>4. w.camp = camp
  BY WorldIs
<1> HIDE DEF w, h, x, k
<1>5. /\ Typed(x) /\ x.camp = w.camp /\ x.alarms = w.alarms \ {h} /\ SameLines(w, x)
      /\ x.busy = w.busy /\ x.settleChain = w.settleChain
  BY <1>3, RungIs DEF x
<1>6. /\ Core(x) /\ Agreed(x) /\ Hushed(w, x) /\ (Silent(w) <=> Silent(x))
  BY <1>3, RungSame DEF x
<1>7. w.camp \in CampStates /\ Known(x, w.camp) /\ w.camp.gen \in Nat
  BY <1>3, <1>5 DEF Typed, Worlds, CampStates
<1>8. Typed(v) /\ v.camp.gen <= w.camp.gen /\ Hushed(w, v) /\ (~raced' => Sane(v))
  <2>1. CASE w.camp.state # "executing"
    <3>1. v = x
      BY <1>2, <2>1
    <3>2. h.kind = "resubmit"
      BY DEF h
    <3>3. Kept(x)
      <4>1. Waited(w) => Waited(x)
        <5>1. [kind |-> "revive", of |-> w.camp.appt] # h
          BY DEF h
        <5> QED
          BY <1>5, <5>1 DEF Waited
      <4> QED
        BY <1>3, <1>5, <2>1, <4>1 DEF Sane, Kept
    <3> QED
      BY <1>5, <1>6, <1>7, <3>1, <3>3 DEF Sane
  <2>2. CASE w.camp.state = "executing" /\ w.camp.gen = g
    <3>1. v \in SubmitsSprint(x, w.camp, k)
      BY <1>2, <2>2
    <3>2. h = [kind |-> "resubmit", of |-> w.camp.gen]
      BY <2>2 DEF h
    <3>3. w.camp.state = "executing" /\ h \in w.alarms /\ x = Rung(w, h)
      BY <1>1, <2>2 DEF x
    <3>4. Sound(w, v)
      BY <1>3, <3>1, <3>2, <3>3, DueSound
    <3> QED
      BY <3>4 DEF Sound
  <2>3. CASE w.camp.state = "executing" /\ w.camp.gen # g
    <3>1. v \in SubmitsSprint(x, w.camp, k)
      BY <1>2, <2>3
    <3>2. raced'
      BY <1>1, <1>4, <2>3
    <3>3. Typed(v) /\ v.camp.gen \in {x.camp.gen, w.camp.gen}
      BY <1>3, <1>5, <1>7, <3>1, SubmitsTyped
    <3>4. Silent(w) => Submitless(x, v) /\ Silent(v)
      <4> SUFFICES ASSUME Silent(w) PROVE Submitless(x, v) /\ Silent(v)
        OBVIOUS
      <4>1. x.camp.stop /\ Silent(x)
        BY <1>5, <1>6, <2>3 DEF Silent
      <4>2. w.camp.gen = x.camp.gen
        BY <1>5
      <4>3. Submitless(x, v) /\ (Silent(x) => Silent(v))
        BY <1>3, <1>5, <1>7, <3>1, <4>1, <4>2, SubmitSilent
      <4> QED
        BY <4>1, <4>3
    <3>5. Hushed(w, v)
      BY <1>5, <3>4, SubmitlessTrans DEF Hushed
    <3>6. v.camp.gen <= w.camp.gen
      BY <1>5, <1>7, <3>3
    <3> QED
      BY <3>2, <3>3, <3>5, <3>6
  <2> QED
    BY <2>1, <2>2, <2>3
<1>9. raced' \in BOOLEAN /\ World = w /\ v.camp.gen <= camp.gen
  <2>1. raced' \in BOOLEAN
    BY <1>1
  <2>2. World = w
    BY DEF w
  <2> QED
    BY <1>4, <1>8, <2>1, <2>2
<1> QED
  BY <1>1, <1>2, <1>8, <1>9, StepKeeps

---------------------------------------------------------------------------
\* An appointment is due.
LEMMA ParksSilent ==
  ASSUME NEW w, Typed(w), NEW c \in CampStates, Known(w, c), c.gen = w.camp.gen, w.camp.stop,
         NEW v \in Parks(w, c)
  PROVE  Submitless(w, v) /\ Silent(v)
<1>0. w.camp.gen \in Nat /\ ~Older(w, c) /\ Lineages(w)
  BY DEF Typed, Worlds, CampStates, Older
<1>1. Typed(v) /\ v.work = w.work
  BY ParksIs
<1>2. v.camp.stop = (c.stop \/ (w.camp.stop /\ w.camp.gen = c.gen))
  BY <1>0, ParksIs
<1>3. v.camp.stop
  BY <1>2
<1> QED
  BY <1>0, <1>1, <1>3, SubmitlessTrans DEF Silent

LEMMA ParksTyped ==
  ASSUME NEW w, Typed(w), NEW c \in CampStates, Known(w, c), NEW v \in Parks(w, c)
  PROVE  Typed(v) /\ v.camp.gen \in {w.camp.gen, c.gen}
<1>1. Typed(v)
  BY ParksIs
<1>2. Older(w, c) => v.camp.gen = w.camp.gen
  BY ParksIs
<1>3. ~Older(w, c) => v.camp.gen = c.gen
  BY ParksIs
<1> QED
  BY <1>1, <1>2, <1>3

Unappointed(c) == [c EXCEPT !.appt = NoAppointment]

LEMMA UnappointedCopy ==
  ASSUME NEW c \in CampStates, NEW d, d = Unappointed(c)
  PROVE  /\ d \in CampStates /\ d.state = c.state /\ d.appt = NoAppointment /\ d.cur = c.cur
         /\ d.gen = c.gen /\ d.stop = c.stop /\ Current(d) = Current(c)
         /\ \A w : Known(w, c) => Known(w, d)
<1>1. /\ d \in CampStates /\ d.state = c.state /\ d.appt = NoAppointment /\ d.cur = c.cur
      /\ d.gen = c.gen /\ d.stop = c.stop /\ d.sprint = c.sprint
  BY DEF Unappointed, CampStates
<1> QED
  BY <1>1 DEF Current, Known

\* A person stopped the work: the appointment lapses.
LEMMA LapsesSound ==
  ASSUME NEW w, Typed(w), Sane(w), w.camp.state = "failed", StoppedByPerson(w, Current(w.camp)),
         NEW h, NEW x, x = Rung(w, h), NEW d, d = Unappointed(w.camp), NEW v, v = Saves(x, d)
  PROVE  Sound(w, v)
<1>1. /\ Typed(x) /\ x.camp = w.camp /\ x.work = w.work /\ x.busy = w.busy /\ SameLines(w, x)
  BY RungIs
<1>2. Core(x) /\ Agreed(x) /\ (Silent(w) <=> Silent(x))
      /\ \A a \in Workers : Holds(x, a) <=> Holds(w, a)
  BY RungSame
<1>3. w.camp \in CampStates /\ Known(x, w.camp) /\ w.camp.gen \in Nat
  BY <1>1 DEF Typed, Worlds, CampStates
<1>4. /\ d \in CampStates /\ d.state = "failed" /\ d.appt = NoAppointment /\ d.cur = w.camp.cur
      /\ d.gen = w.camp.gen /\ Current(d) = Current(w.camp) /\ (\A u : Known(u, w.camp) => Known(u, d))
  BY <1>3, UnappointedCopy
<1>5. Known(x, d) /\ Abreast(x, d)
  BY <1>1, <1>3, <1>4 DEF Abreast
<1>6. /\ Typed(v) /\ Stays(x, v) /\ v.busy = x.busy
      /\ v.camp.gen = x.camp.gen /\ v.camp.state = d.state /\ v.camp.appt = d.appt
  BY <1>1, <1>4, <1>5, SaveStays
<1>7. Unheld(x)
  BY <1>2 DEF Unheld, Sane, Agreed, Matches
<1>8. Sane(v)
  <2>1. v.camp.state # "executing" /\ v.camp.appt = NoAppointment
    BY <1>4, <1>6
  <2> QED
    BY <1>1, <1>2, <1>6, <1>7, <2>1, StoppedSane
<1>9. v.work = w.work /\ Current(v.camp) = Current(w.camp)
  BY <1>1, <1>6 DEF Stays
<1>10. Silent(v)
  <2>1. StoppedByPerson(v, Current(v.camp))
    BY <1>9 DEF StoppedByPerson, RowsOf, SameTree, RootOf
  <2> QED
    BY <1>4, <1>6, <2>1 DEF Silent
<1>11. Submitless(w, v)
  <2>1. Lineages(w)
    BY DEF Typed
  <2> QED
    BY <1>9, <2>1, SubmitlessTrans
<1>12. v.camp.gen <= w.camp.gen
  BY <1>1, <1>3, <1>6
<1> QED
  BY <1>6, <1>8, <1>10, <1>11, <1>12 DEF Sound, Hushed

\* The campaign revives itself, or puts the appointment off.
LEMMA AppointedSound ==
  ASSUME NEW w, Typed(w), Sane(w), w.camp.state = "failed", w.camp.appt # NoAppointment,
         ~StoppedByPerson(w, Current(w.camp)),
         NEW h, h.kind = "revive", NEW x, x = Rung(w, h),
         NEW v \in Parks(x, w.camp) \cup RevivesAt(x, w.camp)
  PROVE  Sound(w, v)
<1>1. /\ Typed(x) /\ x.camp = w.camp /\ x.work = w.work /\ x.busy = w.busy /\ SameLines(w, x)
  BY RungIs
<1>2. Core(x) /\ Agreed(x) /\ (Silent(w) <=> Silent(x))
      /\ (\A a \in Workers : Holds(x, a) <=> Holds(w, a))
  BY RungSame
<1>3. w.camp \in CampStates /\ Known(x, w.camp) /\ w.camp.gen \in Nat /\ Abreast(x, w.camp)
  BY <1>1 DEF Typed, Worlds, CampStates, Abreast
<1>4. Free(x)
  <2>1. Unheld(x)
    BY <1>2 DEF Unheld, Sane, Agreed, Matches
  <2>2. ~Coming(x)
    BY <1>1, <1>2 DEF Agreed
  <2> QED
    BY <2>1, <2>2 DEF Free
<1>5. Silent(w) => x.camp.stop
  BY <1>1 DEF Silent
<1>6. CASE v \in Parks(x, w.camp)
  <2>1. Sane(v)
    BY <1>1, <1>2, <1>3, <1>4, <1>6, ParksSane
  <2>2. Typed(v) /\ v.camp.gen \in {x.camp.gen, w.camp.gen}
    BY <1>1, <1>3, <1>6, ParksTyped
  <2>3. Silent(w) => Submitless(x, v) /\ Silent(v)
    BY <1>1, <1>3, <1>5, <1>6, ParksSilent
  <2>4. Hushed(w, v)
    BY <1>1, <2>3, SubmitlessTrans DEF Hushed
  <2>5. v.camp.gen <= w.camp.gen
    BY <1>1, <1>3, <2>2
  <2> QED
    BY <2>1, <2>2, <2>4, <2>5 DEF Sound
<1>7. CASE v \in RevivesAt(x, w.camp)
  <2>1. Sane(v)
    <3>1. x.camp.gen <= w.camp.gen /\ w.camp.cur = x.camp.cur /\ Current(w.camp) = Current(x.camp)
      BY <1>1, <1>3
    <3> QED
      BY <1>1, <1>2, <1>3, <1>4, <1>7, <3>1, RevivesSane
  <2>2. Typed(v) /\ v.camp.gen \in {x.camp.gen, w.camp.gen}
    BY <1>1, <1>3, <1>7, RevivesTyped
  <2>3. Silent(w) => Submitless(x, v) /\ Silent(v)
    BY <1>1, <1>3, <1>5, <1>7, RevivesSilent
  <2>4. Hushed(w, v)
    BY <1>1, <2>3, SubmitlessTrans DEF Hushed
  <2>5. v.camp.gen <= w.camp.gen
    BY <1>1, <1>3, <2>2
  <2> QED
    BY <2>1, <2>2, <2>4, <2>5 DEF Sound
<1> QED
  BY <1>6, <1>7

LEMMA AppointmentDueHolds ==
  ASSUME IInv, NEW n \in Appointments, AppointmentDue(n)
  PROVE  IInv' /\ Quiet
<1> DEFINE w == World
           c == w.camp
           h == [kind |-> "revive", of |-> n]
           x == Rung(w, h)
           d == Unappointed(c)
<1>1. Undisturbed /\ ~raced
  BY DEF AppointmentDue, Rings, Undisturbed, Unasked
<1>2. PICK v : /\ Happens(v)
               /\ v \in IF c.state # "failed" \/ c.appt = NoAppointment THEN {x}
                        ELSE IF StoppedByPerson(x, Current(c)) THEN {Saves(x, d)}
                        ELSE IF c.appt # n THEN {x}
                        ELSE Parks(x, c) \cup RevivesAt(x, c)
  BY WorldIs DEF AppointmentDue, Silenced, Rung, Unappointed
<1>3. Typed(w) /\ Sane(w)
  BY <1>1 DEF IInv, IType
<1>4. h.kind = "revive" /\ h.of = n
  OBVIOUS
<1> HIDE DEF w, h, x, d
<1>5. StoppedByPerson(x, Current(c)) <=> StoppedByPerson(w, Current(c))
  <2>1. x.work = w.work
    BY <1>3, RungIs DEF x
  <2> QED
    BY <2>1 DEF StoppedByPerson, RowsOf, SameTree, RootOf
<1>6. Sound(w, v)
  <2>1. CASE c.state # "failed" \/ c.appt = NoAppointment
    <3>1. v = x /\ ~(c.state = "failed" /\ c.appt # NoAppointment)
      BY <1>2, <2>1
    <3> QED
      BY <1>3, <1>4, <3>1, RungKept DEF x
  <2>2. CASE c.state = "failed" /\ c.appt # NoAppointment
    <3>1. CASE StoppedByPerson(w, Current(c))
      <4>1. v = Saves(x, d) /\ c.state = "failed"
        BY <1>2, <1>5, <2>2, <3>1
      <4> QED
        BY <1>3, <3>1, <4>1, LapsesSound DEF x, d
    <3>2. CASE ~StoppedByPerson(w, Current(c)) /\ c.appt # n
      <4>1. v = x /\ h.of # c.appt
        BY <1>2, <1>4, <1>5, <2>2, <3>2
      <4> QED
        BY <1>3, <1>4, <4>1, RungKept DEF x
    <3>3. CASE ~StoppedByPerson(w, Current(c)) /\ c.appt = n
      <4>1. v \in Parks(x, c) \cup RevivesAt(x, c) /\ c.state = "failed" /\ c.appt # NoAppointment
        BY <1>2, <1>5, <2>2, <3>3
      <4> QED
        BY <1>3, <1>4, <3>3, <4>1, AppointedSound DEF x
    <3> QED
      BY <3>1, <3>2, <3>3
  <2> QED
    BY <2>1, <2>2
<1> QED
  BY <1>1, <1>2, <1>6, StepSound DEF w

---------------------------------------------------------------------------
\* The resumption at boot.

\* The rest of the resumption at boot.
Swept(w) ==
  IF w.camp.state \in {"done", "cancelled"} THEN RetiresAll(Occupies(w, "boot", Unoccupied), w.camp, "none")
  ELSE IF w.camp.state = "failed" /\ w.camp.appt # NoAppointment
       THEN Sets(Occupies(w, "boot", Unoccupied), [kind |-> "revive", of |-> w.camp.appt])
  ELSE Occupies(w, "boot", Unoccupied)

LEMMA SweptSound ==
  ASSUME NEW w, Typed(w), Sane(w), w.busy["boot"].at = "tail",
         NEW x, x = Occupies(w, "boot", Unoccupied), NEW v, v = Swept(w)
  PROVE  Sound(w, v)
<1> DEFINE h == [kind |-> "revive", of |-> w.camp.appt]
<1>1. "boot" \in Workers /\ Past(w, "boot")
  BY DEF Workers, Past, Holds, Advanced, Deciding
<1>2. Known(w, Unoccupied.copy) /\ Unoccupied \in Occupations /\ Unoccupied.copy.gen <= w.camp.gen
      /\ Unoccupied.at = "rest" /\ w.camp.gen \in Nat /\ w.camp \in CampStates
  <2>1. w.camp.gen \in Nat /\ w.camp \in CampStates
    BY DEF Typed, Worlds, CampStates
  <2>2. /\ Known(w, Unoccupied.copy) /\ Unoccupied \in Occupations /\ Unoccupied.copy.gen = 0
        /\ Unoccupied.at = "rest"
    BY KnownCamp0
  <2> QED
    BY <2>1, <2>2
<1>3. /\ Typed(x) /\ x.camp = w.camp /\ x.work = w.work /\ x.settleChain = w.settleChain
      /\ x.alarms = w.alarms /\ x.busy["boot"] = Unoccupied
      /\ \A o \in Workers : o # "boot" => x.busy[o] = w.busy[o]
      /\ RowsOf(x) = RowsOf(w)
  BY <1>1, <1>2, BusyTyped
<1>4. x.busy["boot"].at = "rest"
  BY <1>2, <1>3
<1>5. /\ Core(x) /\ Agreed(x)
      /\ w.camp.state = "executing" => Pursued(x)
      /\ w.camp.state = "executing" => Heeded(x)
  <2>1. x.busy["boot"].at \in {"rest", "tail"} /\ ("boot" = "chain" => x.busy["boot"].at = "rest")
    BY <1>4
  <2> QED
    BY <1>1, <1>3, <2>1, PastRests
<1>6. ASSUME ~(w.camp.state = "failed" /\ w.camp.appt # NoAppointment) PROVE Sound(w, x)
  <2>1. Kept(x)
    BY <1>3, <1>5, <1>6 DEF Kept, Heeded
  <2>2. Hushed(w, x) /\ x.camp.gen <= w.camp.gen
    BY <1>3, SameHushed
  <2> QED
    BY <1>3, <1>5, <2>1, <2>2 DEF Sound, Sane
<1>7. CASE w.camp.state \in {"done", "cancelled"}
  <2>1. v = RetiresAll(x, w.camp, "none")
    BY <1>7 DEF Swept
  <2>2. Sound(w, x)
    BY <1>6, <1>7
  <2>3. "none" \in {"none", "superseded"}
    OBVIOUS
  <2>4. Typed(v) /\ Calms(x, v) /\ v.camp = x.camp
    BY <1>3, <2>1, <2>3, AllTyped
  <2>5. Core(v) /\ Drifts(x, v)
    BY <1>3, <1>5, <2>4, CalmCore, CalmDrifts
  <2>6. Sound(x, v)
    <3>1. Sane(x) /\ Orderly(v)
      BY <2>2, <2>5 DEF Sound, Core
    <3> QED
      BY <1>3, <2>4, <2>5, <3>1, StepDrifts
  <2>7. SameLines(w, x)
    BY <1>3 DEF SameLines
  <2> QED
    BY <1>3, <2>2, <2>6, <2>7, SoundTrans
<1>8. CASE w.camp.state = "failed" /\ w.camp.appt # NoAppointment
  <2>1. v = Sets(x, h)
    BY <1>8 DEF Swept
  <2>2. h \in Alarms /\ h.kind = "revive"
    <3>1. w.camp.appt \in Nat
      BY <1>2, CampConstants DEF CampStates, Appointments, NoAppointment
    <3> QED
      BY <3>1 DEF Alarms
  <2> HIDE DEF h
  <2>3. /\ Typed(v) /\ v.camp = x.camp /\ v.work = x.work /\ v.settleChain = x.settleChain
        /\ v.busy = x.busy /\ v.alarms = x.alarms \cup {h}
    BY <1>3, <2>1, <2>2, SetsTyped
  <2>4. Core(v) /\ Agreed(v)
    BY <1>5, <2>2, <2>3, AlarmCore
  <2>5. Kept(v)
    BY <1>3, <1>8, <2>3 DEF Kept, Waited, h
  <2>6. Hushed(w, v) /\ v.camp.gen <= w.camp.gen
    BY <1>3, <2>3, SameHushed
  <2> QED
    BY <2>3, <2>4, <2>5, <2>6 DEF Sound, Sane
<1>9. CASE w.camp.state \notin {"done", "cancelled"} /\ ~(w.camp.state = "failed" /\ w.camp.appt # NoAppointment)
  <2>1. v = x
    BY <1>9 DEF Swept
  <2> QED
    BY <1>6, <1>9, <2>1
<1> QED
  BY <1>7, <1>8, <1>9

LEMMA BootSweepsHolds ==
  ASSUME IInv, BootSweeps
  PROVE  IInv' /\ Quiet
<1> DEFINE w == World
           v == Swept(w)
<1>1. Undisturbed /\ ~raced /\ w.busy["boot"].at = "tail"
  BY WorldIs DEF BootSweeps, Undisturbed, Unasked
<1>2. Happens(v)
  <2>1. [World EXCEPT !.busy["boot"] = Unoccupied] = Occupies(w, "boot", Unoccupied)
    BY DEF Occupies
  <2>2. CASE camp.state \in {"done", "cancelled"}
    BY <2>1, <2>2, WorldIs DEF BootSweeps, Swept
  <2>3. CASE camp.state = "failed" /\ camp.appt # NoAppointment
    BY <2>1, <2>3, WorldIs DEF BootSweeps, Swept
  <2>4. CASE camp.state \notin {"done", "cancelled"} /\ ~(camp.state = "failed" /\ camp.appt # NoAppointment)
    BY <2>1, <2>4, WorldIs DEF BootSweeps, Swept
  <2> QED
    BY <2>2, <2>3, <2>4
<1>3. Typed(w) /\ Sane(w)
  BY <1>1 DEF IInv, IType
<1> HIDE DEF w
<1>4. Sound(w, v)
  BY <1>1, <1>3, SweptSound
<1> HIDE DEF v
<1> QED
  BY <1>1, <1>2, <1>4, StepSound DEF w

\* What the process that died leaves to the next one.
Fallen(r, b) == IF r.st # "live" THEN r ELSE [r EXCEPT !.st = IF b THEN "blocked" ELSE "paused"]
Died(w, blocked) ==
  [w EXCEPT !.work = [t \in Work |-> Fallen(w.work[t], t \in blocked)],
            !.settleChain = <<>>, !.alarms = {}, !.busy = [a \in Workers |-> Unoccupied]]

LEMMA DiedIs ==
  ASSUME NEW w, Typed(w), NEW blocked \in SUBSET Work, NEW d, d = Died(w, blocked)
  PROVE  /\ Typed(d) /\ d.camp = w.camp /\ d.settleChain = <<>> /\ d.alarms = {} /\ d.made = w.made
         /\ \A a \in Workers : d.busy[a] = Unoccupied
         /\ SameLines(w, d) /\ RowsOf(d) = RowsOf(w) /\ Tip(d) = Tip(w)
         /\ \A t : NewestOf(d, t) = NewestOf(w, t)
         /\ \A t, u \in Work : SameTree(d, t, u) <=> SameTree(w, t, u)
         /\ \A t \in Work : /\ w.work[t].st # "live" => d.work[t] = w.work[t]
                            /\ w.work[t].st = "live" => d.work[t].st \in {"blocked", "paused"}
                            /\ d.work[t].by = w.work[t].by
<1>1. w \in Worlds /\ Lineages(w) /\ w.work \in [Work -> RowStates]
  BY DEF Typed, Worlds
<1>2. /\ Known(w, Unoccupied.copy) /\ Unoccupied \in Occupations /\ Unoccupied.copy.gen = 0
      /\ Unoccupied.at = "rest"
  BY KnownCamp0
<1>3. \A t \in Work, b \in BOOLEAN :
        /\ Fallen(w.work[t], b) \in RowStates /\ Fallen(w.work[t], b).line = w.work[t].line
        /\ Fallen(w.work[t], b).by = w.work[t].by
        /\ w.work[t].st # "live" => Fallen(w.work[t], b) = w.work[t]
        /\ w.work[t].st = "live" => Fallen(w.work[t], b).st \in {"blocked", "paused"}
  BY <1>1 DEF Fallen, RowStates
<1>4. /\ d.camp = w.camp /\ d.settleChain = <<>> /\ d.alarms = {} /\ d.made = w.made
      /\ d.busy = [a \in Workers |-> Unoccupied]
      /\ d.work = [t \in Work |-> Fallen(w.work[t], t \in blocked)]
      /\ DOMAIN d = DOMAIN w
  BY <1>1 DEF Died, Worlds
<1>5. ASSUME NEW t \in Work
      PROVE  /\ d.work[t] \in RowStates /\ d.work[t].line = w.work[t].line
             /\ d.work[t].by = w.work[t].by
             /\ w.work[t].st # "live" => d.work[t] = w.work[t]
             /\ w.work[t].st = "live" => d.work[t].st \in {"blocked", "paused"}
  <2> DEFINE b == t \in blocked
  <2>1. d.work[t] = Fallen(w.work[t], b) /\ b \in BOOLEAN
    BY <1>4
  <2> HIDE DEF b
  <2> QED
    BY <1>3, <2>1
<1>6. d \in Worlds
  <2>1. d.work \in [Work -> RowStates]
    <3>1. d.work = [t \in Work |-> d.work[t]]
      BY <1>4
    <3> QED
      BY <1>5, <3>1
  <2>2. d.busy \in [Workers -> Occupations]
    BY <1>2, <1>4
  <2>3. d.settleChain \in Seq(Handlings)
    BY <1>4
  <2>4. d = [w EXCEPT !.work = d.work, !.settleChain = d.settleChain, !.alarms = {}, !.busy = d.busy]
    BY <1>4 DEF Died
  <2> QED
    BY <1>1, <1>4, <2>1, <2>2, <2>3, <2>4 DEF Worlds
<1>7. SameLines(w, d)
  <2>1. \A t \in Work : (d.work[t].st = "none") <=> (w.work[t].st = "none")
    BY <1>5
  <2> QED
    BY <1>5, <2>1 DEF SameLines
<1>8. /\ RowsOf(d) = RowsOf(w) /\ Lineages(d)
      /\ \A t : NewestOf(d, t) = NewestOf(w, t)
      /\ \A t, u \in Work : SameTree(d, t, u) <=> SameTree(w, t, u)
      /\ \A c : Known(w, c) => Known(d, c)
  BY <1>1, <1>7, LinesSame
<1>9. \A a \in Workers : d.busy[a] = Unoccupied
  BY <1>4
<1>10. Typed(d)
  <2>1. w.camp.gen \in Nat /\ 1 \in RowsOf(w) /\ Known(w, w.camp)
    BY <1>1 DEF Typed, Worlds, CampStates
  <2> QED
    BY <1>2, <1>4, <1>6, <1>8, <1>9, <2>1 DEF Typed
<1>11. Tip(d) = Tip(w)
  BY <1>4, <1>8 DEF Tip
<1> QED
  BY <1>4, <1>5, <1>7, <1>8, <1>9, <1>10, <1>11

LEMMA DiedSane ==
  ASSUME NEW w, Typed(w), Sane(w), NEW blocked \in SUBSET Work, NEW d, d = Died(w, blocked)
  PROVE  /\ Core(d) /\ Alone(d, "boot") /\ (Silent(w) => Silent(d)) /\ Submitless(w, d)
<1>1. /\ Typed(d) /\ d.camp = w.camp /\ d.settleChain = <<>> /\ d.alarms = {}
      /\ \A a \in Workers : d.busy[a] = Unoccupied
      /\ SameLines(w, d) /\ RowsOf(d) = RowsOf(w) /\ Tip(d) = Tip(w)
      /\ \A t : NewestOf(d, t) = NewestOf(w, t)
      /\ \A t, u \in Work : SameTree(d, t, u) <=> SameTree(w, t, u)
  BY DiedIs
<1>2. \A t \in Work : /\ w.work[t].st # "live" => d.work[t] = w.work[t]
                      /\ w.work[t].st = "live" => d.work[t].st \in {"blocked", "paused"}
                      /\ d.work[t].line = w.work[t].line /\ d.work[t].by = w.work[t].by
  BY <1>1, DiedIs DEF SameLines
<1>3. \A a \in Workers : d.busy[a].at = "rest"
  BY <1>1, KnownCamp0
<1>4. Workers = {"chain", "boot"} /\ "rest" \notin Deciding
  BY DEF Workers, Deciding
<1>5. Orderly(d)
  BY <1>3, <1>4 DEF Orderly
<1>6. Looked(d)
  <2>1. Len(d.settleChain) = 0
    BY <1>1
  <2>2. \A s \in Sprints : ~Pending(d, s)
    BY <1>1, <2>1 DEF Pending
  <2> QED
    BY <2>2 DEF Looked
<1>7. OneTip(d)
  <2>1. OneTip(w)
    BY DEF Sane, Core
  <2>2. ASSUME NEW t \in RowsOf(d), Active(d, t) PROVE Active(w, t)
    <3>1. t \in Work /\ Lineages(w)
      BY DEF RowsOf, Typed
    <3>2. CASE w.work[t].st = "live"
      BY <3>2 DEF Active
    <3>3. CASE w.work[t].st # "live"
      <4>1. d.work[t] = w.work[t]
        BY <1>2, <3>1, <3>3
      <4>2. Continuable(d, t)
        BY <2>2, <3>3, <4>1 DEF Active
      <4>3. ASSUME NEW u \in w.work[t].line, w.work[u].st = "cancelled" PROVE w.work[u].why = "superseded"
        <5>1. u \in Work
          BY <3>1 DEF Typed, Worlds, RowStates
        <5>2. d.work[u] = w.work[u]
          BY <1>2, <4>3, <5>1
        <5> QED
          BY <4>1, <4>2, <4>3, <5>2 DEF Continuable
      <4> QED
        BY <1>1, <4>1, <4>2, <4>3 DEF Active, Continuable
    <3> QED
      BY <3>2, <3>3
  <2>3. ASSUME NEW t \in RowsOf(d), d.work[t].st = "completed" PROVE d.work[t] = w.work[t]
    BY <1>2, <2>3 DEF RowsOf
  <2> QED
    BY <1>1, <2>1, <2>2, <2>3 DEF OneTip
<1>8. Alone(d, "boot")
  <2>1. \A a \in Workers : ~Holds(d, a) /\ ~Advanced(d, a)
    BY <1>3, <1>4 DEF Holds, Advanced
  <2>2. ~Due(d)
    BY <1>1 DEF Due
  <2> QED
    BY <1>3, <1>4, <2>1, <2>2 DEF Alone
<1>9. Submitless(w, d)
  <2>1. \A t \in Work : w.work[t].st = "none" => w.work[t].by # "campaign"
    BY DEF Typed, Lineages, Unborn
  <2> QED
    BY <1>2, <2>1 DEF Submitless
<1>10. Silent(w) => Silent(d)
  <2>1. ASSUME StoppedByPerson(w, Current(w.camp)) PROVE StoppedByPerson(d, Current(d.camp))
    <3>1. PICK u \in RowsOf(w) : SameTree(w, u, Current(w.camp)) /\ w.work[u].st = "cancelled" /\ w.work[u].why = "user"
      BY <2>1 DEF StoppedByPerson
    <3>2. u \in Work /\ Current(w.camp) \in Work
      <4>1. Known(w, w.camp) /\ w.camp.cur \in Sprints
        BY DEF Typed, Worlds, CampStates
      <4>2. Current(w.camp) \in RowsOf(w)
        BY <2>1, <4>1 DEF Known, Current, StoppedByPerson
      <4> QED
        BY <4>2 DEF RowsOf
    <3>3. d.work[u] = w.work[u] /\ SameTree(d, u, Current(w.camp)) /\ u \in RowsOf(d)
      BY <1>1, <1>2, <3>1, <3>2
    <3> QED
      BY <1>1, <2>1, <3>1, <3>3 DEF StoppedByPerson
  <2> QED
    BY <1>1, <2>1 DEF Silent
<1> QED
  BY <1>5, <1>6, <1>7, <1>8, <1>9, <1>10 DEF Core

\* The resumption at boot, of a world in which nothing is pending.
Resumed(d) ==
  LET r == AtRest(d, "boot")
      c == d.camp
      tip == r.work[NewestOf(r, Current(c))].st
  IN IF c.state # "executing" THEN {r}
     ELSE IF c.stop \/ StoppedByPerson(r, Current(c)) THEN {Lands(r, c)}
     ELSE IF Current(c) = NoWork \/ tip = "paused" THEN SubmitsSprint(r, c, FALSE)
     ELSE IF tip = "completed" THEN {Awaits(r, "boot", "judging", c)}
     ELSE SprintFails(d, "boot", c, TRUE)

LEMMA ResumesSound ==
  ASSUME NEW w, Typed(w), Sane(w), NEW blocked \in SUBSET Work, NEW d, d = Died(w, blocked),
         NEW v \in Resumed(d)
  PROVE  Sound(w, v)
<1> DEFINE a == "boot"
           c == w.camp
           r == AtRest(d, a)
<1>0. a \in Workers
  BY DEF Workers
<1>1. /\ Typed(d) /\ d.camp = c /\ d.settleChain = <<>> /\ SameLines(w, d) /\ RowsOf(d) = RowsOf(w)
      /\ c \in CampStates /\ Known(d, c) /\ c.gen \in Nat
  <2>1. Typed(d) /\ d.camp = c /\ d.settleChain = <<>> /\ SameLines(w, d) /\ RowsOf(d) = RowsOf(w)
    BY DiedIs
  <2> QED
    BY <2>1 DEF Typed, Worlds, CampStates
<1>2. Core(d) /\ Alone(d, a) /\ (Silent(w) => Silent(d)) /\ Submitless(w, d)
  BY DiedSane
<1> HIDE DEF a
<1>3. /\ Typed(r) /\ r.camp = c /\ r.work = d.work /\ r.settleChain = d.settleChain
      /\ r.busy[a].at = (IF a = "boot" THEN "tail" ELSE "rest")
      /\ \A o \in Workers : o # a => r.busy[o] = d.busy[o]
      /\ Stays(d, r) /\ Free(r) /\ Orderly(r)
  <2>1. Orderly(d)
    BY <1>2 DEF Core
  <2> QED
    BY <1>0, <1>1, <1>2, <2>1, RestTyped, RestFrees
<1>4. Core(r) /\ Tip(r) = Tip(d) /\ Agreed(r) /\ Unheld(r)
  <2>1. Core(r) /\ Tip(r) = Tip(d)
    BY <1>2, <1>3, StayCore
  <2> QED
    BY <1>3, <2>1, FreeAgreed DEF Free
<1>5. Known(r, c) /\ Abreast(r, c) /\ SameLines(w, r)
  BY <1>1, <1>3 DEF Typed, Abreast, SameLines
<1>6. Submitless(w, r)
  BY <1>2, <1>3, SubmitlessTrans
<1>7. (StoppedByPerson(r, Current(c)) <=> StoppedByPerson(d, Current(c))) /\ (Silent(w) => Silent(r))
  BY <1>1, <1>2, <1>3 DEF Silent, StoppedByPerson, RowsOf, SameTree, RootOf
<1>8. c.state = "executing" /\ Silent(w) => c.stop
  BY DEF Silent
<1> DEFINE tip == r.work[Tip(r)].st
<1>9. v \in IF c.state # "executing" THEN {r}
            ELSE IF c.stop \/ StoppedByPerson(r, Current(c)) THEN {Lands(r, c)}
            ELSE IF Current(c) = NoWork \/ tip = "paused" THEN SubmitsSprint(r, c, FALSE)
            ELSE IF tip = "completed" THEN {Awaits(r, a, "judging", c)}
            ELSE SprintFails(d, a, c, TRUE)
  BY <1>1, <1>3 DEF Resumed, Tip, a
<1> HIDE DEF c, r, tip
<1>10. CASE c.state # "executing"
  <2>1. v = r
    BY <1>9, <1>10
  <2>2. Kept(r)
    <3>1. r.busy["boot"].at # "rest"
      BY <1>3 DEF a
    <3> QED
      BY <1>3, <1>10, <3>1 DEF Kept, Waited
  <2>3. r.camp.gen <= w.camp.gen
    BY <1>1, <1>3 DEF c
  <2> QED
    BY <1>3, <1>4, <1>6, <1>7, <2>1, <2>2, <2>3 DEF Sound, Sane, Hushed
<1>11. CASE c.state = "executing" /\ (c.stop \/ StoppedByPerson(r, Current(c)))
  <2>1. v = Lands(r, c)
    BY <1>9, <1>11
  <2>2. Typed(v) /\ v.camp.gen \in {r.camp.gen, c.gen}
    BY <1>1, <1>3, <1>5, <2>1, LandsTyped
  <2>3. Sane(v)
    BY <1>1, <1>3, <1>4, <1>5, <2>1, LandsSane
  <2>4. v.camp.gen <= w.camp.gen
    BY <1>1, <1>3, <2>2 DEF c
  <2>5. ASSUME Silent(w) PROVE Silent(v) /\ Submitless(w, v)
    <3> DEFINE k == TRUE
    <3>1. r.camp.stop
      BY <1>3, <1>8, <1>11, <2>5
    <3>2. v \in SubmitsSprint(r, c, k) /\ k \in BOOLEAN
      BY <2>1, <3>1 DEF SubmitsSprint
    <3> HIDE DEF k
    <3>3. Submitless(r, v) /\ Silent(v)
      <4>1. c.gen = r.camp.gen
        BY <1>3
      <4> QED
        BY <1>1, <1>3, <1>5, <1>7, <2>5, <3>1, <3>2, <4>1, SubmitSilent
    <3> QED
      BY <1>5, <3>3, SubmitlessTrans
  <2> QED
    BY <2>2, <2>3, <2>4, <2>5 DEF Sound, Hushed
<1>12. CASE c.state = "executing" /\ ~(c.stop \/ StoppedByPerson(r, Current(c)))
  <2>1. ~c.stop /\ ~Silent(w) /\ Heeded(d) /\ Heeded(r)
    BY <1>1, <1>3, <1>8, <1>12 DEF Heeded
  <2>2. Hushed(w, v)
    BY <2>1 DEF Hushed
  <2>3. CASE Current(c) = NoWork \/ tip = "paused"
    <3> DEFINE k == FALSE
    <3>1. v \in SubmitsSprint(r, c, k) /\ k \in BOOLEAN
      BY <1>9, <1>12, <2>3
    <3> HIDE DEF k
    <3>2. r.camp.gen = w.camp.gen
      BY <1>3 DEF c
    <3> QED
      BY <1>1, <1>3, <1>4, <1>5, <2>1, <3>1, <3>2, SubmitSound
  <2>4. CASE Current(c) # NoWork /\ tip = "completed"
    <3> DEFINE p == "judging"
               l == FALSE
    <3>1. v = Takes(r, a, p, c, l)
      BY <1>9, <1>12, <2>4 DEF Awaits, Takes, Occupies
    <3>2. p \in Deciding /\ p # "narrowed" /\ l \in BOOLEAN
          /\ p \in {"judging", "narrowed", "overran", "advanced", "parked"}
      BY DEF Deciding
    <3> HIDE DEF p, l
    <3>3. c.gen <= r.camp.gen
      BY <1>1, <1>3
    <3>4. Typed(v) /\ v.camp = r.camp
      BY <1>0, <1>1, <1>3, <1>5, <3>1, <3>2, <3>3, AwaitsTyped
    <3>5. Alone(r, a)
      <4>1. ~Due(r) /\ (\A b \in Workers : ~Holds(r, b) /\ ~Advanced(r, b))
        BY <1>3 DEF Free, Unheld, Coming
      <4>2. r.busy["chain"].at = "rest"
        <5>1. "chain" \in Workers /\ "chain" # a
          BY DEF Workers, a
        <5>2. d.busy["chain"].at = "rest"
          BY <1>2 DEF Alone, a
        <5> QED
          BY <1>3, <5>1, <5>2
      <4>3. a = "boot"
        BY DEF a
      <4> QED
        BY <1>0, <4>1, <4>2, <4>3 DEF Alone
    <3>6. Matches(r, c)
      BY <1>3, <1>12 DEF Matches
    <3>7. r.work[Tip(r)].st = "completed"
      BY <2>4 DEF tip
    <3>8. Sane(v)
      BY <1>0, <1>1, <1>3, <1>4, <1>5, <1>12, <2>1, <2>4, <3>1, <3>2, <3>5, <3>6, <3>7, TakesSane
    <3>9. v.camp.gen <= w.camp.gen
      BY <1>1, <1>3, <3>4 DEF c
    <3> QED
      BY <2>2, <3>4, <3>8, <3>9 DEF Sound
  <2>5. CASE Current(c) # NoWork /\ tip # "paused" /\ tip # "completed"
    <3> DEFINE k == TRUE
    <3>1. v \in SprintFails(d, a, c, k) /\ k \in BOOLEAN
      BY <1>9, <1>12, <2>5
    <3> HIDE DEF k
    <3>2. Able(d, a, c)
      BY <1>1, <1>2, <1>12, <2>1, <2>5 DEF Able, Abreast, Matches
    <3>3. Sane(v)
      BY <1>0, <3>1, <3>2, SprintFailsSane
    <3>4. Typed(v) /\ v.camp.gen \in {d.camp.gen, c.gen}
      BY <1>0, <1>1, <3>1, SprintFailsTyped
    <3>5. v.camp.gen <= w.camp.gen
      BY <1>1, <3>4 DEF c
    <3> QED
      BY <2>2, <3>3, <3>4, <3>5 DEF Sound
  <2> QED
    BY <2>3, <2>4, <2>5
<1> QED
  BY <1>10, <1>11, <1>12

LEMMA CampRestartsHolds ==
  ASSUME IInv, NEW blocked \in SUBSET Work, CampRestarts(blocked)
  PROVE  IInv' /\ Quiet
<1> DEFINE w == World
           d == Died(w, blocked)
<1>1. /\ ~raced /\ campBoots < MaxCampBoots /\ campBoots' = campBoots + 1
      /\ barred' = barred /\ raced' = raced /\ wishes' = wishes
  BY DEF CampRestarts
<1>2. Typed(w) /\ Sane(w) /\ (barred => Silent(w)) /\ barred \in BOOLEAN /\ raced \in BOOLEAN
      /\ wishes \in 0..MaxWishes /\ campBoots \in 0..MaxCampBoots /\ w.camp.gen <= wishes
  BY <1>1, WorldIs DEF IInv, IType
<1>3. PICK v \in Resumed(d) : Happens(v)
  <2>1. d = [World EXCEPT
        !.work = [t \in Work |->
          IF work[t].st # "live" THEN work[t]
          ELSE [work[t] EXCEPT !.st = IF t \in blocked THEN "blocked" ELSE "paused"]],
        !.settleChain = <<>>, !.alarms = {}, !.busy = [a \in Workers |-> Unoccupied]]
    BY WorldIs DEF Died, Fallen
  <2>2. d.camp = camp
    <3>1. d.camp = w.camp
      BY <1>2, DiedIs
    <3> QED
      BY <3>1, WorldIs
  <2>3. \E v \in Resumes(d) : Happens(v)
    BY <2>1 DEF CampRestarts
  <2>4. Resumed(d) = Resumes(d)
    <3> HIDE DEF d
    <3> QED
      BY <2>2 DEF Resumed, Resumes
  <2> QED
    BY <2>3, <2>4
<1> HIDE DEF w
<1>4. Sound(w, v)
  BY <1>2, <1>3, ResumesSound
<1>5. /\ campBoots' \in 0..MaxCampBoots /\ wishes' \in 0..MaxWishes
      /\ barred' \in BOOLEAN /\ raced' \in BOOLEAN
  BY <1>1, <1>2, CampConstants
<1>6. v.camp.gen <= wishes'
  <2>1. v.camp.gen \in Nat /\ w.camp.gen \in Nat
    BY <1>2, <1>4 DEF Sound, Typed, Worlds, CampStates
  <2> QED
    BY <1>1, <1>2, <1>4, <2>1 DEF Sound
<1>7. Typed(v) /\ Sane(v) /\ (barred => Silent(v) /\ Submitless(World, v))
  BY <1>2, <1>4 DEF Sound, Hushed, w
<1> HIDE DEF d
<1> QED
  BY <1>1, <1>3, <1>5, <1>6, <1>7, StepHolds

---------------------------------------------------------------------------
\* The theorems.

\* The first world: one attempt, of the first sprint, and nothing pending.
LEMMA CampBegins == CampInit => IInv
<1> SUFFICES ASSUME CampInit PROVE IInv
  OBVIOUS
<1> DEFINE w == World
<1>1. /\ w.camp = Camp0 /\ w.settleChain = <<>> /\ w.alarms = {} /\ w.made = 0
      /\ w.busy = [a \in Workers |-> Unoccupied]
      /\ w.work = [t \in Work |-> IF t = 1 THEN [st |-> "live", why |-> "none", line |-> {1},
                                                by |-> "campaign"] ELSE Unborn]
  BY WorldIs DEF CampInit
<1>2. 1 \in Work /\ 1 \in Sprints /\ 0 \in 0..MaxWishes /\ 0 \in 0..MaxCampBoots
      /\ 0 \in 0..MaxAppointments /\ NoWork \notin Work /\ 0 \in 0..MaxNarrowings
      /\ 0 \in 0..MaxSelfRevivals /\ 0 \in 0..MaxWork /\ 1 \in 0..MaxWork
  BY CampConstants DEF Work, Sprints, NoWork
<1>3. /\ Camp0 \in CampStates /\ Camp0.state = "executing" /\ Camp0.cur = 1 /\ Current(Camp0) = 1
      /\ ~Camp0.stop /\ Camp0.gen = 0
      /\ \A s \in Sprints : /\ Camp0.sprint[s].task = (IF s = 1 THEN 1 ELSE NoWork)
                            /\ Camp0.sprint[s].tries = (IF s = 1 THEN 1 ELSE 0)
  <2>1. Sprint0 \in SprintStates /\ Sprint0.task = NoWork /\ Sprint0.tries = 0
    BY <1>2 DEF Sprint0, SprintStates
  <2>2. [Sprint0 EXCEPT !.task = 1, !.tries = 1] \in SprintStates
    BY <1>2 DEF Sprint0, SprintStates
  <2>3. Camp0.sprint \in [Sprints -> SprintStates]
    BY <2>1, <2>2 DEF Camp0
  <2>4. Camp0 \in CampStates
    BY <1>2, <2>3 DEF Camp0, CampStates
  <2>5. \A s \in Sprints : /\ Camp0.sprint[s].task = (IF s = 1 THEN 1 ELSE NoWork)
                           /\ Camp0.sprint[s].tries = (IF s = 1 THEN 1 ELSE 0)
    BY <2>1 DEF Camp0, Sprint0
  <2> QED
    BY <1>2, <2>4, <2>5 DEF Camp0, Current
<1>4. /\ Unoccupied \in Occupations /\ Unoccupied.at = "rest" /\ Unoccupied.copy = Camp0
      /\ ~Unoccupied.live
  BY <1>3 DEF Unoccupied, Occupations
<1>5. /\ w.work[1].st = "live" /\ w.work[1].line = {1}
      /\ \A t \in Work : t # 1 => w.work[t] = Unborn
      /\ w.work \in [Work -> RowStates]
  BY <1>1, <1>2 DEF RowStates, Unborn
<1> HIDE DEF w
<1>6. RowsOf(w) = {1} /\ Cardinality(RowsOf(w)) = 1 /\ RowsOf(w) = 1..1
  <2>1. RowsOf(w) = {1}
    BY <1>2, <1>5 DEF RowsOf, Unborn
  <2>2. Cardinality({1}) = 1
    BY FS_Singleton
  <2>3. 1..1 = {1}
    OBVIOUS
  <2> QED
    BY <2>1, <2>2, <2>3
<1>7. w \in Worlds
  <2>1. w.settleChain \in Seq(Handlings)
    BY <1>1
  <2>2. w.busy \in [Workers -> Occupations]
    BY <1>1, <1>4
  <2> QED
    BY <1>1, <1>2, <1>3, <1>5, <2>1, <2>2, WorldIs DEF Worlds, w, World
<1>8. Lineages(w)
  BY <1>5, <1>6 DEF Lineages
<1>9. Typed(w)
  <2>1. Known(w, Camp0)
    BY <1>3, <1>6, CampConstants DEF Known, Sprints
  <2> QED
    BY <1>1, <1>3, <1>4, <1>6, <1>7, <1>8, <2>1 DEF Typed
<1>10. NewestOf(w, 1) = 1 /\ Tip(w) = 1
  <2>1. NewestOf(w, 1) \in RowsOf(w)
    BY <1>6, <1>7, <1>8, RowFacts
  <2> QED
    BY <1>1, <1>3, <1>6, <2>1 DEF Tip
<1>11. \A a \in Workers : w.busy[a].at = "rest"
  BY <1>1, <1>4
<1>12. Core(w) /\ Agreed(w)
  <2>1. Orderly(w)
    BY <1>11 DEF Orderly, Deciding, Workers
  <2>2. Len(w.settleChain) = 0
    BY <1>1
  <2>3. Looked(w)
    BY <1>1, <2>2 DEF Looked, Pending
  <2>4. OneTip(w)
    BY <1>1, <1>2, <1>3, <1>6, <1>10 DEF OneTip
  <2>5. Free(w)
    BY <1>1, <1>11 DEF Free, Unheld, Coming, Holds, Advanced, Due, Deciding
  <2> QED
    BY <2>1, <2>3, <2>4, <2>5, FreeAgreed DEF Core
<1>13. Kept(w)
  <2>1. Pursued(w)
    BY <1>1, <1>3, <1>5, <1>6 DEF Pursued
  <2> QED
    BY <1>1, <1>3, <2>1 DEF Kept
<1>14. Sane(w)
  BY <1>12, <1>13 DEF Sane
<1>15. IType
  <2>1. wishes = 0 /\ campBoots = 0 /\ barred = FALSE /\ raced = FALSE /\ camp.gen = 0
    BY <1>1, <1>3, WorldIs DEF w, CampInit
  <2>2. Typed(World)
    BY <1>9 DEF w
  <2>3. wishes \in 0..MaxWishes /\ campBoots \in 0..MaxCampBoots /\ camp.gen <= wishes
    BY <1>2, <2>1
  <2>4. barred \in BOOLEAN /\ raced \in BOOLEAN
    BY <2>1
  <2> QED
    BY <2>2, <2>3, <2>4 DEF IType
<1> QED
  BY <1>14, <1>15 DEF IInv, w, CampInit

\* What it says holds of every step.
LEMMA CampSteps ==
  ASSUME IInv, [CampNext]_campVars
  PROVE  IInv' /\ Quiet
<1>1. CASE \E t \in Work, s \in {"completed", "blocked"} : RowEnds(t, s)
  BY <1>1, RowEndsHolds
<1>2. CASE \E t \in Work : RowContinues(t)
  BY <1>2, RowContinuesHolds
<1>3. CASE \E t \in Work : StopsRow(t)
  BY <1>3, StopsRowHolds
<1>4. CASE CancelsCampaign
  BY <1>4, CancelsCampaignHolds
<1>5. CASE RevivesCampaign
  BY <1>5, RevivesCampaignHolds
<1>6. CASE HandlesSettle
  BY <1>6, HandlesSettleHolds
<1>7. CASE HandlesStop
  BY <1>7, HandlesStopHolds
<1>8. CASE HandlesReconcile
  BY <1>8, HandlesReconcileHolds
<1>9. CASE \E a \in Workers : Bounces(a)
  BY <1>9, BouncesHolds
<1>10. CASE \E a \in Workers : TurnsOutFailed(a)
  BY <1>10, TurnsOutFailedHolds
<1>11. CASE \E a \in Workers : Advances(a)
  BY <1>11, AdvancesHolds
<1>12. CASE \E a \in Workers : LacksProofs(a)
  BY <1>12, LacksProofsHolds
<1>13. CASE \E a \in Workers : StopsShort(a)
  BY <1>13, StopsShortHolds
<1>14. CASE \E a \in Workers : Delivers(a)
  BY <1>14, DeliversHolds
<1>15. CASE \E a \in Workers : Told(a)
  BY <1>15, ToldHolds
<1>16. CASE \E a \in Workers : Narrowed(a)
  BY <1>16, NarrowedHolds
<1>17. CASE \E s \in Sprints : GraceEnds(s)
  BY <1>17, GraceEndsHolds
<1>18. CASE \E g \in 0..MaxWishes : NextSprint(g)
  BY <1>18, NextSprintHolds
<1>19. CASE \E n \in Appointments : AppointmentDue(n)
  BY <1>19, AppointmentDueHolds
<1>20. CASE \E blocked \in SUBSET Work : CampRestarts(blocked)
  BY <1>20, CampRestartsHolds
<1>21. CASE BootSweeps
  BY <1>21, BootSweepsHolds
<1>22. CASE UNCHANGED campVars
  <2>1. World' = World /\ UNCHANGED <<camp, barred, raced, wishes, campBoots>>
    BY <1>22 DEF campVars, World
  <2>2. IInv'
    BY <2>1 DEF IInv, IType
  <2>3. Submitless(World, World)
    <3>1. Lineages(World)
      BY DEF IInv, IType, Typed
    <3> QED
      BY <3>1 DEF Submitless, Lineages, Unborn
  <2> QED
    BY <2>1, <2>2, <2>3 DEF Quiet
<1> HIDE DEF CampNext
<1>23. CASE CampNext
  <2>1. \/ \E t \in Work, s \in {"completed", "blocked"} : RowEnds(t, s)
        \/ \E t \in Work : RowContinues(t)
        \/ \E t \in Work : StopsRow(t)
        \/ CancelsCampaign \/ RevivesCampaign
        \/ HandlesSettle \/ HandlesStop \/ HandlesReconcile
        \/ \E a \in Workers : Bounces(a)
        \/ \E a \in Workers : TurnsOutFailed(a)
        \/ \E a \in Workers : Advances(a)
        \/ \E a \in Workers : LacksProofs(a)
        \/ \E a \in Workers : StopsShort(a)
        \/ \E a \in Workers : Delivers(a)
        \/ \E a \in Workers : Told(a)
        \/ \E a \in Workers : Narrowed(a)
        \/ \E s \in Sprints : GraceEnds(s)
        \/ \E g \in 0..MaxWishes : NextSprint(g)
        \/ \E n \in Appointments : AppointmentDue(n)
        \/ \E blocked \in SUBSET Work : CampRestarts(blocked)
        \/ BootSweeps
    BY <1>23, Zenon DEF CampNext
  <2> QED
    BY <1>1, <1>2, <1>3, <1>4, <1>5, <1>6, <1>7, <1>8, <1>9, <1>10, <1>11, <1>12, <1>13, <1>14,
       <1>15, <1>16, <1>17, <1>18, <1>19, <1>20, <1>21, <2>1
<1> QED
  BY <1>22, <1>23

LEMMA CampInvariant == CampSpec => []IInv
<1>1. IInv /\ [CampNext]_campVars => IInv'
  BY CampSteps
<1> QED
  BY <1>1, CampBegins, PTL DEF CampSpec

---------------------------------------------------------------------------
\* The stored campaign, the task rows, the settle chain, the copies handlers hold
\* and the timers keep their types, for any ladder and any bounds
\* (campaign-manager.ts).
THEOREM CampaignTyped == CampSpec => []CampTypeOK
<1>1. IInv => CampTypeOK
  <2> SUFFICES ASSUME IInv PROVE CampTypeOK
    OBVIOUS
  <2>1. World \in Worlds
    BY DEF IInv, IType, Typed
  <2>2. camp \in CampStates /\ work \in [Work -> RowStates] /\ settleChain \in Seq(Handlings)
        /\ busy \in [Workers -> Occupations] /\ alarms \in SUBSET Alarms /\ made \in 0..MaxAppointments
    BY <2>1, WorldIs DEF Worlds
  <2>3. settleChain \in Seq([what : {"settle", "stop", "reconcile"}, of : Work \cup Sprints,
                             gen : 0..MaxWishes])
    <3> DEFINE H == [what : {"settle", "stop", "reconcile"}, of : Work \cup Sprints, gen : 0..MaxWishes]
    <3>1. Handlings \subseteq H
      BY DEF Handlings
    <3> HIDE DEF H
    <3>2. Len(settleChain) \in Nat /\ settleChain = [i \in 1..Len(settleChain) |-> settleChain[i]]
          /\ \A i \in 1..Len(settleChain) : settleChain[i] \in H
      BY <2>2, <3>1
    <3>3. settleChain \in Seq(H)
      BY <2>2, <3>1, <3>2
    <3> QED
      BY <3>3 DEF H
  <2> QED
    BY <2>2, <2>3 DEF CampTypeOK, IInv, IType, Occupations, Alarms
<1> QED
  BY <1>1, CampInvariant, PTL

\* At most one attempt of the campaign runs, whatever retries, revives, resumes or
\* carries it on, in any number of sprints, wishes and restarts
\* (submitCurrentMilestone, adoptTask, resumeOne).
THEOREM OneSprintAtATime == CampSpec => []OneSprint
<1>1. IInv => OneSprint
  <2> SUFFICES ASSUME IInv, ~raced PROVE Cardinality(LiveWork) <= 1
    BY DEF OneSprint
  <2>1. OneTip(World)
    BY DEF IInv, Sane, Core
  <2>2. LiveWork \subseteq {Tip(World)}
    BY <2>1, WorldIs DEF LiveWork, OneTip, Active, RowsOf
  <2>3. IsFiniteSet({Tip(World)}) /\ Cardinality({Tip(World)}) = 1
    BY FS_Singleton
  <2> QED
    BY <2>2, <2>3, FS_Subset
<1> QED
  BY <1>1, CampInvariant, PTL

\* No campaign is left behind: one that executes has an attempt that will be heard,
\* a handler or a timer, a recorded stop its handler, an appointment its timer, whoever
\* comes between (persist, settleChains, scheduleAutoRevive, resumeActive).
THEOREM CampaignAttended == CampSpec => []Attended
<1>1. IInv => Attended
  <2> SUFFICES ASSUME IInv, ~raced PROVE Attended
    BY DEF Attended
  <2>1. Kept(World)
    BY DEF IInv, Sane
  <2>2. ASSUME camp.state = "executing"
        PROVE  \/ \E a \in Workers : busy[a].at # "rest"
               \/ settleChain # <<>>
               \/ \E h \in alarms : h.kind = "resubmit"
               \/ [kind |-> "reconcile", of |-> camp.cur] \in alarms
               \/ \E t \in LiveWork : Current(camp) \in work[t].line
    <3>1. Pursued(World)
      BY <2>1, <2>2, WorldIs DEF Kept
    <3>2. CASE \E a \in Workers : Decides(World, a) \/ Advanced(World, a)
      BY <3>2, WorldIs DEF Decides, Holds, Advanced, Deciding
    <3>3. CASE \E i \in 1..Len(World.settleChain) : Relevant(World, i)
      <4>1. Len(World.settleChain) # 0
        BY <3>3
      <4> QED
        BY <4>1, WorldIs
    <3>4. CASE \E t \in RowsOf(World) : World.work[t].st = "live" /\ Current(World.camp) \in World.work[t].line
      BY <3>4, WorldIs DEF RowsOf, LiveWork
    <3>5. CASE \/ \E h \in World.alarms : h.kind = "resubmit"
               \/ [kind |-> "reconcile", of |-> World.camp.cur] \in World.alarms
      BY <3>5, WorldIs
    <3> QED
      BY <3>1, <3>2, <3>3, <3>4, <3>5 DEF Pursued
  <2>3. ASSUME camp.state = "executing", camp.stop
        PROVE  \E i \in 1..Len(settleChain) : settleChain[i].what = "stop"
    BY <2>1, <2>3, WorldIs DEF Kept, StopWaits
  <2>4. ASSUME camp.state = "failed", camp.appt # NoAppointment
        PROVE  \/ \E a \in Workers : busy[a].at # "rest"
               \/ [kind |-> "revive", of |-> camp.appt] \in alarms
    BY <2>1, <2>4, WorldIs DEF Kept, Waited, Workers
  <2> QED
    BY <2>2, <2>3, <2>4 DEF Attended
<1> QED
  BY <1>1, CampInvariant, PTL

\* From a person's stop of the campaign or its work to a revival the campaign
\* submits nothing, through copies held over awaits, timers and restarts
\* (handleTaskSettled, persist, landRecordedStop, tryHandleCancel).
THEOREM StopOutlasts == CampSpec => StopHolds
<1>1. IInv /\ [CampNext]_campVars =>
        [barred /\ barred' /\ ~raced =>
           \A t \in Work : work[t].st = "none" => work'[t].by # "campaign"]_campVars
  <2> SUFFICES ASSUME IInv, [CampNext]_campVars, barred, barred'
               PROVE  \A t \in Work : work[t].st = "none" => work'[t].by # "campaign"
    OBVIOUS
  <2>1. Submitless(World, World')
    BY CampSteps DEF Quiet
  <2> QED
    BY <2>1 DEF Submitless, World
<1> QED
  BY <1>1, CampInvariant, PTL DEF CampSpec, StopHolds

==============================================================================
