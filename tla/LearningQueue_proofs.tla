------------------------- MODULE LearningQueue_proofs -------------------------
(* Proofs about LearningQueue, for every bound of the queue, every drain     *)
(* budget and any number of offers. The queue is a strictly increasing       *)
(* sequence of item numbers behind everything that was started (Line), each  *)
(* durable item has one place (Places), and the two classes of items keep to *)
(* their bounds (Room). A turn of processNext is treated once, from the      *)
(* kinds and the queue it finds (TurnTakes, TurnKeeps); each handler then    *)
(* shows that it hands over a queue that is ready.                           *)
EXTENDS LearningQueue, FiniteSetTheorems, FunctionTheorems, SequenceTheorems,
        WellFoundedInduction, TLAPS

\* What the constants are.
LEMMA Constants == /\ MaxQueue \in Nat \ {0} /\ MaxDurable \in Nat \ {0}
                   /\ DrainItems \in Nat /\ MaxOffers \in Nat
BY LearnAssumption

---------------------------------------------------------------------------
(* The queue after its last durable item.                                    *)

\* A set of numbers that is not empty has a least one.
LEMMA LeastNat ==
  ASSUME NEW T \in SUBSET Nat, T # {}
  PROVE  \E m \in T : \A k \in T : m <= k
<1>1. PICK m \in T : \A k \in T : <<k, m>> \notin OpToRel(<, Nat)
  BY WFMin, NatLessThanWellFounded, Zenon
<1>2. \A k \in T : ~(k < m)
  BY <1>1, Zenon DEF OpToRel
<1> QED
  BY <1>2

\* UpToLastDurable is a prefix, and what it cuts off is not durable. Its CHOOSE
\* has something to choose: count from the end, and take the least distance.
LEMMA LastDurable ==
  ASSUME NEW k, NEW S, NEW q \in Seq(S)
  PROVE  \E n \in 0..Len(q) :
           /\ UpToLastDurable(k, q) = SubSeq(q, 1, n)
           /\ \A j \in n + 1..Len(q) : ~Durable(k, q[j])
<1> DEFINE Cut(n) == /\ n > 0 => Durable(k, q[n])
                     /\ \A j \in n + 1..Len(q) : ~Durable(k, q[j])
<1>1. Len(q) \in Nat
  OBVIOUS
<1>2. \E n \in 0..Len(q) : Cut(n)
  <2>3. CASE \A j \in 1..Len(q) : ~Durable(k, q[j])
    BY <1>1, <2>3
  <2>4. CASE \E j \in 1..Len(q) : Durable(k, q[j])
    <3> DEFINE U == {x \in Nat : Len(q) - x \in 1..Len(q) /\ Durable(k, q[Len(q) - x])}
    <3>1. U # {}
      <4>1. PICK j \in 1..Len(q) : Durable(k, q[j])
        BY <2>4
      <4>2. Len(q) - j \in Nat /\ Len(q) - (Len(q) - j) = j
        BY <1>1
      <4>3. Len(q) - j \in U
        BY <4>1, <4>2
      <4> QED
        BY <4>3
    <3>2. PICK m \in U : \A x \in U : m <= x
      <4> HIDE DEF U
      <4>1. U \in SUBSET Nat
        BY DEF U
      <4> QED
        BY <3>1, <4>1, LeastNat
    <3>3. \A j \in (Len(q) - m) + 1..Len(q) : ~Durable(k, q[j])
      <4> SUFFICES ASSUME NEW j \in (Len(q) - m) + 1..Len(q), Durable(k, q[j]) PROVE FALSE
        OBVIOUS
      <4>1. m \in Nat /\ Len(q) - m \in 1..Len(q)
        OBVIOUS
      <4>2. /\ Len(q) - j \in Nat /\ Len(q) - (Len(q) - j) = j
            /\ Len(q) - j < m /\ j \in 1..Len(q)
        BY <1>1, <4>1
      <4>3. Len(q) - j \in U
        BY <4>2
      <4>4. m <= Len(q) - j
        BY <3>2, <4>3
      <4> QED
        BY <4>1, <4>2, <4>4, <1>1
    <3>4. Cut(Len(q) - m) /\ Len(q) - m \in 0..Len(q)
      BY <3>3, <1>1
    <3> QED
      BY <3>4
  <2> QED
    BY <2>3, <2>4
<1>3. PICK n \in 0..Len(q) : n = CHOOSE x \in 0..Len(q) : Cut(x)
  BY <1>2
<1>4. Cut(n)
  BY <1>2, <1>3
<1>5. UpToLastDurable(k, q) = SubSeq(q, 1, n)
  BY <1>3 DEF UpToLastDurable
<1> QED
  BY <1>4, <1>5

---------------------------------------------------------------------------
(* One turn of processNext.                                                  *)

\* Items wait in the order they were offered.
Ordered(q) == \A a, b \in DOMAIN q : a < b => q[a] < q[b]

\* A turn takes the first item or none. It cuts off only items that are not
\* durable and have no durable item behind them, and in the open mode none.
LEMMA TurnTakes ==
  ASSUME NEW k, NEW S \in SUBSET (Nat \ {0}), NEW q \in Seq(S), Ordered(q), Turn(k, q),
         left \in 0..DrainItems
  PROVE  /\ queue' \in Seq(S) /\ Ordered(queue') /\ Range(queue') \subseteq Range(q)
         /\ left' \in 0..DrainItems
         /\ mode = "open" /\ queue' # <<>> => current' # 0
         /\ \A i \in Range(q) \ Range(queue') : i # current' =>
              ~Durable(k, i) /\ \A j \in Range(queue') : Durable(k, j) => j < i
         /\ \/ current' = 0 /\ started' = started
            \/ /\ current' \in Range(q) \ Range(queue')
               /\ started' = started \cup {current'}
               /\ \A i \in Range(queue') : current' < i
<1> DEFINE r == IF mode = "open" THEN q ELSE UpToLastDurable(k, q)
<1>0. Len(q) \in Nat /\ q \in [1..Len(q) -> S]
  OBVIOUS
<1>1. PICK n \in 0..Len(q) :
        /\ r \in Seq(S) /\ Len(r) = n
        /\ \A a \in 1..n : r[a] = q[a]
        /\ \A j \in n + 1..Len(q) : ~Durable(k, q[j])
        /\ mode = "open" => n = Len(q)
  <2>1. CASE mode = "open"
    <3>1. r = q
      BY <2>1
    <3>2. Len(q) \in 0..Len(q) /\ Len(q) + 1..Len(q) = {}
      BY <1>0
    <3> HIDE DEF r
    <3> QED
      BY <3>1, <3>2
  <2>2. CASE mode # "open"
    <3>1. PICK n \in 0..Len(q) :
            /\ UpToLastDurable(k, q) = SubSeq(q, 1, n)
            /\ \A j \in n + 1..Len(q) : ~Durable(k, q[j])
      BY LastDurable
    <3>2. \A i \in 1..n : q[i] \in S
      BY <1>0
    <3>3. SubSeq(q, 1, n) \in Seq(S) /\ Len(SubSeq(q, 1, n)) = n
          /\ \A a \in 1..n : SubSeq(q, 1, n)[a] = q[a]
      BY <1>0, <3>2, SubSeqProperties
    <3> QED
      BY <2>2, <3>1, <3>3
  <2> QED
    BY <2>1, <2>2
<1>2. Turn(k, q) <=>
        IF r = <<>> \/ (mode = "draining" /\ DrainSpent)
        THEN queue' = r /\ current' = 0 /\ UNCHANGED <<left, started>>
        ELSE /\ queue' = Tail(r) /\ current' = Head(r)
             /\ started' = started \cup {Head(r)}
             /\ left' = IF mode = "draining" THEN left - 1 ELSE left
  BY DEF Turn
<1> HIDE DEF r
<1>3. /\ DOMAIN q = 1..Len(q) /\ DOMAIN r = 1..n
      /\ Range(q) = {q[a] : a \in 1..Len(q)} /\ Range(r) = {r[a] : a \in 1..n}
  <2>1. DOMAIN r = 1..Len(r)
    BY <1>1
  <2> QED
    BY <2>1, <1>0, <1>1 DEF Range
<1>30. ASSUME NEW a \in 1..n PROVE a \in 1..Len(q) /\ r[a] = q[a]
  <2>1. a \in 1..Len(q)
    BY <1>0
  <2> QED
    BY <2>1, <1>1
<1>4. Ordered(r)
  <2> SUFFICES ASSUME NEW a \in DOMAIN r, NEW b \in DOMAIN r, a < b PROVE r[a] < r[b]
    BY DEF Ordered
  <2> QED
    BY <1>3, <1>30 DEF Ordered
<1>5. CASE r = <<>> \/ (mode = "draining" /\ DrainSpent)
  <2>1. queue' = r /\ current' = 0 /\ left' = left /\ started' = started
    BY <1>2, <1>5
  <2>2. Range(queue') \subseteq Range(q)
    BY <1>3, <1>30, <2>1
  <2>3. ASSUME NEW i \in Range(q) \ Range(queue')
        PROVE  ~Durable(k, i) /\ \A j \in Range(queue') : Durable(k, j) => j < i
    <3>1. PICK a \in 1..Len(q) : q[a] = i
      BY <1>3 DEF Range
    <3>2. a \in n + 1..Len(q)
      <4>1. a \notin 1..n
        BY <1>1, <1>3, <2>1, <2>3, <3>1 DEF Range
      <4> QED
        BY <4>1, <1>0
    <3>3. \A b \in 1..n : r[b] < i
      <4> TAKE b \in 1..n
      <4>1. b \in DOMAIN q /\ a \in DOMAIN q /\ b < a
        BY <1>0, <1>3, <3>2
      <4> QED
        BY <4>1, <3>1, <1>1 DEF Ordered
    <3> QED
      BY <1>1, <1>3, <2>1, <3>1, <3>2, <3>3 DEF Range
  <2>4. mode = "open" => queue' = <<>>
    BY <1>5, <2>1
  <2> QED
    BY <1>1, <1>4, <2>1, <2>2, <2>3, <2>4
<1>6. CASE ~(r = <<>> \/ (mode = "draining" /\ DrainSpent))
  <2>1. /\ queue' = Tail(r) /\ current' = Head(r)
        /\ started' = started \cup {Head(r)}
        /\ left' = IF mode = "draining" THEN left - 1 ELSE left
    BY <1>2, <1>6
  <2>2. /\ Head(r) \in S /\ Head(r) = r[1]
        /\ Tail(r) \in Seq(S)
        /\ Len(Tail(r)) = n - 1 /\ n \in Nat \ {0}
        /\ \A i \in 1..n - 1 : Tail(r)[i] = r[i + 1]
    <3>1. r \in Seq(S) /\ r # <<>> /\ Len(r) = n /\ n \in Nat
      <4>1. r \in Seq(S) /\ Len(r) = n
        BY <1>1
      <4>2. r # <<>>
        BY <1>6
      <4>3. n \in Nat
        BY <1>0
      <4> QED
        BY <4>1, <4>2, <4>3
    <3>2. n # 0
      BY <3>1, EmptySeq
    <3>3. Head(r) = r[1]
      BY <3>1
    <3> QED
      BY <3>1, <3>2, <3>3, HeadTailProperties
  <2>3. Range(queue') = {r[b] : b \in 2..n}
    <3>0. queue' \in Seq(S) /\ Len(queue') = n - 1
      BY <2>1, <2>2
    <3>1. DOMAIN queue' = 1..n - 1
      BY <3>0
    <3>2. ASSUME NEW b \in 2..n PROVE r[b] \in Range(queue')
      <4>1. b - 1 \in 1..n - 1 /\ (b - 1) + 1 = b
        BY <2>2
      <4>2. queue'[b - 1] = r[b]
        BY <2>1, <2>2, <4>1
      <4> QED
        BY <3>1, <4>1, <4>2 DEF Range
    <3>3. ASSUME NEW i \in Range(queue') PROVE i \in {r[b] : b \in 2..n}
      <4>1. PICK a \in 1..n - 1 : queue'[a] = i
        BY <3>1 DEF Range
      <4>2. a + 1 \in 2..n /\ i = r[a + 1]
        BY <2>1, <2>2, <4>1
      <4> QED
        BY <4>2
    <3> QED
      BY <3>2, <3>3
  <2>4. Ordered(queue')
    <3> SUFFICES ASSUME NEW a \in DOMAIN queue', NEW b \in DOMAIN queue', a < b
                 PROVE  queue'[a] < queue'[b]
      BY DEF Ordered
    <3>1. a \in 1..n - 1 /\ b \in 1..n - 1
      BY <2>1, <2>2
    <3>2. queue'[a] = r[a + 1] /\ queue'[b] = r[b + 1]
      BY <2>1, <2>2, <3>1
    <3>3. a + 1 \in DOMAIN r /\ b + 1 \in DOMAIN r /\ a + 1 < b + 1
      BY <1>3, <2>2, <3>1
    <3> QED
      BY <1>4, <3>2, <3>3 DEF Ordered
  <2>5. Range(queue') \subseteq Range(q) /\ current' \in Range(q)
    <3>1. 1 \in 1..n /\ 2..n \subseteq 1..n
      BY <2>2
    <3> QED
      BY <1>3, <1>30, <2>1, <2>2, <2>3, <3>1
  <2>6. \A i \in Range(queue') : current' < i
    <3> TAKE i \in Range(queue')
    <3>1. PICK b \in 2..n : i = r[b]
      BY <2>3
    <3>2. 1 \in DOMAIN r /\ b \in DOMAIN r /\ 1 < b
      BY <1>3, <2>2
    <3> QED
      BY <1>4, <2>1, <2>2, <3>1, <3>2 DEF Ordered
  <2>7. ASSUME NEW i \in Range(q) \ Range(queue'), i # current'
        PROVE  ~Durable(k, i) /\ \A j \in Range(queue') : Durable(k, j) => j < i
    <3>1. PICK a \in 1..Len(q) : q[a] = i
      BY <1>3 DEF Range
    <3>2. a \in n + 1..Len(q)
      <4>1. a \notin 2..n
        BY <1>30, <2>2, <2>3, <2>7, <3>1
      <4>2. a # 1
        BY <1>1, <2>1, <2>2, <2>7, <3>1
      <4> QED
        BY <4>1, <4>2, <1>0
    <3>3. \A b \in 1..n : r[b] < i
      <4> TAKE b \in 1..n
      <4>1. b \in DOMAIN q /\ a \in DOMAIN q /\ b < a
        BY <1>0, <1>3, <3>2
      <4> QED
        BY <4>1, <3>1, <1>1 DEF Ordered
    <3> QED
      BY <1>1, <2>2, <2>3, <3>1, <3>2, <3>3
  <2>8. current' \notin Range(queue')
    <3>1. Range(queue') \subseteq Nat
      <4>1. Range(queue') \subseteq S
        BY <2>1, <2>2, RangeOfSeq
      <4> QED
        BY <4>1
    <3>2. current' \in Nat
      BY <2>1, <2>2
    <3> QED
      BY <2>6, <3>1, <3>2
  <2>9. left' \in 0..DrainItems
    BY <1>6, <2>1, Constants DEF DrainSpent
  <2>10. current' # 0
    BY <2>1, <2>2
  <2> QED
    BY <2>1, <2>2, <2>4, <2>5, <2>6, <2>7, <2>8, <2>9, <2>10
<1> QED
  BY <1>5, <1>6
---------------------------------------------------------------------------
(* The invariant.                                                            *)

\* Where a durable item is: in q, run, with its fallback, or counted.
Place(q, i) ==
  \/ i \in Range(q) /\ fallen[i] = 0 /\ i \notin started \cup counted
  \/ i \in started /\ fallen[i] = 0 /\ i \notin Range(q) \cup counted
  \/ fallen[i] = 1 /\ i \notin Range(q) \cup started \cup counted
  \/ i \in counted /\ fallen[i] = 0 /\ i \notin Range(q) \cup started

\* The items of q that have a bound of their own, and the rest.
DurablesOf(k, q) == {i \in Range(q) : Durable(k, i)}
OthersOf(k, q) == Range(q) \ DurablesOf(k, q)

\* Everything that was started comes before everything that waits.
Line(q) == Ordered(q) /\ \A j \in started, i \in Range(q) : j < i
\* Each durable item has its place; no fallback ran for an item not yet offered.
Places(k, q) ==
  /\ \A i \in 1..Len(k) : Durable(k, i) => Place(q, i)
  /\ \A i \in Items : i > Len(k) => fallen[i] = 0
\* The bounds, each for its own class.
Room(k, q) ==
  Cardinality(DurablesOf(k, q)) <= MaxDurable /\ Cardinality(OthersOf(k, q)) <= MaxQueue
\* A queue that a turn may be given.
Ready(k, q) == q \in Seq(1..Len(k)) /\ Line(q) /\ Places(k, q) /\ Room(k, q)

\* The types of the other variables.
Typed ==
  /\ kind \in Seq(Kinds) /\ Len(kind) <= MaxOffers
  /\ started \subseteq 1..Len(kind) /\ evicted \subseteq 1..Len(kind)
  /\ counted \subseteq 1..Len(kind)
  /\ current \in 0..Len(kind) /\ (current # 0 => current \in started)
  /\ mode \in {"open", "draining", "drained"} /\ left \in 0..DrainItems /\ deadline \in BOOLEAN
  /\ fallen \in [Items -> Nat]

\* The inductive invariant.
LInv == Typed /\ Ready(kind, queue) /\ (mode = "open" /\ queue # <<>> => current # 0)

\* The classes of items in a queue are finite.
LEMMA Finite ==
  ASSUME NEW k, NEW S, NEW q \in Seq(S)
  PROVE  /\ IsFiniteSet(Range(q)) /\ IsFiniteSet(DurablesOf(k, q)) /\ IsFiniteSet(OthersOf(k, q))
         /\ Cardinality(DurablesOf(k, q)) \in Nat /\ Cardinality(OthersOf(k, q)) \in Nat
<1>1. IsFiniteSet(DOMAIN q)
  BY FS_Interval
<1>2. q \in Surjection(DOMAIN q, Range(q))
  BY DEF Surjection, Range
<1>3. IsFiniteSet(Range(q))
  BY <1>1, <1>2, FS_Surjection
<1>4. IsFiniteSet(DurablesOf(k, q)) /\ IsFiniteSet(OthersOf(k, q))
  BY <1>3, FS_Subset DEF DurablesOf, OthersOf
<1> QED
  BY <1>3, <1>4, FS_CardinalityType

\* A queue with fewer items keeps to the bounds.
LEMMA RoomShrinks ==
  ASSUME NEW k, NEW S, NEW q \in Seq(S), NEW p \in Seq(S), Room(k, q),
         Range(p) \subseteq Range(q)
  PROVE  Room(k, p)
<1>1. DurablesOf(k, p) \subseteq DurablesOf(k, q) /\ OthersOf(k, p) \subseteq OthersOf(k, q)
  BY DEF DurablesOf, OthersOf
<1>2. /\ Cardinality(DurablesOf(k, p)) <= Cardinality(DurablesOf(k, q))
      /\ Cardinality(OthersOf(k, p)) <= Cardinality(OthersOf(k, q))
  BY <1>1, Finite, FS_Subset
<1>3. Cardinality(DurablesOf(k, q)) <= MaxDurable /\ Cardinality(OthersOf(k, q)) <= MaxQueue
  BY DEF Room
<1> QED
  BY <1>2, <1>3, Finite, Constants DEF Room

\* A turn on a ready queue leaves the invariant.
LEMMA TurnKeeps ==
  ASSUME NEW k \in Seq(Kinds), NEW q, Len(k) <= MaxOffers,
         Typed, Ready(k, q), Turn(k, q), Len(kind) <= Len(k),
         kind' = k, evicted' \subseteq 1..Len(k), mode' = mode,
         UNCHANGED <<deadline, fallen, counted>>
  PROVE  LInv'
<1>1. PICK S : S = 1..Len(k)
  OBVIOUS
<1>2. S \in SUBSET (Nat \ {0}) /\ q \in Seq(S) /\ Ordered(q) /\ left \in 0..DrainItems
  BY <1>1 DEF Ready, Line, Typed
<1>3. /\ queue' \in Seq(S) /\ Ordered(queue') /\ Range(queue') \subseteq Range(q)
      /\ left' \in 0..DrainItems
      /\ mode = "open" /\ queue' # <<>> => current' # 0
  BY <1>2, TurnTakes
<1>4. \A i \in Range(q) \ Range(queue') : i # current' => ~Durable(k, i)
  BY <1>2, TurnTakes
<1>5. \/ current' = 0 /\ started' = started
      \/ /\ current' \in Range(q) \ Range(queue')
         /\ started' = started \cup {current'}
         /\ \A i \in Range(queue') : current' < i
  BY <1>2, TurnTakes
<1>6. Range(q) \subseteq S
  BY <1>2, RangeOfSeq
<1>7. Typed'
  <2>1. Len(kind) \in Nat /\ Len(k) \in Nat
    BY DEF Typed
  <2>2. \A i \in 1..Len(kind) : i \in 1..Len(k)
    BY <2>1
  <2>3. started \subseteq 1..Len(k) /\ counted \subseteq 1..Len(k)
    BY <2>2 DEF Typed
  <2>4. started' \subseteq 1..Len(k) /\ current' \in 0..Len(k)
    <3>1. current' = 0 \/ current' \in 1..Len(k)
      BY <1>1, <1>5, <1>6
    <3>2. started' \subseteq started \cup 1..Len(k)
      BY <1>1, <1>5, <1>6
    <3> QED
      BY <2>1, <2>3, <3>1, <3>2
  <2>5. current' # 0 => current' \in started'
    BY <1>5
  <2> QED
    BY <1>3, <2>3, <2>4, <2>5 DEF Typed
<1>8. Line(queue)'
  BY <1>3, <1>5 DEF Ready, Line, Ordered
<1>9. Places(kind, queue)'
  <2>1. ASSUME NEW i \in 1..Len(k), Durable(k, i) PROVE Place(queue, i)'
    <3>1. Place(q, i)
      BY <2>1 DEF Ready, Places
    <3>2. i \in Range(q) /\ i \notin Range(queue') => i = current'
      BY <1>4, <2>1
    <3>3. i # 0
      OBVIOUS
    <3> QED
      BY <1>3, <1>5, <3>1, <3>2, <3>3 DEF Place
  <2> QED
    BY <2>1 DEF Ready, Places
<1>10. Room(kind, queue)'
  <2>1. Room(k, queue')
    BY <1>2, <1>3, RoomShrinks DEF Ready
  <2> QED
    BY <2>1 DEF Room, DurablesOf, OthersOf, Durable
<1> QED
  BY <1>1, <1>3, <1>7, <1>8, <1>9, <1>10 DEF LInv, Ready
---------------------------------------------------------------------------
(* Newcomers.                                                                *)

\* No item waits twice, so the code's counts of positions are counts of items.
LEMMA CountsByItem ==
  ASSUME NEW k, NEW S \in SUBSET Nat, NEW q \in Seq(S), Ordered(q)
  PROVE  /\ Cardinality({j \in DOMAIN q : Durable(k, q[j])}) = Cardinality(DurablesOf(k, q))
         /\ Len(q) = Cardinality(DurablesOf(k, q)) + Cardinality(OthersOf(k, q))
<1> DEFINE J == {j \in DOMAIN q : Durable(k, q[j])}
           D == DurablesOf(k, q)
           O == OthersOf(k, q)
           f == [j \in J |-> q[j]]
<1>0. /\ DOMAIN q = 1..Len(q) /\ Len(q) \in Nat /\ IsFiniteSet(DOMAIN q)
      /\ Cardinality(DOMAIN q) = Len(q) /\ q \in [1..Len(q) -> S]
  <2>1. DOMAIN q = 1..Len(q) /\ Len(q) \in Nat /\ q \in [1..Len(q) -> S]
    OBVIOUS
  <2>2. IsFiniteSet(1..Len(q)) /\ Cardinality(1..Len(q)) = Len(q)
    <3>1. PICK n \in Nat : n = Len(q)
      BY <2>1
    <3>2. n \in Int /\ 1 \in Int
      OBVIOUS
    <3>3. IsFiniteSet(1..n) /\ Cardinality(1..n) = IF 1 > n THEN 0 ELSE n - 1 + 1
      BY <3>2, FS_Interval, Zenon
    <3>4. Cardinality(1..n) = n
      BY <3>3
    <3> QED
      BY <3>1, <3>3, <3>4
  <2> QED
    BY <2>1, <2>2
<1>1. \A a, b \in DOMAIN q : q[a] = q[b] => a = b
  <2> SUFFICES ASSUME NEW a \in DOMAIN q, NEW b \in DOMAIN q, q[a] = q[b], a # b PROVE FALSE
    OBVIOUS
  <2>1. q[a] \in Nat /\ q[b] \in Nat
    BY <1>0
  <2>2. a < b \/ b < a
    BY <1>0
  <2> QED
    BY <2>1, <2>2 DEF Ordered
<1>2. f \in Bijection(J, D)
  BY <1>1 DEF Bijection, Injection, Surjection, IsInjective, DurablesOf, Range
<1>3. ExistsBijection(J, D) /\ IsFiniteSet(J)
  BY <1>0, <1>2, FS_Subset DEF ExistsBijection
<1>4. Cardinality(J) = Cardinality(D)
  BY <1>3, FS_Bijection
<1>5. q \in Bijection(DOMAIN q, Range(q))
  BY <1>1, <1>0 DEF Bijection, Injection, Surjection, IsInjective, Range
<1>6. Cardinality(Range(q)) = Len(q)
  BY <1>0, <1>5, FS_Bijection DEF ExistsBijection
<1>7. Range(q) = D \cup O /\ D \cap O = {}
  BY DEF DurablesOf, OthersOf
<1>8. IsFiniteSet(D) /\ IsFiniteSet(O) /\ Cardinality(D) \in Nat /\ Cardinality(O) \in Nat
  BY Finite
<1>9. Cardinality(D \cup O) = Cardinality(D) + Cardinality(O)
  <2>1. Cardinality(D \cap O) = 0
    BY <1>7, FS_EmptySet
  <2> HIDE DEF D, O
  <2>2. Cardinality(D \cup O) = Cardinality(D) + Cardinality(O) - Cardinality(D \cap O)
    BY <1>8, FS_Union
  <2> QED
    BY <1>8, <2>1, <2>2
<1> QED
  BY <1>4, <1>6, <1>7, <1>9

\* A newcomer that fits its bound makes the queue longer and leaves it ready.
LEMMA AppendReady ==
  ASSUME NEW c \in Kinds, Typed, NEW p \in Seq(1..Len(kind)), Line(p),
         Len(kind) < MaxOffers,
         \A i \in 1..Len(kind) : Durable(kind, i) => Place(p, i),
         \A i \in Items : i > Len(kind) => fallen[i] = 0,
         Cardinality(DurablesOf(kind, p)) + (IF c = "observation" THEN 0 ELSE 1) <= MaxDurable,
         Cardinality(OthersOf(kind, p)) + (IF c = "observation" THEN 1 ELSE 0) <= MaxQueue
  PROVE  Ready(Append(kind, c), Append(p, New))
<1> DEFINE k == Append(kind, c)
           q == Append(p, New)
<1>1. /\ k \in Seq(Kinds) /\ Len(k) = New /\ New \in Items
      /\ \A i \in 1..Len(kind) : k[i] = kind[i]
      /\ k[New] = c /\ Len(kind) \in Nat
  <2>1. kind \in Seq(Kinds)
    BY DEF Typed
  <2> QED
    BY <2>1, AppendProperties, Constants DEF New, Items
<1>2. p \in Seq(1..New) /\ Range(p) \subseteq 1..Len(kind)
  BY <1>1, RangeOfSeq DEF New
<1>3. /\ q \in Seq(1..New) /\ Len(q) = Len(p) + 1 /\ Len(p) \in Nat
      /\ \A i \in 1..Len(p) : q[i] = p[i]
      /\ q[Len(p) + 1] = New
  BY <1>1, <1>2, AppendProperties DEF New
<1>4. DOMAIN q = 1..Len(p) + 1 /\ DOMAIN p = 1..Len(p)
  BY <1>2, <1>3
<1> HIDE DEF k, q
<1>5. Range(q) = Range(p) \cup {New}
  BY <1>3, <1>4 DEF Range
<1>6. New \notin 1..Len(kind) /\ \A i \in 1..Len(kind) : i < New
  BY <1>1 DEF New
<1>7. Ordered(q)
  <2> SUFFICES ASSUME NEW a \in DOMAIN q, NEW b \in DOMAIN q, a < b PROVE q[a] < q[b]
    BY DEF Ordered
  <2>1. a \in DOMAIN p
    BY <1>3, <1>4
  <2>2. q[a] = p[a] /\ p[a] \in 1..Len(kind)
    BY <1>2, <1>3, <1>4, <2>1 DEF Range
  <2>3. CASE b \in DOMAIN p
    BY <1>3, <1>4, <2>1, <2>2, <2>3 DEF Line, Ordered
  <2>4. CASE b = Len(p) + 1
    BY <1>3, <1>6, <2>2, <2>4
  <2> QED
    BY <1>3, <1>4, <2>3, <2>4
<1>8. Line(q)
  BY <1>5, <1>6, <1>7 DEF Line, Typed
<1>9. Places(k, q)
  <2>1. ASSUME NEW i \in 1..New, Durable(k, i) PROVE Place(q, i)
    <3>1. CASE i \in 1..Len(kind)
      <4>1. Place(p, i) /\ i # New
        BY <1>1, <1>6, <2>1, <3>1 DEF Durable
      <4> QED
        BY <4>1, <1>5 DEF Place
    <3>2. CASE i = New
      <4>1. New \notin started \cup counted
        BY <1>6 DEF Typed
      <4>2. fallen[New] = 0
        BY <1>1 DEF New
      <4> QED
        BY <3>2, <4>1, <4>2, <1>5 DEF Place
    <3> QED
      BY <1>1, <3>1, <3>2 DEF New
  <2>2. \A i \in Items : i > New => fallen[i] = 0
    BY <1>1 DEF Items, New
  <2> QED
    BY <1>1, <2>1, <2>2 DEF Places
<1>10. Room(k, q)
  <2>1. \A i \in Range(p) : Durable(k, i) <=> Durable(kind, i)
    BY <1>1, <1>2 DEF Durable
  <2>2. /\ IsFiniteSet(DurablesOf(kind, p)) /\ IsFiniteSet(OthersOf(kind, p))
        /\ Cardinality(DurablesOf(kind, p)) \in Nat /\ Cardinality(OthersOf(kind, p)) \in Nat
    BY Finite
  <2>3. New \notin DurablesOf(kind, p) /\ New \notin OthersOf(kind, p)
    BY <1>2, <1>6 DEF DurablesOf, OthersOf
  <2>4. CASE c = "observation"
    <3>1. DurablesOf(k, q) = DurablesOf(kind, p) /\ OthersOf(k, q) = OthersOf(kind, p) \cup {New}
      BY <1>1, <1>5, <2>1, <2>4 DEF DurablesOf, OthersOf, Durable
    <3> QED
      <4>1. Cardinality(OthersOf(k, q)) = Cardinality(OthersOf(kind, p)) + 1
        BY <2>2, <2>3, <3>1, FS_AddElement
      <4> QED
        BY <2>2, <2>4, <3>1, <4>1, Constants DEF Room
  <2>5. CASE c # "observation"
    <3>1. OthersOf(k, q) = OthersOf(kind, p) /\ DurablesOf(k, q) = DurablesOf(kind, p) \cup {New}
      BY <1>1, <1>2, <1>5, <1>6, <2>1, <2>5 DEF DurablesOf, OthersOf, Durable
    <3> QED
      <4>1. Cardinality(DurablesOf(k, q)) = Cardinality(DurablesOf(kind, p)) + 1
        BY <2>2, <2>3, <3>1, FS_AddElement
      <4> QED
        BY <2>2, <2>5, <3>1, <4>1, Constants DEF Room
  <2> QED
    BY <2>4, <2>5
<1> QED
  BY <1>1, <1>3, <1>8, <1>9, <1>10 DEF Ready, k, q
---------------------------------------------------------------------------
(* The initial state, and what no item moves through.                        *)

\* Nothing was offered.
LEMMA LInvInit == LearnInit => LInv
<1> SUFFICES ASSUME LearnInit PROVE LInv
  OBVIOUS
<1>1. kind = <<>> /\ queue = <<>> /\ Len(kind) = 0 /\ Range(queue) = {}
  BY DEF LearnInit, Range
<1>2. DurablesOf(kind, queue) = {} /\ OthersOf(kind, queue) = {}
  BY <1>1 DEF DurablesOf, OthersOf
<1>3. Room(kind, queue)
  BY <1>2, FS_EmptySet, Constants DEF Room
<1>4. Line(queue) /\ Places(kind, queue)
  BY <1>1 DEF LearnInit, Line, Ordered, Places
<1> QED
  <2>1. Typed
    <3>1. kind \in Seq(Kinds) /\ Len(kind) <= MaxOffers
      BY <1>1, EmptySeq, Constants
    <3>2. current \in 0..Len(kind) /\ left \in 0..DrainItems
      BY <1>1, Constants DEF LearnInit
    <3> QED
      BY <3>1, <3>2 DEF LearnInit, Typed
  <2> QED
    BY <1>1, <1>3, <1>4, <2>1 DEF LInv, Ready

\* What the invariant says of the queue and of its counts.
LEMMA Facts ==
  ASSUME LInv
  PROVE  /\ kind \in Seq(Kinds) /\ Len(kind) \in Nat /\ DOMAIN kind = 1..Len(kind)
         /\ queue \in Seq(1..Len(kind)) /\ Range(queue) \subseteq 1..Len(kind)
         /\ Len(queue) \in Nat /\ DOMAIN queue = 1..Len(queue)
         /\ DurableQueued = Cardinality(DurablesOf(kind, queue))
         /\ Len(queue) = DurableQueued + Cardinality(OthersOf(kind, queue))
         /\ DurableQueued \in Nat /\ Cardinality(OthersOf(kind, queue)) \in Nat
<1>1. kind \in Seq(Kinds) /\ queue \in Seq(1..Len(kind)) /\ Ordered(queue)
  BY DEF LInv, Typed, Ready, Line
<1>2. Len(kind) \in Nat /\ DOMAIN kind = 1..Len(kind)
  BY <1>1
<1>3. Len(queue) \in Nat /\ DOMAIN queue = 1..Len(queue)
  BY <1>1
<1>4. DurableQueued = Cardinality(DurablesOf(kind, queue))
      /\ Len(queue) = Cardinality(DurablesOf(kind, queue)) + Cardinality(OthersOf(kind, queue))
  <2>1. 1..Len(kind) \in SUBSET Nat
    OBVIOUS
  <2> QED
    BY <1>1, <2>1, CountsByItem DEF DurableQueued
<1> QED
  BY <1>1, <1>2, <1>3, <1>4, RangeOfSeq, Finite

\* A step that moves no item: the flags of shutdown.
LEMMA IdleKeeps ==
  ASSUME LInv, UNCHANGED <<kind, queue, current, started, evicted, fallen, counted>>,
         left' \in 0..DrainItems, deadline' \in BOOLEAN,
         mode' \in {"open", "draining", "drained"}, mode' = "open" => mode = "open"
  PROVE  LInv'
BY DEF LInv, Typed, Ready, Line, Ordered, Places, Place, Room, DurablesOf, OthersOf, Durable

\* A newcomer that is refused is settled at once; no other item moves.
LEMMA RefusalKeeps ==
  ASSUME LInv, NEW c \in Kinds, Offers(c), Idle, NEW x, x = New,
         Durable(kind', x) => Place(queue, x)',
         evicted' \subseteq evicted \cup {New}, counted' \subseteq counted \cup {New},
         counted \subseteq counted', fallen' \in [Items -> Nat],
         \A i \in Items : i # New => fallen'[i] = fallen[i]
  PROVE  LInv'
<1>1. /\ kind \in Seq(Kinds) /\ kind' \in Seq(Kinds) /\ Len(kind') = New
      /\ New \in Items /\ Len(kind') <= MaxOffers /\ Len(kind) \in Nat
      /\ \A i \in 1..Len(kind) : kind'[i] = kind[i]
  BY AppendProperties, Constants DEF LInv, Typed, Offers, New, Items
<1>2. /\ UNCHANGED <<mode, deadline, queue, current, left, started>>
      /\ \A i \in 1..Len(kind) : i \in 1..New /\ i # New
  BY <1>1 DEF Offers, Idle, New
<1>3. Typed'
  BY <1>1, <1>2 DEF LInv, Typed, New
<1>4. queue \in Seq(1..Len(kind)) /\ Range(queue) \subseteq 1..Len(kind)
  BY Facts
<1>5. queue' \in Seq(1..Len(kind'))
  BY <1>1, <1>2, <1>4 DEF New
<1>6. Line(queue)'
  BY <1>2 DEF LInv, Ready, Line, Ordered
<1>7. Places(kind, queue)'
  <2>1. ASSUME NEW i \in 1..New, Durable(kind', i) PROVE Place(queue, i)'
    <3>1. CASE i = New
      <4>1. i = x
        BY <3>1
      <4> QED
        BY <2>1, <4>1
    <3>2. CASE i # New
      <4>0. New = Len(kind) + 1 /\ New \in 1..MaxOffers
        BY <1>1 DEF New, Items
      <4>1. i \in 1..Len(kind) /\ i \in Items
        BY <1>1, <3>2, <4>0, Constants DEF Items
      <4>2. Place(queue, i)
        BY <1>1, <2>1, <4>1 DEF LInv, Ready, Places, Durable
      <4> QED
        BY <1>2, <3>2, <4>1, <4>2 DEF Place
    <3> QED
      BY <3>1, <3>2
  <2>2. \A i \in Items : i > New => fallen'[i] = 0
    BY <1>1 DEF LInv, Ready, Places, New, Items
  <2> QED
    BY <1>1, <2>1, <2>2 DEF Places
<1>8. Room(kind, queue)'
  <2>1. DurablesOf(kind', queue) = DurablesOf(kind, queue)
        /\ OthersOf(kind', queue) = OthersOf(kind, queue)
    BY <1>1, <1>4 DEF DurablesOf, OthersOf, Durable
  <2>2. DurablesOf(kind, queue)' = DurablesOf(kind', queue)
        /\ OthersOf(kind, queue)' = OthersOf(kind', queue)
    BY <1>2 DEF DurablesOf, OthersOf, Durable
  <2> QED
    BY <2>1, <2>2 DEF LInv, Ready, Room
<1> QED
  BY <1>2, <1>3, <1>5, <1>6, <1>7, <1>8 DEF LInv, Ready

\* A newcomer joins p, the queue without whom it displaces: it waits behind the
\* item in flight, or a turn starts at once.
LEMMA JoinKeeps ==
  ASSUME LInv, NEW c \in Kinds, Offers(c), NEW p, Ready(kind', Append(p, New)), Joins(c, p),
         evicted' \subseteq evicted \cup 1..Len(kind), UNCHANGED <<fallen, counted>>
  PROVE  LInv'
<1>1. /\ kind \in Seq(Kinds) /\ kind' \in Seq(Kinds) /\ Len(kind') = New
      /\ Len(kind') <= MaxOffers /\ Len(kind) \in Nat /\ Len(kind) <= Len(kind')
  BY AppendProperties, Constants DEF LInv, Typed, Offers, New
<1>2. mode' = mode /\ deadline' = deadline /\ Typed
  BY DEF Offers, LInv
<1>3. evicted' \subseteq 1..Len(kind')
  BY <1>1, <1>2 DEF Typed
<1>4. CASE current # 0
  <2>1. queue' = Append(p, New) /\ UNCHANGED <<current, left, started>>
    BY <1>4 DEF Joins
  <2>2. Typed'
    <3>1. \A i \in 1..Len(kind) : i \in 1..Len(kind')
      BY <1>1
    <3> QED
      BY <1>1, <1>2, <1>3, <2>1, <3>1 DEF Typed
  <2>3. Ready(kind, queue)'
    BY <2>1 DEF Ready, Line, Ordered, Places, Place, Room, DurablesOf, OthersOf, Durable
  <2> QED
    BY <1>4, <2>1, <2>2, <2>3 DEF LInv
<1>5. CASE current = 0
  <2>1. PICK k, q : k = kind' /\ q = Append(p, New)
    OBVIOUS
  <2>2. Turn(k, q)
    BY <1>5, <2>1 DEF Joins
  <2>3. Ready(k, q)
    BY <2>1
  <2> QED
    BY <1>1, <1>2, <1>3, <2>1, <2>2, <2>3, TurnKeeps
<1> QED
  BY <1>4, <1>5

\* The queue without an observation is in line still, and lost nothing else.
LEMMA EvictionReady ==
  ASSUME LInv, NEW n \in DOMAIN queue, ~Durable(kind, queue[n])
  PROVE  /\ RemoveAt(queue, n) \in Seq(1..Len(kind)) /\ Line(RemoveAt(queue, n))
         /\ Range(RemoveAt(queue, n)) = Range(queue) \ {queue[n]}
<1> DEFINE l == SubSeq(queue, 1, n - 1)
           r == SubSeq(queue, n + 1, Len(queue))
           p == RemoveAt(queue, n)
           m == Len(queue)
<1>1. /\ queue \in Seq(1..Len(kind)) /\ m \in Nat /\ n \in 1..m /\ DOMAIN queue = 1..m
      /\ \A i \in 1..m : queue[i] \in 1..Len(kind)
  BY Facts
<1>2. /\ l \in Seq(1..Len(kind)) /\ Len(l) = n - 1
      /\ \A i \in 1..n - 1 : l[i] = queue[i]
  <2>1. \A i \in 1..n - 1 : queue[i] \in 1..Len(kind)
    BY <1>1
  <2>2. 1 \in Int /\ n - 1 \in Int
    BY <1>1
  <2>3. /\ l \in Seq(1..Len(kind)) /\ Len(l) = IF 1 <= n - 1 THEN (n - 1) - 1 + 1 ELSE 0
        /\ \A i \in 1..(n - 1) - 1 + 1 : l[i] = queue[1 + i - 1]
    BY <2>1, <2>2, SubSeqProperties
  <2> QED
    BY <1>1, <2>3
<1>3. /\ r \in Seq(1..Len(kind)) /\ Len(r) = m - n
      /\ \A i \in 1..m - n : r[i] = queue[n + i]
  <2>1. \A i \in n + 1..m : queue[i] \in 1..Len(kind)
    BY <1>1
  <2>2. n + 1 \in Int /\ m \in Int
    BY <1>1
  <2>3. /\ r \in Seq(1..Len(kind)) /\ Len(r) = IF n + 1 <= m THEN m - (n + 1) + 1 ELSE 0
        /\ \A i \in 1..m - (n + 1) + 1 : r[i] = queue[(n + 1) + i - 1]
    BY <2>1, <2>2, SubSeqProperties
  <2> HIDE DEF r, m
  <2>4. m - (n + 1) + 1 = m - n /\ (n + 1 <= m => m - n \in Nat) /\ (~(n + 1 <= m) => m - n = 0)
    BY <1>1
  <2>5. Len(r) = m - n
    BY <2>3, <2>4
  <2>6. ASSUME NEW i \in 1..m - n PROVE r[i] = queue[n + i]
    <3>1. (n + 1) + i - 1 = n + i
      BY <1>1
    <3> QED
      BY <2>3, <2>4, <3>1
  <2> QED
    BY <2>3, <2>5, <2>6
<1>4. /\ p \in Seq(1..Len(kind)) /\ Len(p) = m - 1
      /\ \A i \in 1..m - 1 : p[i] = IF i < n THEN queue[i] ELSE queue[i + 1]
  <2>1. p = l \o r
    BY DEF RemoveAt
  <2> HIDE DEF l, r, p
  <2>2. p \in Seq(1..Len(kind)) /\ Len(p) = Len(l) + Len(r)
        /\ \A i \in 1..Len(l) + Len(r) : p[i] = IF i <= Len(l) THEN l[i] ELSE r[i - Len(l)]
    BY <1>2, <1>3, <2>1, ConcatProperties
  <2>3. Len(p) = m - 1
    BY <1>1, <1>2, <1>3, <2>2
  <2>4. ASSUME NEW i \in 1..m - 1 PROVE p[i] = IF i < n THEN queue[i] ELSE queue[i + 1]
    <3>1. i \in 1..Len(l) + Len(r)
      BY <1>1, <1>2, <1>3
    <3>2. CASE i < n
      BY <1>1, <1>2, <2>2, <3>1, <3>2
    <3>3. CASE ~(i < n)
      <4>1. i - (n - 1) \in 1..m - n /\ n + (i - (n - 1)) = i + 1 /\ ~(i <= n - 1)
        BY <1>1, <3>3
      <4>2. p[i] = r[i - (n - 1)]
        BY <1>2, <2>2, <3>1, <4>1
      <4>3. r[i - (n - 1)] = queue[n + (i - (n - 1))]
        BY <1>3, <4>1
      <4> QED
        BY <3>3, <4>1, <4>2, <4>3
    <3> QED
      BY <3>2, <3>3
  <2> QED
    BY <2>2, <2>3, <2>4
<1> HIDE DEF l, r, p, m
<1>5. DOMAIN p = 1..m - 1
  BY <1>1, <1>4
<1>6. \A a, b \in 1..m : a < b => queue[a] < queue[b]
  BY <1>1 DEF LInv, Ready, Line, Ordered
<1>7. Ordered(p)
  <2> SUFFICES ASSUME NEW a \in 1..m - 1, NEW b \in 1..m - 1, a < b PROVE p[a] < p[b]
    BY <1>5 DEF Ordered
  <2>1. a \in 1..m /\ b \in 1..m /\ a + 1 \in 1..m /\ b + 1 \in 1..m
    BY <1>1
  <2>2. p[a] = (IF a < n THEN queue[a] ELSE queue[a + 1])
        /\ p[b] = (IF b < n THEN queue[b] ELSE queue[b + 1])
    BY <1>4
  <2>3. queue[a] < queue[b] /\ queue[a] < queue[b + 1] /\ queue[a + 1] < queue[b + 1]
    BY <1>6, <2>1
  <2> QED
    BY <1>1, <2>2, <2>3
<1>8. Range(p) = Range(queue) \ {queue[n]}
  <2>1. ASSUME NEW i \in 1..m - 1 PROVE p[i] \in Range(queue) \ {queue[n]}
    <3>1. PICK a \in 1..m : a # n /\ p[i] = queue[a]
      <4>1. i \in 1..m /\ i + 1 \in 1..m /\ (i < n => i # n) /\ (~(i < n) => i + 1 # n)
        BY <1>1
      <4> QED
        BY <1>4, <4>1
    <3>2. queue[a] # queue[n]
      <4>1. a < n \/ n < a
        BY <1>1, <3>1
      <4>2. queue[a] \in Nat /\ queue[n] \in Nat
        BY <1>1
      <4> QED
        BY <1>1, <1>6, <4>1, <4>2
    <3> QED
      BY <1>1, <3>1, <3>2 DEF Range
  <2>2. ASSUME NEW a \in 1..m, queue[a] # queue[n] PROVE queue[a] \in Range(p)
    <3>1. a # n
      BY <2>2
    <3>2. CASE a < n
      <4>1. a \in 1..m - 1
        BY <1>1, <3>2
      <4> QED
        BY <1>4, <1>5, <3>2, <4>1 DEF Range
    <3>3. CASE ~(a < n)
      <4>1. a - 1 \in 1..m - 1 /\ ~(a - 1 < n) /\ (a - 1) + 1 = a
        BY <1>1, <3>1, <3>3
      <4>2. p[a - 1] = queue[a]
        BY <1>4, <4>1
      <4> QED
        BY <1>5, <4>1, <4>2 DEF Range
    <3> QED
      BY <3>2, <3>3
  <2>3. Range(p) = {p[i] : i \in 1..m - 1} /\ Range(queue) = {queue[i] : i \in 1..m}
    BY <1>1, <1>5 DEF Range
  <2> QED
    BY <2>1, <2>2, <2>3
<1>9. Line(p)
  BY <1>7, <1>8 DEF LInv, Ready, Line
<1> QED
  BY <1>4, <1>8, <1>9 DEF p
---------------------------------------------------------------------------
(* The actions.                                                              *)

\* kind' after an offer, and what it says of the earlier items.
LEMMA Offer ==
  ASSUME LInv, NEW c \in Kinds, Offers(c)
  PROVE  /\ New \in Items /\ New = Len(kind) + 1 /\ Len(kind) < MaxOffers
         /\ kind' = Append(kind, c) /\ Len(kind') = New /\ kind'[New] = c
         /\ \A i \in 1..Len(kind) : kind'[i] = kind[i] /\ i < New
         /\ New \notin Range(queue) \cup started \cup counted \cup evicted
         /\ fallen[New] = 0
<1>1. kind \in Seq(Kinds) /\ Len(kind) \in Nat
  BY DEF LInv, Typed
<1>2. /\ New \in Items /\ New = Len(kind) + 1 /\ Len(kind) < MaxOffers
      /\ kind' = Append(kind, c) /\ Len(kind') = New /\ kind'[New] = c
      /\ \A i \in 1..Len(kind) : kind'[i] = kind[i] /\ i < New
  BY <1>1, AppendProperties, Constants DEF Offers, New, Items
<1>3. Range(queue) \subseteq 1..Len(kind)
  BY Facts
<1>4. New \notin 1..Len(kind)
  BY <1>1, <1>2
<1>5. New \notin Range(queue) \cup started \cup counted \cup evicted
  BY <1>3, <1>4 DEF LInv, Typed
<1>6. fallen[New] = 0
  BY <1>1, <1>2 DEF LInv, Ready, Places
<1> QED
  BY <1>2, <1>5, <1>6

\* enqueue, with room for the item.
LEMMA EnqueueKeeps ==
  ASSUME LInv, NEW c \in Kinds, Enqueue(c)
  PROVE  LInv' /\ Ready(kind', Append(queue, New))
<1>1. Offers(c) /\ Joins(c, queue) /\ UNCHANGED <<evicted, fallen, counted>>
  BY DEF Enqueue
<1>2. /\ queue \in Seq(1..Len(kind)) /\ Line(queue) /\ Len(kind) < MaxOffers
      /\ \A i \in 1..Len(kind) : Durable(kind, i) => Place(queue, i)
      /\ \A i \in Items : i > Len(kind) => fallen[i] = 0
      /\ kind' = Append(kind, c)
  BY <1>1 DEF LInv, Ready, Places, Offers
<1>3. /\ Cardinality(DurablesOf(kind, queue)) + (IF c = "observation" THEN 0 ELSE 1) <= MaxDurable
      /\ Cardinality(OthersOf(kind, queue)) + (IF c = "observation" THEN 1 ELSE 0) <= MaxQueue
  <2>1. /\ DurableQueued = Cardinality(DurablesOf(kind, queue))
        /\ Len(queue) = DurableQueued + Cardinality(OthersOf(kind, queue))
        /\ DurableQueued \in Nat /\ Cardinality(OthersOf(kind, queue)) \in Nat
    BY Facts
  <2>2. /\ Cardinality(DurablesOf(kind, queue)) <= MaxDurable
        /\ Cardinality(OthersOf(kind, queue)) <= MaxQueue
    BY DEF LInv, Ready, Room
  <2>3. IF c = "observation" THEN Len(queue) < MaxQueue ELSE DurableQueued < MaxDurable
    BY DEF Enqueue
  <2> QED
    BY <2>1, <2>2, <2>3, Constants
<1>4. Ready(Append(kind, c), Append(queue, New))
  BY <1>2, <1>3, AppendReady DEF LInv
<1>5. Ready(kind', Append(queue, New))
  BY <1>2, <1>4
<1> QED
  BY <1>1, <1>5, JoinKeeps

\* enqueue, in the place of the oldest observation.
LEMMA EvictingKeeps ==
  ASSUME LInv, NEW n, EnqueueEvicting(n)
  PROVE  LInv' /\ Ready(kind', Append(RemoveAt(queue, n), New))
<1> DEFINE c == "observation"
           p == RemoveAt(queue, n)
           v == queue[n]
<1>1. /\ mode = "open" /\ n \in DOMAIN queue /\ ~Durable(kind, v)
      /\ Offers(c) /\ Joins(c, p)
      /\ evicted' = evicted \cup {v} /\ UNCHANGED <<fallen, counted>>
  BY DEF EnqueueEvicting
<1>2. p \in Seq(1..Len(kind)) /\ Line(p) /\ Range(p) = Range(queue) \ {v}
  BY <1>1, EvictionReady
<1>3. v \in Range(queue) /\ v \in 1..Len(kind)
  BY <1>1, Facts DEF Range
<1>4. c \in Kinds /\ kind' = Append(kind, c) /\ Len(kind) < MaxOffers
  BY <1>1 DEF Offers, Kinds
<1> HIDE DEF p, v
<1>5. \A i \in 1..Len(kind) : Durable(kind, i) => Place(p, i)
  BY <1>1, <1>2 DEF LInv, Ready, Places, Place
<1>6. /\ DurablesOf(kind, p) = DurablesOf(kind, queue)
      /\ OthersOf(kind, p) = OthersOf(kind, queue) \ {v}
      /\ v \in OthersOf(kind, queue)
  BY <1>1, <1>2, <1>3 DEF DurablesOf, OthersOf
<1>7. /\ Cardinality(DurablesOf(kind, p)) <= MaxDurable
      /\ Cardinality(OthersOf(kind, p)) + 1 <= MaxQueue
  <2>1. /\ Cardinality(DurablesOf(kind, queue)) <= MaxDurable
        /\ Cardinality(OthersOf(kind, queue)) <= MaxQueue
    BY DEF LInv, Ready, Room
  <2>2. queue \in Seq(1..Len(kind))
    BY DEF LInv, Ready
  <2>3. IsFiniteSet(OthersOf(kind, queue)) /\ Cardinality(OthersOf(kind, queue)) \in Nat
    BY <2>2, Finite
  <2>4. Cardinality(OthersOf(kind, p)) = Cardinality(OthersOf(kind, queue)) - 1
    BY <1>6, <2>3, FS_RemoveElement
  <2> QED
    BY <1>6, <2>1, <2>3, <2>4, Constants
<1>8. \A i \in Items : i > Len(kind) => fallen[i] = 0
  BY DEF LInv, Ready, Places
<1>9. Typed /\ Cardinality(DurablesOf(kind, p)) + 0 <= MaxDurable
  <2>1. Cardinality(DurablesOf(kind, p)) \in Nat
    BY <1>2, Finite
  <2> QED
    BY <1>7, <2>1 DEF LInv
<1>10. Ready(Append(kind, c), Append(p, New))
  BY <1>2, <1>4, <1>5, <1>7, <1>8, <1>9, AppendReady
<1>11. evicted' \subseteq evicted \cup 1..Len(kind)
  BY <1>1, <1>3
<1>12. Ready(kind', Append(p, New))
  BY <1>4, <1>10
<1> QED
  BY <1>1, <1>4, <1>11, <1>12, JoinKeeps DEF p

\* What still waits when the drain ends goes to its fallback or is counted.
LEMMA ShutdownEndsKeeps == LInv /\ ShutdownEnds => LInv'
<1> SUFFICES ASSUME LInv, ShutdownEnds PROVE LInv'
  OBVIOUS
<1>1. /\ mode' = "drained" /\ queue' = <<>>
      /\ fallen' = [i \in Items |-> IF i \in Range(queue) /\ Durable(kind, i) /\ kind[i] = "durable"
                                    THEN fallen[i] + 1 ELSE fallen[i]]
      /\ counted' = counted \cup {i \in Range(queue) : Durable(kind, i) /\ kind[i] = "bare"}
      /\ UNCHANGED <<kind, current, left, deadline, started, evicted>>
  BY DEF ShutdownEnds, Abandons
<1>2. Range(queue) \subseteq 1..Len(kind) /\ Range(queue') = {} /\ Len(kind) <= MaxOffers
  BY <1>1, Facts DEF Range, LInv, Typed
<1>3. Typed'
  <2>1. fallen' \in [Items -> Nat]
    BY <1>1 DEF LInv, Typed
  <2>2. counted' \subseteq 1..Len(kind)
    BY <1>1, <1>2 DEF LInv, Typed
  <2> QED
    BY <1>1, <2>1, <2>2 DEF LInv, Typed
<1>4. Line(queue)' /\ queue' \in Seq(1..Len(kind'))
  BY <1>1, <1>2 DEF Line, Ordered
<1>5. Places(kind, queue)'
  <2>1. ASSUME NEW i \in 1..Len(kind), Durable(kind, i) PROVE Place(queue, i)'
    <3>1. Place(queue, i)
      BY <2>1 DEF LInv, Ready, Places
    <3>2. i \in Items /\ fallen[i] \in Nat
      BY <1>2, Constants DEF Items, LInv, Typed
    <3>3. kind[i] = "durable" \/ kind[i] = "bare"
      BY <2>1 DEF LInv, Typed, Kinds, Durable
    <3>4. CASE i \notin Range(queue)
      <4>1. fallen'[i] = fallen[i] /\ (i \in counted' <=> i \in counted)
        BY <1>1, <3>2, <3>4
      <4> QED
        BY <1>1, <1>2, <3>1, <3>4, <4>1 DEF Place
    <3>5. CASE i \in Range(queue) /\ kind[i] = "durable"
      <4>1. fallen'[i] = fallen[i] + 1 /\ (i \in counted' <=> i \in counted)
        BY <1>1, <2>1, <3>2, <3>5
      <4>2. fallen'[i] = 1
        BY <3>1, <3>5, <4>1 DEF Place
      <4> QED
        BY <1>1, <1>2, <3>1, <3>5, <4>1, <4>2 DEF Place
    <3>6. CASE i \in Range(queue) /\ kind[i] = "bare"
      <4>1. fallen'[i] = fallen[i] /\ i \in counted'
        BY <1>1, <2>1, <3>2, <3>6
      <4> QED
        BY <1>1, <1>2, <3>1, <3>6, <4>1 DEF Place
    <3> QED
      BY <3>3, <3>4, <3>5, <3>6
  <2>2. \A i \in Items : i > Len(kind) => fallen'[i] = 0
    <3> TAKE i \in Items
    <3> HAVE i > Len(kind)
    <3>1. i \notin Range(queue)
      BY <1>2, Constants, Facts DEF Items
    <3>2. fallen[i] = 0
      BY DEF LInv, Ready, Places
    <3> QED
      BY <1>1, <3>1, <3>2
  <2>3. \A i \in 1..Len(kind) : Durable(kind, i)' => Place(queue, i)'
    BY <1>1, <2>1 DEF Durable
  <2> QED
    BY <1>1, <2>2, <2>3 DEF Places, Durable
<1>6. Room(kind, queue)'
  <2>1. DurablesOf(kind, queue)' = {} /\ OthersOf(kind, queue)' = {}
    BY <1>2 DEF DurablesOf, OthersOf
  <2> QED
    BY <2>1, FS_EmptySet, Constants DEF Room
<1> QED
  BY <1>1, <1>3, <1>4, <1>5, <1>6 DEF LInv, Ready

\* enqueue refuses a durable item: its fallback or the count has it.
LEMMA RefuseDurableKeeps == ASSUME LInv, NEW c \in Kinds, RefuseDurable(c) PROVE LInv'
<1>1. PICK x : x = New
  OBVIOUS
<1>2. /\ Offers(c) /\ Idle /\ evicted' = evicted /\ c # "observation"
      /\ fallen' = [i \in Items |-> IF i \in {x} /\ kind'[i] = "durable" THEN fallen[i] + 1 ELSE fallen[i]]
      /\ counted' = counted \cup {i \in {x} : kind'[i] = "bare"}
  BY <1>1 DEF RefuseDurable, Abandons
<1>3. /\ x \in Items /\ kind'[x] = c /\ fallen[x] = 0
      /\ x \notin Range(queue) \cup started \cup counted
  BY <1>1, <1>2, Offer
<1>4. fallen \in [Items -> Nat]
  BY DEF LInv, Typed
<1>5. fallen' \in [Items -> Nat] /\ \A i \in Items : i # x => fallen'[i] = fallen[i]
  BY <1>2, <1>4
<1>6. Place(queue, x)'
  <2>1. c = "durable" \/ c = "bare"
    BY <1>2 DEF Kinds
  <2>2. queue' = queue /\ started' = started
    BY <1>2 DEF Idle
  <2> QED
    BY <1>2, <1>3, <2>1, <2>2 DEF Place
<1> QED
  BY <1>1, <1>2, <1>5, <1>6, RefusalKeeps

\* enqueue refuses an observation.
LEMMA RefuseObservationKeeps == LInv /\ RefuseObservation => LInv'
<1> SUFFICES ASSUME LInv, RefuseObservation PROVE LInv'
  OBVIOUS
<1>1. PICK x : x = New
  OBVIOUS
<1>2. PICK c \in Kinds : c = "observation"
  BY DEF Kinds
<1>3. Offers(c) /\ Idle /\ evicted' = evicted \cup {x} /\ UNCHANGED <<fallen, counted>>
  BY <1>1, <1>2 DEF RefuseObservation
<1>4. kind'[x] = c
  BY <1>1, <1>3, Offer
<1>5. ~Durable(kind', x) /\ fallen' \in [Items -> Nat]
  BY <1>2, <1>3, <1>4 DEF Durable, LInv, Typed
<1> QED
  BY <1>1, <1>3, <1>5, RefusalKeeps

\* The item in flight ends, and processNext goes on.
LEMMA ItemEndsKeeps == LInv /\ ItemEnds => LInv'
<1> SUFFICES ASSUME LInv, ItemEnds PROVE LInv'
  OBVIOUS
<1>1. PICK k, q : k = kind /\ q = queue
  OBVIOUS
<1>2. Turn(k, q) /\ UNCHANGED <<kind, mode, deadline, evicted, fallen, counted>>
  BY <1>1 DEF ItemEnds
<1>3. Typed /\ Ready(k, q) /\ k \in Seq(Kinds) /\ Len(k) <= MaxOffers
  BY <1>1 DEF LInv, Typed
<1>4. evicted' \subseteq 1..Len(k) /\ kind' = k /\ Len(kind) <= Len(k)
  BY <1>1, <1>2, <1>3 DEF Typed
<1> QED
  BY <1>2, <1>3, <1>4, TurnKeeps

\* The invariant is inductive.
LEMMA LInvNext == LInv /\ [LearnNext]_lvars => LInv'
<1> SUFFICES ASSUME LInv, [LearnNext]_lvars PROVE LInv'
  OBVIOUS
<1>1. CASE ItemEnds
  BY <1>1, ItemEndsKeeps
<1>2. CASE RefuseObservation
  BY <1>2, RefuseObservationKeeps
<1>3. CASE ShutdownBegins
  BY <1>3, IdleKeeps, Constants DEF ShutdownBegins, LInv, Typed
<1>4. CASE DeadlineStrikes
  BY <1>4, IdleKeeps DEF DeadlineStrikes, LInv, Typed
<1>5. CASE ShutdownEnds
  BY <1>5, ShutdownEndsKeeps
<1>6. ASSUME NEW c \in Kinds, RefuseDurable(c) PROVE LInv'
  BY <1>6, RefuseDurableKeeps
<1>7. ASSUME NEW c \in Kinds, Enqueue(c) PROVE LInv'
  BY <1>7, EnqueueKeeps
<1>8. ASSUME NEW n, EnqueueEvicting(n) PROVE LInv'
  BY <1>8, EvictingKeeps
<1>9. CASE UNCHANGED lvars
  BY <1>9, IdleKeeps DEF lvars, LInv, Typed
<1> QED
  BY <1>1, <1>2, <1>3, <1>4, <1>5, <1>6, <1>7, <1>8, <1>9 DEF LearnNext

---------------------------------------------------------------------------
(* What follows.                                                             *)

\* The queue is typed, and however many items are offered, the durable ones and
\* the observations each keep to their own bound; while the queue is open,
\* nothing waits unless an item is in flight, whose end will come to it.
THEOREM LearningTyped == LearnSpec => []LearnTypeOK
<1>1. ASSUME LInv PROVE LearnTypeOK
  <2>1. /\ DurableQueued <= MaxDurable /\ Len(queue) - DurableQueued <= MaxQueue
    BY <1>1, Facts DEF LInv, Ready, Room
  <2>2. Range(queue) \subseteq Offered /\ Offered = 1..Len(kind)
    BY <1>1, Facts DEF Offered
  <2> QED
    BY <1>1, <2>1, <2>2 DEF LInv, Typed, LearnTypeOK
<1> QED
  BY <1>1, LInvInit, LInvNext, PTL DEF LearnSpec

\* Every durable item is in exactly one place: it waits, was run, went to its
\* fallback once, or was counted as lost, through overflow and drain.
THEOREM Settled == LearnSpec => []SettledOnce
<1>1. ASSUME LInv PROVE SettledOnce
  <2> SUFFICES ASSUME NEW i \in Offered, Durable(kind, i)
               PROVE  Cardinality({j \in DOMAIN queue : queue[j] = i}) + fallen[i]
                        + (IF i \in started THEN 1 ELSE 0) + (IF i \in counted THEN 1 ELSE 0) = 1
    BY DEF SettledOnce
  <2>1. Place(queue, i)
    BY <1>1, Facts DEF LInv, Ready, Places, Offered
  <2>2. CASE i \notin Range(queue)
    <3>1. {j \in DOMAIN queue : queue[j] = i} = {}
      BY <2>2 DEF Range
    <3>2. Cardinality({j \in DOMAIN queue : queue[j] = i}) = 0
      BY <3>1, FS_EmptySet
    <3> QED
      BY <2>1, <2>2, <3>2 DEF Place
  <2>3. CASE i \in Range(queue)
    <3>1. PICK a \in DOMAIN queue : queue[a] = i
      BY <2>3 DEF Range
    <3>2. \A b \in DOMAIN queue : queue[b] = i => b = a
      <4> TAKE b \in DOMAIN queue
      <4>1. a < b => queue[a] < queue[b]
        BY <1>1, <3>1 DEF LInv, Ready, Line, Ordered
      <4>2. b < a => queue[b] < queue[a]
        BY <1>1, <3>1 DEF LInv, Ready, Line, Ordered
      <4>3. a \in Nat /\ b \in Nat /\ i \in Nat
        BY <1>1, Facts, <3>1 DEF Offered
      <4> QED
        BY <3>1, <4>1, <4>2, <4>3
    <3>3. {j \in DOMAIN queue : queue[j] = i} = {a}
      BY <3>1, <3>2
    <3>4. Cardinality({j \in DOMAIN queue : queue[j] = i}) = 1
      BY <3>3, FS_Singleton
    <3> QED
      BY <2>1, <2>3, <3>4 DEF Place
  <2> QED
    BY <2>2, <2>3
<1> QED
  BY <1>1, LInvInit, LInvNext, PTL DEF LearnSpec
\* Whom a turn on k and q may leave behind.
LEMMA TurnEvidence ==
  ASSUME NEW k, NEW q, q \in Seq(1..Len(k)), Len(k) \in Nat, Ordered(q), Turn(k, q),
         left \in 0..DrainItems, NEW i \in Range(q), i \notin Range(queue')
  PROVE  \/ i \in started'
         \/ ~Durable(k, i) /\ \A j \in Range(queue') : Durable(k, j) => j < i
<1>1. PICK S : S = 1..Len(k)
  OBVIOUS
<1>2. S \in SUBSET (Nat \ {0}) /\ q \in Seq(S)
  BY <1>1
<1>3. i # current' => ~Durable(k, i) /\ \A j \in Range(queue') : Durable(k, j) => j < i
  BY <1>2, TurnTakes
<1>4. i = current' => i \in started'
  <2>1. Range(q) \subseteq S
    BY <1>2, RangeOfSeq
  <2>2. i # 0
    BY <1>2, <2>1
  <2>3. current' = 0 \/ started' = started \cup {current'}
    BY <1>2, TurnTakes
  <2> QED
    BY <2>2, <2>3
<1> QED
  BY <1>3, <1>4

\* The same when a newcomer joins p.
LEMMA JoinEvidence ==
  ASSUME LInv, NEW c \in Kinds, Offers(c), NEW p \in Seq(1..Len(kind)),
         Ready(kind', Append(p, New)), Joins(c, p), NEW i \in Range(p), i \notin Range(queue')
  PROVE  \/ i \in started'
         \/ ~Durable(kind, i) /\ \A j \in Range(queue') : Durable(kind', j) => j < i
<1>1. PICK k, q, S : k = kind' /\ q = Append(p, New) /\ S = 1..Len(kind')
  OBVIOUS
<1>2. /\ Len(kind') = New /\ New = Len(kind) + 1 /\ Len(kind) \in Nat
      /\ \A j \in 1..Len(kind) : kind'[j] = kind[j]
  BY Offer, Facts
<1>3. p \in Seq(S) /\ New \in S /\ Range(p) \subseteq 1..Len(kind)
  BY <1>1, <1>2, RangeOfSeq
<1>4. i \in Range(q)
  <2>1. Len(q) = Len(p) + 1 /\ (\A a \in 1..Len(p) : q[a] = p[a]) /\ q \in Seq(S)
    BY <1>1, <1>3, AppendProperties
  <2>2. DOMAIN p = 1..Len(p) /\ DOMAIN q = 1..Len(p) + 1 /\ Len(p) \in Nat
    BY <2>1
  <2>3. PICK a \in 1..Len(p) : p[a] = i
    BY <2>2 DEF Range
  <2>4. a \in DOMAIN q /\ q[a] = i
    BY <2>1, <2>2, <2>3
  <2> QED
    BY <2>4 DEF Range
<1>5. current = 0
  <2>1. current # 0 => queue' = q
    BY <1>1 DEF Joins
  <2> QED
    BY <1>4, <2>1
<1>6. Turn(k, q)
  BY <1>1, <1>5 DEF Joins
<1>7. q \in Seq(1..Len(k)) /\ Len(k) \in Nat /\ Ordered(q) /\ left \in 0..DrainItems
  BY <1>1, <1>2 DEF Ready, Line, LInv, Typed
<1>8. \/ i \in started'
      \/ ~Durable(k, i) /\ \A j \in Range(queue') : Durable(k, j) => j < i
  BY <1>4, <1>6, <1>7, TurnEvidence
<1>9. Durable(k, i) <=> Durable(kind, i)
  BY <1>1, <1>2, <1>3 DEF Durable
<1> QED
  BY <1>1, <1>8, <1>9

\* Every step runs items in their order, and no observation leaves the queue
\* unrun while a durable item waits behind it, but at the bound.
THEOREM EvidenceComesFirst == LearnSpec => EvidenceFirst
<1> DEFINE Goal(i) ==
      /\ i \in Range(queue') => \A j \in started' \ started : j < i
      /\ i \notin Range(queue') /\ mode' # "drained" =>
           \/ i \in started' \cup evicted'
           \/ ~Durable(kind, i) /\ \A j \in Range(queue') : Durable(kind', j) => j < i
<1>1. ASSUME LInv, [LearnNext]_lvars, NEW i \in Range(queue) PROVE Goal(i)
  <2>1. LInv'
    BY <1>1, LInvNext
  <2>2. i \in Range(queue') => \A j \in started' \ started : j < i
    BY <2>1 DEF LInv, Ready, Line
  <2>3. SUFFICES ASSUME i \notin Range(queue'), mode' # "drained"
                 PROVE  \/ i \in started' \cup evicted'
                        \/ ~Durable(kind, i) /\ \A j \in Range(queue') : Durable(kind', j) => j < i
    BY <2>2
  <2>4. queue' # queue
    BY <1>1, <2>3
  <2>5. CASE ItemEnds
    <3>1. PICK k, q : k = kind /\ q = queue
      OBVIOUS
    <3>2. Turn(k, q) /\ kind' = k
      BY <2>5, <3>1 DEF ItemEnds
    <3>3. q \in Seq(1..Len(k)) /\ Len(k) \in Nat /\ Ordered(q) /\ left \in 0..DrainItems
      BY <1>1, <3>1, Facts DEF LInv, Ready, Line, Typed
    <3>4. i \in Range(q)
      BY <1>1, <3>1
    <3>5. \/ i \in started'
          \/ ~Durable(k, i) /\ \A j \in Range(queue') : Durable(k, j) => j < i
      BY <2>3, <3>2, <3>3, <3>4, TurnEvidence
    <3> QED
      BY <3>1, <3>2, <3>5
  <2>6. ASSUME NEW c \in Kinds, Enqueue(c)
        PROVE  \/ i \in started' \cup evicted'
               \/ ~Durable(kind, i) /\ \A j \in Range(queue') : Durable(kind', j) => j < i
    <3>1. Ready(kind', Append(queue, New)) /\ Offers(c) /\ Joins(c, queue)
      BY <1>1, <2>6, EnqueueKeeps DEF Enqueue
    <3>2. queue \in Seq(1..Len(kind))
      BY <1>1, Facts
    <3> QED
      BY <1>1, <2>3, <3>1, <3>2, JoinEvidence
  <2>7. ASSUME NEW n, EnqueueEvicting(n)
        PROVE  \/ i \in started' \cup evicted'
               \/ ~Durable(kind, i) /\ \A j \in Range(queue') : Durable(kind', j) => j < i
    <3>1. PICK p : p = RemoveAt(queue, n)
      OBVIOUS
    <3>2. /\ Ready(kind', Append(p, New)) /\ Offers("observation") /\ Joins("observation", p)
          /\ n \in DOMAIN queue /\ ~Durable(kind, queue[n]) /\ evicted' = evicted \cup {queue[n]}
      BY <1>1, <2>7, <3>1, EvictingKeeps DEF EnqueueEvicting
    <3>3. p \in Seq(1..Len(kind)) /\ Range(p) = Range(queue) \ {queue[n]}
      BY <1>1, <3>1, <3>2, EvictionReady
    <3>4. CASE i = queue[n]
      BY <3>2, <3>4
    <3>5. CASE i # queue[n]
      <4>1. i \in Range(p) /\ "observation" \in Kinds
        BY <1>1, <3>3, <3>5 DEF Kinds
      <4> QED
        BY <1>1, <2>3, <3>2, <3>3, <4>1, JoinEvidence
    <3> QED
      BY <3>4, <3>5
  <2>8. \A c \in Kinds : ~RefuseDurable(c)
    BY <2>4 DEF RefuseDurable, Idle
  <2>9. ~RefuseObservation /\ ~ShutdownBegins /\ ~DeadlineStrikes /\ ~ShutdownEnds
        /\ ~UNCHANGED lvars
    BY <2>3, <2>4 DEF RefuseObservation, Idle, ShutdownBegins, DeadlineStrikes, ShutdownEnds, lvars
  <2> QED
    BY <1>1, <2>5, <2>6, <2>7, <2>8, <2>9 DEF LearnNext
<1>2. LInv /\ [LearnNext]_lvars => [\A i \in Range(queue) : Goal(i)]_lvars
  BY <1>1
<1> QED
  BY <1>2, LInvInit, LInvNext, PTL DEF LearnSpec, EvidenceFirst
===============================================================================
