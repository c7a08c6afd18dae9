----------------------------- MODULE Work_proofs -----------------------------
(* Proofs about how work is carried through: the dispatch of a plan in waves  *)
(* (SupervisorDispatch), for any plan, number of slots and failure budget,    *)
(* and the keep-alive of a mission (MissionKeepAlive), for any limit of       *)
(* retries and any number of rows, stops and interventions.                   *)
EXTENDS SupervisorDispatch, MissionKeepAlive, FiniteSetTheorems, WellFoundedInduction, TLAPS

\* A set of numbers has a least one.
LEMMA LeastNat ==
  ASSUME NEW T \in SUBSET Nat, T # {}
  PROVE  \E m \in T : \A k \in T : m <= k
<1>1. PICK m \in T : \A k \in T : <<k, m>> \notin OpToRel(<, Nat)
  BY WFMin, NatLessThanWellFounded, Zenon
<1>2. \A k \in T : ~(k < m)
  BY <1>1, Zenon DEF OpToRel
<1> QED
  BY <1>2

\* The constants.
LEMMA SupConstants ==
  /\ Nodes \in SUBSET Nat /\ IsFiniteSet(Nodes) /\ Cardinality(Nodes) \in Nat
  /\ Deps \in [Nodes -> SUBSET Nodes] /\ MaxParallel \in Nat \ {0} /\ MaxFailureBudget \in Nat \ {0}
<1>1. Cardinality(Nodes) \in Nat
  BY SupAssumption, FS_CardinalityType
<1> QED
  BY <1>1, SupAssumption

\* What the first i waves may run, on the way through the plan; Ahead is what
\* the loop has not come to an end with.
Passed == IF stage = "launch" THEN Scheduled[wave] ELSE Scheduled[wave - 1]
\* The nodes some wave can run.
Planned == Nodes \ Unschedulable
\* The nodes the loop has not come to an end with: each is as it was at the start.
Ahead == todo \cup waiting \cup (Planned \ Passed)
\* The failures the budget counts.
Broken == {n \in Planned : result[n] = "failed"}

\* The types.
STables ==
  /\ result \in [Nodes -> {"none", "ok", "failed", "skipped", "cancelled"}]
  /\ phase \in [Nodes -> {"idle", "running", "grace", "backoff", "over"}]
  /\ stage \in {"head", "launch", "returned"} /\ wave \in 1 .. Cardinality(Nodes) + 1
  /\ todo \in SUBSET Nodes /\ waiting \in SUBSET Nodes /\ retried \in SUBSET Nodes
  /\ abandoned \in SUBSET Nodes /\ forgotten \in SUBSET Nodes /\ aborted \in BOOLEAN
\* Whatever is under way belongs to the wave the loop is in; nothing is under way
\* between waves, and the loop returns with the plan done or aborted.
SLoop ==
  /\ stage = "launch" => wave \in Waves
  /\ todo \cup waiting \cup Busy \cup abandoned \subseteq IF stage = "launch" THEN Wave(wave) ELSE {}
  /\ todo \cap waiting = {} /\ \A m, n \in waiting : m = n
  /\ stage = "returned" => aborted \/ Planned \subseteq Passed
\* Results and runs: what is ahead is untouched, what is behind has its result or
\* runs for it.
SRuns ==
  \A n \in Nodes :
    /\ n \in Unschedulable => result[n] = "failed" /\ phase[n] = "idle"
    /\ n \in Ahead => result[n] = "none" /\ phase[n] = "idle"
    /\ n \in Planned \ Ahead => result[n] # "none" \/ n \in Busy
    /\ n \in Busy => result[n] = "none"
    /\ phase[n] = "over" => result[n] \in {"ok", "failed", "cancelled"}
\* Why a node has run, was skipped or cancelled.
SCauses ==
  \A n \in Nodes :
    /\ phase[n] # "idle" \/ n \in waiting => \A d \in Deps[n] : result[d] = "ok"
    /\ result[n] = "skipped" => Unsatisfied(n) \/ Exhausted
    /\ result[n] = "cancelled" => aborted
\* The runs nobody listens to.
SStrays ==
  /\ abandoned \cap forgotten = {}
  /\ \A n \in abandoned : phase[n] \in {"grace", "over"}
  /\ \A n \in forgotten : phase[n] = "over"
\* Each run holds a slot, and may still cost the budget one failure.
SCounts ==
  /\ Cardinality(Busy) <= MaxParallel
  /\ Cardinality(Broken \cup Busy) < MaxFailureBudget + MaxParallel
\* The inductive invariant.
SInv == STables /\ SLoop /\ SRuns /\ SCauses /\ SStrays /\ SCounts

\* The waves are what their recursion says: a function with that equation exists, by
\* the least number of waves that would have none.
LEMMA ScheduledEquation ==
  /\ Scheduled \in [0 .. Cardinality(Nodes) -> SUBSET Nodes]
  /\ \A i \in 0 .. Cardinality(Nodes) :
       Scheduled[i] = IF i = 0 THEN {} ELSE {n \in Nodes : Deps[n] \subseteq Scheduled[i - 1]}
<1> DEFINE N == Cardinality(Nodes)
           Defines(f, k) == \A i \in 0 .. k :
             f[i] = IF i = 0 THEN {} ELSE {n \in Nodes : Deps[n] \subseteq f[i - 1]}
           Bad == {k \in Nat : \A f \in [0 .. k -> SUBSET Nodes] : ~Defines(f, k)}
<1>1. Bad = {}
  <2>1. SUFFICES ASSUME Bad # {} PROVE FALSE
    OBVIOUS
  <2>2. PICK k \in Bad : \A j \in Bad : k <= j
    <3>1. Bad \in SUBSET Nat
      OBVIOUS
    <3> HIDE DEF Bad
    <3> QED
      BY <2>1, <3>1, LeastNat
  <2>3. k \in Nat /\ \A f \in [0 .. k -> SUBSET Nodes] : ~Defines(f, k)
    BY <2>2
  <2>4. CASE k = 0
    <3> DEFINE f == [i \in 0 .. k |-> {}]
    <3>1. f \in [0 .. k -> SUBSET Nodes]
      OBVIOUS
    <3>2. Defines(f, k)
      BY <2>4
    <3> HIDE DEF f, Defines
    <3> QED
      BY <2>3, <3>1, <3>2
  <2>5. CASE k # 0
    <3>0. k - 1 \in Nat /\ ~(k <= k - 1)
      BY <2>3, <2>5
    <3>1. k - 1 \in Nat /\ k - 1 \notin Bad
      <4> HIDE DEF Bad
      <4> QED
        BY <2>2, <3>0
    <3>2. PICK g \in [0 .. k - 1 -> SUBSET Nodes] : Defines(g, k - 1)
      BY <3>1
    <3> DEFINE last == {n \in Nodes : Deps[n] \subseteq g[k - 1]}
               f == [i \in 0 .. k |-> IF i = k THEN last ELSE g[i]]
    <3>3. f \in [0 .. k -> SUBSET Nodes]
      BY <2>3, <2>5
    <3>4. \A i \in 0 .. k : f[i] = IF i = k THEN last ELSE g[i]
      OBVIOUS
    <3> HIDE DEF f
    <3>5. Defines(f, k)
      <4> SUFFICES ASSUME NEW i \in 0 .. k
                   PROVE  f[i] = IF i = 0 THEN {} ELSE {n \in Nodes : Deps[n] \subseteq f[i - 1]}
        OBVIOUS
      <4>1. CASE i = k
        <5>1. k \in 0 .. k /\ k - 1 \in 0 .. k /\ k - 1 # k
          BY <2>3, <2>5
        <5>2. f[k] = last /\ f[k - 1] = g[k - 1]
          BY <3>4, <5>1
        <5> QED
          BY <2>5, <4>1, <5>2
      <4>2. CASE i # k
        <5>1. i \in 0 .. k - 1 /\ (i # 0 => i - 1 \in 0 .. k - 1 /\ i - 1 # k)
          BY <2>3, <4>2
        <5>2. i \in 0 .. k /\ (i # 0 => i - 1 \in 0 .. k)
          BY <2>3, <5>1
        <5>3. f[i] = g[i]
          BY <3>4, <4>2, <5>2
        <5>4. i # 0 => f[i - 1] = g[i - 1]
          BY <3>4, <5>1, <5>2
        <5> QED
          BY <3>2, <5>1, <5>3, <5>4
      <4> QED
        BY <4>1, <4>2
    <3> HIDE DEF Defines
    <3> QED
      BY <2>3, <3>3, <3>5
  <2> QED
    BY <2>4, <2>5
<1>2. N \in Nat /\ N \notin Bad
  BY <1>1, SupConstants
<1>3. PICK f \in [0 .. N -> SUBSET Nodes] : Defines(f, N)
  BY <1>2
<1>4. f = [i \in 0 .. N |-> IF i = 0 THEN {}
                            ELSE LET before == f[i - 1] IN {n \in Nodes : Deps[n] \subseteq before}]
  BY <1>3
<1>5. Scheduled = [i \in 0 .. N |-> IF i = 0 THEN {}
                            ELSE LET before == Scheduled[i - 1] IN {n \in Nodes : Deps[n] \subseteq before}]
  BY <1>4 DEF Scheduled
<1>6. \A i \in 0 .. N : Scheduled[i] = IF i = 0 THEN {} ELSE {n \in Nodes : Deps[n] \subseteq Scheduled[i - 1]}
  BY <1>5
<1>7. \A i \in 0 .. N : Scheduled[i] \in SUBSET Nodes
  BY <1>6
<1> QED
  BY <1>5, <1>6, <1>7

\* A wave adds to those before it, by the least that would not.
LEMMA WavesGrow ==
  \A i \in 1 .. Cardinality(Nodes) : Scheduled[i - 1] \subseteq Scheduled[i]
<1> DEFINE Bad == {i \in 1 .. Cardinality(Nodes) : ~(Scheduled[i - 1] \subseteq Scheduled[i])}
<1>1. SUFFICES ASSUME Bad # {} PROVE FALSE
  OBVIOUS
<1>2. PICK k \in Bad : \A j \in Bad : k <= j
  <2>1. Bad \in SUBSET Nat
    BY SupConstants
  <2> HIDE DEF Bad
  <2> QED
    BY <1>1, <2>1, LeastNat
<1>3. k \in 1 .. Cardinality(Nodes) /\ Cardinality(Nodes) \in Nat
  BY SupConstants
<1>4. k # 1
  BY <1>3, ScheduledEquation
<1>5. k - 1 \in 1 .. Cardinality(Nodes) /\ k - 1 \notin Bad
  BY <1>2, <1>3, <1>4
<1>6. Scheduled[k - 2] \subseteq Scheduled[k - 1]
  BY <1>3, <1>5
<1>7. Scheduled[k] = {n \in Nodes : Deps[n] \subseteq Scheduled[k - 1]}
  BY <1>3, ScheduledEquation
<1>8. Scheduled[k - 1] = {n \in Nodes : Deps[n] \subseteq Scheduled[k - 2]}
  BY <1>3, <1>5, ScheduledEquation
<1> QED
  BY <1>6, <1>7, <1>8

\* So do several.
LEMMA WavesNest ==
  \A i, j \in 0 .. Cardinality(Nodes) : i <= j => Scheduled[i] \subseteq Scheduled[j]
<1> SUFFICES ASSUME NEW i \in 0 .. Cardinality(Nodes)
             PROVE  \A j \in 0 .. Cardinality(Nodes) : i <= j => Scheduled[i] \subseteq Scheduled[j]
  OBVIOUS
<1> DEFINE Bad == {j \in 0 .. Cardinality(Nodes) : i <= j /\ ~(Scheduled[i] \subseteq Scheduled[j])}
<1>1. SUFFICES ASSUME Bad # {} PROVE FALSE
  OBVIOUS
<1>2. PICK k \in Bad : \A j \in Bad : k <= j
  <2>1. Bad \in SUBSET Nat
    BY SupConstants
  <2> HIDE DEF Bad
  <2> QED
    BY <1>1, <2>1, LeastNat
<1>3. k \in 0 .. Cardinality(Nodes) /\ Cardinality(Nodes) \in Nat /\ i <= k /\ k # i /\ i \in Nat
  BY SupConstants
<1>4. k - 1 \in 0 .. Cardinality(Nodes) /\ k - 1 \notin Bad /\ i <= k - 1 /\ k \in 1 .. Cardinality(Nodes)
  BY <1>2, <1>3
<1>5. Scheduled[i] \subseteq Scheduled[k - 1]
  BY <1>4
<1> QED
  BY <1>4, <1>5, WavesGrow

\* A wave that adds nothing is the last: no later one adds a node, so the loop that
\* stops there has seen all.
LEMMA WavesEnd ==
  ASSUME NEW w \in 1 .. Cardinality(Nodes) + 1, w \notin Waves
  PROVE  Scheduled[Cardinality(Nodes)] = Scheduled[w - 1]
<1>0. Cardinality(Nodes) \in Nat
  BY SupConstants
<1>1. CASE w = Cardinality(Nodes) + 1
  BY <1>0, <1>1
<1>2. CASE w # Cardinality(Nodes) + 1
  <2>1. w \in 1 .. Cardinality(Nodes) /\ Scheduled[w] = Scheduled[w - 1]
    BY <1>0, <1>2 DEF Waves
  <2> DEFINE Bad == {j \in w .. Cardinality(Nodes) : Scheduled[j] # Scheduled[w - 1]}
  <2>2. SUFFICES ASSUME Bad # {} PROVE FALSE
    BY <1>0, <2>1
  <2>3. PICK k \in Bad : \A j \in Bad : k <= j
    <3>1. Bad \in SUBSET Nat
      BY <1>0
    <3> HIDE DEF Bad
    <3> QED
      BY <2>2, <3>1, LeastNat
  <2>4. k \in w .. Cardinality(Nodes) /\ k # w
    BY <2>1
  <2>5. k - 1 \in w .. Cardinality(Nodes) /\ k - 1 \notin Bad
    BY <1>0, <2>3, <2>4
  <2>6. Scheduled[k - 1] = Scheduled[w - 1]
    BY <2>5
  <2>7. k \in 0 .. Cardinality(Nodes) /\ k # 0 /\ w \in 0 .. Cardinality(Nodes) /\ w # 0
    BY <1>0, <2>1, <2>4
  <2>8. Scheduled[k] = {n \in Nodes : Deps[n] \subseteq Scheduled[k - 1]}
    BY <2>7, ScheduledEquation
  <2>9. Scheduled[w] = {n \in Nodes : Deps[n] \subseteq Scheduled[w - 1]}
    BY <2>7, ScheduledEquation
  <2> QED
    BY <2>1, <2>3, <2>6, <2>8, <2>9
<1> QED
  BY <1>1, <1>2

\* What is known of a wave.
LEMMA InWave ==
  ASSUME NEW w \in Waves
  PROVE  /\ w \in 1 .. Cardinality(Nodes) /\ w + 1 \in 1 .. Cardinality(Nodes) + 1
         /\ Wave(w) \subseteq Planned /\ Wave(w) \subseteq Nodes
         /\ Scheduled[w - 1] \subseteq Scheduled[w] /\ Scheduled[w] \subseteq Planned
         /\ \A n \in Wave(w) : n \in Scheduled[w] /\ n \notin Scheduled[w - 1]
                                /\ Deps[n] \subseteq Scheduled[w - 1]
<1>0. Cardinality(Nodes) \in Nat
  BY SupConstants
<1>1. w \in 1 .. Cardinality(Nodes) /\ w + 1 \in 1 .. Cardinality(Nodes) + 1
  BY <1>0 DEF Waves
<1>2. w \in 0 .. Cardinality(Nodes) /\ w # 0 /\ Cardinality(Nodes) \in 0 .. Cardinality(Nodes) /\ w <= Cardinality(Nodes)
  BY <1>0, <1>1
<1>3. Scheduled[w] = {n \in Nodes : Deps[n] \subseteq Scheduled[w - 1]}
  BY <1>2, ScheduledEquation
<1>4. Scheduled[w - 1] \subseteq Scheduled[w]
  BY <1>1, WavesGrow
<1>5. Scheduled[w] \subseteq Scheduled[Cardinality(Nodes)]
  BY <1>2, WavesNest
<1>6. Scheduled[w] \subseteq Planned
  BY <1>3, <1>5 DEF Planned, Unschedulable
<1> QED
  BY <1>1, <1>3, <1>4, <1>6, <1>3 DEF Wave

\* The invariant holds at the start: what no wave can run has failed.
LEMMA DispatchBegins ==
  ASSUME SupInit
  PROVE  SInv
<1>0. Cardinality(Nodes) \in Nat /\ MaxParallel \in Nat \ {0} /\ MaxFailureBudget \in Nat \ {0}
  BY SupConstants
<1>1. /\ result = [n \in Nodes |-> IF n \in Unschedulable THEN "failed" ELSE "none"]
      /\ phase = [n \in Nodes |-> "idle"] /\ retried = {} /\ wave = 1 /\ stage = "head" /\ todo = {}
      /\ waiting = {} /\ aborted = FALSE /\ abandoned = {} /\ forgotten = {}
  BY DEF SupInit
<1>2. \A n \in Nodes : /\ result[n] = IF n \in Unschedulable THEN "failed" ELSE "none"
                       /\ phase[n] = "idle"
  BY <1>1
<1>3. STables
  <2>1. /\ result \in [Nodes -> {"none", "ok", "failed", "skipped", "cancelled"}]
        /\ phase \in [Nodes -> {"idle", "running", "grace", "backoff", "over"}]
    BY <1>1
  <2>2. 1 \in 1 .. Cardinality(Nodes) + 1
    BY <1>0
  <2> QED
    BY <1>1, <2>1, <2>2 DEF STables
<1>4. Busy = {} /\ Broken = {}
  BY <1>2 DEF Busy, Broken, Planned
<1>5. Passed = {} /\ Ahead = Planned
  <2>1. Scheduled[0] = {}
    BY <1>0, ScheduledEquation
  <2>2. Passed = {}
    BY <1>1, <2>1 DEF Passed
  <2> QED
    BY <1>1, <2>2 DEF Ahead
<1>6. SLoop
  BY <1>1, <1>4 DEF SLoop
<1>7. SRuns
  BY <1>2, <1>4, <1>5 DEF SRuns, Planned
<1>8. SCauses
  BY <1>1, <1>2 DEF SCauses
<1>9. SStrays
  BY <1>1 DEF SStrays
<1>10. SCounts
  BY <1>0, <1>4, FS_EmptySet DEF SCounts
<1> QED
  BY <1>3, <1>6, <1>7, <1>8, <1>9, <1>10 DEF SInv

\* Results that stand.
LEMMA Stand ==
  ASSUME STables, STables', \A n \in Nodes : result[n] # "none" => result'[n] = result[n]
  PROVE  /\ Broken \subseteq Broken' /\ (Exhausted => Exhausted')
         /\ \A n \in Nodes : Unsatisfied(n) => Unsatisfied(n)'
<1>1. Broken \subseteq Broken'
  BY DEF Broken, Planned
<1>2. Exhausted => Exhausted'
  <2>1. Broken' \in SUBSET Nodes /\ Broken \in SUBSET Nodes
    BY DEF Broken, Planned
  <2>2. IsFiniteSet(Broken') /\ IsFiniteSet(Broken)
    BY <2>1, SupConstants, FS_Subset
  <2>3. Cardinality(Broken) <= Cardinality(Broken')
    BY <1>1, <2>2, FS_Subset
  <2>4. Cardinality(Broken) \in Nat /\ Cardinality(Broken') \in Nat /\ MaxFailureBudget \in Nat
    BY <2>2, FS_CardinalityType, SupConstants
  <2>5. Failures = Cardinality(Broken) /\ Failures' = Cardinality(Broken')
    BY DEF Failures, Broken, Planned
  <2> QED
    BY <2>3, <2>4, <2>5 DEF Exhausted
<1>3. ASSUME NEW n \in Nodes, Unsatisfied(n)
      PROVE  Unsatisfied(n)'
  <2>1. PICK d \in Deps[n] : result[d] \in {"failed", "skipped"}
    BY <1>3 DEF Unsatisfied
  <2>2. d \in Nodes
    BY SupConstants
  <2> QED
    BY <2>1, <2>2 DEF Unsatisfied
<1> QED
  BY <1>1, <1>2, <1>3

\* Causes stay causes while results stand.
LEMMA CausesKept ==
  ASSUME STables, STables', SCauses, aborted => aborted',
         \A n \in Nodes : result[n] # "none" => result'[n] = result[n],
         \A n \in Nodes : phase'[n] # "idle" \/ n \in waiting'
            => phase[n] # "idle" \/ n \in waiting \/ \A d \in Deps[n] : result[d] = "ok",
         \A n \in Nodes : result'[n] = "skipped" => result[n] = "skipped" \/ Unsatisfied(n) \/ Exhausted,
         \A n \in Nodes : result'[n] = "cancelled" => result[n] = "cancelled" \/ aborted'
  PROVE  SCauses'
<1> SUFFICES ASSUME NEW n \in Nodes
             PROVE  /\ phase'[n] # "idle" \/ n \in waiting' => \A d \in Deps[n] : result'[d] = "ok"
                    /\ result'[n] = "skipped" => Unsatisfied(n)' \/ Exhausted'
                    /\ result'[n] = "cancelled" => aborted'
  BY DEF SCauses
<1>1. ASSUME phase'[n] # "idle" \/ n \in waiting', NEW d \in Deps[n]
      PROVE  result'[d] = "ok"
  <2>1. d \in Nodes
    BY SupConstants
  <2>2. result[d] = "ok"
    BY <1>1 DEF SCauses
  <2> QED
    BY <2>1, <2>2
<1>2. result'[n] = "skipped" => Unsatisfied(n)' \/ Exhausted'
  <2>1. result'[n] = "skipped" => Unsatisfied(n) \/ Exhausted
    BY DEF SCauses
  <2> QED
    BY <2>1, Stand
<1>3. result'[n] = "cancelled" => aborted'
  BY DEF SCauses
<1> QED
  BY <1>1, <1>2, <1>3

\* Sets of nodes are counted with natural numbers, and a part is no more than the whole.
LEMMA Counts ==
  /\ \A S \in SUBSET Nodes : IsFiniteSet(S) /\ Cardinality(S) \in Nat
  /\ \A T \in SUBSET Nodes : \A S \in SUBSET T : Cardinality(S) <= Cardinality(T)
<1>1. \A S \in SUBSET Nodes : IsFiniteSet(S) /\ Cardinality(S) \in Nat
  BY SupConstants, FS_Subset, FS_CardinalityType
<1> QED
  BY <1>1, FS_Subset

\* A step that starts no run keeps the counts: a failure takes the place of a run.
LEMMA CountsKept ==
  ASSUME STables, STables', SCounts, Busy' \subseteq Busy, Broken' \subseteq Broken \cup Busy
  PROVE  SCounts'
<1>1. Busy \in SUBSET Nodes /\ Broken \in SUBSET Nodes
  BY DEF Busy, Broken, Planned
<1>2. Busy' \in SUBSET Busy /\ Broken' \cup Busy' \in SUBSET (Broken \cup Busy) /\ Broken \cup Busy \in SUBSET Nodes
  BY <1>1
<1>3. /\ Cardinality(Busy') <= Cardinality(Busy)
      /\ Cardinality(Broken' \cup Busy') <= Cardinality(Broken \cup Busy)
      /\ Cardinality(Busy) \in Nat /\ Cardinality(Broken \cup Busy) \in Nat
      /\ Cardinality(Busy') \in Nat /\ Cardinality(Broken' \cup Busy') \in Nat
  <2>1. Busy' \in SUBSET Nodes /\ Broken' \cup Busy' \in SUBSET Nodes
    BY <1>1, <1>2
  <2> QED
    BY <1>1, <1>2, <2>1, Counts
<1>4. MaxParallel \in Nat /\ MaxFailureBudget \in Nat
  BY SupConstants
<1> QED
  BY <1>3, <1>4 DEF SCounts

\* A step of the loop: nodes it refuses have their result, nothing runs.
LEMMA LoopSteps ==
  ASSUME SInv, NEW R \in SUBSET Ahead, STables', SLoop', SStrays', phase' = phase, aborted' = aborted,
         Ahead' = Ahead \ R,
         \A n \in Nodes : n \notin R => result'[n] = result[n],
         \A n \in R : \/ result'[n] = "skipped" /\ (Unsatisfied(n) \/ Exhausted)
                      \/ result'[n] = "cancelled" /\ aborted,
         \A n \in waiting' : n \in waiting \/ \A d \in Deps[n] : result[d] = "ok"
  PROVE  SInv'
<1>1. STables /\ SLoop /\ SRuns /\ SCauses /\ SStrays /\ SCounts
  BY DEF SInv
<1>2. Busy' = Busy /\ Planned' = Planned /\ Unschedulable' = Unschedulable
  BY DEF Busy, Planned, Unschedulable
<1>3. \A n \in R : n \in Nodes /\ n \in Planned /\ result[n] = "none" /\ phase[n] = "idle" /\ n \notin Busy
  <2>1. Ahead \subseteq Nodes
    BY <1>1 DEF Ahead, STables, Planned
  <2>2. \A n \in Ahead : result[n] = "none" /\ phase[n] = "idle"
    BY <1>1, <2>1 DEF SRuns
  <2>3. \A n \in Ahead : n \notin Unschedulable
    BY <1>1, <2>1, <2>2 DEF SRuns
  <2> QED
    BY <2>1, <2>2, <2>3 DEF Planned, Busy
<1>4. \A n \in Nodes : result[n] # "none" => result'[n] = result[n]
  BY <1>3
<1>5. SRuns'
  <2> SUFFICES ASSUME NEW n \in Nodes
               PROVE  /\ n \in Unschedulable => result'[n] = "failed" /\ phase'[n] = "idle"
                      /\ n \in Ahead' => result'[n] = "none" /\ phase'[n] = "idle"
                      /\ n \in Planned \ Ahead' => result'[n] # "none" \/ n \in Busy
                      /\ n \in Busy => result'[n] = "none"
                      /\ phase'[n] = "over" => result'[n] \in {"ok", "failed", "cancelled"}
    BY <1>2 DEF SRuns
  <2>1. CASE n \in R
    BY <1>3, <2>1 DEF Planned
  <2>2. CASE n \notin R
    <3>1. result'[n] = result[n] /\ phase'[n] = phase[n] /\ (n \in Ahead' <=> n \in Ahead)
      BY <2>2
    <3> QED
      BY <1>1, <3>1 DEF SRuns
  <2> QED
    BY <2>1, <2>2
<1>6. SCauses'
  <2>1. \A n \in Nodes : result'[n] = "skipped" => result[n] = "skipped" \/ Unsatisfied(n) \/ Exhausted
    OBVIOUS
  <2>2. \A n \in Nodes : result'[n] = "cancelled" => result[n] = "cancelled" \/ aborted'
    OBVIOUS
  <2> QED
    BY <1>1, <1>4, <2>1, <2>2, CausesKept
<1>7. SCounts'
  <2>1. Broken' \subseteq Broken \cup Busy
    BY DEF Broken, Planned
  <2> QED
    BY <1>1, <1>2, <2>1, CountsKept
<1> QED
  BY <1>5, <1>6, <1>7 DEF SInv

\* And one that refuses nobody.
LEMMA QuietSteps ==
  ASSUME SInv, STables', SLoop', SStrays', UNCHANGED <<result, phase, aborted>>, Ahead' = Ahead,
         \A n \in waiting' : n \in waiting \/ \A d \in Deps[n] : result[d] = "ok"
  PROVE  SInv'
<1> DEFINE R == {}
<1>1. /\ R \in SUBSET Ahead /\ Ahead' = Ahead \ R
      /\ \A n \in Nodes : n \notin R => result'[n] = result[n]
      /\ \A n \in R : \/ result'[n] = "skipped" /\ (Unsatisfied(n) \/ Exhausted)
                      \/ result'[n] = "cancelled" /\ aborted
  OBVIOUS
<1>2. phase' = phase /\ aborted' = aborted
  OBVIOUS
<1> HIDE DEF R
<1> QED
  BY <1>1, <1>2, LoopSteps

\* The loop returns.
LEMMA ReturnsKept == ASSUME SInv, Returns PROVE SInv'
<1>1. /\ stage = "head" /\ (wave \notin Waves \/ aborted) /\ stage' = "returned"
      /\ UNCHANGED <<result, phase, retried, wave, todo, waiting, aborted, abandoned, forgotten>>
  BY DEF Returns
<1>2. STables /\ SLoop /\ SStrays
  BY DEF SInv
<1>3. STables' /\ SStrays'
  BY <1>1, <1>2 DEF STables, SStrays
<1>4. Passed' = Passed /\ Ahead' = Ahead /\ Busy' = Busy
  BY <1>1 DEF Passed, Ahead, Planned, Unschedulable, Busy
<1>5. aborted \/ Planned \subseteq Passed
  <2>1. CASE wave \notin Waves
    <3>1. Scheduled[Cardinality(Nodes)] = Scheduled[wave - 1]
      BY <1>2, <2>1, WavesEnd DEF STables
    <3> QED
      BY <1>1, <3>1 DEF Planned, Unschedulable, Passed
  <2> QED
    BY <1>1, <2>1
<1>6. SLoop'
  <2>1. Planned' = Planned
    BY DEF Planned, Unschedulable
  <2> QED
    BY <1>1, <1>2, <1>4, <1>5, <2>1 DEF SLoop
<1> QED
  BY <1>1, <1>3, <1>4, <1>6, QuietSteps

\* A wave begins.
LEMMA StartWaveKept == ASSUME SInv, StartWave PROVE SInv'
<1>1. /\ stage = "head" /\ wave \in Waves /\ stage' = "launch" /\ todo' = Wave(wave)
      /\ UNCHANGED <<result, phase, retried, wave, waiting, aborted, abandoned, forgotten>>
  BY DEF StartWave
<1>2. STables /\ SLoop /\ SStrays
  BY DEF SInv
<1>3. Wave(wave) \subseteq Planned /\ Wave(wave) \subseteq Nodes
  BY <1>1, InWave
<1>4. STables' /\ SStrays'
  BY <1>1, <1>2, <1>3 DEF STables, SStrays
<1>5. todo = {} /\ waiting = {} /\ Busy = {} /\ abandoned = {}
  BY <1>1, <1>2 DEF SLoop
<1>6. Ahead' = Ahead
  <2>1. Scheduled[wave - 1] \subseteq Scheduled[wave]
    BY <1>1, InWave
  <2>2. Passed = Scheduled[wave - 1] /\ Passed' = Scheduled[wave] /\ Planned' = Planned
    BY <1>1 DEF Passed, Planned, Unschedulable
  <2>3. Wave(wave) = Scheduled[wave] \ Scheduled[wave - 1]
    BY DEF Wave
  <2> QED
    BY <1>1, <1>3, <1>5, <2>1, <2>2, <2>3 DEF Ahead
<1>7. SLoop'
  <2>1. Busy' = Busy /\ wave \in Waves' /\ Wave(wave)' = Wave(wave)
    BY <1>1 DEF Busy, Waves, Wave
  <2> QED
    BY <1>1, <1>5, <2>1 DEF SLoop
<1> QED
  BY <1>1, <1>4, <1>6, <1>7, QuietSteps

\* A wave is skipped, the budget being spent.
LEMMA DrainWaveKept == ASSUME SInv, DrainWave PROVE SInv'
<1>1. /\ stage = "head" /\ wave \in Waves /\ Exhausted /\ wave' = wave + 1
      /\ result' = [n \in Nodes |-> IF n \in Wave(wave) THEN "skipped" ELSE result[n]]
      /\ UNCHANGED <<phase, retried, stage, todo, waiting, aborted, abandoned, forgotten>>
  BY DEF DrainWave
<1>2. STables /\ SLoop /\ SStrays
  BY DEF SInv
<1>3. /\ Wave(wave) \subseteq Planned /\ wave' \in 1 .. Cardinality(Nodes) + 1 /\ wave' - 1 = wave
      /\ Scheduled[wave - 1] \subseteq Scheduled[wave]
  BY <1>1, InWave
<1>4. \A n \in Nodes : result'[n] = IF n \in Wave(wave) THEN "skipped" ELSE result[n]
  BY <1>1
<1>5. STables' /\ SStrays'
  <2>1. result' \in [Nodes -> {"none", "ok", "failed", "skipped", "cancelled"}]
    BY <1>1, <1>2 DEF STables
  <2> QED
    BY <1>1, <1>2, <1>3, <2>1 DEF STables, SStrays
<1>6. todo = {} /\ waiting = {} /\ Busy = {} /\ abandoned = {}
  BY <1>1, <1>2 DEF SLoop
<1>7. Wave(wave) \subseteq Ahead /\ Ahead' = Ahead \ Wave(wave)
  BY <1>1, <1>3, <1>6 DEF Passed, Ahead, Planned, Unschedulable, Wave
<1>8. SLoop'
  <2>1. Busy' = Busy
    BY <1>1 DEF Busy
  <2> QED
    BY <1>1, <1>6, <2>1 DEF SLoop
<1> QED
  <2> DEFINE R == Wave(wave)
  <2>1. R \in SUBSET Ahead /\ Ahead' = Ahead \ R
    BY <1>7
  <2>2. \A n \in Nodes : n \notin R => result'[n] = result[n]
    BY <1>4
  <2>3. \A n \in R : result'[n] = "skipped" /\ Exhausted
    BY <1>1, <1>3, <1>4 DEF Planned
  <2> HIDE DEF R
  <2> QED
    BY <1>1, <1>5, <1>8, <2>1, <2>2, <2>3, LoopSteps

\* The next node of the plan is one that is left to do.
LEMMA LeastTodo ==
  ASSUME SInv, todo # {}
  PROVE  Min(todo) \in todo
<1>1. todo \in SUBSET Nat /\ todo # {}
  BY SupConstants DEF SInv, STables
<1>2. \E m \in todo : \A k \in todo : m <= k
  BY <1>1, LeastNat
<1> QED
  BY <1>2 DEF Min

\* The loop comes to a node: refuses it, or has all of its dependencies done, since
\* they are in earlier waves and none of those runs any more.
LEMMA ComeToKept == ASSUME SInv, NEW n \in Nodes, ComeTo(n) PROVE SInv'
<1>1. /\ stage = "launch" /\ waiting = {} /\ n \in todo /\ todo' = todo \ {n}
      /\ UNCHANGED <<phase, retried, wave, stage, aborted, abandoned, forgotten>>
  BY LeastTodo DEF ComeTo
<1>2. STables /\ SLoop /\ SStrays /\ SRuns /\ SCauses
  BY DEF SInv
<1>3. wave \in Waves /\ n \in Wave(wave) /\ todo \subseteq Wave(wave)
  BY <1>1, <1>2 DEF SLoop
<1>4. Wave(wave) \subseteq Planned /\ Wave(wave) \subseteq Passed
  BY <1>1, <1>3, InWave DEF Passed
<1>5. Busy' = Busy /\ Planned' = Planned /\ Passed' = Passed /\ Waves' = Waves /\ Wave(wave)' = Wave(wave)
  BY <1>1 DEF Busy, Planned, Unschedulable, Passed, Waves, Wave
<1>6. SStrays'
  BY <1>1, <1>2 DEF SStrays
<1>7. CASE Unsatisfied(n) \/ aborted \/ Exhausted
  <2>1. result' = [result EXCEPT ![n] = Refused(n)] /\ waiting' = waiting
    BY <1>7 DEF ComeTo
  <2>2. Refused(n) = IF Unsatisfied(n) THEN "skipped" ELSE IF aborted THEN "cancelled" ELSE "skipped"
    BY DEF Refused
  <2>3. STables'
    BY <1>1, <1>2, <2>1, <2>2 DEF STables
  <2>4. \A m \in Nodes : result'[m] = IF m = n THEN Refused(n) ELSE result[m]
    BY <1>2, <2>1 DEF STables
  <2>5. Ahead' = Ahead \ {n} /\ {n} \in SUBSET Ahead
    BY <1>1, <1>3, <1>4, <1>5, <2>1 DEF Ahead
  <2>6. SLoop'
    BY <1>1, <1>2, <1>5, <2>1 DEF SLoop
  <2>7. \/ result'[n] = "skipped" /\ (Unsatisfied(n) \/ Exhausted)
        \/ result'[n] = "cancelled" /\ aborted
    BY <1>7, <2>2, <2>4
  <2> DEFINE R == {n}
  <2>8. /\ R \in SUBSET Ahead /\ Ahead' = Ahead \ R
        /\ \A m \in Nodes : m \notin R => result'[m] = result[m]
        /\ \A m \in R : \/ result'[m] = "skipped" /\ (Unsatisfied(m) \/ Exhausted)
                        \/ result'[m] = "cancelled" /\ aborted
    BY <2>4, <2>5, <2>7
  <2> HIDE DEF R
  <2> QED
    BY <1>1, <1>6, <2>1, <2>3, <2>6, <2>8, LoopSteps
<1>8. CASE ~(Unsatisfied(n) \/ aborted \/ Exhausted)
  <2>1. waiting' = {n} /\ result' = result
    BY <1>8 DEF ComeTo
  <2>2. STables'
    BY <1>1, <1>2, <2>1 DEF STables
  <2>3. Ahead' = Ahead
    BY <1>1, <1>5, <2>1 DEF Ahead
  <2>4. SLoop'
    BY <1>1, <1>2, <1>3, <1>5, <2>1 DEF SLoop
  <2>5. ASSUME NEW d \in Deps[n]
        PROVE  result[d] = "ok"
    <3>1. d \in Nodes /\ d \in Scheduled[wave - 1]
      BY <1>3, InWave, SupConstants
    <3>2. d \in Planned \ Ahead /\ d \notin Busy
      <4>1. d \in Scheduled[wave] /\ d \in Planned /\ d \notin Wave(wave)
        BY <1>3, <3>1, InWave DEF Wave
      <4>2. d \in Passed
        BY <1>1, <4>1 DEF Passed
      <4>3. Busy \subseteq Wave(wave) /\ todo \subseteq Wave(wave) /\ waiting = {}
        BY <1>1, <1>2 DEF SLoop
      <4> QED
        BY <4>1, <4>2, <4>3 DEF Ahead
    <3>3. result[d] # "none"
      BY <1>2, <3>1, <3>2 DEF SRuns
    <3>4. result[d] \notin {"failed", "skipped"}
      BY <1>8 DEF Unsatisfied
    <3>5. result[d] # "cancelled"
      BY <1>2, <1>8, <3>1 DEF SCauses
    <3> QED
      BY <1>2, <3>1, <3>3, <3>4, <3>5 DEF STables
  <2> QED
    BY <1>1, <1>6, <2>1, <2>2, <2>3, <2>4, <2>5, QuietSteps
<1> QED
  BY <1>7, <1>8

\* A wave ends.
LEMMA EndWaveKept ==
  ASSUME SInv, AllHome \/ GraceOver
  PROVE  SInv'
<1>1. /\ stage = "launch" /\ todo = {} /\ waiting = {} /\ Busy = {} /\ stage' = "head" /\ wave' = wave + 1
      /\ UNCHANGED <<result, phase, retried, todo, waiting, aborted>>
  BY DEF AllHome, GraceOver, EndWave, WaveSettled
<1>2. /\ abandoned' = {}
      /\ (abandoned = {} /\ forgotten' = forgotten) \/ forgotten' = forgotten \cup abandoned
  BY DEF AllHome, GraceOver
<1>3. STables /\ SLoop /\ SStrays
  BY DEF SInv
<1>4. wave \in Waves /\ wave' \in 1 .. Cardinality(Nodes) + 1 /\ wave' - 1 = wave
  BY <1>1, <1>3, InWave DEF SLoop
<1>5. STables'
  BY <1>1, <1>2, <1>3, <1>4 DEF STables
<1>6. SStrays'
  <2>1. \A n \in abandoned : phase[n] = "over"
    BY <1>1, <1>3 DEF SStrays, Busy, STables
  <2> QED
    BY <1>1, <1>2, <1>3, <2>1 DEF SStrays
<1>7. Ahead' = Ahead
  BY <1>1, <1>4 DEF Ahead, Passed, Planned, Unschedulable
<1>8. SLoop'
  <2>1. Busy' = Busy
    BY <1>1 DEF Busy
  <2> QED
    BY <1>1, <1>2, <2>1 DEF SLoop
<1> QED
  BY <1>1, <1>5, <1>6, <1>7, <1>8, QuietSteps

\* A run nobody listens to settles.
LEMMA StraySettlesKept == ASSUME SInv, NEW n \in Nodes, StraySettles(n) PROVE SInv'
<1>1. /\ abandoned' = abandoned \ {n} /\ forgotten' = forgotten \ {n}
      /\ UNCHANGED <<wave, stage, todo, waiting, aborted, result, phase, retried>>
  BY DEF StraySettles, Loop
<1>2. STables /\ SLoop /\ SStrays
  BY DEF SInv
<1>3. STables' /\ SStrays'
  BY <1>1, <1>2 DEF STables, SStrays
<1>4. Busy' = Busy /\ Planned' = Planned /\ Passed' = Passed /\ Waves' = Waves /\ Wave(wave)' = Wave(wave)
  BY <1>1 DEF Busy, Planned, Unschedulable, Passed, Waves, Wave
<1>5. SLoop'
  BY <1>1, <1>2, <1>4 DEF SLoop
<1>6. Ahead' = Ahead
  BY <1>1, <1>4 DEF Ahead
<1> QED
  BY <1>1, <1>3, <1>5, <1>6, QuietSteps

\* A node gets its slot: that is refused, or run while the budget holds.
LEMMA SlotTakenKept == ASSUME SInv, NEW n \in Nodes, SlotTaken(n) PROVE SInv'
<1>1. /\ n \in waiting /\ Cardinality(Busy) < MaxParallel /\ waiting' = {}
      /\ UNCHANGED <<retried, wave, stage, todo, aborted, abandoned, forgotten>>
  BY DEF SlotTaken
<1>2. STables /\ SLoop /\ SRuns /\ SCauses /\ SStrays /\ SCounts
  BY DEF SInv
<1>3. stage = "launch" /\ wave \in Waves /\ n \in Wave(wave) /\ n \notin todo /\ waiting = {n}
  BY <1>1, <1>2 DEF SLoop
<1>4. n \in Planned /\ n \in Passed /\ result[n] = "none" /\ phase[n] = "idle" /\ n \notin Busy /\ n \in Ahead
  <2>1. n \in Planned /\ n \in Passed
    BY <1>3, InWave DEF Passed
  <2>2. n \in Ahead
    BY <1>1 DEF Ahead
  <2> QED
    BY <1>2, <2>1, <2>2 DEF SRuns, Busy
<1>5. Planned' = Planned /\ Passed' = Passed /\ Waves' = Waves /\ Wave(wave)' = Wave(wave)
  BY <1>1 DEF Planned, Unschedulable, Passed, Waves, Wave
<1>6. Ahead' = Ahead \ {n}
  BY <1>1, <1>3, <1>4, <1>5 DEF Ahead
<1>7. CASE aborted \/ Exhausted
  <2> DEFINE v == IF aborted THEN "cancelled" ELSE "skipped"
  <2>1. result' = [result EXCEPT ![n] = v] /\ phase' = phase
    BY <1>7 DEF SlotTaken
  <2>2. STables'
    BY <1>1, <1>2, <2>1 DEF STables
  <2>3. \A m \in Nodes : result'[m] = IF m = n THEN v ELSE result[m]
    BY <1>2, <2>1 DEF STables
  <2>4. Busy' = Busy /\ SStrays'
    BY <1>1, <1>2, <2>1 DEF Busy, SStrays
  <2>5. SLoop'
    BY <1>1, <1>2, <1>5, <2>4 DEF SLoop
  <2> DEFINE R == {n}
  <2>6. /\ R \in SUBSET Ahead /\ Ahead' = Ahead \ R
        /\ \A m \in Nodes : m \notin R => result'[m] = result[m]
        /\ \A m \in R : \/ result'[m] = "skipped" /\ (Unsatisfied(m) \/ Exhausted)
                        \/ result'[m] = "cancelled" /\ aborted
    BY <1>4, <1>6, <1>7, <2>3
  <2> HIDE DEF R, v
  <2> QED
    BY <1>1, <2>1, <2>2, <2>4, <2>5, <2>6, LoopSteps
<1>8. CASE ~(aborted \/ Exhausted)
  <2>1. phase' = [phase EXCEPT ![n] = "running"] /\ result' = result
    BY <1>8 DEF SlotTaken
  <2>2. STables' /\ \A m \in Nodes : phase'[m] = IF m = n THEN "running" ELSE phase[m]
    BY <1>1, <1>2, <2>1 DEF STables
  <2>3. Busy' = Busy \cup {n}
    BY <2>2 DEF Busy
  <2>4. SLoop'
    BY <1>1, <1>2, <1>3, <1>5, <2>3 DEF SLoop
  <2>5. SRuns'
    <3>1. Unschedulable' = Unschedulable
      BY DEF Unschedulable
    <3> SUFFICES ASSUME NEW m \in Nodes
                 PROVE  /\ m \in Unschedulable => result[m] = "failed" /\ phase'[m] = "idle"
                        /\ m \in Ahead' => result[m] = "none" /\ phase'[m] = "idle"
                        /\ m \in Planned \ Ahead' => result[m] # "none" \/ m \in Busy'
                        /\ m \in Busy' => result[m] = "none"
                        /\ phase'[m] = "over" => result[m] \in {"ok", "failed", "cancelled"}
      BY <1>5, <2>1, <3>1 DEF SRuns
    <3>2. CASE m = n
      BY <1>4, <1>6, <2>2, <2>3, <3>2 DEF Planned
    <3>3. CASE m # n
      <4>1. phase'[m] = phase[m] /\ (m \in Busy' <=> m \in Busy) /\ (m \in Ahead' <=> m \in Ahead)
        BY <1>6, <2>2, <2>3, <3>3
      <4> QED
        BY <1>2, <4>1 DEF SRuns
    <3> QED
      BY <3>2, <3>3
  <2>6. SCauses'
    <3>1. \A m \in Nodes : phase'[m] # "idle" \/ m \in waiting' => phase[m] # "idle" \/ m \in waiting
      BY <1>1, <2>2
    <3> QED
      BY <1>1, <1>2, <2>1, <2>2, <3>1, CausesKept
  <2>7. SStrays'
    <3>1. n \notin abandoned /\ n \notin forgotten
      BY <1>2, <1>4 DEF SStrays
    <3> QED
      BY <1>1, <1>2, <2>2, <3>1 DEF SStrays, STables
  <2>8. SCounts'
    <3>1. Broken' = Broken /\ Broken \in SUBSET Nodes /\ Busy \in SUBSET Nodes
      BY <2>1 DEF Broken, Planned, Unschedulable, Busy
    <3>2. IsFiniteSet(Broken) /\ IsFiniteSet(Busy) /\ IsFiniteSet(Busy')
      BY <2>3, <3>1, Counts
    <3>3. Cardinality(Busy') = Cardinality(Busy) + 1
      BY <1>4, <2>3, <3>2, FS_AddElement
    <3>4. Cardinality(Broken \cup Busy') = Cardinality(Broken) + Cardinality(Busy') - Cardinality(Broken \cap Busy')
      BY <3>2, FS_Union
    <3>5. /\ Cardinality(Broken) \in Nat /\ Cardinality(Busy) \in Nat /\ Cardinality(Busy') \in Nat
          /\ Cardinality(Broken \cap Busy') \in Nat
      BY <2>3, <3>1, Counts
    <3>6. Cardinality(Broken) < MaxFailureBudget
      <4>1. Cardinality(Broken) = Failures /\ MaxFailureBudget \in Nat
        BY SupConstants DEF Broken, Failures, Planned
      <4> QED
        BY <1>8, <3>5, <4>1 DEF Exhausted
    <3>7. MaxParallel \in Nat /\ MaxFailureBudget \in Nat
      BY SupConstants
    <3> QED
      BY <1>1, <3>1, <3>3, <3>4, <3>5, <3>6, <3>7 DEF SCounts
  <2> QED
    BY <2>2, <2>4, <2>5, <2>6, <2>7, <2>8 DEF SInv
<1> QED
  BY <1>7, <1>8

\* A step of one node's run: it goes on in another phase, or answers.
LEMMA RunSteps ==
  ASSUME SInv, NEW n \in Busy, Loop, NEW p, NEW r,
         phase' = [phase EXCEPT ![n] = p], result' = [result EXCEPT ![n] = r],
         \/ p \in {"running", "grace", "backoff"} /\ r = "none"
         \/ p = "over" /\ r \in {"ok", "failed", "cancelled"},
         r = "cancelled" => aborted,
         retried' \in SUBSET Nodes, abandoned' \in SUBSET (abandoned \cup {n}), forgotten' = forgotten,
         n \in abandoned' => p \in {"grace", "over"}
  PROVE  SInv'
<1>1. STables /\ SLoop /\ SRuns /\ SCauses /\ SStrays /\ SCounts
  BY DEF SInv
<1>2. UNCHANGED <<wave, stage, todo, waiting, aborted>>
  BY DEF Loop
<1>3. n \in Nodes /\ phase[n] \in {"running", "grace", "backoff"} /\ result[n] = "none"
  BY <1>1 DEF Busy, SRuns
<1>4. STables'
  BY <1>1, <1>2, <1>3 DEF STables
<1>5. \A m \in Nodes : /\ phase'[m] = IF m = n THEN p ELSE phase[m]
                       /\ result'[m] = IF m = n THEN r ELSE result[m]
  BY <1>1 DEF STables
<1>6. /\ Planned' = Planned /\ Passed' = Passed /\ Waves' = Waves /\ Wave(wave)' = Wave(wave)
      /\ Ahead' = Ahead /\ Unschedulable' = Unschedulable
  BY <1>2 DEF Planned, Unschedulable, Passed, Waves, Wave, Ahead
<1>7. Busy' \subseteq Busy /\ \A m \in Nodes : m # n => (m \in Busy' <=> m \in Busy)
  BY <1>3, <1>5 DEF Busy
<1>8. n \in Busy' <=> r = "none"
  BY <1>3, <1>5 DEF Busy
<1>9. SLoop'
  BY <1>1, <1>2, <1>6, <1>7 DEF SLoop
<1>10. n \notin Unschedulable /\ n \notin Ahead
  BY <1>1, <1>3 DEF SRuns
<1>11. SRuns'
  <2> SUFFICES ASSUME NEW m \in Nodes
               PROVE  /\ m \in Unschedulable => result'[m] = "failed" /\ phase'[m] = "idle"
                      /\ m \in Ahead => result'[m] = "none" /\ phase'[m] = "idle"
                      /\ m \in Planned \ Ahead => result'[m] # "none" \/ m \in Busy'
                      /\ m \in Busy' => result'[m] = "none"
                      /\ phase'[m] = "over" => result'[m] \in {"ok", "failed", "cancelled"}
    BY <1>6 DEF SRuns
  <2>1. CASE m = n
    BY <1>5, <1>8, <1>10, <2>1
  <2>2. CASE m # n
    <3>1. phase'[m] = phase[m] /\ result'[m] = result[m] /\ (m \in Busy' <=> m \in Busy)
      BY <1>5, <1>7, <2>2
    <3> QED
      BY <1>1, <3>1 DEF SRuns
  <2> QED
    BY <2>1, <2>2
<1>12. SCauses'
  <2>1. \A m \in Nodes : result[m] # "none" => result'[m] = result[m]
    BY <1>3, <1>5
  <2>2. \A m \in Nodes : phase'[m] # "idle" \/ m \in waiting' => phase[m] # "idle" \/ m \in waiting
    BY <1>2, <1>3, <1>5
  <2>3. \A m \in Nodes : result'[m] = "skipped" => result[m] = "skipped"
    BY <1>5
  <2>4. \A m \in Nodes : result'[m] = "cancelled" => result[m] = "cancelled" \/ aborted'
    BY <1>2, <1>5
  <2> QED
    BY <1>1, <1>2, <1>4, <2>1, <2>2, <2>3, <2>4, CausesKept
<1>13. SStrays'
  <2>1. n \notin forgotten
    BY <1>1, <1>3 DEF SStrays
  <2>2. abandoned' \cap forgotten' = {}
    BY <1>1, <2>1 DEF SStrays
  <2>3. \A m \in abandoned' : phase'[m] \in {"grace", "over"}
    <3> SUFFICES ASSUME NEW m \in abandoned' PROVE phase'[m] \in {"grace", "over"}
      OBVIOUS
    <3>1. m \in Nodes
      BY <1>4 DEF STables
    <3> QED
      BY <1>1, <1>5, <3>1 DEF SStrays
  <2>4. \A m \in forgotten' : phase'[m] = "over"
    BY <1>1, <1>5, <2>1 DEF SStrays, STables
  <2> QED
    BY <2>2, <2>3, <2>4 DEF SStrays
<1>14. SCounts'
  <2>1. Broken' \subseteq Broken \cup Busy
    <3> SUFFICES ASSUME NEW m \in Broken' PROVE m \in Broken \cup Busy
      OBVIOUS
    <3>1. m \in Nodes /\ m \in Planned /\ result'[m] = "failed"
      BY <1>6 DEF Broken, Planned
    <3> QED
      BY <1>5, <3>1 DEF Broken
  <2> QED
    BY <1>1, <1>4, <1>7, <2>1, CountsKept
<1> QED
  BY <1>4, <1>9, <1>11, <1>12, <1>13, <1>14 DEF SInv

\* What is known of a run before a step of it.
LEMMA Keeps ==
  ASSUME SInv, NEW n \in Nodes
  PROVE  /\ phase[n] \in {"running", "grace", "backoff"} => n \in Busy /\ result[n] = "none"
         /\ result = [result EXCEPT ![n] = result[n]]
         /\ n \in abandoned => phase[n] \notin {"running", "backoff"}
         /\ retried \in SUBSET Nodes /\ abandoned \in SUBSET (abandoned \cup {n})
         /\ retried \cup {n} \in SUBSET Nodes /\ abandoned \cup {n} \in SUBSET (abandoned \cup {n})
         /\ abandoned \ {n} \in SUBSET (abandoned \cup {n})
<1>1. phase[n] \in {"running", "grace", "backoff"} => n \in Busy
  BY DEF Busy
<1>2. n \in Busy => result[n] = "none"
  BY DEF SInv, SRuns
<1>3. result = [result EXCEPT ![n] = result[n]] /\ retried \in SUBSET Nodes
  BY DEF SInv, STables
<1>4. n \in abandoned => phase[n] \notin {"running", "backoff"}
  BY DEF SInv, SStrays
<1> QED
  BY <1>1, <1>2, <1>3, <1>4

\* A run answers.
LEMMA WorkerEndsKept ==
  ASSUME SInv, NEW n \in Nodes, NEW r \in {"ok", "failed"}, WorkerEnds(n, r)
  PROVE  SInv'
<1> DEFINE p == "over"
<1>1. /\ n \in Busy /\ Loop /\ phase' = [phase EXCEPT ![n] = p] /\ result' = [result EXCEPT ![n] = r]
      /\ p = "over" /\ r \in {"ok", "failed", "cancelled"} /\ r # "cancelled"
      /\ retried' \in SUBSET Nodes /\ abandoned' \in SUBSET (abandoned \cup {n}) /\ forgotten' = forgotten
  BY Keeps DEF WorkerEnds, Answers
<1> HIDE DEF p
<1> QED
  BY <1>1, RunSteps

\* A run throws, and may be tried again.
LEMMA WorkerThrowsKept == ASSUME SInv, NEW n \in Nodes, WorkerThrows(n) PROVE SInv'
<1>1. n \in Busy /\ Loop /\ abandoned' = abandoned /\ forgotten' = forgotten /\ phase[n] = "running"
  BY Keeps DEF WorkerThrows
<1>2. CASE Answers(n, "failed") /\ UNCHANGED retried
  <2> DEFINE p == "over"
             r == "failed"
  <2>1. /\ phase' = [phase EXCEPT ![n] = p] /\ result' = [result EXCEPT ![n] = r]
        /\ p = "over" /\ r \in {"ok", "failed", "cancelled"} /\ r # "cancelled"
        /\ retried' \in SUBSET Nodes /\ abandoned' \in SUBSET (abandoned \cup {n})
    BY <1>1, <1>2, Keeps DEF Answers
  <2> HIDE DEF p, r
  <2> QED
    BY <1>1, <2>1, RunSteps
<1>3. CASE retried' = retried \cup {n} /\ phase' = [phase EXCEPT ![n] = "backoff"] /\ UNCHANGED result
  <2> DEFINE p == "backoff"
             r == "none"
  <2>1. /\ phase' = [phase EXCEPT ![n] = p] /\ result' = [result EXCEPT ![n] = r]
        /\ p \in {"running", "grace", "backoff"} /\ r = "none" /\ r # "cancelled"
        /\ retried' \in SUBSET Nodes /\ abandoned' \in SUBSET (abandoned \cup {n}) /\ n \notin abandoned'
    BY <1>1, <1>3, Keeps
  <2> HIDE DEF p, r
  <2> QED
    BY <1>1, <2>1, RunSteps
<1> QED
  BY <1>2, <1>3 DEF WorkerThrows

\* The wait for the second attempt ends.
LEMMA BackoffEndsKept == ASSUME SInv, NEW n \in Nodes, BackoffEnds(n) PROVE SInv'
<1>1. /\ n \in Busy /\ Loop /\ abandoned' = abandoned /\ forgotten' = forgotten /\ phase[n] = "backoff"
      /\ retried' = retried
  BY Keeps DEF BackoffEnds
<1>2. CASE aborted
  <2> DEFINE p == "over"
             r == "cancelled"
  <2>1. /\ phase' = [phase EXCEPT ![n] = p] /\ result' = [result EXCEPT ![n] = r]
        /\ p = "over" /\ r \in {"ok", "failed", "cancelled"}
        /\ retried' \in SUBSET Nodes /\ abandoned' \in SUBSET (abandoned \cup {n})
    BY <1>1, <1>2, Keeps DEF Answers, BackoffEnds
  <2> HIDE DEF p, r
  <2> QED
    BY <1>1, <1>2, <2>1, RunSteps
<1>3. CASE ~aborted
  <2> DEFINE p == "running"
             r == "none"
  <2>1. /\ phase' = [phase EXCEPT ![n] = p] /\ result' = [result EXCEPT ![n] = r]
        /\ p \in {"running", "grace", "backoff"} /\ r = "none" /\ r # "cancelled"
        /\ retried' \in SUBSET Nodes /\ abandoned' \in SUBSET (abandoned \cup {n}) /\ n \notin abandoned'
    BY <1>1, <1>3, Keeps DEF BackoffEnds
  <2> HIDE DEF p, r
  <2> QED
    BY <1>1, <2>1, RunSteps
<1> QED
  BY <1>2, <1>3

\* A run is out of time.
LEMMA TimesOutKept == ASSUME SInv, NEW n \in Nodes, TimesOut(n) PROVE SInv'
<1> DEFINE p == "grace"
           r == "none"
<1>1. /\ n \in Busy /\ Loop /\ forgotten' = forgotten
      /\ phase' = [phase EXCEPT ![n] = p] /\ result' = [result EXCEPT ![n] = r]
      /\ p \in {"running", "grace", "backoff"} /\ r = "none" /\ r # "cancelled" /\ p \in {"grace", "over"}
      /\ retried' \in SUBSET Nodes /\ abandoned' \in SUBSET (abandoned \cup {n})
  BY Keeps DEF TimesOut
<1> HIDE DEF p, r
<1> QED
  BY <1>1, RunSteps

\* And answers within its grace or not.
LEMMA LateAnswerKept ==
  ASSUME SInv, NEW n \in Nodes, NEW kept \in BOOLEAN, NEW settles \in BOOLEAN, LateAnswer(n, kept, settles)
  PROVE  SInv'
<1> DEFINE p == "over"
           r == IF kept THEN "ok" ELSE IF aborted THEN "cancelled" ELSE "failed"
<1>1. /\ n \in Busy /\ Loop /\ forgotten' = forgotten
      /\ phase' = [phase EXCEPT ![n] = p] /\ result' = [result EXCEPT ![n] = r]
      /\ p = "over" /\ r \in {"ok", "failed", "cancelled"} /\ (r = "cancelled" => aborted)
      /\ retried' \in SUBSET Nodes
  BY Keeps DEF LateAnswer, Answers
<1>2. abandoned' \in SUBSET (abandoned \cup {n})
  BY DEF LateAnswer
<1> HIDE DEF p, r
<1> QED
  BY <1>1, <1>2, RunSteps

\* The dispatch is aborted: whoever runs is cut off and has its result.
LEMMA AbortKept == ASSUME SInv, Abort PROVE SInv'
<1> DEFINE cut == {n \in Nodes : phase[n] = "running"}
<1>1. STables /\ SLoop /\ SRuns /\ SCauses /\ SStrays /\ SCounts
  BY DEF SInv
<1>2. /\ stage # "returned" /\ aborted' = TRUE /\ abandoned' = abandoned \cup cut
      /\ result' = [n \in Nodes |-> IF n \in cut THEN "cancelled" ELSE result[n]]
      /\ phase' = [n \in Nodes |-> IF n \in cut THEN "over" ELSE phase[n]]
      /\ UNCHANGED <<retried, wave, stage, todo, waiting, forgotten>>
  BY DEF Abort
<1>3. \A n \in Nodes : /\ result'[n] = IF n \in cut THEN "cancelled" ELSE result[n]
                       /\ phase'[n] = IF n \in cut THEN "over" ELSE phase[n]
  BY <1>2
<1>4. STables'
  <2>1. /\ result' \in [Nodes -> {"none", "ok", "failed", "skipped", "cancelled"}]
        /\ phase' \in [Nodes -> {"idle", "running", "grace", "backoff", "over"}]
    BY <1>1, <1>2 DEF STables
  <2> QED
    BY <1>1, <1>2, <2>1 DEF STables
<1>5. /\ Planned' = Planned /\ Passed' = Passed /\ Waves' = Waves /\ Wave(wave)' = Wave(wave)
      /\ Ahead' = Ahead /\ Unschedulable' = Unschedulable
  BY <1>2 DEF Planned, Unschedulable, Passed, Waves, Wave, Ahead
<1>6. cut \subseteq Busy /\ Busy' = Busy \ cut
  BY <1>3 DEF Busy
<1>7. SLoop'
  BY <1>1, <1>2, <1>5, <1>6 DEF SLoop
<1>8. SRuns'
  <2> SUFFICES ASSUME NEW m \in Nodes
               PROVE  /\ m \in Unschedulable => result'[m] = "failed" /\ phase'[m] = "idle"
                      /\ m \in Ahead => result'[m] = "none" /\ phase'[m] = "idle"
                      /\ m \in Planned \ Ahead => result'[m] # "none" \/ m \in Busy'
                      /\ m \in Busy' => result'[m] = "none"
                      /\ phase'[m] = "over" => result'[m] \in {"ok", "failed", "cancelled"}
    BY <1>5 DEF SRuns
  <2>1. CASE m \in cut
    <3>1. phase[m] = "running" /\ m \notin Unschedulable /\ m \notin Ahead
      BY <1>1, <2>1 DEF SRuns
    <3> QED
      BY <1>3, <1>6, <2>1, <3>1
  <2>2. CASE m \notin cut
    <3>1. phase'[m] = phase[m] /\ result'[m] = result[m] /\ (m \in Busy' <=> m \in Busy)
      BY <1>3, <1>6, <2>2
    <3> HIDE DEF cut
    <3> QED
      BY <1>1, <3>1 DEF SRuns
  <2> QED
    BY <2>1, <2>2
<1>9. SCauses'
  <2>1. \A m \in Nodes : result[m] # "none" => result'[m] = result[m]
    BY <1>1, <1>3, <1>6 DEF SRuns
  <2>2. \A m \in Nodes : phase'[m] # "idle" \/ m \in waiting' => phase[m] # "idle" \/ m \in waiting
    BY <1>2, <1>3
  <2>3. \A m \in Nodes : result'[m] = "skipped" => result[m] = "skipped"
    BY <1>3
  <2>4. aborted'
    BY <1>2
  <2> HIDE DEF cut
  <2> QED
    BY <1>1, <1>4, <2>1, <2>2, <2>3, <2>4, CausesKept
<1>10. SStrays'
  <2>1. cut \cap forgotten = {}
    BY <1>1 DEF SStrays
  <2>2. abandoned' \subseteq Nodes /\ forgotten \subseteq Nodes /\ forgotten' = forgotten
    BY <1>1, <1>2 DEF STables
  <2>3. \A m \in abandoned' : phase'[m] \in {"grace", "over"}
    BY <1>1, <1>2, <1>3, <2>2 DEF SStrays
  <2>4. \A m \in forgotten' : phase'[m] = "over"
    BY <1>1, <1>3, <2>2 DEF SStrays
  <2> QED
    BY <1>1, <1>2, <2>1, <2>3, <2>4 DEF SStrays
<1>11. SCounts'
  <2>1. Broken' \subseteq Broken \cup Busy
    BY <1>3, <1>5 DEF Broken, Planned
  <2>2. Busy' \subseteq Busy
    BY <1>6
  <2> HIDE DEF cut
  <2> QED
    BY <1>1, <1>4, <2>1, <2>2, CountsKept
<1> QED
  BY <1>4, <1>7, <1>8, <1>9, <1>10, <1>11 DEF SInv

\* Every step keeps the invariant.
LEMMA DispatchKept == SInv /\ [SupNext]_svars => SInv'
<1> SUFFICES ASSUME SInv, [SupNext]_svars
             PROVE  SInv'
  OBVIOUS
<1>1. CASE Returns \/ DrainWave \/ StartWave \/ AllHome \/ GraceOver \/ Abort
  BY <1>1, ReturnsKept, DrainWaveKept, StartWaveKept, EndWaveKept, AbortKept
<1>2. CASE \E n \in Nodes : ComeTo(n) \/ SlotTaken(n)
  BY <1>2, ComeToKept, SlotTakenKept
<1>3. CASE \E n \in Nodes, r \in {"ok", "failed"} : WorkerEnds(n, r)
  BY <1>3, WorkerEndsKept
<1>4. CASE \E n \in Nodes : WorkerThrows(n)
  BY <1>4, WorkerThrowsKept
<1>5. CASE \E n \in Nodes : BackoffEnds(n)
  BY <1>5, BackoffEndsKept
<1>6. CASE \E n \in Nodes : TimesOut(n)
  BY <1>6, TimesOutKept
<1>7. CASE \E n \in Nodes : StraySettles(n)
  BY <1>7, StraySettlesKept
<1>8. CASE \E n \in Nodes, kept, settles \in BOOLEAN : LateAnswer(n, kept, settles)
  BY <1>8, LateAnswerKept
<1>9. CASE UNCHANGED svars
  <2>1. UNCHANGED <<result, phase, retried, wave, stage, todo, waiting, aborted, abandoned, forgotten>>
    BY <1>9 DEF svars
  <2>2. STables' /\ SStrays'
    BY <2>1 DEF SInv, STables, SStrays
  <2>3. Planned' = Planned /\ Passed' = Passed /\ Waves' = Waves /\ Wave(wave)' = Wave(wave) /\ Busy' = Busy /\ Ahead' = Ahead
    BY <2>1 DEF Planned, Unschedulable, Passed, Waves, Wave, Busy, Ahead
  <2>4. SLoop'
    BY <2>1, <2>3 DEF SInv, SLoop
  <2> QED
    BY <2>1, <2>2, <2>3, <2>4, QuietSteps
<1> QED
  BY <1>1, <1>2, <1>3, <1>4, <1>5, <1>6, <1>7, <1>8, <1>9 DEF SupNext

\* It is one.
LEMMA DispatchInvariant == SupSpec => []SInv
BY DispatchBegins, DispatchKept, PTL DEF SupSpec

\* The types of a dispatch (supervisor-dispatcher.ts), with never more runs than
\* slots, for any plan.
THEOREM DispatchTyped == SupSpec => []SupTypeOK
<1>1. SInv => SupTypeOK
  <2> SUFFICES ASSUME SInv PROVE SupTypeOK
    OBVIOUS
  <2>1. STables /\ SRuns /\ SStrays /\ SCounts
    BY DEF SInv
  <2>2. todo \cup waiting \cup retried \cup abandoned \cup forgotten \subseteq Nodes
    BY <2>1 DEF STables
  <2>3. \A n \in Nodes : (phase[n] \in {"running", "grace", "backoff"} => result[n] = "none")
                          /\ (phase[n] = "over" => result[n] \in {"ok", "failed", "cancelled"})
    BY <2>1 DEF SRuns, Busy
  <2> QED
    BY <2>1, <2>2, <2>3 DEF SupTypeOK, STables, SStrays, SCounts
<1> QED
  BY <1>1, DispatchInvariant, PTL

\* A node runs on the finished work of everything it depends on, and no wave starts
\* while a run of an earlier one goes on that has not had its grace, for any plan,
\* number of slots and failure budget (supervisor-dispatcher.ts).
THEOREM DispatchedInOrder == SupSpec => []DispatchInOrder
<1>1. SInv => DispatchInOrder
  <2> SUFFICES ASSUME SInv PROVE DispatchInOrder
    OBVIOUS
  <2>1. DepsHonoured
    BY DEF SInv, SCauses, DepsHonoured
  <2>2. WavesDoNotOverlap
    <3>1. Busy \cup abandoned \subseteq IF stage = "launch" THEN Wave(wave) ELSE {}
      BY DEF SInv, SLoop
    <3>2. stage # "launch" => Busy = {} /\ abandoned = {}
      BY <3>1
    <3>3. stage = "launch" => Busy \subseteq Wave(wave) /\ abandoned \subseteq Wave(wave)
      BY <3>1
    <3> QED
      BY <3>2, <3>3 DEF WavesDoNotOverlap
  <2> QED
    BY <2>1, <2>2 DEF DispatchInOrder
<1> QED
  BY <1>1, DispatchInvariant, PTL

\* A dispatch that is not aborted returns with a result for every node of the plan,
\* skips none without cause, and overshoots its failure budget by less than its slots
\* (supervisor-dispatcher.ts).
THEOREM PlansAccounted == SupSpec => []PlanAccounted
<1>1. SInv => PlanAccounted
  <2> SUFFICES ASSUME SInv PROVE PlanAccounted
    OBVIOUS
  <2>1. STables /\ SLoop /\ SRuns /\ SCauses /\ SCounts
    BY DEF SInv
  <2>2. ASSUME stage = "returned"
        PROVE  Busy = {} /\ (~aborted => \A n \in Nodes : result[n] # "none")
    <3>1. Busy = {} /\ todo = {} /\ waiting = {} /\ (aborted \/ Planned \subseteq Passed)
      BY <2>1, <2>2 DEF SLoop
    <3>2. ~aborted => Ahead = {}
      BY <3>1 DEF Ahead
    <3>3. ~aborted => \A n \in Nodes : result[n] # "none"
      BY <2>1, <3>1, <3>2 DEF SRuns, Planned
    <3> QED
      BY <3>1, <3>3
  <2>3. \A n \in Nodes : result[n] = "skipped" => Unsatisfied(n) \/ Exhausted
    BY <2>1 DEF SCauses
  <2>4. FailuresBounded
    <3>1. Broken \in SUBSET (Broken \cup Busy) /\ Broken \cup Busy \in SUBSET Nodes
      BY DEF Broken, Busy, Planned
    <3>2. /\ Cardinality(Broken) <= Cardinality(Broken \cup Busy)
          /\ Cardinality(Broken) \in Nat /\ Cardinality(Broken \cup Busy) \in Nat
      BY <3>1, Counts
    <3>3. Failures = Cardinality(Broken) /\ MaxParallel \in Nat /\ MaxFailureBudget \in Nat
      BY SupConstants DEF Failures, Broken, Planned
    <3> QED
      BY <2>1, <3>2, <3>3 DEF FailuresBounded, SCounts
  <2> QED
    BY <2>2, <2>3, <2>4 DEF PlanAccounted, EveryNodeAccounted
<1> QED
  BY <1>1, DispatchInvariant, PTL

-----------------------------------------------------------------------------
(* The keep-alive of a mission: its invariant.                                *)
(*                                                                            *)
(* KBase says what rows and memory look like, whatever a person did.          *)
(* KAppointed is Appointed, of a process that did not sweep yet too. KAlone   *)
(* is about a mission left to itself: it moves at one place at a time, the    *)
(* row that comes first among those that wait is the one that goes on, and    *)
(* the count is backed by a text from which the next sweep would restore it.  *)

\* The rows are a tree that grows at its end, and only rows that ran and ended
\* are continued.
KTree ==
  /\ status[1] # "absent"
  /\ \A t, u \in Attempts : u < t /\ status[t] # "absent" => status[u] # "absent"
  /\ \A t \in Attempts :
       /\ parent[t] < t /\ (status[t] = "absent" => parent[t] = NoAttempt)
       /\ parent[t] # NoAttempt => status[parent[t]] # "live"

\* What a row says, and which rows are ordered.
KRows ==
  /\ \A t \in Attempts :
       /\ status[t] \in {"absent", "live", "paused"} => text[t] = NoText
       /\ status[t] = "cancelled" => reason[t] # "none"
       /\ status[t] \in {"absent", "live"} \/ timer[t].kind = "none" => timer[t] = NoTimer
       /\ status[t] = "paused" => timer[t].kind \in {"none", "resume"}
  /\ \A p \in recent : /\ status[p[1]] = "blocked" /\ status[p[2]] = "blocked"
                       /\ <<p[2], p[1]>> \notin recent

\* The process and its memory.
KMemory ==
  /\ ~awake => retries = 0 /\ armed = {} /\ ~swept /\ \A t \in Attempts : timer[t].kind = "none"
  /\ retries > 0 => \E t \in Attempts : CountIn(t) >= retries
  /\ hands > 0 => charged = 0

\* Rows and memory are in order.
KBase == KeepAliveTypeOK /\ KTree /\ KRows /\ KMemory

\* The text of a row promises a retry.
Promised(t) == status[t] = "blocked" /\ text[t].kind \in {"retry", "carry", "budget"}

\* Why a promise stands although nothing runs: Appointed, of a row this process
\* armed before its sweep too.
KAppointed ==
  awake /\ (swept \/ Tip \in armed) /\ Promised(Tip)
  => \/ LiveRows # {}
     \/ \E t \in Attempts : timer[t].kind \notin {"none", "resume"}
     \/ \E t \in Rows : status[t] = "cancelled" /\ reason[t] = "user"
     \/ \E t \in Rows \ (Ancestors(Tip) \cup {Tip}) : status[t] \in {"completed", "failed"}
     \/ \E u \in Rows : <<u, Tip>> \in recent /\ text[u].kind \in {"stop", "ask"}

\* A row that runs or has a timer; a row that waits for the sweep or its timer; the
\* last updated of them; a row passed over for a later one beside it; a row whose
\* lineage has reported; a row whose lineage carries the count.
Moving(t) == status[t] = "live" \/ timer[t].kind # "none"
Waits(t) == status[t] = "blocked" /\ text[t].kind \notin {"stop", "ask"}
NoneWaits == \A t \in Attempts : ~Waits(t)
Foremost(x) == Waits(x) /\ \A u \in Attempts \ {x} : Waits(u) => <<x, u>> \in recent
Overtaken(x) == \E u \in Rows : x < u /\ parent[u] = parent[x]
UsedUp(u) == \E a \in Ancestors(u) : text[a] = [kind |-> "stop", n |-> MaxRetries]
Backed(x) == Overtaken(x) \/ \E a \in Ancestors(x) \cup {x} : charged <= CountIn(a)

\* The mission moves at one place at a time.
KOne == \A t, u \in Attempts : Moving(t) /\ Moving(u) => t = u

\* A row that runs is the newest, is counted, and continues the row that comes
\* first among those that wait, or the count begins with it.
KLive ==
  \A c \in LiveRows :
    /\ \A u \in Rows : u <= c
    /\ \A u \in Attempts : status[u] = "paused" => Overtaken(u) \/ UsedUp(u)
    /\ awake => charged <= retries
    /\ \/ parent[c] # NoAttempt /\ Foremost(parent[c]) /\ charged <= CountIn(parent[c])
       \/ charged = 0 /\ (UsedUp(c) \/ (NoneWaits /\ \A t \in Attempts : status[t] # "paused"))

\* A timer is set on the row that comes first, on the terms the count allows.
KTimers ==
  \A x \in Attempts :
    /\ timer[x].kind \in {"retry", "budget", "rearm"} => Foremost(x)
    /\ timer[x].kind = "retry" =>
         /\ CountIn(x) = retries
         /\ retries = IF timer[x].spend THEN timer[x].attempt + 1 ELSE timer[x].attempt
         /\ Overtaken(x) \/ charged <= timer[x].attempt
    /\ timer[x].kind = "budget" => charged = 0 /\ retries = 0
    /\ timer[x].kind = "rearm" => Overtaken(x) \/ charged <= retries
    /\ timer[x].kind = "resume" => NoneWaits \/ status[Tip] = "completed"

\* A parked row is passed over or used up, or it continues the row that comes
\* first, or it is all that is left.
KPaused ==
  \A u \in Attempts : status[u] = "paused" =>
    \/ Overtaken(u) \/ UsedUp(u)
    \/ /\ parent[u] # NoAttempt /\ Foremost(parent[u]) /\ ~Overtaken(parent[u])
       /\ status[Tip] # "completed"
    \/ NoneWaits /\ \A t \in Attempts : status[t] = "paused" => t = u

\* The count is within the limit, and the row that comes first backs it.
KCount ==
  /\ charged <= MaxRetries
  /\ charged = 0 \/ \E x \in Attempts : Foremost(x) /\ Backed(x)
  /\ status[Tip] = "completed" => charged = 0

\* Before the sweep: all that waits was armed by this process, or nothing moves.
KSweep ==
  awake /\ ~swept =>
    \/ \A t \in Attempts : status[t] # "paused" /\ (Waits(t) => t \in armed)
    \/ armed = {} /\ \A t \in Attempts : ~Moving(t)

\* A mission left to itself.
KAlone == hands = 0 /\ ~WentBack => KOne /\ KLive /\ KTimers /\ KPaused /\ KCount /\ KSweep

-----------------------------------------------------------------------------
(* Greatest numbers, and the ancestors of a row.                              *)

\* A bounded set of numbers has a greatest one.
LEMMA GreatestNat ==
  ASSUME NEW n \in Nat, NEW T \in SUBSET (0..n), T # {}
  PROVE  \E m \in T : \A k \in T : k <= m
<1> DEFINE D == {n - k : k \in T}
<1>1. D \in SUBSET Nat /\ D # {}
  <2>1. \A k \in T : k \in 0..n /\ n - k \in Nat
    OBVIOUS
  <2> QED
    BY <2>1
<1>2. PICK d \in D : \A e \in D : d <= e
  BY <1>1, LeastNat
<1>3. PICK m \in T : d = n - m
  BY <1>2
<1>4. ASSUME NEW k \in T
      PROVE  k <= m
  <2>1. n - m <= n - k
    BY <1>2, <1>3
  <2> QED
    BY <2>1
<1> QED
  BY <1>4

\* The recursion of Ancestors.
Above == CHOOSE up : up = [d \in 0..MaxRows |-> IF d = 0 THEN {} ELSE {parent[d]} \cup up[parent[d]]]

\* The smallest set that has the parent of d and, with a row, its parent.
Closed(d, S) ==
  /\ S \subseteq 0..MaxRows
  /\ d # 0 => parent[d] \in S
  /\ \A x \in S : x # 0 => parent[x] \in S

\* What is in every such set.
Closure(d) == {p \in 0..MaxRows : \A S \in SUBSET (0..MaxRows) : Closed(d, S) => p \in S}

\* The closure of a row: its parent, and the closure of the parent.
LEMMA ClosureStep ==
  ASSUME parent \in [Attempts -> Attempts \cup {NoAttempt}], NEW d \in 0..MaxRows
  PROVE  Closure(d) = IF d = 0 THEN {} ELSE {parent[d]} \cup Closure(parent[d])
<1> USE KeepAliveAssumption DEF Attempts, NoAttempt
<1>1. CASE d = 0
  <2>1. Closed(d, {})
    BY <1>1 DEF Closed
  <2> QED
    BY <1>1, <2>1 DEF Closure
<1>2. CASE d # 0
  <2>1. parent[d] \in 0..MaxRows
    BY <1>2
  <2>2. \A S \in SUBSET (0..MaxRows) : Closed(d, S) => Closed(parent[d], S) /\ parent[d] \in S
    BY <1>2 DEF Closed
  <2>3. {parent[d]} \cup Closure(parent[d]) \subseteq Closure(d)
    BY <2>1, <2>2 DEF Closure
  <2>4. Closed(d, {parent[d]} \cup Closure(parent[d]))
    <3> DEFINE C == {parent[d]} \cup Closure(parent[d])
    <3>1. C \subseteq 0..MaxRows /\ parent[d] \in C
      BY <2>1 DEF Closure
    <3>2. ASSUME NEW x \in C, x # 0
          PROVE  parent[x] \in C
      <4>1. parent[x] \in 0..MaxRows
        BY <3>1, <3>2
      <4>2. \A S \in SUBSET (0..MaxRows) : Closed(parent[d], S) => parent[x] \in S
        BY <3>2 DEF Closure, Closed
      <4> QED
        BY <4>1, <4>2 DEF Closure
    <3> QED
      BY <3>1, <3>2 DEF Closed
  <2>5. Closure(d) \subseteq {parent[d]} \cup Closure(parent[d])
    BY <2>1, <2>4 DEF Closure
  <2> QED
    BY <1>2, <2>3, <2>5
<1> QED
  BY <1>1, <1>2

\* The recursion of Ancestors has a solution: the closures.
LEMMA AboveStep ==
  ASSUME parent \in [Attempts -> Attempts \cup {NoAttempt}]
  PROVE  \A d \in 0..MaxRows : Above[d] = IF d = 0 THEN {} ELSE {parent[d]} \cup Above[parent[d]]
<1> USE KeepAliveAssumption DEF Attempts, NoAttempt
<1> DEFINE F == [d \in 0..MaxRows |-> Closure(d)]
<1>1. F = [d \in 0..MaxRows |-> IF d = 0 THEN {} ELSE {parent[d]} \cup F[parent[d]]]
  <2>1. \A d \in 0..MaxRows : d # 0 => parent[d] \in 0..MaxRows
    OBVIOUS
  <2>2. \A d \in 0..MaxRows : F[d] = IF d = 0 THEN {} ELSE {parent[d]} \cup F[parent[d]]
    BY <2>1, ClosureStep
  <2> QED
    BY <2>2
<1>2. Above = [d \in 0..MaxRows |-> IF d = 0 THEN {} ELSE {parent[d]} \cup Above[parent[d]]]
  <2> HIDE DEF F
  <2> QED
    BY <1>1 DEF Above
<1> QED
  BY <1>2

\* The ancestors of a row: its parent and the parent's.
Step == \A t \in Attempts :
          /\ parent[t] = NoAttempt => Ancestors(t) = {}
          /\ parent[t] # NoAttempt => Ancestors(t) = {parent[t]} \cup Ancestors(parent[t])

\* The ancestors are so.
LEMMA AncestorsStep == parent \in [Attempts -> Attempts \cup {NoAttempt}] => Step
<1> SUFFICES ASSUME parent \in [Attempts -> Attempts \cup {NoAttempt}], NEW t \in Attempts
             PROVE  /\ parent[t] = NoAttempt => Ancestors(t) = {}
                    /\ parent[t] # NoAttempt => Ancestors(t) = {parent[t]} \cup Ancestors(parent[t])
  BY DEF Step
<1> USE KeepAliveAssumption DEF Attempts, NoAttempt
<1>1. \A d : Ancestors(d) = Above[d] \ {NoAttempt}
  BY DEF Ancestors, Above
<1>2. Above[0] = {} /\ Above[t] = {parent[t]} \cup Above[parent[t]]
  <2>1. 0 \in 0..MaxRows /\ t \in 0..MaxRows /\ t # 0
    OBVIOUS
  <2>2. \A d \in 0..MaxRows : Above[d] = IF d = 0 THEN {} ELSE {parent[d]} \cup Above[parent[d]]
    BY AboveStep
  <2> HIDE DEF Attempts, NoAttempt
  <2> QED
    BY <2>1, <2>2, Zenon
<1> QED
  BY <1>1, <1>2

\* The same of the next state.
LEMMA AncestorsStepNext == (parent \in [Attempts -> Attempts \cup {NoAttempt}])' => Step'
  BY AncestorsStep, PTL

\* What has a descendant has a child.
LEMMA AncestorsAreParents ==
  ASSUME KBase, NEW t \in Attempts, NEW a \in Ancestors(t)
  PROVE  a \in Attempts /\ \E d \in Attempts : parent[d] = a
<1> DEFINE Good(u) == \A b \in Ancestors(u) : b \in Attempts /\ \E d \in Attempts : parent[d] = b
           T == {u \in Attempts : ~Good(u)}
<1>1. parent \in [Attempts -> Attempts \cup {NoAttempt}] /\ \A u \in Attempts : parent[u] < u
  BY DEF KBase, KTree, KeepAliveTypeOK
<1>2. Step
  BY <1>1, AncestorsStep
<1>3. ASSUME T # {}
      PROVE  FALSE
  <2>0. T \in SUBSET Nat
    BY KeepAliveAssumption DEF Attempts
  <2>1. PICK m \in T : \A k \in T : m <= k
    <3> HIDE DEF T
    <3> QED
      BY <1>3, <2>0, LeastNat
  <2>2. m \in Attempts /\ \A u \in Attempts : u < m => Good(u)
    BY <2>1, KeepAliveAssumption DEF Attempts
  <2>3. CASE parent[m] = NoAttempt
    BY <1>2, <2>1, <2>3 DEF Step
  <2>4. CASE parent[m] # NoAttempt
    <3>1. parent[m] \in Attempts /\ Good(parent[m])
      BY <1>1, <2>2, <2>4
    <3>2. Ancestors(m) = {parent[m]} \cup Ancestors(parent[m])
      BY <1>2, <2>2, <2>4 DEF Step
    <3>3. Good(m)
      BY <2>2, <3>1, <3>2
    <3> QED
      BY <2>1, <3>3
  <2> QED
    BY <2>3, <2>4
<1>4. Good(t)
  BY <1>3
<1> QED
  BY <1>4

\* Rows keep their ancestors when rows behind them begin.
LEMMA AncestorsKept ==
  ASSUME KBase, parent' \in [Attempts -> Attempts \cup {NoAttempt}], NEW n \in Nat,
         \A u \in Attempts : u < n => parent'[u] = parent[u],
         NEW t \in Attempts, t < n
  PROVE  Ancestors(t)' = Ancestors(t)
<1> DEFINE T == {u \in Attempts : u < n /\ Ancestors(u)' # Ancestors(u)}
<1>1. parent \in [Attempts -> Attempts \cup {NoAttempt}] /\ \A u \in Attempts : parent[u] < u
  BY DEF KBase, KTree, KeepAliveTypeOK
<1>2. Step /\ Step'
  BY <1>1, AncestorsStep, AncestorsStepNext
<1>3. ASSUME T # {}
      PROVE  FALSE
  <2>0. T \in SUBSET Nat
    BY KeepAliveAssumption DEF Attempts
  <2>1. PICK m \in T : \A k \in T : m <= k
    <3> HIDE DEF T
    <3> QED
      BY <1>3, <2>0, LeastNat
  <2>2. m \in Attempts /\ m < n /\ parent'[m] = parent[m] /\ Ancestors(m)' # Ancestors(m)
    BY <2>1
  <2>3. CASE parent[m] = NoAttempt
    BY <1>2, <2>2, <2>3 DEF Step
  <2>4. CASE parent[m] # NoAttempt
    <3>1. parent[m] \in Attempts /\ parent[m] < m /\ parent[m] < n
      BY <1>1, <2>2, <2>4, KeepAliveAssumption DEF Attempts, NoAttempt
    <3>2. Ancestors(parent[m])' = Ancestors(parent[m])
      BY <2>1, <3>1, KeepAliveAssumption DEF Attempts
    <3>3. /\ Ancestors(m) = {parent[m]} \cup Ancestors(parent[m])
          /\ Ancestors(m)' = {parent[m]} \cup Ancestors(parent[m])'
      BY <1>2, <2>2, <2>4 DEF Step
    <3> QED
      BY <2>2, <3>2, <3>3
  <2> QED
    BY <2>3, <2>4
<1> QED
  BY <1>3

\* The newest row.
LEMMA TipIs ==
  ASSUME KBase
  PROVE  Tip \in Rows /\ \A u \in Rows : u <= Tip
<1>1. Rows \in SUBSET (0..MaxRows) /\ 1 \in Rows
  BY KeepAliveAssumption DEF Rows, Attempts, KBase, KTree
<1>2. \E t \in Rows : \A u \in Rows : u <= t
  BY <1>1, GreatestNat, KeepAliveAssumption
<1> QED
  BY <1>2 DEF Tip

-----------------------------------------------------------------------------
(* What a step does to the mission: a row comes to an end, a timer is set, a row*)
(* begins, a row is retired; every action is one of these.                    *)

\* Row t comes to status s with text x and timer tm, and n retries are counted.
Ends(t, s, x, tm, n) ==
  /\ status' = [status EXCEPT ![t] = s] /\ text' = [text EXCEPT ![t] = x]
  /\ timer' = [timer EXCEPT ![t] = tm] /\ retries' = n /\ parent' = parent
  /\ recent' = Without(recent, t) \cup
                 (IF s = "blocked" THEN {t} \X {u \in Attempts \ {t} : status[u] = "blocked"} ELSE {})

\* The rows stay, row t has timer tm.
Sets(t, tm, n) ==
  /\ UNCHANGED rows
  /\ timer' = [timer EXCEPT ![t] = tm] /\ retries' = n

\* Row c begins as s and continues p, which becomes old.
Begins(p, c, s, tm, old) ==
  /\ Fresh(c) /\ s \in {"live", "failed"}
  /\ status' = [status EXCEPT ![c] = s, ![p] = old] /\ parent' = [parent EXCEPT ![c] = p]
  /\ timer' = [timer EXCEPT ![p] = tm]
  /\ UNCHANGED <<text, recent, retries>>

\* A parked row is retired.
Retires(p, tm) ==
  /\ status[p] = "paused" /\ status' = [status EXCEPT ![p] = "cancelled"]
  /\ reason' = [reason EXCEPT ![p] = "superseded"] /\ timer' = [timer EXCEPT ![p] = tm]
  /\ UNCHANGED <<parent, text, recent, retries>>

\* What scheduleMissionKeepAlive may make of row t, with n retries counted.
Outcome(t, n, spend, x, tm, k) ==
  \/ x = [kind |-> "budget", n |-> 0] /\ tm = Soon("budget") /\ k = 0
  \/ spend /\ n >= MaxRetries /\ x = [kind |-> "stop", n |-> CountIn(t)] /\ tm = NoTimer /\ k = 0
  \/ \E c \in BOOLEAN :
       /\ spend => n < MaxRetries
       /\ k = IF spend THEN n + 1 ELSE n
       /\ x = [kind |-> IF spend THEN "retry" ELSE "carry", n |-> k]
       /\ tm = [kind |-> "retry", spend |-> spend, attempt |-> n, cooling |-> c]

\* A row is handed over.
Handed(t, n, spend) ==
  \E x, tm, k :
    /\ Outcome(t, n, spend, x, tm, k) /\ Ends(t, "blocked", x, tm, k)
    /\ charged' = IF x.kind \in {"stop", "budget"} THEN 0 ELSE charged
    /\ armed' \subseteq armed \cup {t}
    /\ ~swept' => armed \subseteq armed' /\ (x.kind # "stop" => t \in armed')

\* The views the operations are given.
KViews == [status : {status}, text : {text}, recent : {recent},
           retries : Nat, timer : [Attempts -> Timers], armed : SUBSET Attempts]

\* A view in which t came to status s with text x.
Looks(v, t, s, x, k, tms, a) ==
  /\ v.status = [status EXCEPT ![t] = s] /\ v.text = [text EXCEPT ![t] = x]
  /\ v.retries = k /\ v.timer = tms /\ v.armed = a
  /\ v.recent = Without(recent, t) \cup
                  (IF s = "blocked" THEN {t} \X {u \in Attempts \ {t} : status[u] = "blocked"} ELSE {})

\* The fields of a view.
Keys == {"status", "text", "recent", "retries", "timer", "armed"}

\* What a row that is blocked, and one that gets an appointment, look like.
LEMMA AppointIs ==
  ASSUME KeepAliveTypeOK, NEW t \in Attempts, NEW w \in KViews, NEW x, NEW k, NEW tm
  PROVE  /\ Looks(Appoint(w, t, x, k, tm), t, "blocked", x, k, [w.timer EXCEPT ![t] = tm],
                  IF swept THEN w.armed ELSE w.armed \cup {t})
         /\ Looks(Block(w, t, x), t, "blocked", x, w.retries, w.timer, w.armed)
         /\ Looks([Block(w, t, x) EXCEPT !.retries = 0], t, "blocked", x, 0, w.timer, w.armed)
         /\ DOMAIN Appoint(w, t, x, k, tm) = Keys
         /\ DOMAIN Block(w, t, x) = Keys
         /\ DOMAIN [Block(w, t, x) EXCEPT !.retries = 0] = Keys
<1> DEFINE b == Block(w, t, x)
           v == Appoint(w, t, x, k, tm)
           r == Without(recent, t) \cup {t} \X {u \in Attempts \ {t} : status[u] = "blocked"}
<1>1. /\ w.status = status /\ w.text = text /\ w.recent = recent
      /\ w.timer \in [Attempts -> Timers] /\ w.retries \in Nat
      /\ DOMAIN w = Keys
  BY DEF KViews, Keys
<1>2. OthersBlocked(w, t) = {u \in Attempts \ {t} : status[u] = "blocked"}
  BY <1>1 DEF OthersBlocked
<1>3. /\ b.status = [status EXCEPT ![t] = "blocked"] /\ b.text = [text EXCEPT ![t] = x]
      /\ b.recent = r /\ b.retries = w.retries /\ b.timer = w.timer /\ b.armed = w.armed
      /\ DOMAIN b = Keys
  BY <1>1, <1>2 DEF Block, Keys
<1> HIDE DEF b
<1>4. v = [b EXCEPT !.retries = k, !.timer[t] = tm, !.armed = IF swept THEN @ ELSE @ \cup {t}]
  BY DEF Appoint, b
<1> HIDE DEF v
<1>5. /\ v.status = b.status /\ v.text = b.text /\ v.recent = b.recent /\ v.retries = k
      /\ v.timer = [b.timer EXCEPT ![t] = tm] /\ v.armed = IF swept THEN b.armed ELSE b.armed \cup {t}
      /\ DOMAIN v = Keys
  BY <1>3, <1>4 DEF Keys
<1>6. /\ [b EXCEPT !.retries = 0].status = b.status /\ [b EXCEPT !.retries = 0].text = b.text
      /\ [b EXCEPT !.retries = 0].recent = b.recent /\ [b EXCEPT !.retries = 0].retries = 0
      /\ [b EXCEPT !.retries = 0].timer = b.timer /\ [b EXCEPT !.retries = 0].armed = b.armed
      /\ DOMAIN [b EXCEPT !.retries = 0] = Keys
  BY <1>3 DEF Keys
<1> QED
  BY <1>3, <1>5, <1>6 DEF b, v, Looks

\* What the keep-alive makes of a view.
Handing(v, w, t, n, spend, walled) ==
  \E x, tm, k :
    /\ Outcome(t, n, spend, x, tm, k)
    /\ Looks(v, t, "blocked", x, k, [timer EXCEPT ![t] = tm],
             IF swept \/ x.kind = "stop" THEN w.armed ELSE w.armed \cup {t})
    /\ DOMAIN v = Keys
    /\ (x.kind = "stop" => ~walled) /\ (walled => x.kind = "budget")

\* The keep-alive in a view in which only a timer and the count have changed.
LEMMA HandedIs ==
  ASSUME KeepAliveTypeOK, NEW t \in Attempts, NEW n \in 0..MaxRetries, NEW spend \in BOOLEAN,
         NEW walled \in BOOLEAN, NEW w \in KViews, w.retries = n,
         w.timer = [timer EXCEPT ![t] = NoTimer] \/ (~spend /\ w.timer = timer),
         NEW v \in KeepAlive(w, t, spend, walled)
  PROVE  Handing(v, w, t, n, spend, walled)
<1>0. \A tm : [w.timer EXCEPT ![t] = tm] = [timer EXCEPT ![t] = tm]
  BY DEF KeepAliveTypeOK
<1>1. \A x, k, tm : /\ Looks(Appoint(w, t, x, k, tm), t, "blocked", x, k, [timer EXCEPT ![t] = tm],
                             IF swept THEN w.armed ELSE w.armed \cup {t})
                    /\ DOMAIN Appoint(w, t, x, k, tm) = Keys
  BY <1>0, AppointIs
<1>5. CASE walled
  <2>1. v = Appoint(w, t, [kind |-> "budget", n |-> 0], 0, Soon("budget"))
    BY <1>5 DEF KeepAlive
  <2>2. Outcome(t, n, spend, [kind |-> "budget", n |-> 0], Soon("budget"), 0)
    BY DEF Outcome
  <2> QED
    BY <1>1, <1>5, <2>1, <2>2 DEF Handing
<1>6. CASE ~walled /\ spend /\ n >= MaxRetries
  <2> DEFINE b == Notice(w, t, "stop")
             x == [kind |-> "stop", n |-> CountIn(t)]
  <2>1. v = [Block(w, t, x) EXCEPT !.retries = 0]
    BY <1>6 DEF KeepAlive, Notice
  <2>2. Outcome(t, n, spend, x, NoTimer, 0) /\ x.kind = "stop"
    BY <1>6 DEF Outcome
  <2>3. Looks(v, t, "blocked", x, 0, w.timer, w.armed) /\ DOMAIN v = Keys
    BY <2>1, AppointIs
  <2> QED
    BY <1>6, <2>2, <2>3 DEF Handing
<1>7. CASE ~walled /\ ~(spend /\ n >= MaxRetries)
  <2> DEFINE k == IF spend THEN n + 1 ELSE n
             x == [kind |-> IF spend THEN "retry" ELSE "carry", n |-> k]
  <2>1. PICK c \in BOOLEAN : v = Appoint(w, t, x, k, [kind |-> "retry", spend |-> spend, attempt |-> n, cooling |-> c])
    BY <1>7 DEF KeepAlive
  <2>2. Outcome(t, n, spend, x, [kind |-> "retry", spend |-> spend, attempt |-> n, cooling |-> c], k)
    BY <1>7, KeepAliveAssumption DEF Outcome
  <2>3. x.kind # "stop"
    OBVIOUS
  <2> HIDE DEF x, k
  <2>4. /\ Looks(v, t, "blocked", x, k, [timer EXCEPT ![t] = [kind |-> "retry", spend |-> spend, attempt |-> n, cooling |-> c]],
                 IF swept THEN w.armed ELSE w.armed \cup {t})
        /\ DOMAIN v = Keys
    BY <1>1, <2>1
  <2> QED
    BY <1>7, <2>2, <2>3, <2>4 DEF Handing
<1> QED
  BY <1>5, <1>6, <1>7

\* What a row that is left looks like.
LEMMA LeaveIs ==
  ASSUME KeepAliveTypeOK, NEW t \in Attempts, NEW s, s # "blocked", NEW w, DOMAIN w = Keys,
         NEW x, NEW k, NEW tms, NEW a,
         w.status \in [Attempts -> Statuses], \A y : [w.status EXCEPT ![t] = y] = [status EXCEPT ![t] = y],
         w.text = [text EXCEPT ![t] = x], w.retries = k, w.timer = tms, w.armed = a,
         Without(w.recent, t) = Without(recent, t)
  PROVE  Looks(Leave(w, t, s), t, s, x, k, tms, a) /\ DOMAIN Leave(w, t, s) = Keys
<1> DEFINE v == Leave(w, t, s)
<1>1. /\ v.status = [w.status EXCEPT ![t] = s] /\ v.text = w.text /\ v.recent = Without(w.recent, t)
      /\ v.retries = w.retries /\ v.timer = w.timer /\ v.armed = w.armed /\ DOMAIN v = Keys
  BY DEF Leave, Keys
<1> QED
  BY <1>1 DEF Looks

\* A view that is taken.
LEMMA TakenIs ==
  ASSUME NEW v, NEW t, NEW s, NEW x, NEW k, NEW tm, NEW a,
         Looks(v, t, s, x, k, [timer EXCEPT ![t] = tm], a), Becomes(v), parent' = parent
  PROVE  Ends(t, s, x, tm, k) /\ armed' = a
BY DEF Looks, Becomes, Ends

\* The present, and the present without a timer, are views.
LEMMA HereIs ==
  ASSUME KeepAliveTypeOK, NEW t \in Attempts
  PROVE  /\ Here \in KViews /\ DOMAIN Here = Keys
         /\ Off(t) \in KViews /\ Off(t).retries = retries /\ DOMAIN Off(t) = Keys
         /\ Off(t).timer = [timer EXCEPT ![t] = NoTimer] /\ Off(t).status = status
         /\ Off(t).text = text /\ Off(t).recent = recent /\ Off(t).armed = armed
<1>1. NoTimer \in Timers
  BY KeepAliveAssumption DEF NoTimer, Timers
<1>2. timer \in [Attempts -> Timers] /\ retries \in Nat /\ armed \in SUBSET Attempts
  BY KeepAliveAssumption DEF KeepAliveTypeOK
<1>3. [timer EXCEPT ![t] = NoTimer] \in [Attempts -> Timers]
  BY <1>1, <1>2
<1>4. Off(t) = [status |-> status, text |-> text, recent |-> recent,
                retries |-> retries, timer |-> [timer EXCEPT ![t] = NoTimer], armed |-> armed]
  BY DEF Off, Here
<1> QED
  BY <1>2, <1>3, <1>4 DEF Here, KViews, Keys

\* A live row has no timer.
LEMMA LiveHasNone ==
  ASSUME KBase, NEW t \in Attempts, status[t] = "live"
  PROVE  timer[t] = NoTimer /\ [timer EXCEPT ![t] = NoTimer] = timer /\ Off(t) = Here
         /\ text[t] = NoText /\ CountIn(t) = 0
<1>1. timer[t] = NoTimer /\ text[t] = NoText
  BY DEF KBase, KRows
<1>2. [timer EXCEPT ![t] = NoTimer] = timer
  BY <1>1 DEF KBase, KeepAliveTypeOK
<1>3. Off(t) = Here
  BY <1>2 DEF Off, Here
<1> QED
  BY <1>1, <1>2, <1>3 DEF CountIn, NoText

\* A run that completes.
LEMMA CompletesIs ==
  ASSUME KBase, NEW t \in Attempts, Completes(t)
  PROVE  Ends(t, "completed", NoText, NoTimer, retries) /\ armed' = armed
<1>1. status[t] = "live" /\ Becomes([Leave(Here, t, "completed") EXCEPT !.text[t] = NoText]) /\ parent' = parent
  BY DEF Completes
<1>2. /\ Leave(Here, t, "completed").status = [status EXCEPT ![t] = "completed"]
      /\ Leave(Here, t, "completed").text = text
      /\ Leave(Here, t, "completed").recent = Without(recent, t)
      /\ Leave(Here, t, "completed").retries = retries /\ Leave(Here, t, "completed").timer = timer
      /\ Leave(Here, t, "completed").armed = armed /\ DOMAIN Leave(Here, t, "completed") = Keys
  BY DEF Leave, Here, Keys
<1>3. Looks([Leave(Here, t, "completed") EXCEPT !.text[t] = NoText], t, "completed", NoText, retries, timer, armed)
  BY <1>2 DEF Keys, Looks
<1>4. [timer EXCEPT ![t] = NoTimer] = timer
  BY <1>1, LiveHasNone
<1> QED
  BY <1>1, <1>3, <1>4 DEF Looks, Becomes, Ends

\* A handing over, from a view without the row's timer.
LEMMA HandOverIs ==
  ASSUME KBase, NEW t \in Attempts, NEW n \in 0..MaxRetries, NEW spend \in BOOLEAN,
         NEW w \in KViews, w.retries = n, w.timer = [timer EXCEPT ![t] = NoTimer], w.armed = armed,
         HandOver(w, t, spend), swept' = swept, parent' = parent
  PROVE  Handed(t, n, spend)
<1>0. PICK walled \in BOOLEAN : \E v \in KeepAlive(w, t, spend, walled) :
         Becomes(v) /\ charged' = IF Reported(v, t) THEN 0 ELSE charged
  BY DEF HandOver
<1>1. PICK v \in KeepAlive(w, t, spend, walled) :
         Becomes(v) /\ charged' = IF Reported(v, t) THEN 0 ELSE charged
  BY <1>0
<1>2. KeepAliveTypeOK
  BY DEF KBase
<1>7. Handing(v, w, t, n, spend, walled)
  BY <1>1, <1>2, HandedIs
<1>3. PICK x, tm, k :
           /\ Outcome(t, n, spend, x, tm, k)
           /\ Looks(v, t, "blocked", x, k, [timer EXCEPT ![t] = tm],
                    IF swept \/ x.kind = "stop" THEN w.armed ELSE w.armed \cup {t})
  BY <1>7 DEF Handing
<1>4. v.text[t] = x
  BY <1>2, <1>3 DEF Looks, KeepAliveTypeOK
<1>5. /\ Ends(t, "blocked", x, tm, k)
      /\ armed' = IF swept \/ x.kind = "stop" THEN w.armed ELSE w.armed \cup {t}
  BY <1>1, <1>3 DEF Looks, Becomes, Ends
<1>6. charged' = IF x.kind \in {"stop", "budget"} THEN 0 ELSE charged
  BY <1>1, <1>4 DEF Reported
<1> QED
  BY <1>3, <1>5, <1>6 DEF Handed

\* A failed row is handed over, or failed with its report.
LEMMA FailsIs ==
  ASSUME KBase, NEW t \in Attempts, Fails(t)
  PROVE  /\ status[t] = "live" /\ UNCHANGED <<reason, awake, swept, hands, stops>>
         /\ \/ Handed(t, retries, TRUE)
            \/ /\ Ends(t, "failed", [kind |-> "stop", n |-> 0], NoTimer, 0)
               /\ armed' = armed /\ charged' = 0
<1>1. /\ status[t] = "live" /\ UNCHANGED <<parent, reason, awake, swept, hands, stops>>
      /\ \/ HandOver(Here, t, TRUE)
         \/ \E v \in KeepAlive(Here, t, TRUE, FALSE) :
              Reported(v, t) /\ Becomes(Leave(v, t, "failed")) /\ charged' = 0
  BY DEF Fails
<1>2. KeepAliveTypeOK /\ retries \in 0..MaxRetries
  BY DEF KBase, KeepAliveTypeOK
<1>3. Off(t) = Here /\ CountIn(t) = 0 /\ [timer EXCEPT ![t] = NoTimer] = timer
  BY <1>1, LiveHasNone
<1>4. /\ Here \in KViews /\ Here.retries = retries /\ Here.timer = [timer EXCEPT ![t] = NoTimer]
      /\ Here.armed = armed
  BY <1>2, <1>3, HereIs
<1>5. CASE HandOver(Here, t, TRUE)
  BY <1>1, <1>2, <1>4, <1>5, HandOverIs
<1>6. ASSUME NEW v \in KeepAlive(Here, t, TRUE, FALSE),
             Reported(v, t), Becomes(Leave(v, t, "failed")), charged' = 0
      PROVE  /\ Ends(t, "failed", [kind |-> "stop", n |-> 0], NoTimer, 0)
             /\ armed' = armed
  <2>0. Handing(v, Here, t, retries, TRUE, FALSE)
    BY <1>2, <1>4, HandedIs
  <2>1. PICK x, tm, k :
           /\ Outcome(t, retries, TRUE, x, tm, k)
           /\ Looks(v, t, "blocked", x, k, [timer EXCEPT ![t] = tm],
                    IF swept \/ x.kind = "stop" THEN armed ELSE armed \cup {t})
           /\ DOMAIN v = Keys
    BY <1>4, <2>0 DEF Handing
  <2>2. v.text[t] = x
    BY <1>2, <2>1 DEF Looks, KeepAliveTypeOK
  <2>3. x.kind \in {"stop", "budget"}
    BY <1>6, <2>2 DEF Reported
  <2>4. x.kind # "budget"
    <3>1. ASSUME NEW u \in KeepAlive(Here, t, TRUE, FALSE)
          PROVE  u.text[t].kind # "budget"
      <4> DEFINE s == [kind |-> "stop", n |-> CountIn(t)]
      <4>1. CASE Here.retries >= MaxRetries
        <5>1. u = [Block(Here, t, s) EXCEPT !.retries = 0]
          BY <4>1 DEF KeepAlive, Notice
        <5>2. Looks(u, t, "blocked", s, 0, Here.timer, Here.armed)
          BY <1>2, <1>4, <5>1, AppointIs
        <5> QED
          BY <1>2, <5>2 DEF KeepAliveTypeOK, Looks
      <4>2. CASE ~(Here.retries >= MaxRetries)
        <5> DEFINE y == [kind |-> "retry", n |-> Here.retries + 1]
        <5>1. PICK c \in BOOLEAN : u = Appoint(Here, t, y, Here.retries + 1,
                  [kind |-> "retry", spend |-> TRUE, attempt |-> Here.retries, cooling |-> c])
          BY <4>2 DEF KeepAlive
        <5> DEFINE z == [kind |-> "retry", spend |-> TRUE, attempt |-> Here.retries, cooling |-> c]
        <5>2. Looks(u, t, "blocked", y, Here.retries + 1, [Here.timer EXCEPT ![t] = z],
                    IF swept THEN Here.armed ELSE Here.armed \cup {t})
          BY <1>2, <1>4, <5>1, AppointIs, Zenon
        <5> QED
          BY <1>2, <5>2 DEF KeepAliveTypeOK, Looks
      <4> QED
        BY <4>1, <4>2
    <3> QED
      BY <2>2, <3>1
  <2>5. x = [kind |-> "stop", n |-> 0] /\ tm = NoTimer /\ k = 0
    BY <1>3, <2>1, <2>3, <2>4 DEF Outcome
  <2>6. /\ v.status = [status EXCEPT ![t] = "blocked"] /\ v.text = [text EXCEPT ![t] = x] /\ v.retries = 0
        /\ v.timer = [timer EXCEPT ![t] = NoTimer] /\ v.armed = armed
        /\ v.recent = Without(recent, t) \cup {t} \X {u \in Attempts \ {t} : status[u] = "blocked"}
    BY <2>1, <2>5 DEF Looks
  <2>7. Without(v.recent, t) = Without(recent, t)
    BY <2>6 DEF Without
  <2>8. v.status \in [Attempts -> Statuses] /\ \A y : [v.status EXCEPT ![t] = y] = [status EXCEPT ![t] = y]
    BY <1>2, <2>6 DEF KeepAliveTypeOK, Statuses
  <2>9. Looks(Leave(v, t, "failed"), t, "failed", x, 0, [timer EXCEPT ![t] = NoTimer], armed)
    BY <1>2, <2>1, <2>6, <2>7, <2>8, LeaveIs
  <2> QED
    BY <1>1, <1>6, <2>5, <2>9, TakenIs
<1> QED
  BY <1>1, <1>5, <1>6

\* A view in which only the timer of t and the armed rows may have changed.
Sees(w, t, tm, a) ==
  /\ w.status = status /\ w.text = text /\ w.recent = recent /\ w.retries = retries
  /\ w.timer = [timer EXCEPT ![t] = tm] /\ w.armed = a /\ DOMAIN w = Keys

\* Such a view of the present.
LEMMA SeesHere ==
  ASSUME KeepAliveTypeOK, NEW t \in Attempts
  PROVE  /\ Sees(Here, t, timer[t], armed) /\ Sees(Off(t), t, NoTimer, armed)
         /\ Sees([Here EXCEPT !.armed = {}], t, timer[t], {})
<1>1. [timer EXCEPT ![t] = timer[t]] = timer
  BY DEF KeepAliveTypeOK
<1>2. Sees(Here, t, timer[t], armed)
  BY <1>1 DEF Sees, Here, Keys
<1>3. Sees(Off(t), t, NoTimer, armed)
  BY HereIs DEF Sees, Off, Here
<1>4. /\ [Here EXCEPT !.armed = {}] = [status |-> status, text |-> text, recent |-> recent,
                                       retries |-> retries, timer |-> timer, armed |-> {}]
  BY DEF Here
<1> QED
  BY <1>1, <1>2, <1>3, <1>4 DEF Sees, Keys

\* A run that ends with a question for a person.
LEMMA AsksIs ==
  ASSUME KBase, NEW t \in Attempts, AsksPerson(t)
  PROVE  /\ \E s \in {"blocked", "failed"} : Ends(t, s, [kind |-> "ask", n |-> 0], NoTimer, retries)
         /\ armed' = armed
<1> DEFINE w == Notice(Here, t, "ask")
           x == [kind |-> "ask", n |-> 0]
<1>1. KeepAliveTypeOK /\ status[t] = "live" /\ parent' = parent /\ (Becomes(w) \/ Becomes(Leave(w, t, "failed")))
  BY DEF AsksPerson, KBase
<1>2. CountIn(t) = 0 /\ [timer EXCEPT ![t] = NoTimer] = timer
  BY <1>1, LiveHasNone
<1>3. w = Block(Here, t, x)
  BY <1>2 DEF Notice
<1>4. Here \in KViews /\ Here.retries = retries /\ Here.timer = timer /\ Here.armed = armed
  BY <1>1, HereIs DEF Here
<1>5. Looks(w, t, "blocked", x, Here.retries, Here.timer, Here.armed) /\ DOMAIN w = Keys
  BY <1>1, <1>3, <1>4, AppointIs
<1> HIDE DEF w
<1>6. CASE Becomes(w)
  BY <1>1, <1>2, <1>4, <1>5, <1>6 DEF Looks, Becomes, Ends
<1>7. CASE Becomes(Leave(w, t, "failed"))
  <2>1. /\ w.status = [status EXCEPT ![t] = "blocked"] /\ w.text = [text EXCEPT ![t] = x]
        /\ w.retries = retries /\ w.timer = timer /\ w.armed = armed
        /\ w.recent = Without(recent, t) \cup {t} \X {u \in Attempts \ {t} : status[u] = "blocked"}
    BY <1>4, <1>5 DEF Looks
  <2>2. Without(w.recent, t) = Without(recent, t)
    BY <2>1 DEF Without
  <2>3. w.status \in [Attempts -> Statuses] /\ \A y : [w.status EXCEPT ![t] = y] = [status EXCEPT ![t] = y]
    BY <1>1, <2>1 DEF KeepAliveTypeOK, Statuses
  <2>4. Looks(Leave(w, t, "failed"), t, "failed", x, retries, timer, armed)
    BY <1>1, <1>5, <2>1, <2>2, <2>3, LeaveIs
  <2> QED
    BY <1>1, <1>2, <1>7, <2>4 DEF Looks, Becomes, Ends
<1> QED
  BY <1>1, <1>6, <1>7

\* A row a person cancels.
LEMMA CancelIs ==
  ASSUME KBase, NEW t \in Attempts, Cancel(t)
  PROVE  /\ Ends(t, "cancelled", text[t], timer[t], retries) /\ armed' = armed
         /\ status[t] # "absent"
<1>1. KeepAliveTypeOK /\ status[t] # "absent" /\ parent' = parent /\ Becomes(Leave(Here, t, "cancelled"))
  BY DEF Cancel, KBase
<1>2. /\ Here.text = [text EXCEPT ![t] = text[t]] /\ Here.retries = retries
      /\ Here.timer = [timer EXCEPT ![t] = timer[t]] /\ Here.armed = armed
      /\ Here.status = status /\ Here.recent = recent /\ DOMAIN Here = Keys /\ status \in [Attempts -> Statuses]
  BY <1>1 DEF Here, KeepAliveTypeOK, Keys
<1>3. Looks(Leave(Here, t, "cancelled"), t, "cancelled", text[t], retries, [timer EXCEPT ![t] = timer[t]], armed)
  BY <1>1, <1>2, LeaveIs
<1> QED
  BY <1>1, <1>3 DEF Looks, Becomes, Ends

\* A row that continues another one.
LEMMA ContinueIs ==
  ASSUME KBase, NEW t \in Attempts, NEW c \in Attempts, NEW w, NEW tm, NEW a,
         Sees(w, t, tm, a), status[t] # "absent", Continue(w, t, c)
  PROVE  (\E s \in {"live", "failed"} : Begins(t, c, s, tm, status[t])) /\ armed' = a
<1>1. PICK s \in {"live", "failed"} : Becomes([w EXCEPT !.status[c] = s])
  BY DEF Continue
<1>2. Fresh(c) /\ parent' = [parent EXCEPT ![c] = t] /\ c # t
  BY DEF Continue, Fresh
<1>3. /\ [w EXCEPT !.status[c] = s].status = [status EXCEPT ![c] = s]
      /\ [w EXCEPT !.status[c] = s].text = text /\ [w EXCEPT !.status[c] = s].recent = recent
      /\ [w EXCEPT !.status[c] = s].retries = retries /\ [w EXCEPT !.status[c] = s].armed = a
      /\ [w EXCEPT !.status[c] = s].timer = [timer EXCEPT ![t] = tm]
  BY DEF Sees, Keys
<1>4. [status EXCEPT ![c] = s, ![t] = status[t]] = [status EXCEPT ![c] = s]
  BY <1>2 DEF KBase, KeepAliveTypeOK
<1>5. Begins(t, c, s, tm, status[t]) /\ armed' = a
  BY <1>1, <1>2, <1>3, <1>4 DEF Begins, Becomes
<1> QED
  BY <1>5

\* A parked row that is resumed: retired, or continued, or left as it is by a
\* child the queue refused.
Resumed(t, tm) ==
  \/ Retires(t, tm)
  \/ \E c \in Attempts : Begins(t, c, "failed", tm, "paused") /\ reason' = reason
  \/ \E c \in Attempts : Begins(t, c, "live", tm, "cancelled") /\ reason' = [reason EXCEPT ![t] = "superseded"]

\* What resumeTask does to a parked row.
LEMMA ResumeIs ==
  ASSUME KBase, NEW t \in Attempts, NEW w, NEW tm, NEW a,
         Sees(w, t, tm, a), status[t] = "paused", Resume(w, t)
  PROVE  Resumed(t, tm) /\ armed' = a
<1>1. CASE SupersededRow(t)
  <2>1. /\ Becomes([w EXCEPT !.status[t] = "cancelled"])
        /\ reason' = [reason EXCEPT ![t] = "superseded"] /\ parent' = parent
    BY <1>1 DEF Resume
  <2>2. /\ [w EXCEPT !.status[t] = "cancelled"].status = [status EXCEPT ![t] = "cancelled"]
        /\ [w EXCEPT !.status[t] = "cancelled"].text = text /\ [w EXCEPT !.status[t] = "cancelled"].recent = recent
        /\ [w EXCEPT !.status[t] = "cancelled"].retries = retries /\ [w EXCEPT !.status[t] = "cancelled"].armed = a
        /\ [w EXCEPT !.status[t] = "cancelled"].timer = [timer EXCEPT ![t] = tm]
    BY DEF Sees, Keys
  <2>3. Retires(t, tm) /\ armed' = a
    BY <2>1, <2>2 DEF Retires, Becomes
  <2> QED
    BY <2>3 DEF Resumed
<1>2. CASE ~SupersededRow(t)
  <2>1. PICK c \in Attempts, taken \in BOOLEAN :
          /\ Fresh(c)
          /\ Becomes([w EXCEPT !.status[c] = IF taken THEN "live" ELSE "failed",
                               !.status[t] = IF taken THEN "cancelled" ELSE @])
          /\ parent' = [parent EXCEPT ![c] = t]
          /\ reason' = IF taken THEN [reason EXCEPT ![t] = "superseded"] ELSE reason
    BY <1>2 DEF Resume
  <2> DEFINE v == [w EXCEPT !.status[c] = IF taken THEN "live" ELSE "failed",
                            !.status[t] = IF taken THEN "cancelled" ELSE @]
             s == IF taken THEN "live" ELSE "failed"
             o == IF taken THEN "cancelled" ELSE "paused"
  <2>2. /\ c # t /\ v.text = text /\ v.recent = recent /\ v.retries = retries /\ v.armed = a
        /\ v.timer = [timer EXCEPT ![t] = tm]
    BY <2>1 DEF Sees, Keys, Fresh
  <2>3. v.status = [status EXCEPT ![c] = s, ![t] = o]
    BY <2>2 DEF Sees, Keys, KBase, KeepAliveTypeOK
  <2>4. Becomes(v)
    BY <2>1
  <2> HIDE DEF v
  <2>5. Begins(t, c, s, tm, o) /\ armed' = a
    BY <2>1, <2>2, <2>3, <2>4 DEF Begins, Becomes
  <2>6. CASE taken
    BY <2>1, <2>5, <2>6 DEF Resumed
  <2>7. CASE ~taken
    BY <2>1, <2>5, <2>7 DEF Resumed
  <2> QED
    BY <2>5, <2>6, <2>7
<1> QED
  BY <1>1, <1>2

\* A row with a timer has been submitted, and does not run.
LEMMA TimersOf ==
  ASSUME KBase, NEW t \in Attempts, timer[t].kind # "none"
  PROVE  status[t] \notin {"absent", "live"} /\ timer[t].attempt \in 0..MaxRetries /\ timer[t].spend \in BOOLEAN
<1>1. timer[t] # NoTimer /\ timer[t] \in Timers
  BY DEF NoTimer, KBase, KeepAliveTypeOK
<1> QED
  BY <1>1 DEF KBase, KRows, Timers

\* A row is continued at its time, or handed over again.
Resubmitted(t, charge) ==
  \/ /\ \E c \in Attempts, s \in {"live", "failed"} : Begins(t, c, s, NoTimer, status[t])
     /\ armed' = armed /\ charged' = IF hands = 0 THEN charged + charge ELSE 0
  \/ Handed(t, retries, TRUE)

\* A resubmission from a view in which only the timer is gone.
LEMMA ResubmitIs ==
  ASSUME KBase, NEW t \in Attempts, NEW charge, Resubmit(t, charge), swept' = swept, status[t] # "absent"
  PROVE  Resubmitted(t, charge)
<1>1. KeepAliveTypeOK /\ retries \in 0..MaxRetries
  BY DEF KBase, KeepAliveTypeOK
<1>2. CASE HandOver(Off(t), t, TRUE) /\ parent' = parent
  <2>1. Handed(t, retries, TRUE)
    BY <1>1, <1>2, HereIs, HandOverIs
  <2> QED
    BY <2>1 DEF Resubmitted
<1>3. CASE /\ \E c \in Attempts : Continue(Off(t), t, c)
           /\ charged' = IF hands = 0 THEN charged + charge ELSE 0
  <2>1. PICK c \in Attempts : Continue(Off(t), t, c)
    BY <1>3
  <2>2. (\E s \in {"live", "failed"} : Begins(t, c, s, NoTimer, status[t])) /\ armed' = armed
    BY <1>1, <2>1, SeesHere, ContinueIs
  <2> QED
    BY <1>3, <2>2 DEF Resubmitted
<1> QED
  BY <1>2, <1>3 DEF Resubmit

\* What a timer does not change.
Calm == UNCHANGED <<reason, awake, swept, hands, stops>>

\* Only the timer went off.
Drops(t, n) == Sets(t, NoTimer, n) /\ armed' = armed /\ charged' = charged

\* A retry that is due: handed over, resubmitted, or dropped.
LEMMA RetryDueIs ==
  ASSUME KBase, NEW t \in Attempts, RetryDue(t)
  PROVE  /\ awake /\ timer[t].kind = "retry" /\ Calm
         /\ \/ Handed(t, timer[t].attempt, timer[t].spend)
            \/ LineageCancelled(t) /\ Drops(t, 0)
            \/ Continued(t) /\ Drops(t, retries)
            \/ Resubmitted(t, IF timer[t].spend THEN 1 ELSE 0)
<1>1. awake /\ timer[t].kind = "retry" /\ Calm /\ KeepAliveTypeOK
  BY DEF RetryDue, KBase, Calm
<1>2. status[t] # "absent" /\ timer[t].attempt \in 0..MaxRetries /\ timer[t].spend \in BOOLEAN
  BY <1>1, TimersOf
<1>3. Sees(Off(t), t, NoTimer, armed) /\ Off(t) \in KViews
  BY <1>1, SeesHere, HereIs
<1>4. CASE HandOver([Off(t) EXCEPT !.retries = timer[t].attempt], t, timer[t].spend) /\ parent' = parent
  <2> DEFINE w == [Off(t) EXCEPT !.retries = timer[t].attempt]
  <2>1. w \in KViews /\ w.retries = timer[t].attempt /\ w.timer = [timer EXCEPT ![t] = NoTimer] /\ w.armed = armed
    BY <1>2, <1>3 DEF KViews, Sees, Keys
  <2> HIDE DEF w
  <2>2. HandOver(w, t, timer[t].spend) /\ swept' = swept
    BY <1>1, <1>4 DEF w, Calm
  <2>3. Handed(t, timer[t].attempt, timer[t].spend)
    BY <1>2, <1>4, <2>1, <2>2, HandOverIs
  <2> QED
    BY <1>1, <2>3
<1>5. CASE LineageCancelled(t) /\ Becomes([Off(t) EXCEPT !.retries = 0]) /\ UNCHANGED <<parent, charged>>
  <2> DEFINE w == [Off(t) EXCEPT !.retries = 0]
  <2>1. /\ w.status = status /\ w.text = text /\ w.recent = recent /\ w.retries = 0
        /\ w.timer = [timer EXCEPT ![t] = NoTimer] /\ w.armed = armed
    BY <1>3 DEF Sees, Keys
  <2>2. Drops(t, 0)
    BY <1>1, <1>5, <2>1 DEF Becomes, Drops, Sets, rows, Calm
  <2> QED
    BY <1>1, <1>5, <2>2
<1>6. CASE Continued(t) /\ Becomes(Off(t)) /\ UNCHANGED <<parent, charged>>
  <2>1. Drops(t, retries)
    BY <1>1, <1>3, <1>6 DEF Becomes, Drops, Sets, rows, Calm, Sees
  <2> QED
    BY <1>1, <1>6, <2>1
<1>7. CASE Resubmit(t, IF timer[t].spend THEN 1 ELSE 0)
  <2>1. swept' = swept
    BY <1>1 DEF Calm
  <2> QED
    BY <1>1, <1>2, <1>7, <2>1, ResubmitIs
<1> QED
  BY <1>4, <1>5, <1>6, <1>7 DEF RetryDue

\* A re-check of the budget that is due.
LEMMA BudgetDueIs ==
  ASSUME KBase, NEW t \in Attempts, BudgetDue(t)
  PROVE  /\ awake /\ timer[t].kind = "budget" /\ Calm
         /\ Handed(t, retries, TRUE) \/ Resubmitted(t, 0)
<1>1. awake /\ timer[t].kind = "budget" /\ Calm /\ KeepAliveTypeOK /\ retries \in 0..MaxRetries
  BY DEF BudgetDue, KBase, Calm, KeepAliveTypeOK
<1>2. status[t] # "absent" /\ swept' = swept
  BY <1>1, TimersOf DEF Calm
<1>3. CASE (\E v \in KeepAlive(Off(t), t, TRUE, TRUE) : Becomes(v)) /\ charged' = 0 /\ parent' = parent
  <2>1. PICK v \in KeepAlive(Off(t), t, TRUE, TRUE) : Becomes(v)
    BY <1>3
  <2>2. /\ Off(t) \in KViews /\ Off(t).retries = retries /\ Off(t).armed = armed
        /\ Off(t).timer = [timer EXCEPT ![t] = NoTimer]
    BY <1>1, HereIs
  <2>3. Handing(v, Off(t), t, retries, TRUE, TRUE)
    BY <1>1, <2>1, <2>2, HandedIs
  <2>4. PICK x, tm, k :
           /\ Outcome(t, retries, TRUE, x, tm, k)
           /\ Looks(v, t, "blocked", x, k, [timer EXCEPT ![t] = tm],
                    IF swept \/ x.kind = "stop" THEN Off(t).armed ELSE Off(t).armed \cup {t})
           /\ x.kind = "budget"
    BY <2>3 DEF Handing
  <2>5. /\ Ends(t, "blocked", x, tm, k)
        /\ armed' = IF swept \/ x.kind = "stop" THEN armed ELSE armed \cup {t}
    BY <1>3, <2>1, <2>2, <2>4 DEF Looks, Becomes, Ends
  <2>6. Handed(t, retries, TRUE)
    BY <1>2, <1>3, <2>4, <2>5 DEF Handed
  <2> QED
    BY <1>1, <2>6
<1>4. CASE Resubmit(t, 0)
  BY <1>1, <1>2, <1>4, ResubmitIs
<1> QED
  BY <1>3, <1>4 DEF BudgetDue

\* A re-arm that is due.
LEMMA RearmDueIs ==
  ASSUME KBase, NEW t \in Attempts, RearmDue(t)
  PROVE  awake /\ timer[t].kind = "rearm" /\ Calm /\ Handed(t, retries, FALSE)
<1>1. /\ awake /\ timer[t].kind = "rearm" /\ Calm /\ KeepAliveTypeOK /\ retries \in 0..MaxRetries
      /\ parent' = parent /\ swept' = swept /\ HandOver(Off(t), t, FALSE)
  BY DEF RearmDue, KBase, Calm, KeepAliveTypeOK
<1>2. Handed(t, retries, FALSE)
  BY <1>1, HereIs, HandOverIs
<1> QED
  BY <1>1, <1>2

\* What a resumption that nobody asked for does.
LEMMA AutoResumeIs ==
  ASSUME KBase, NEW t \in Attempts, NEW w, NEW tm, NEW a, Sees(w, t, tm, a), AutoResume(w, t)
  PROVE  /\ Sets(t, tm, retries) \/ (status[t] = "paused" /\ Resumed(t, tm))
         /\ armed' = a
<1>1. CASE LineageCancelled(t) \/ Continued(t) \/ status[t] # "paused"
  <2>1. Becomes(w) /\ UNCHANGED <<parent, reason>>
    BY <1>1 DEF AutoResume
  <2> QED
    BY <2>1 DEF Becomes, Sets, rows, Sees
<1>2. CASE ~(LineageCancelled(t) \/ Continued(t) \/ status[t] # "paused")
  BY <1>2, ResumeIs DEF AutoResume
<1> QED
  BY <1>1, <1>2

\* A resumption that is due.
LEMMA ResumeDueIs ==
  ASSUME KBase, NEW t \in Attempts, ResumeDue(t)
  PROVE  /\ awake /\ timer[t].kind = "resume" /\ UNCHANGED <<awake, swept, hands, charged, stops>>
         /\ Sets(t, NoTimer, retries) \/ (status[t] = "paused" /\ Resumed(t, NoTimer))
         /\ armed' = armed
<1>1. /\ awake /\ timer[t].kind = "resume" /\ UNCHANGED <<awake, swept, hands, charged, stops>>
      /\ AutoResume(Off(t), t) /\ KeepAliveTypeOK
  BY DEF ResumeDue, KBase
<1>2. Sees(Off(t), t, NoTimer, armed)
  BY <1>1, SeesHere
<1> QED
  BY <1>1, <1>2, AutoResumeIs

\* A row a person retries.
LEMMA RetryTaskIs ==
  ASSUME KBase, NEW t \in Attempts, RetryTask(t)
  PROVE  /\ \E c \in Attempts, s \in {"live", "failed"} : Begins(t, c, s, timer[t], status[t])
         /\ armed' = armed
<1>1. status[t] # "absent" /\ \E c \in Attempts : Continue(Here, t, c)
  BY DEF RetryTask
<1>2. PICK c \in Attempts : Continue(Here, t, c)
  BY <1>1
<1>3. Sees(Here, t, timer[t], armed)
  BY SeesHere DEF KBase
<1>4. (\E s \in {"live", "failed"} : Begins(t, c, s, timer[t], status[t])) /\ armed' = armed
  BY <1>1, <1>2, <1>3, ContinueIs
<1> QED
  BY <1>4

\* A row a person resumes.
LEMMA ResumeTaskIs ==
  ASSUME KBase, NEW t \in Attempts, ResumeTask(t)
  PROVE  Resumed(t, timer[t]) /\ armed' = armed
<1>1. Sees(Here, t, timer[t], armed)
  BY SeesHere DEF KBase
<1> QED
  BY <1>1, ResumeIs DEF ResumeTask

\* The counts the rows carry are within the limit.
LEMMA CountType == KeepAliveTypeOK => \A u \in Attempts : CountIn(u) \in 0..MaxRetries
BY KeepAliveAssumption DEF KeepAliveTypeOK, Texts, CountIn

\* What the rows say of the count.
LEMMA PersistedIs ==
  ASSUME KBase, NEW t \in Attempts
  PROVE  /\ \E u \in Ancestors(t) \cup {t} : u \in Attempts /\ Persisted(t) = CountIn(u)
         /\ \A u \in Ancestors(t) \cup {t} : CountIn(u) <= Persisted(t)
         /\ Persisted(t) \in 0..MaxRetries
<1> DEFINE U == Ancestors(t) \cup {t}
           C == {CountIn(u) : u \in U}
<1>1. \A u \in U : u \in Attempts
  BY AncestorsAreParents
<1>2. \A u \in U : CountIn(u) \in 0..MaxRetries
  BY <1>1, CountType DEF KBase
<1>3. C \in SUBSET (0..MaxRetries) /\ C # {} /\ MaxRetries \in Nat
  BY <1>2, KeepAliveAssumption
<1>4. PICK m \in C : \A k \in C : k <= m
  <2> HIDE DEF C
  <2> QED
    BY <1>3, GreatestNat
<1>5. m \in C /\ \A u \in U : CountIn(u) <= m
  BY <1>4
<1>6. Persisted(t) \in C /\ \A u \in U : CountIn(u) <= Persisted(t)
  BY <1>5 DEF Persisted
<1> QED
  BY <1>1, <1>3, <1>6

\* What the sweep restores: at least what each row of the lineage carries.
LEMMA RestoredIs ==
  ASSUME KBase, NEW t \in Attempts
  PROVE  /\ Restored(t) \in 0..MaxRetries
         /\ Restored(t) > 0 => \E u \in Attempts : CountIn(u) >= Restored(t)
         /\ \A u \in Ancestors(t) \cup {t} : CountIn(u) <= Restored(t)
<1>1. retries \in 0..MaxRetries /\ \A u \in Attempts : CountIn(u) \in 0..MaxRetries
  BY CountType DEF KBase, KeepAliveTypeOK
<1>2. retries > 0 => \E u \in Attempts : CountIn(u) >= retries
  BY DEF KBase, KMemory
<1>3. \A u \in Ancestors(t) \cup {t} : u \in Attempts
  BY AncestorsAreParents
<1>4. /\ Persisted(t) \in 0..MaxRetries
      /\ \E u \in Attempts : Persisted(t) = CountIn(u)
      /\ \A u \in Ancestors(t) \cup {t} : CountIn(u) <= Persisted(t)
  BY PersistedIs
<1>5. CASE Persisted(t) > retries
  <2>1. Restored(t) = Persisted(t)
    BY <1>5 DEF Restored
  <2>2. \E u \in Attempts : CountIn(u) >= Persisted(t)
    BY <1>1, <1>4
  <2> QED
    BY <1>4, <2>1, <2>2
<1>6. CASE ~(Persisted(t) > retries)
  <2>1. Restored(t) = retries /\ Persisted(t) <= retries
    BY <1>1, <1>4, <1>6 DEF Restored
  <2>2. \A u \in Ancestors(t) \cup {t} : CountIn(u) <= retries
    BY <1>1, <1>3, <1>4, <2>1, KeepAliveAssumption
  <2> QED
    BY <1>1, <1>2, <2>1, <2>2
<1> QED
  BY <1>5, <1>6

\* The three things the sweep may do: a row is handed over, or its turn is put off.
SweepRearms(t) ==
  /\ Chosen(t) /\ reason' = reason
  /\ \/ Handed(t, Restored(t), FALSE)
     \/ Sets(t, Soon("rearm"), Restored(t)) /\ charged' = charged

\* A parked row is seen to.
SweepResumes(t) ==
  /\ status[t] = "paused" /\ \A u \in Attempts : ~Orphaned(u)
  /\ Sets(t, timer[t], retries) \/ Sets(t, Soon("resume"), retries) \/ Resumed(t, timer[t])

\* Nothing is left to do.
SweepRests ==
  /\ \A u \in Attempts : ~Orphaned(u) /\ status[u] # "paused"
  /\ UNCHANGED <<rows, retries, timer>>

\* The sweep.
LEMMA SweepIs ==
  ASSUME KBase, Sweep
  PROVE  /\ awake /\ ~swept /\ swept' = TRUE /\ UNCHANGED <<awake, hands, stops>> /\ armed' = {}
         /\ \/ \E t \in Attempts : SweepRearms(t)
            \/ charged' = charged /\ \E t \in Attempts : SweepResumes(t)
            \/ charged' = charged /\ SweepRests
<1> DEFINE w == [Here EXCEPT !.armed = {}]
<1>1. KeepAliveTypeOK /\ awake /\ ~swept /\ swept' = TRUE /\ UNCHANGED <<awake, hands, stops>>
  BY DEF Sweep, KBase
<1>2. /\ w.status = status /\ w.text = text /\ w.recent = recent /\ w.retries = retries
      /\ w.timer = timer /\ w.armed = {} /\ DOMAIN w = Keys
  BY DEF Here, Keys
<1>3. CASE \E t \in Attempts :
             LET counted == [w EXCEPT !.retries = Restored(t)]
             IN /\ Chosen(t)
                /\ UNCHANGED <<parent, reason>>
                /\ \/ \E walled \in BOOLEAN : \E v \in KeepAlive(counted, t, FALSE, walled) :
                        /\ Becomes([v EXCEPT !.armed = {}])
                        /\ charged' = IF Reported(v, t) THEN 0 ELSE charged
                   \/ Becomes([counted EXCEPT !.timer[t] = Soon("rearm")]) /\ UNCHANGED charged
  <2>1. PICK t \in Attempts :
             LET counted == [w EXCEPT !.retries = Restored(t)]
             IN /\ Chosen(t)
                /\ UNCHANGED <<parent, reason>>
                /\ \/ \E walled \in BOOLEAN : \E v \in KeepAlive(counted, t, FALSE, walled) :
                        /\ Becomes([v EXCEPT !.armed = {}])
                        /\ charged' = IF Reported(v, t) THEN 0 ELSE charged
                   \/ Becomes([counted EXCEPT !.timer[t] = Soon("rearm")]) /\ UNCHANGED charged
    BY <1>3
  <2> DEFINE c == [w EXCEPT !.retries = Restored(t)]
  <2>2. /\ c.status = status /\ c.text = text /\ c.recent = recent /\ c.retries = Restored(t)
        /\ c.timer = timer /\ c.armed = {} /\ DOMAIN c = Keys
    BY <1>2 DEF Keys
  <2>3. Here \in KViews
    BY <1>1, HereIs
  <2>4. Restored(t) \in 0..MaxRetries /\ Restored(t) \in Nat /\ timer \in [Attempts -> Timers]
    BY <1>1, RestoredIs, KeepAliveAssumption DEF KeepAliveTypeOK
  <2>5. c \in KViews
    BY <2>3, <2>4 DEF KViews
  <2>6. Chosen(t) /\ UNCHANGED <<parent, reason>>
    BY <2>1
  <2>7. \/ \E walled \in BOOLEAN : \E v \in KeepAlive(c, t, FALSE, walled) :
                        /\ Becomes([v EXCEPT !.armed = {}])
                        /\ charged' = IF Reported(v, t) THEN 0 ELSE charged
        \/ Becomes([c EXCEPT !.timer[t] = Soon("rearm")]) /\ UNCHANGED charged
    BY <2>1
  <2> HIDE DEF c, w
  <2>8. CASE Becomes([c EXCEPT !.timer[t] = Soon("rearm")]) /\ UNCHANGED charged
    <3> DEFINE v == [c EXCEPT !.timer[t] = Soon("rearm")]
    <3>1. /\ v.status = status /\ v.text = text /\ v.recent = recent /\ v.retries = Restored(t)
          /\ v.timer = [timer EXCEPT ![t] = Soon("rearm")] /\ v.armed = {}
      BY <2>2 DEF Keys
    <3>2. Becomes(v)
      BY <2>8
    <3> HIDE DEF v
    <3>3. Sets(t, Soon("rearm"), Restored(t)) /\ armed' = {}
      BY <2>6, <3>1, <3>2 DEF Sets, Becomes, rows
    <3> QED
      BY <1>1, <2>6, <2>8, <3>3 DEF SweepRearms
  <2>9. ASSUME NEW walled \in BOOLEAN, NEW v \in KeepAlive(c, t, FALSE, walled),
               Becomes([v EXCEPT !.armed = {}]), charged' = IF Reported(v, t) THEN 0 ELSE charged
        PROVE  SweepRearms(t) /\ armed' = {}
    <3>1. Handing(v, c, t, Restored(t), FALSE, walled)
      BY <1>1, <2>2, <2>4, <2>5, <2>9, HandedIs
    <3>2. PICK x, tm, k :
            /\ Outcome(t, Restored(t), FALSE, x, tm, k)
            /\ Looks(v, t, "blocked", x, k, [timer EXCEPT ![t] = tm],
                     IF swept \/ x.kind = "stop" THEN c.armed ELSE c.armed \cup {t})
            /\ DOMAIN v = Keys
      BY <3>1 DEF Handing
    <3>3. v.text[t] = x
      BY <1>1, <3>2 DEF Looks, KeepAliveTypeOK
    <3>4. Looks([v EXCEPT !.armed = {}], t, "blocked", x, k, [timer EXCEPT ![t] = tm], {})
      BY <3>2 DEF Looks, Keys
    <3>5. Ends(t, "blocked", x, tm, k) /\ armed' = {}
      BY <2>6, <2>9, <3>4 DEF Looks, Becomes, Ends
    <3>6. charged' = IF x.kind \in {"stop", "budget"} THEN 0 ELSE charged
      BY <2>9, <3>3 DEF Reported
    <3>7. Handed(t, Restored(t), FALSE)
      BY <1>1, <3>2, <3>5, <3>6 DEF Handed
    <3> QED
      BY <2>6, <3>5, <3>7 DEF SweepRearms
  <2> QED
    BY <1>1, <2>7, <2>8, <2>9
<1>4. CASE /\ \A t \in Attempts : ~Orphaned(t)
           /\ UNCHANGED charged
           /\ \/ \E t \in Attempts :
                   /\ status[t] = "paused"
                   /\ \/ AutoResume(w, t)
                      \/ /\ Becomes([w EXCEPT !.timer[t] = Soon("resume")])
                         /\ UNCHANGED <<parent, reason>>
              \/ /\ \A t \in Attempts : status[t] # "paused"
                 /\ Becomes(w) /\ UNCHANGED <<parent, reason>>
  <2> HIDE DEF w
  <2>1. CASE (\A t \in Attempts : status[t] # "paused") /\ Becomes(w) /\ UNCHANGED <<parent, reason>>
    BY <1>1, <1>2, <1>4, <2>1 DEF SweepRests, Becomes, rows
  <2>2. ASSUME NEW t \in Attempts, status[t] = "paused", AutoResume(w, t)
        PROVE  SweepResumes(t) /\ armed' = {}
    <3>1. Sees(w, t, timer[t], {})
      BY <1>1, SeesHere DEF w
    <3> QED
      BY <1>4, <2>2, <3>1, AutoResumeIs DEF SweepResumes
  <2>3. ASSUME NEW t \in Attempts, status[t] = "paused",
               Becomes([w EXCEPT !.timer[t] = Soon("resume")]), UNCHANGED <<parent, reason>>
        PROVE  SweepResumes(t) /\ armed' = {}
    <3> DEFINE v == [w EXCEPT !.timer[t] = Soon("resume")]
    <3>1. /\ v.status = status /\ v.text = text /\ v.recent = recent /\ v.retries = retries
          /\ v.timer = [timer EXCEPT ![t] = Soon("resume")] /\ v.armed = {}
      BY <1>2 DEF Keys
    <3>2. Becomes(v)
      BY <2>3
    <3> HIDE DEF v
    <3>3. Sets(t, Soon("resume"), retries) /\ armed' = {}
      BY <2>3, <3>1, <3>2 DEF Sets, Becomes, rows
    <3> QED
      BY <1>4, <2>3, <3>3 DEF SweepResumes
  <2> QED
    BY <1>1, <1>4, <2>1, <2>2, <2>3
<1> QED
  BY <1>3, <1>4 DEF Sweep

-----------------------------------------------------------------------------
(* Rows and memory stay in order.                                             *)

\* What every step of the running process leaves in order.
Steady ==
  /\ awake /\ awake' = TRUE /\ swept' \in BOOLEAN /\ armed' \subseteq Attempts
  /\ hands' \in Nat /\ stops' \in Nat /\ charged' \in Nat /\ (hands' > 0 => charged' = 0)

\* A row comes to an end.
LEMMA EndsBase ==
  ASSUME KBase, Steady, NEW t \in Attempts, status[t] # "absent",
         NEW s \in {"blocked", "failed", "completed", "cancelled"}, NEW x \in Texts,
         NEW tm \in Timers, tm.kind = "none" => tm = NoTimer, NEW n \in 0..MaxRetries,
         Ends(t, s, x, tm, n),
         reason' \in [Attempts -> {"none", "user", "superseded"}],
         \A u \in Attempts \ {t} : reason'[u] = reason[u], s = "cancelled" => reason'[t] # "none",
         n > 0 => \E u \in Attempts : CountIn(u)' >= n
  PROVE  KBase'
<1>1. KeepAliveTypeOK /\ KTree /\ KRows /\ KMemory
  BY DEF KBase
<1>2. /\ status' = [status EXCEPT ![t] = s] /\ text' = [text EXCEPT ![t] = x]
      /\ timer' = [timer EXCEPT ![t] = tm] /\ retries' = n /\ parent' = parent
      /\ recent' = Without(recent, t) \cup
                 (IF s = "blocked" THEN {t} \X {u \in Attempts \ {t} : status[u] = "blocked"} ELSE {})
  BY DEF Ends
<1>3. recent' \subseteq Attempts \X Attempts
  BY <1>1, <1>2 DEF Without, KeepAliveTypeOK
<1>4. KeepAliveTypeOK'
  BY <1>1, <1>2, <1>3 DEF KeepAliveTypeOK, Statuses, Steady
<1>5. /\ \A u \in Attempts : u # t => status'[u] = status[u] /\ text'[u] = text[u] /\ timer'[u] = timer[u]
      /\ status'[t] = s /\ text'[t] = x /\ timer'[t] = tm
  BY <1>1, <1>2 DEF KeepAliveTypeOK
<1>6. KTree'
  <2>1. \A u \in Attempts : (status'[u] = "absent" <=> status[u] = "absent") /\ (status'[u] = "live" => status[u] = "live")
    BY <1>5
  <2>2. 1 \in Attempts /\ \A u \in Attempts : parent[u] # NoAttempt => parent[u] \in Attempts
    BY <1>1, KeepAliveAssumption DEF Attempts, KeepAliveTypeOK
  <2> QED
    BY <1>1, <1>2, <2>1, <2>2 DEF KTree
<1>7. KRows'
  <2>1. ASSUME NEW p \in recent'
        PROVE  /\ status'[p[1]] = "blocked" /\ status'[p[2]] = "blocked"
               /\ <<p[2], p[1]>> \notin recent'
    <3>0. p \in Attempts \X Attempts
      BY <1>3
    <3>1. CASE p \in Without(recent, t)
      <4>1. p \in recent /\ t # p[1] /\ t # p[2] /\ p[1] \in Attempts /\ p[2] \in Attempts
        BY <3>0, <3>1 DEF Without
      <4>2. status[p[1]] = "blocked" /\ status[p[2]] = "blocked" /\ <<p[2], p[1]>> \notin recent
        BY <1>1, <4>1 DEF KRows
      <4>3. <<p[2], p[1]>> \notin Without(recent, t)
        BY <4>2 DEF Without
      <4> QED
        BY <1>2, <1>5, <4>1, <4>2, <4>3
    <3>2. CASE p \notin Without(recent, t)
      <4>1. s = "blocked" /\ p[1] = t /\ p[2] \in Attempts \ {t} /\ status[p[2]] = "blocked"
        BY <1>2, <3>0, <3>2
      <4>2. <<p[2], p[1]>> \notin Without(recent, t)
        BY <4>1 DEF Without
      <4> QED
        BY <1>2, <1>5, <4>1, <4>2
    <3> QED
      BY <3>1, <3>2
  <2>2. ASSUME NEW u \in Attempts
        PROVE  /\ status'[u] \in {"absent", "live", "paused"} => text'[u] = NoText
               /\ status'[u] = "cancelled" => reason'[u] # "none"
               /\ status'[u] \in {"absent", "live"} \/ timer'[u].kind = "none" => timer'[u] = NoTimer
               /\ status'[u] = "paused" => timer'[u].kind \in {"none", "resume"}
    <3>1. CASE u = t
      BY <1>5, <3>1
    <3>2. CASE u # t
      BY <1>1, <1>5, <3>2 DEF KRows
    <3> QED
      BY <3>1, <3>2
  <2> QED
    BY <2>1, <2>2 DEF KRows
<1>8. KMemory'
  <2>1. awake' = TRUE /\ (hands' > 0 => charged' = 0)
    BY DEF Steady
  <2>2. retries' > 0 => \E u \in Attempts : CountIn(u)' >= retries'
    BY <1>2
  <2> QED
    BY <2>1, <2>2 DEF KMemory
<1> QED
  BY <1>4, <1>6, <1>7, <1>8 DEF KBase

\* What the keep-alive may make of a row is well-formed.
LEMMA OutcomeIs ==
  ASSUME KeepAliveTypeOK, NEW t \in Attempts, NEW n \in 0..MaxRetries, NEW spend \in BOOLEAN,
         NEW x, NEW tm, NEW k, Outcome(t, n, spend, x, tm, k)
  PROVE  /\ x \in Texts /\ tm \in Timers /\ k \in 0..MaxRetries /\ tm.kind \in {"none", "retry", "budget"}
         /\ (tm.kind = "none" <=> x.kind = "stop") /\ (tm.kind = "none" => tm = NoTimer)
         /\ x.kind \in {"retry", "carry", "budget", "stop"}
         /\ k > 0 => x.kind \in {"retry", "carry"} /\ x.n = k
<1>1. CountIn(t) \in 0..MaxRetries /\ MaxRetries \in Nat
  BY CountType, KeepAliveAssumption
<1>2. CASE x = [kind |-> "budget", n |-> 0] /\ tm = Soon("budget") /\ k = 0
  <2>1. tm = [kind |-> "budget", spend |-> FALSE, attempt |-> 0, cooling |-> FALSE]
    BY <1>2 DEF Soon, NoTimer
  <2>2. tm \in Timers /\ tm.kind = "budget"
    BY <1>1, <2>1 DEF Timers
  <2>3. x \in Texts /\ x.kind = "budget"
    BY <1>1, <1>2 DEF Texts
  <2> QED
    BY <1>1, <1>2, <2>2, <2>3
<1>3. CASE x = [kind |-> "stop", n |-> CountIn(t)] /\ tm = NoTimer /\ k = 0
  BY <1>1, <1>3 DEF Texts, Timers, NoTimer
<1>4. CASE \E c \in BOOLEAN :
       /\ spend => n < MaxRetries
       /\ k = IF spend THEN n + 1 ELSE n
       /\ x = [kind |-> IF spend THEN "retry" ELSE "carry", n |-> k]
       /\ tm = [kind |-> "retry", spend |-> spend, attempt |-> n, cooling |-> c]
  <2>1. k \in 0..MaxRetries
    BY <1>1, <1>4
  <2>2. tm \in Timers /\ tm.kind = "retry"
    BY <1>4 DEF Timers
  <2>3. x \in Texts /\ x.kind \in {"retry", "carry"} /\ x.n = k
    BY <1>4, <2>1 DEF Texts
  <2> QED
    BY <2>1, <2>2, <2>3
<1> QED
  BY <1>2, <1>3, <1>4 DEF Outcome

\* A row is handed over.
LEMMA HandedBase ==
  ASSUME KBase, NEW t \in Attempts, status[t] # "absent", NEW n \in 0..MaxRetries, NEW spend \in BOOLEAN,
         Handed(t, n, spend), awake, awake' = awake, swept' \in BOOLEAN, UNCHANGED <<reason, hands, stops>>
  PROVE  KBase'
<1>1. PICK x, tm, k :
        /\ Outcome(t, n, spend, x, tm, k) /\ Ends(t, "blocked", x, tm, k)
        /\ charged' = IF x.kind \in {"stop", "budget"} THEN 0 ELSE charged
        /\ armed' \subseteq armed \cup {t}
  BY DEF Handed
<1>2. KeepAliveTypeOK /\ KMemory
  BY DEF KBase
<1>3. /\ x \in Texts /\ tm \in Timers /\ k \in 0..MaxRetries /\ (tm.kind = "none" => tm = NoTimer)
      /\ k > 0 => x.kind \in {"retry", "carry"} /\ x.n = k
  BY <1>1, <1>2, OutcomeIs
<1>4. Steady
  BY <1>1, <1>2 DEF Steady, KeepAliveTypeOK, KMemory
<1>5. k > 0 => \E u \in Attempts : CountIn(u)' >= k
  <2>1. text'[t] = x
    BY <1>1, <1>2 DEF Ends, KeepAliveTypeOK
  <2>2. k > 0 => CountIn(t)' = k
    BY <1>3, <2>1 DEF CountIn
  <2> QED
    BY <1>3, <2>2
<1>6. reason' \in [Attempts -> {"none", "user", "superseded"}] /\ reason' = reason
  BY <1>2 DEF KeepAliveTypeOK
<1> QED
  BY <1>1, <1>3, <1>4, <1>5, <1>6, EndsBase

\* A timer is set, or goes off.
LEMMA SetsBase ==
  ASSUME KBase, Steady, NEW t \in Attempts, status[t] \notin {"absent", "live"},
         NEW tm \in Timers, tm.kind = "none" => tm = NoTimer, NEW n \in 0..MaxRetries,
         status[t] # "paused" \/ tm.kind \in {"none", "resume"}, Sets(t, tm, n), n > 0 => \E u \in Attempts : CountIn(u) >= n
  PROVE  KBase'
<1>1. KeepAliveTypeOK /\ KTree /\ KRows /\ KMemory
  BY DEF KBase
<1>2. /\ status' = status /\ parent' = parent /\ reason' = reason /\ text' = text /\ recent' = recent
      /\ timer' = [timer EXCEPT ![t] = tm] /\ retries' = n
  BY DEF Sets, rows
<1>3. KeepAliveTypeOK'
  BY <1>1, <1>2 DEF KeepAliveTypeOK, Steady
<1>4. KTree'
  BY <1>1, <1>2 DEF KTree
<1>5. KRows'
  <2>1. \A u \in Attempts : (u # t => timer'[u] = timer[u]) /\ timer'[t] = tm
    BY <1>1, <1>2 DEF KeepAliveTypeOK
  <2>2. \A u \in Attempts :
               /\ status'[u] \in {"absent", "live"} \/ timer'[u].kind = "none" => timer'[u] = NoTimer
               /\ status'[u] = "paused" => timer'[u].kind \in {"none", "resume"}
    BY <1>1, <1>2, <2>1 DEF KRows
  <2> QED
    BY <1>1, <1>2, <2>2 DEF KRows
<1>6. KMemory'
  <2>1. \A u : CountIn(u)' = CountIn(u)
    BY <1>2 DEF CountIn
  <2>2. retries' > 0 => \E u \in Attempts : CountIn(u)' >= retries'
    BY <1>2, <2>1
  <2> QED
    BY <2>2 DEF KMemory, Steady
<1> QED
  BY <1>3, <1>4, <1>5, <1>6 DEF KBase

\* A row that comes, or a parked row that is retired.
LEMMA BeginsBase ==
  ASSUME KBase, Steady, NEW p \in Attempts, NEW c \in Attempts, NEW s, NEW old,
         NEW tm \in Timers, tm.kind = "none" => tm = NoTimer, Begins(p, c, s, tm, old),
         status[p] # "paused" \/ tm.kind \in {"none", "resume"},
         status[p] \notin {"absent", "live"}, old = status[p] \/ (status[p] = "paused" /\ old = "cancelled"),
         reason' \in [Attempts -> {"none", "user", "superseded"}],
         \A u \in Attempts \ {p} : reason'[u] = reason[u], old = "cancelled" => reason'[p] # "none"
  PROVE  KBase'
<1>1. KeepAliveTypeOK /\ KTree /\ KRows /\ KMemory
  BY DEF KBase
<1>2. /\ status' = [status EXCEPT ![c] = s, ![p] = old] /\ parent' = [parent EXCEPT ![c] = p]
      /\ timer' = [timer EXCEPT ![p] = tm] /\ text' = text /\ recent' = recent /\ retries' = retries
      /\ s \in {"live", "failed"} /\ c # p /\ status[c] = "absent"
      /\ \A u \in Attempts : u < c => status[u] # "absent"
  BY DEF Begins, Fresh
<1>3. KeepAliveTypeOK'
  BY <1>1, <1>2 DEF KeepAliveTypeOK, Statuses, Steady
<1>4. /\ \A u \in Attempts : u # c /\ u # p => status'[u] = status[u]
      /\ \A u \in Attempts : u # c => parent'[u] = parent[u]
      /\ \A u \in Attempts : u # p => timer'[u] = timer[u]
      /\ status'[c] = s /\ status'[p] = old /\ parent'[c] = p /\ timer'[p] = tm
  BY <1>1, <1>2 DEF KeepAliveTypeOK
<1>5. p < c
  BY <1>1, <1>2, KeepAliveAssumption DEF KTree, Attempts
<1>6. KTree'
  <2>0. 1 \in Attempts /\ \A u \in Attempts : u \in Nat /\ (parent[u] # NoAttempt => parent[u] \in Attempts)
    BY <1>1, KeepAliveAssumption DEF Attempts, KeepAliveTypeOK
  <2>1. status'[1] # "absent"
    BY <1>1, <1>2, <1>4, <2>0 DEF KTree
  <2>2. ASSUME NEW t \in Attempts, NEW u \in Attempts, u < t, status'[t] # "absent"
        PROVE  status'[u] # "absent"
    <3>1. status[u] # "absent"  \/ u = c
      <4>1. CASE t = c
        BY <1>2, <2>2, <4>1
      <4>2. CASE t # c
        BY <1>1, <1>2, <1>4, <2>2, <4>2 DEF KTree
      <4> QED
        BY <4>1, <4>2
    <3> QED
      BY <1>2, <1>4, <3>1
  <2>3. ASSUME NEW t \in Attempts
        PROVE  /\ parent'[t] < t /\ (status'[t] = "absent" => parent'[t] = NoAttempt)
               /\ parent'[t] # NoAttempt => status'[parent'[t]] # "live"
    <3>1. CASE t = c
      BY <1>2, <1>4, <1>5, <3>1
    <3>2. CASE t # c
      <4>1. /\ parent'[t] = parent[t] /\ parent[t] < t
            /\ (status[t] = "absent" => parent[t] = NoAttempt)
            /\ (parent[t] # NoAttempt => status[parent[t]] # "live")
        BY <1>1, <1>4, <3>2 DEF KTree
      <4>2. status'[t] = "absent" => status[t] = "absent"
        BY <1>2, <1>4, <3>2
      <4>3. parent[t] # NoAttempt => status'[parent[t]] # "live"
        <5>1. HAVE parent[t] # NoAttempt
        <5>2. parent[t] \in Attempts /\ status[t] # "absent" /\ status[parent[t]] # "absent"
          BY <1>1, <2>0, <4>1, <5>1 DEF KTree
        <5> QED
          BY <1>2, <1>4, <4>1, <5>1, <5>2
      <4> QED
        BY <4>1, <4>2, <4>3
    <3> QED
      BY <3>1, <3>2
  <2> QED
    BY <2>1, <2>2, <2>3 DEF KTree
<1>7. KRows'
  <2>1. ASSUME NEW q \in recent
        PROVE  /\ status'[q[1]] = "blocked" /\ status'[q[2]] = "blocked"
               /\ <<q[2], q[1]>> \notin recent
    <3>1. q[1] \in Attempts /\ q[2] \in Attempts
      BY <1>1 DEF KeepAliveTypeOK
    <3>2. status[q[1]] = "blocked" /\ status[q[2]] = "blocked" /\ <<q[2], q[1]>> \notin recent
      BY <1>1 DEF KRows
    <3> QED
      BY <1>2, <1>4, <3>1, <3>2
  <2>2. ASSUME NEW u \in Attempts
        PROVE  /\ status'[u] \in {"absent", "live", "paused"} => text[u] = NoText
               /\ status'[u] = "cancelled" => reason'[u] # "none"
               /\ status'[u] \in {"absent", "live"} \/ timer'[u].kind = "none" => timer'[u] = NoTimer
               /\ status'[u] = "paused" => timer'[u].kind \in {"none", "resume"}
    <3>0. /\ status[u] \in {"absent", "live", "paused"} => text[u] = NoText
          /\ status[u] = "cancelled" => reason[u] # "none"
          /\ status[u] \in {"absent", "live"} \/ timer[u].kind = "none" => timer[u] = NoTimer
          /\ status[u] = "paused" => timer[u].kind \in {"none", "resume"}
      BY <1>1 DEF KRows
    <3>1. CASE u = p
      BY <1>2, <1>4, <3>0, <3>1
    <3>2. CASE u = c
      BY <1>2, <1>4, <3>0, <3>2
    <3>3. CASE u # p /\ u # c
      BY <1>4, <3>0, <3>3
    <3> QED
      BY <3>1, <3>2, <3>3
  <2> QED
    BY <1>2, <2>1, <2>2 DEF KRows
<1>8. KMemory'
  <2>1. \A u : CountIn(u)' = CountIn(u)
    BY <1>2 DEF CountIn
  <2>2. retries' > 0 => \E u \in Attempts : CountIn(u)' >= retries'
    BY <1>1, <1>2, <2>1 DEF KMemory
  <2> QED
    BY <2>2 DEF KMemory, Steady
<1> QED
  BY <1>3, <1>6, <1>7, <1>8 DEF KBase

\* A parked row is retired.
LEMMA RetiresBase ==
  ASSUME KBase, Steady, NEW p \in Attempts, NEW tm \in Timers, tm.kind = "none" => tm = NoTimer,
         Retires(p, tm)
  PROVE  KBase'
<1>1. KeepAliveTypeOK /\ KTree /\ KRows /\ KMemory
  BY DEF KBase
<1>2. /\ status[p] = "paused" /\ status' = [status EXCEPT ![p] = "cancelled"]
      /\ reason' = [reason EXCEPT ![p] = "superseded"] /\ timer' = [timer EXCEPT ![p] = tm]
      /\ parent' = parent /\ text' = text /\ recent' = recent /\ retries' = retries
  BY DEF Retires
<1>3. KeepAliveTypeOK'
  BY <1>1, <1>2 DEF KeepAliveTypeOK, Statuses, Steady
<1>4. /\ \A u \in Attempts : u # p => status'[u] = status[u] /\ reason'[u] = reason[u] /\ timer'[u] = timer[u]
      /\ status'[p] = "cancelled" /\ reason'[p] = "superseded" /\ timer'[p] = tm
  BY <1>1, <1>2 DEF KeepAliveTypeOK
<1>5. KTree'
  <2>1. 1 \in Attempts /\ \A u \in Attempts : parent[u] # NoAttempt => parent[u] \in Attempts
    BY <1>1, KeepAliveAssumption DEF Attempts, KeepAliveTypeOK
  <2> QED
    BY <1>1, <1>2, <1>4, <2>1 DEF KTree
<1>6. KRows'
  <2>1. ASSUME NEW q \in recent
        PROVE  /\ status'[q[1]] = "blocked" /\ status'[q[2]] = "blocked"
               /\ <<q[2], q[1]>> \notin recent
    <3>1. q[1] \in Attempts /\ q[2] \in Attempts
      BY <1>1 DEF KeepAliveTypeOK
    <3>2. status[q[1]] = "blocked" /\ status[q[2]] = "blocked" /\ <<q[2], q[1]>> \notin recent
      BY <1>1 DEF KRows
    <3> QED
      BY <1>2, <1>4, <3>1, <3>2
  <2>2. ASSUME NEW u \in Attempts
        PROVE  /\ status'[u] \in {"absent", "live", "paused"} => text[u] = NoText
               /\ status'[u] = "cancelled" => reason'[u] # "none"
               /\ status'[u] \in {"absent", "live"} \/ timer'[u].kind = "none" => timer'[u] = NoTimer
               /\ status'[u] = "paused" => timer'[u].kind \in {"none", "resume"}
    <3>1. CASE u = p
      BY <1>4, <3>1
    <3>2. CASE u # p
      BY <1>1, <1>4, <3>2 DEF KRows
    <3> QED
      BY <3>1, <3>2
  <2> QED
    BY <1>2, <2>1, <2>2 DEF KRows
<1>7. KMemory'
  <2>1. \A u : CountIn(u)' = CountIn(u)
    BY <1>2 DEF CountIn
  <2>2. retries' > 0 => \E u \in Attempts : CountIn(u)' >= retries'
    BY <1>1, <1>2, <2>1 DEF KMemory
  <2> QED
    BY <2>2 DEF KMemory, Steady
<1> QED
  BY <1>3, <1>5, <1>6, <1>7 DEF KBase

\* A parked row is resumed.
LEMMA ResumedBase ==
  ASSUME KBase, Steady, NEW t \in Attempts, NEW tm \in Timers, tm.kind = "none" => tm = NoTimer,
         status[t] = "paused", tm.kind \in {"none", "resume"}, Resumed(t, tm)
  PROVE  KBase'
<1>1. reason \in [Attempts -> {"none", "user", "superseded"}]
  BY DEF KBase, KeepAliveTypeOK
<1>2. CASE Retires(t, tm)
  BY <1>2, RetiresBase
<1>3. ASSUME NEW c \in Attempts, Begins(t, c, "failed", tm, "paused"), reason' = reason
      PROVE  KBase'
  BY <1>1, <1>3, BeginsBase
<1>4. ASSUME NEW c \in Attempts, Begins(t, c, "live", tm, "cancelled"),
             reason' = [reason EXCEPT ![t] = "superseded"]
      PROVE  KBase'
  <2>1. /\ reason' \in [Attempts -> {"none", "user", "superseded"}]
        /\ \A u \in Attempts \ {t} : reason'[u] = reason[u]
        /\ reason'[t] # "none"
    BY <1>1, <1>4
  <2> QED
    BY <1>4, <2>1, BeginsBase
<1> QED
  BY <1>2, <1>3, <1>4 DEF Resumed

\* The mission begins in order.
LEMMA KBaseInit == KeepAliveInit => KBase
<1> SUFFICES ASSUME KeepAliveInit PROVE KBase
  OBVIOUS
<1> USE KeepAliveAssumption
<1>1. KeepAliveTypeOK
  <2>1. NoTimer \in Timers /\ NoText \in Texts
    BY DEF NoTimer, Timers, NoText, Texts
  <2>2. status \in [Attempts -> Statuses] /\ text \in [Attempts -> Texts] /\ timer \in [Attempts -> Timers]
    BY <2>1 DEF KeepAliveInit, Statuses
  <2>3. recent \subseteq Attempts \X Attempts /\ armed \subseteq Attempts
    BY DEF KeepAliveInit
  <2>4. retries \in 0..MaxRetries
    BY DEF KeepAliveInit
  <2> QED
    BY <2>2, <2>3, <2>4 DEF KeepAliveInit, KeepAliveTypeOK
<1>2. KTree
  BY DEF KeepAliveInit, KTree, Attempts, NoAttempt
<1>3. KRows
  BY DEF KeepAliveInit, KRows
<1>4. KMemory
  BY DEF KeepAliveInit, KMemory
<1> QED
  BY <1>1, <1>2, <1>3, <1>4 DEF KBase

\* The process dies.
LEMMA CrashBase == KBase /\ Crash => KBase'
<1> SUFFICES ASSUME KBase, Crash PROVE KBase'
  OBVIOUS
<1>1. KeepAliveTypeOK /\ KTree /\ KRows /\ KMemory
  BY DEF KBase
<1>2. /\ status' = status /\ parent' = parent /\ reason' = reason /\ text' = text /\ recent' = recent
      /\ awake' = FALSE /\ swept' = FALSE /\ retries' = 0 /\ armed' = {} /\ stops' = stops + 1
      /\ timer' = [t \in Attempts |-> NoTimer] /\ hands' = hands /\ charged' = charged
  BY DEF Crash, Forget
<1>3. NoTimer \in Timers /\ NoTimer.kind = "none"
  BY KeepAliveAssumption DEF NoTimer, Timers
<1>4. KeepAliveTypeOK'
  <2>1. timer' \in [Attempts -> Timers] /\ retries' \in 0..MaxRetries /\ stops' \in Nat /\ armed' \subseteq Attempts
    BY <1>1, <1>2, <1>3, KeepAliveAssumption DEF KeepAliveTypeOK
  <2> QED
    BY <1>1, <1>2, <2>1 DEF KeepAliveTypeOK
<1>5. KTree' /\ KRows'
  <2>1. \A u \in Attempts : timer'[u] = NoTimer /\ timer'[u].kind = "none"
    BY <1>2, <1>3
  <2> QED
    BY <1>1, <1>2, <2>1 DEF KTree, KRows
<1>6. KMemory'
  BY <1>1, <1>2, <1>3 DEF KMemory
<1> QED
  BY <1>4, <1>5, <1>6 DEF KBase

\* The process shuts down.
LEMMA ExitBase == KBase /\ Exit => KBase'
<1> SUFFICES ASSUME KBase, Exit PROVE KBase'
  OBVIOUS
<1> DEFINE left == {t \in Attempts : status[t] \in {"live", "paused"}}
           o == [kind |-> "other", n |-> 0]
<1>1. KeepAliveTypeOK /\ KTree /\ KRows /\ KMemory
  BY DEF KBase
<1>2. /\ status' = [t \in Attempts |-> IF t \in left THEN "blocked" ELSE status[t]]
      /\ text' = [t \in Attempts |-> IF t \in left THEN o ELSE text[t]]
      /\ recent' = recent \cup left \X {u \in Attempts : status[u] = "blocked"}
                     \cup {p \in left \X left : p[1] > p[2]}
      /\ parent' = parent /\ reason' = reason
      /\ awake' = FALSE /\ swept' = FALSE /\ retries' = 0 /\ armed' = {} /\ stops' = stops + 1
      /\ timer' = [t \in Attempts |-> NoTimer] /\ hands' = hands /\ charged' = charged
  BY DEF Exit, Forget
<1>3. NoTimer \in Timers /\ NoTimer.kind = "none" /\ o \in Texts
  BY KeepAliveAssumption DEF NoTimer, Timers, Texts
<1>4. KeepAliveTypeOK'
  <2>1. status' \in [Attempts -> Statuses] /\ text' \in [Attempts -> Texts]
    BY <1>1, <1>2, <1>3 DEF KeepAliveTypeOK, Statuses
  <2>2. recent' \subseteq Attempts \X Attempts
    BY <1>1, <1>2 DEF KeepAliveTypeOK
  <2>3. timer' \in [Attempts -> Timers] /\ retries' \in 0..MaxRetries /\ stops' \in Nat /\ armed' \subseteq Attempts
    BY <1>1, <1>2, <1>3, KeepAliveAssumption DEF KeepAliveTypeOK
  <2> QED
    BY <1>1, <1>2, <2>1, <2>2, <2>3 DEF KeepAliveTypeOK
<1>5. \A t \in Attempts : /\ t \in left => status'[t] = "blocked"
                          /\ t \notin left => status'[t] = status[t] /\ text'[t] = text[t]
                          /\ status[t] = "absent" => t \notin left
  BY <1>2
<1>6. KTree'
  <2>1. 1 \in Attempts /\ \A u \in Attempts : parent[u] # NoAttempt => parent[u] \in Attempts
    BY <1>1, KeepAliveAssumption DEF Attempts, KeepAliveTypeOK
  <2>2. \A u \in Attempts : (status'[u] = "absent" <=> status[u] = "absent") /\ status'[u] # "live"
    BY <1>5
  <2> QED
    BY <1>1, <1>2, <2>1, <2>2 DEF KTree
<1>7. KRows'
  <2>1. ASSUME NEW p \in recent'
        PROVE  /\ status'[p[1]] = "blocked" /\ status'[p[2]] = "blocked"
               /\ <<p[2], p[1]>> \notin recent'
    <3>0. p[1] \in Attempts /\ p[2] \in Attempts /\ p = <<p[1], p[2]>>
      BY <1>4 DEF KeepAliveTypeOK
    <3>1. \A q \in recent : status[q[1]] = "blocked" /\ status[q[2]] = "blocked" /\ <<q[2], q[1]>> \notin recent
      BY <1>1 DEF KRows
    <3>2. \A u \in left : status[u] # "blocked" /\ u \in Attempts
      OBVIOUS
    <3> HIDE DEF left
    <3>3. CASE p \in recent
      BY <1>2, <1>5, <3>0, <3>1, <3>2, <3>3
    <3>4. CASE p[1] \in left /\ status[p[2]] = "blocked"
      BY <1>2, <1>5, <3>0, <3>1, <3>2, <3>4
    <3>5. CASE p[1] \in left /\ p[2] \in left /\ p[1] > p[2]
      <4>1. ~(p[2] > p[1])
        BY <3>0, <3>5, KeepAliveAssumption DEF Attempts
      <4> QED
        BY <1>2, <1>5, <3>0, <3>1, <3>2, <3>5, <4>1
    <3> QED
      BY <1>2, <3>0, <3>3, <3>4, <3>5
  <2>2. ASSUME NEW u \in Attempts
        PROVE  /\ status'[u] \in {"absent", "live", "paused"} => text'[u] = NoText
               /\ status'[u] = "cancelled" => reason'[u] # "none"
               /\ status'[u] \in {"absent", "live"} \/ timer'[u].kind = "none" => timer'[u] = NoTimer
               /\ status'[u] = "paused" => timer'[u].kind \in {"none", "resume"}
    BY <1>1, <1>2, <1>5 DEF KRows
  <2> QED
    BY <2>1, <2>2 DEF KRows
<1>8. KMemory'
  BY <1>1, <1>2, <1>3 DEF KMemory
<1> QED
  BY <1>4, <1>6, <1>7, <1>8 DEF KBase

\* The process boots.
LEMMA BootBase == KBase /\ Boot => KBase'
<1> SUFFICES ASSUME KBase, Boot PROVE KBase'
  OBVIOUS
<1> DEFINE old == {t \in Attempts : status[t] = "paused" /\ SupersededRow(t)}
<1>1. KeepAliveTypeOK /\ KTree /\ KRows /\ KMemory
  BY DEF KBase
<1>2. /\ status' = [t \in Attempts |-> IF t \in old THEN "cancelled"
                                         ELSE IF t \in LiveRows THEN "paused" ELSE status[t]]
      /\ reason' = [t \in Attempts |-> IF t \in old THEN "superseded" ELSE reason[t]]
      /\ text' = text /\ recent' = recent /\ parent' = parent
      /\ awake' = TRUE /\ swept' = swept /\ retries' = retries /\ armed' = armed /\ stops' = stops
      /\ timer' = timer /\ hands' = hands /\ charged' = charged /\ ~awake
  BY DEF Boot, mem
<1>3. /\ \A t \in Attempts : t \in old => status[t] = "paused"
      /\ \A t \in Attempts : t \in LiveRows <=> status[t] = "live"
  BY DEF LiveRows
<1> HIDE DEF old
<1>4. KeepAliveTypeOK'
  <2>1. status' \in [Attempts -> Statuses] /\ reason' \in [Attempts -> {"none", "user", "superseded"}]
    BY <1>1, <1>2 DEF KeepAliveTypeOK, Statuses
  <2> QED
    BY <1>1, <1>2, <2>1 DEF KeepAliveTypeOK
<1>5. KTree'
  <2>1. 1 \in Attempts /\ \A u \in Attempts : parent[u] # NoAttempt => parent[u] \in Attempts
    BY <1>1, KeepAliveAssumption DEF Attempts, KeepAliveTypeOK
  <2>2. \A u \in Attempts : (status'[u] = "absent" <=> status[u] = "absent") /\ status'[u] # "live"
    BY <1>2, <1>3
  <2> QED
    BY <1>1, <1>2, <2>1, <2>2 DEF KTree
<1>6. KRows'
  <2>1. ASSUME NEW q \in recent
        PROVE  /\ status'[q[1]] = "blocked" /\ status'[q[2]] = "blocked"
               /\ <<q[2], q[1]>> \notin recent
    <3>1. q[1] \in Attempts /\ q[2] \in Attempts
      BY <1>1 DEF KeepAliveTypeOK
    <3>2. status[q[1]] = "blocked" /\ status[q[2]] = "blocked" /\ <<q[2], q[1]>> \notin recent
      BY <1>1 DEF KRows
    <3> QED
      BY <1>2, <1>3, <3>1, <3>2
  <2>2. ASSUME NEW u \in Attempts
        PROVE  /\ status'[u] \in {"absent", "live", "paused"} => text[u] = NoText
               /\ status'[u] = "cancelled" => reason'[u] # "none"
               /\ status'[u] \in {"absent", "live"} \/ timer[u].kind = "none" => timer[u] = NoTimer
               /\ status'[u] = "paused" => timer[u].kind \in {"none", "resume"}
    <3>0. /\ status[u] \in {"absent", "live", "paused"} => text[u] = NoText
          /\ status[u] = "cancelled" => reason[u] # "none"
          /\ status[u] \in {"absent", "live"} \/ timer[u].kind = "none" => timer[u] = NoTimer
          /\ status[u] = "paused" => timer[u].kind \in {"none", "resume"}
      BY <1>1 DEF KRows
    <3>1. CASE u \in old
      BY <1>2, <1>3, <3>0, <3>1
    <3>2. CASE u \in LiveRows
      BY <1>2, <1>3, <3>0, <3>2 DEF NoTimer
    <3>3. CASE u \notin old /\ u \notin LiveRows
      BY <1>2, <3>0, <3>3
    <3> QED
      BY <3>1, <3>2, <3>3
  <2> QED
    BY <1>2, <2>1, <2>2 DEF KRows
<1>7. KMemory'
  <2>1. \A u : CountIn(u)' = CountIn(u)
    BY <1>2 DEF CountIn
  <2>2. retries' > 0 => \E u \in Attempts : CountIn(u)' >= retries'
    BY <1>1, <1>2, <2>1 DEF KMemory
  <2> QED
    BY <1>1, <1>2, <2>2 DEF KMemory
<1> QED
  BY <1>4, <1>5, <1>6, <1>7 DEF KBase

\* Nothing happens.
LEMMA KBaseSame == KBase /\ UNCHANGED kvars => KBase'
<1> SUFFICES ASSUME KBase, UNCHANGED kvars PROVE KBase'
  OBVIOUS
<1>1. /\ status' = status /\ parent' = parent /\ reason' = reason /\ text' = text /\ recent' = recent
      /\ awake' = awake /\ swept' = swept /\ retries' = retries /\ armed' = armed /\ stops' = stops
      /\ timer' = timer /\ hands' = hands /\ charged' = charged
  BY DEF kvars, rows, mem
<1>2. \A u : CountIn(u)' = CountIn(u)
  BY <1>1 DEF CountIn
<1> QED
  BY <1>1, <1>2 DEF KBase, KeepAliveTypeOK, KTree, KRows, KMemory

\* The absent timer and the absent text.
LEMMA NoneTypes == NoTimer \in Timers /\ NoTimer.kind = "none" /\ NoText \in Texts
BY KeepAliveAssumption DEF NoTimer, Timers, NoText, Texts

\* The end of a run of row t.
LEMMA RunEndsBase ==
  ASSUME KBase, Steady, NEW t \in Attempts, status[t] = "live", reason' = reason,
         NEW s \in {"blocked", "failed", "completed"}, NEW x \in Texts, NEW n \in {0, retries},
         Ends(t, s, x, NoTimer, n)
  PROVE  KBase'
<1>1. KeepAliveTypeOK /\ CountIn(t) = 0
  BY LiveHasNone DEF KBase
<1>2. n \in 0..MaxRetries
  BY <1>1, KeepAliveAssumption DEF KeepAliveTypeOK
<1>3. n > 0 => \E u \in Attempts : CountIn(u)' >= n
  <2>1. SUFFICES ASSUME n > 0 PROVE \E u \in Attempts : CountIn(u)' >= n
    OBVIOUS
  <2>2. PICK u \in Attempts : CountIn(u) >= retries
    BY <2>1, <1>2 DEF KBase, KMemory
  <2>3. u # t
    BY <1>1, <1>2, <2>1, <2>2
  <2>4. text'[u] = text[u]
    BY <1>1, <2>3 DEF Ends, KeepAliveTypeOK
  <2>5. CountIn(u)' = CountIn(u)
    BY <2>4 DEF CountIn
  <2> QED
    BY <2>1, <2>2, <2>5
<1>4. reason' \in [Attempts -> {"none", "user", "superseded"}]
  BY <1>1 DEF KeepAliveTypeOK
<1> QED
  BY <1>2, <1>3, <1>4, NoneTypes, EndsBase

\* The ends of a run.
LEMMA ActsBase ==
  ASSUME KBase, NEW t \in Attempts, Completes(t) \/ Fails(t) \/ AsksPerson(t)
  PROVE  KBase'
<1>1. KeepAliveTypeOK /\ KMemory
  BY DEF KBase
<1>2. CASE Completes(t)
  <2>1. Ends(t, "completed", NoText, NoTimer, retries) /\ armed' = armed
    BY <1>2, CompletesIs
  <2>2. Steady /\ status[t] = "live" /\ reason' = reason
    BY <1>1, <1>2, <2>1 DEF Completes, Steady, KeepAliveTypeOK
  <2> QED
    BY <2>1, <2>2, NoneTypes, RunEndsBase
<1>3. CASE Fails(t)
  <2>1. awake /\ awake' = awake /\ swept' \in BOOLEAN
    BY <1>1, <1>3 DEF Fails, KeepAliveTypeOK
  <2>2. CASE Handed(t, retries, TRUE)
    <3>1. status[t] = "live" /\ UNCHANGED <<reason, hands, stops>> /\ retries \in 0..MaxRetries
      BY <1>1, <1>3, FailsIs DEF KeepAliveTypeOK
    <3> QED
      BY <2>1, <2>2, <3>1, HandedBase
  <2>3. CASE /\ Ends(t, "failed", [kind |-> "stop", n |-> 0], NoTimer, 0)
             /\ armed' = armed /\ charged' = 0
    <3>1. status[t] = "live" /\ UNCHANGED <<reason, hands, stops>>
      BY <1>3, FailsIs
    <3>2. Steady
      BY <1>1, <2>1, <2>3, <3>1 DEF Steady, KeepAliveTypeOK
    <3>3. [kind |-> "stop", n |-> 0] \in Texts
      BY KeepAliveAssumption DEF Texts
    <3> QED
      BY <2>3, <3>1, <3>2, <3>3, RunEndsBase
  <2> QED
    BY <1>3, <2>2, <2>3, FailsIs
<1>4. CASE AsksPerson(t)
  <2>1. /\ \E s \in {"blocked", "failed"} : Ends(t, s, [kind |-> "ask", n |-> 0], NoTimer, retries)
        /\ armed' = armed
    BY <1>4, AsksIs
  <2>2. Steady /\ status[t] = "live" /\ reason' = reason
    BY <1>1, <1>4, <2>1 DEF AsksPerson, Steady, KeepAliveTypeOK, KMemory
  <2>3. [kind |-> "ask", n |-> 0] \in Texts
    BY KeepAliveAssumption DEF Texts
  <2> QED
    BY <2>1, <2>2, <2>3, RunEndsBase
<1> QED
  BY <1>2, <1>3, <1>4

\* A timer is one of the timers.
LEMMA TimerType ==
  ASSUME KBase, NEW t \in Attempts
  PROVE  /\ timer[t] \in Timers /\ (timer[t].kind = "none" => timer[t] = NoTimer)
         /\ status[t] = "paused" => timer[t].kind \in {"none", "resume"}
BY DEF KBase, KeepAliveTypeOK, KRows

\* What a person does.
LEMMA PersonBase ==
  ASSUME KBase, NEW t \in Attempts, Cancel(t) \/ RetryTask(t) \/ ResumeTask(t)
  PROVE  KBase'
<1>1. KeepAliveTypeOK /\ KMemory /\ KRows /\ reason \in [Attempts -> {"none", "user", "superseded"}]
  BY DEF KBase, KeepAliveTypeOK
<1>2. awake /\ awake' = awake /\ swept' = swept /\ stops' = stops /\ ByHand
  BY DEF Cancel, RetryTask, ResumeTask
<1>3. armed' = armed
  BY CancelIs, RetryTaskIs, ResumeTaskIs
<1>4. Steady
  BY <1>1, <1>2, <1>3 DEF Steady, KeepAliveTypeOK, ByHand
<1>5. CASE Cancel(t)
  <2>1. Ends(t, "cancelled", text[t], timer[t], retries) /\ status[t] # "absent"
    BY <1>5, CancelIs
  <2>2. /\ reason' \in [Attempts -> {"none", "user", "superseded"}]
        /\ \A u \in Attempts \ {t} : reason'[u] = reason[u]
        /\ reason'[t] # "none"
    BY <1>1, <1>5 DEF Cancel
  <2>3. text' = text
    BY <1>1, <2>1 DEF Ends, KeepAliveTypeOK
  <2>4. \A u : CountIn(u)' = CountIn(u)
    BY <2>3 DEF CountIn
  <2>5. retries > 0 => \E u \in Attempts : CountIn(u)' >= retries
    BY <1>1, <2>4 DEF KMemory
  <2>6. text[t] \in Texts /\ retries \in 0..MaxRetries
    BY <1>1 DEF KeepAliveTypeOK
  <2> QED
    BY <1>4, <2>1, <2>2, <2>5, <2>6, TimerType, EndsBase
<1>6. CASE RetryTask(t)
  <2>1. PICK c \in Attempts, s \in {"live", "failed"} : Begins(t, c, s, timer[t], status[t])
    BY <1>6, RetryTaskIs
  <2>2. status[t] \in {"blocked", "failed", "cancelled"} /\ reason' = reason
    BY <1>6 DEF RetryTask
  <2>3. status[t] = "cancelled" => reason'[t] # "none"
    BY <1>1, <2>2 DEF KRows
  <2> QED
    BY <1>1, <1>4, <2>1, <2>2, <2>3, TimerType, BeginsBase
<1>7. CASE ResumeTask(t)
  <2>1. status[t] = "paused" /\ Resumed(t, timer[t])
    BY <1>7, ResumeTaskIs DEF ResumeTask
  <2> QED
    BY <1>4, <2>1, TimerType, ResumedBase
<1> QED
  BY <1>5, <1>6, <1>7

\* A row is continued, or handed over again.
LEMMA ResubmittedBase ==
  ASSUME KBase, NEW t \in Attempts, status[t] \notin {"absent", "live"}, NEW charge \in Nat,
         Resubmitted(t, charge), awake, Calm
  PROVE  KBase'
<1>1. /\ KeepAliveTypeOK /\ KRows /\ reason \in [Attempts -> {"none", "user", "superseded"}]
      /\ retries \in 0..MaxRetries /\ awake' = awake /\ swept' \in BOOLEAN /\ UNCHANGED <<reason, hands, stops>>
  BY DEF KBase, KeepAliveTypeOK, Calm
<1>2. CASE Handed(t, retries, TRUE)
  BY <1>1, <1>2, HandedBase
<1>3. ASSUME NEW c \in Attempts, NEW s \in {"live", "failed"}, Begins(t, c, s, NoTimer, status[t]),
             armed' = armed, charged' = IF hands = 0 THEN charged + charge ELSE 0
      PROVE  KBase'
  <2>1. Steady
    BY <1>1, <1>3 DEF Steady, KeepAliveTypeOK
  <2>2. status[t] = "cancelled" => reason'[t] # "none"
    BY <1>1 DEF KRows
  <2> QED
    BY <1>1, <1>3, <2>1, <2>2, NoneTypes, BeginsBase
<1> QED
  BY <1>2, <1>3 DEF Resubmitted

\* The timers.
LEMMA DueBase ==
  ASSUME KBase, NEW t \in Attempts, Due(t)
  PROVE  KBase'
<1>1. KeepAliveTypeOK /\ KMemory /\ retries \in 0..MaxRetries
  BY DEF KBase, KeepAliveTypeOK
<1>2. awake /\ timer[t].kind # "none" /\ UNCHANGED <<awake, swept, hands, stops>>
  BY RetryDueIs, BudgetDueIs, RearmDueIs, ResumeDueIs DEF Due, Calm
<1>3. /\ status[t] \notin {"absent", "live"} /\ timer[t].attempt \in 0..MaxRetries
      /\ timer[t].spend \in BOOLEAN
  BY <1>2, TimersOf
<1>4. awake' = awake /\ swept' \in BOOLEAN
  BY <1>1, <1>2 DEF KeepAliveTypeOK
<1>5. ASSUME NEW n \in {0, retries}, Sets(t, NoTimer, n), armed' = armed, charged' = charged
      PROVE  KBase'
  <2>1. Steady
    BY <1>1, <1>2, <1>5 DEF Steady, KeepAliveTypeOK, KMemory
  <2>2. n \in 0..MaxRetries /\ (n > 0 => \E u \in Attempts : CountIn(u) >= n)
    BY <1>1, KeepAliveAssumption DEF KMemory
  <2> QED
    BY <1>3, <1>5, <2>1, <2>2, NoneTypes, SetsBase
<1>6. CASE RetryDue(t)
  <2>0. Calm /\ reason' = reason
    BY <1>6, RetryDueIs DEF Calm
  <2>1. CASE Handed(t, timer[t].attempt, timer[t].spend)
    BY <1>2, <1>3, <1>4, <2>0, <2>1, HandedBase
  <2>2. CASE Drops(t, 0) \/ Drops(t, retries)
    BY <1>5, <2>2 DEF Drops
  <2>3. CASE Resubmitted(t, IF timer[t].spend THEN 1 ELSE 0)
    BY <1>2, <1>3, <2>0, <2>3, ResubmittedBase
  <2> QED
    BY <1>6, <2>1, <2>2, <2>3, RetryDueIs
<1>7. CASE BudgetDue(t)
  <2>0. Calm /\ reason' = reason
    BY <1>7, BudgetDueIs DEF Calm
  <2>1. CASE Handed(t, retries, TRUE)
    BY <1>1, <1>2, <1>3, <1>4, <2>0, <2>1, HandedBase
  <2>2. CASE Resubmitted(t, 0)
    BY <1>2, <1>3, <2>0, <2>2, ResubmittedBase
  <2> QED
    BY <1>7, <2>1, <2>2, BudgetDueIs
<1>8. CASE RearmDue(t)
  <2>1. Calm /\ reason' = reason /\ Handed(t, retries, FALSE)
    BY <1>8, RearmDueIs DEF Calm
  <2> QED
    BY <1>1, <1>2, <1>3, <1>4, <2>1, HandedBase
<1>9. CASE ResumeDue(t)
  <2>1. /\ UNCHANGED <<awake, swept, hands, charged, stops>> /\ armed' = armed
        /\ Sets(t, NoTimer, retries) \/ (status[t] = "paused" /\ Resumed(t, NoTimer))
    BY <1>9, ResumeDueIs
  <2>2. Steady
    BY <1>1, <1>2, <2>1 DEF Steady, KeepAliveTypeOK, KMemory
  <2> QED
    BY <1>5, <2>1, <2>2, NoneTypes, ResumedBase
<1> QED
  BY <1>6, <1>7, <1>8, <1>9 DEF Due

\* The sweep.
LEMMA SweepBase == KBase /\ Sweep => KBase'
<1> SUFFICES ASSUME KBase, Sweep PROVE KBase'
  OBVIOUS
<1>1. KeepAliveTypeOK /\ KMemory /\ retries \in 0..MaxRetries
  BY DEF KBase, KeepAliveTypeOK
<1>2. awake /\ swept' = TRUE /\ UNCHANGED <<awake, hands, stops>> /\ armed' = {}
  BY SweepIs
<1>3. \A k \in {"rearm", "resume"} : Soon(k) \in Timers /\ Soon(k).kind = k
  BY NoneTypes DEF Soon, Timers, NoTimer
<1>4. ASSUME charged' = charged PROVE Steady
  BY <1>1, <1>2, <1>4 DEF Steady, KeepAliveTypeOK, KMemory
<1>5. ASSUME NEW t \in Attempts, SweepRearms(t)
      PROVE  KBase'
  <2>1. status[t] = "blocked" /\ reason' = reason
    BY <1>5 DEF SweepRearms, Chosen, Orphaned
  <2>2. Restored(t) \in 0..MaxRetries /\ (Restored(t) > 0 => \E u \in Attempts : CountIn(u) >= Restored(t))
    BY RestoredIs
  <2>3. CASE Handed(t, Restored(t), FALSE)
    BY <1>2, <2>1, <2>2, <2>3, HandedBase
  <2>4. CASE Sets(t, Soon("rearm"), Restored(t)) /\ charged' = charged
    BY <1>3, <1>4, <2>1, <2>2, <2>4, SetsBase
  <2> QED
    BY <1>5, <2>3, <2>4 DEF SweepRearms
<1>6. ASSUME NEW t \in Attempts, SweepResumes(t), charged' = charged
      PROVE  KBase'
  <2>1. status[t] = "paused" /\ Steady
    BY <1>4, <1>6 DEF SweepResumes
  <2>2. retries > 0 => \E u \in Attempts : CountIn(u) >= retries
    BY <1>1 DEF KMemory
  <2>3. CASE Sets(t, timer[t], retries)
    BY <1>1, <2>1, <2>2, <2>3, TimerType, SetsBase
  <2>4. CASE Sets(t, Soon("resume"), retries)
    BY <1>1, <1>3, <2>1, <2>2, <2>4, SetsBase
  <2>5. CASE Resumed(t, timer[t])
    BY <2>1, <2>5, TimerType, ResumedBase
  <2> QED
    BY <1>6, <2>3, <2>4, <2>5 DEF SweepResumes
<1>7. CASE charged' = charged /\ SweepRests
  <2>1. /\ status' = status /\ parent' = parent /\ reason' = reason /\ text' = text /\ recent' = recent
        /\ retries' = retries /\ timer' = timer
    BY <1>7 DEF SweepRests, rows
  <2>2. \A u : CountIn(u)' = CountIn(u)
    BY <2>1 DEF CountIn
  <2>3. Steady
    BY <1>4, <1>7
  <2>4. KeepAliveTypeOK'
    BY <1>1, <2>1, <2>3 DEF KeepAliveTypeOK, Steady
  <2>5. KTree' /\ KRows'
    BY <2>1 DEF KBase, KTree, KRows
  <2>6. KMemory'
    BY <1>1, <2>1, <2>2, <2>3 DEF KMemory, Steady
  <2> QED
    BY <2>4, <2>5, <2>6 DEF KBase
<1> QED
  BY <1>5, <1>6, <1>7, SweepIs

\* Every step leaves rows and memory in order.
LEMMA KBaseNext == KBase /\ [KeepAliveNext]_kvars => KBase'
BY ActsBase, PersonBase, DueBase, SweepBase, CrashBase, ExitBase, BootBase, KBaseSame DEF KeepAliveNext

-----------------------------------------------------------------------------
(* The appointments.                                                          *)

\* The newest row of the next state.
LEMMA TipIsNext == KBase' => (Tip \in Rows /\ \A u \in Rows : u <= Tip)'
<1>1. KBase => Tip \in Rows /\ \A u \in Rows : u <= Tip
  BY TipIs
<1> QED
  BY <1>1, PTL

\* When no row comes and none is continued, the lineage stays as it is.
LEMMA SameTree ==
  ASSUME KBase, KBase', parent' = parent,
         \A u \in Attempts : status'[u] = "absent" <=> status[u] = "absent"
  PROVE  /\ Rows' = Rows /\ Tip' = Tip /\ Tip \in Attempts /\ \A t \in Attempts : Ancestors(t)' = Ancestors(t)
<1>1. Rows' = Rows
  BY DEF Rows
<1>2. Tip' = Tip
  <2>1. Tip \in Rows /\ Tip' \in Rows /\ \A u \in Rows : u <= Tip /\ u <= Tip'
    BY <1>1, TipIs, TipIsNext
  <2> QED
    BY <2>1, KeepAliveAssumption DEF Rows, Attempts
<1>3. parent' \in [Attempts -> Attempts \cup {NoAttempt}]
  BY DEF KBase, KeepAliveTypeOK
<1>4. \A t \in Attempts : t < MaxRows + 1 /\ MaxRows + 1 \in Nat
  BY KeepAliveAssumption DEF Attempts
<1>5. \A t \in Attempts : Ancestors(t)' = Ancestors(t)
  BY <1>3, <1>4, AncestorsKept
<1> QED
  BY <1>1, <1>2, <1>5, TipIs DEF Rows

\* When row c comes, it is the newest, and it continues p.
LEMMA NewRow ==
  ASSUME KBase, KBase', NEW p \in Attempts, NEW c \in Attempts, NEW s, NEW tm, NEW old,
         Begins(p, c, s, tm, old), status[p] # "absent", old # "absent"
  PROVE  /\ Rows' = Rows \cup {c} /\ c \notin Rows /\ Tip' = c /\ \A u \in Rows : u < c
         /\ \A t \in Rows : Ancestors(t)' = Ancestors(t)
         /\ Ancestors(c)' = {p} \cup Ancestors(p)
         /\ parent'[c] = p /\ \A u \in Rows : parent'[u] = parent[u]
<1>1. /\ status' = [status EXCEPT ![c] = s, ![p] = old] /\ parent' = [parent EXCEPT ![c] = p]
      /\ s \in {"live", "failed"} /\ c # p /\ status[c] = "absent"
      /\ \A u \in Attempts : u < c => status[u] # "absent"
  BY DEF Begins, Fresh
<1>2. KeepAliveTypeOK /\ KTree /\ parent' \in [Attempts -> Attempts \cup {NoAttempt}]
  BY DEF KBase, KeepAliveTypeOK
<1>3. Rows' = Rows \cup {c} /\ c \notin Rows
  BY <1>1, <1>2 DEF Rows, KeepAliveTypeOK
<1>4. \A u \in Rows : u < c
  BY <1>1, <1>2, KeepAliveAssumption DEF Rows, KTree, Attempts
<1>5. Tip' = c
  <2>1. Tip' \in Rows' /\ \A u \in Rows' : u <= Tip'
    BY TipIsNext
  <2> QED
    BY <1>3, <1>4, <2>1, KeepAliveAssumption DEF Rows, Attempts
<1>6. parent'[c] = p /\ \A u \in Attempts : u # c => parent'[u] = parent[u]
  BY <1>1, <1>2 DEF KeepAliveTypeOK
<1>7. c \in Nat /\ \A u \in Attempts : u < c => u # c
  BY KeepAliveAssumption DEF Attempts
<1>8. \A t \in Rows : t \in Attempts /\ Ancestors(t)' = Ancestors(t)
  BY <1>2, <1>4, <1>6, <1>7, AncestorsKept DEF Rows
<1>9. Ancestors(c)' = {p} \cup Ancestors(p)'
  <2>1. Step'
    BY <1>2, AncestorsStepNext
  <2>2. parent'[c] # NoAttempt
    BY <1>6, KeepAliveAssumption DEF Attempts, NoAttempt
  <2> QED
    BY <1>6, <2>1, <2>2 DEF Step
<1>10. p \in Rows
  BY DEF Rows
<1> QED
  BY <1>3, <1>4, <1>5, <1>6, <1>8, <1>9, <1>10

\* Why a promise stands although nothing runs.
Kept ==
  \/ LiveRows # {}
  \/ \E t \in Attempts : timer[t].kind \notin {"none", "resume"}
  \/ \E t \in Rows : status[t] = "cancelled" /\ reason[t] = "user"
  \/ \E t \in Rows \ (Ancestors(Tip) \cup {Tip}) : status[t] \in {"completed", "failed"}
  \/ \E u \in Rows : <<u, Tip>> \in recent /\ text[u].kind \in {"stop", "ask"}

\* A promise stands for one of these reasons.
LEMMA AppointedIs == KAppointed = (awake /\ (swept \/ Tip \in armed) /\ Promised(Tip) => Kept)
BY DEF KAppointed, Kept

\* Nothing that keeps a promise goes.
LEMMA KeptStays ==
  ASSUME KBase, KBase', KAppointed, awake, parent' = parent, text' = text, recent' = recent,
         \A u \in Attempts : status'[u] = status[u] \/ (status[u] = "paused" /\ status'[u] = "cancelled"),
         \A u \in Attempts : timer[u].kind \notin {"none", "resume"} => timer'[u] = timer[u],
         \A u \in Attempts : status[u] = "cancelled" => reason'[u] = reason[u],
         swept' \/ Tip \in armed' => swept \/ Tip \in armed \/ ~Promised(Tip)
  PROVE  KAppointed'
<1>1. \A u \in Attempts : status'[u] = "absent" <=> status[u] = "absent"
  OBVIOUS
<1>2. Rows' = Rows /\ Tip' = Tip /\ Tip \in Attempts /\ \A t \in Attempts : Ancestors(t)' = Ancestors(t)
  BY <1>1, SameTree
<1> SUFFICES ASSUME (awake /\ (swept \/ Tip \in armed) /\ Promised(Tip))' PROVE Kept'
  BY AppointedIs, Zenon DEF KAppointed, Kept
<1>3. Promised(Tip)
  BY <1>2 DEF Promised
<1>4. Kept
  BY <1>2, <1>3, AppointedIs
<1>5. CASE LiveRows # {}
  BY <1>5 DEF Kept, LiveRows
<1>6. CASE \E t \in Attempts : timer[t].kind \notin {"none", "resume"}
  BY <1>6 DEF Kept
<1>7. CASE \E t \in Rows : status[t] = "cancelled" /\ reason[t] = "user"
  BY <1>2, <1>7 DEF Kept, Rows
<1>8. CASE \E t \in Rows \ (Ancestors(Tip) \cup {Tip}) : status[t] \in {"completed", "failed"}
  BY <1>2, <1>8 DEF Kept, Rows
<1>9. CASE \E u \in Rows : <<u, Tip>> \in recent /\ text[u].kind \in {"stop", "ask"}
  BY <1>2, <1>9 DEF Kept
<1> QED
  BY <1>4, <1>5, <1>6, <1>7, <1>8, <1>9 DEF Kept

\* A row that ends: it is handed over, asks, or is done.
LEMMA EndsKept ==
  ASSUME KBase, KBase', NEW t \in Attempts, status[t] # "absent", NEW s, s # "absent", NEW x, NEW tm, NEW n,
         Ends(t, s, x, tm, n),
         \/ tm.kind \in {"retry", "budget"}
         \/ s = "blocked" /\ x.kind \in {"stop", "ask"}
         \/ status[t] = "live" /\ s \in {"completed", "failed"}
         \/ s = "cancelled" /\ reason'[t] = "user"
  PROVE  KAppointed'
<1>1. KeepAliveTypeOK /\ KTree
  BY DEF KBase
<1>2. /\ \A u \in Attempts : u # t => status'[u] = status[u] /\ text'[u] = text[u] /\ timer'[u] = timer[u]
      /\ status'[t] = s /\ text'[t] = x /\ timer'[t] = tm /\ parent' = parent
  BY <1>1 DEF KeepAliveTypeOK, Ends
<1>3. \A u \in Attempts : status'[u] = "absent" <=> status[u] = "absent"
  BY <1>2
<1>4. Rows' = Rows /\ Tip' = Tip /\ Tip \in Attempts /\ \A u \in Attempts : Ancestors(u)' = Ancestors(u)
  BY <1>2, <1>3, SameTree
<1>5. t \in Rows
  BY DEF Rows
<1> SUFFICES ASSUME Promised(Tip)' PROVE Kept'
  BY AppointedIs, Zenon DEF KAppointed, Kept
<1>6. status'[Tip] = "blocked" /\ text'[Tip].kind \in {"retry", "carry", "budget"}
  BY <1>4 DEF Promised
<1>7. CASE tm.kind \in {"retry", "budget"}
  BY <1>2, <1>7 DEF Kept
<1>8. CASE s = "blocked" /\ x.kind \in {"stop", "ask"}
  <2>1. Tip # t /\ status[Tip] = "blocked"
    BY <1>2, <1>4, <1>6, <1>8
  <2>2. <<t, Tip>> \in recent'
    BY <1>4, <1>8, <2>1 DEF Ends
  <2> QED
    BY <1>2, <1>4, <1>5, <1>8, <2>2 DEF Kept
<1>9. CASE status[t] = "live" /\ s \in {"completed", "failed"}
  <2>1. Tip # t
    BY <1>2, <1>6, <1>9
  <2>2. t \notin Ancestors(Tip)
    <3>1. ASSUME t \in Ancestors(Tip) PROVE FALSE
      <4>1. PICK d \in Attempts : parent[d] = t
        BY <1>4, <3>1, AncestorsAreParents
      <4> QED
        BY <1>1, <1>9, <4>1, KeepAliveAssumption DEF KTree, Attempts, NoAttempt
    <3> QED
      BY <3>1
  <2> QED
    BY <1>2, <1>4, <1>5, <1>9, <2>1, <2>2 DEF Kept
<1>10. CASE s = "cancelled" /\ reason'[t] = "user"
  BY <1>2, <1>4, <1>5, <1>10 DEF Kept
<1> QED
  BY <1>7, <1>8, <1>9, <1>10

\* A row that is handed over has a timer, or asks for a person.
LEMMA HandedKept ==
  ASSUME KBase, KBase', NEW t \in Attempts, status[t] # "absent", NEW n \in 0..MaxRetries, NEW spend \in BOOLEAN,
         Handed(t, n, spend)
  PROVE  KAppointed'
<1>1. PICK x, tm, k : Outcome(t, n, spend, x, tm, k) /\ Ends(t, "blocked", x, tm, k)
  BY DEF Handed
<1>2. tm.kind \in {"none", "retry", "budget"} /\ (tm.kind = "none" => x.kind = "stop")
  BY <1>1, OutcomeIs DEF KBase
<1> QED
  BY <1>1, <1>2, EndsKept

\* A new row runs, or has failed and promises nothing.
LEMMA BeginsKept ==
  ASSUME KBase, KBase', NEW p \in Attempts, NEW c \in Attempts, NEW s, NEW tm, NEW old,
         Begins(p, c, s, tm, old), status[p] # "absent", old # "absent"
  PROVE  KAppointed'
<1>1. Tip' = c
  BY NewRow
<1>2. status'[c] = s /\ s \in {"live", "failed"}
  BY DEF Begins, Fresh, KBase, KeepAliveTypeOK
<1> SUFFICES ASSUME Promised(Tip)' PROVE Kept'
  BY AppointedIs, Zenon DEF KAppointed, Kept
<1> QED
  BY <1>1, <1>2 DEF Promised

\* A parked row is resumed.
LEMMA ResumedKept ==
  ASSUME KBase, KBase', KAppointed, awake, NEW t \in Attempts, NEW tm, Resumed(t, tm), status[t] = "paused",
         timer[t].kind \in {"none", "resume"} \/ tm = timer[t],
         swept' \/ Tip \in armed' => swept \/ Tip \in armed \/ ~Promised(Tip)
  PROVE  KAppointed'
<1>1. CASE Retires(t, tm)
  <2>1. /\ parent' = parent /\ text' = text /\ recent' = recent
        /\ \A u \in Attempts : status'[u] = status[u] \/ (status[u] = "paused" /\ status'[u] = "cancelled")
        /\ \A u \in Attempts : timer[u].kind \notin {"none", "resume"} => timer'[u] = timer[u]
        /\ \A u \in Attempts : status[u] = "cancelled" => reason'[u] = reason[u]
    BY <1>1 DEF Retires, KBase, KeepAliveTypeOK
  <2> QED
    BY <2>1, KeptStays
<1>2. CASE \E c \in Attempts : Begins(t, c, "failed", tm, "paused")
  BY <1>2, BeginsKept
<1>3. CASE \E c \in Attempts : Begins(t, c, "live", tm, "cancelled")
  BY <1>3, BeginsKept
<1> QED
  BY <1>1, <1>2, <1>3 DEF Resumed

\* A timer goes off in vain, or one is set.
LEMMA SetsKept ==
  ASSUME KBase, KBase', KAppointed, awake, NEW t \in Attempts, NEW tm, NEW n, Sets(t, tm, n),
         timer[t].kind \in {"none", "resume"} \/ tm = timer[t],
         swept' \/ Tip \in armed' => swept \/ Tip \in armed \/ ~Promised(Tip)
  PROVE  KAppointed'
<1>1. /\ parent' = parent /\ text' = text /\ recent' = recent /\ status' = status /\ reason' = reason
      /\ \A u \in Attempts : timer[u].kind \notin {"none", "resume"} => timer'[u] = timer[u]
  BY DEF Sets, rows, KBase, KeepAliveTypeOK
<1> QED
  BY <1>1, KeptStays

\* A timer set on a row keeps every promise.
LEMMA TimerKeeps ==
  ASSUME NEW t \in Attempts, timer'[t].kind \notin {"none", "resume"}
  PROVE  KAppointed'
BY DEF KAppointed

\* A due retry is dropped only for a reason that stands.
LEMMA DropsKept ==
  ASSUME KBase, KBase', NEW t \in Attempts, NEW n, Drops(t, n), LineageCancelled(t) \/ Continued(t)
  PROVE  KAppointed'
<1>1. status' = status /\ parent' = parent /\ text' = text /\ recent' = recent /\ reason' = reason
  BY DEF Drops, Sets, rows
<1>2. Rows' = Rows /\ Tip' = Tip
  BY <1>1, SameTree
<1> SUFFICES ASSUME Promised(Tip)' PROVE Kept'
  BY AppointedIs, Zenon DEF KAppointed, Kept
<1>3. CASE Continued(t)
  BY <1>1, <1>3 DEF Continued, Kept, LiveRows
<1>4. CASE LineageCancelled(t)
  <2>1. status[Tip] # "cancelled"
    BY <1>1, <1>2 DEF Promised
  <2>2. PICK a \in Ancestors(t) : status[a] = "cancelled" /\ reason[a] # "superseded"
    BY <1>4, <2>1 DEF LineageCancelled
  <2>3. a \in Attempts
    BY AncestorsAreParents
  <2>4. reason[a] = "user" /\ a \in Rows
    BY <2>2, <2>3 DEF KBase, KRows, KeepAliveTypeOK, Rows
  <2> QED
    BY <1>1, <1>2, <2>2, <2>4 DEF Kept
<1> QED
  BY <1>3, <1>4

\* A row is continued, or handed over again.
LEMMA ResubmittedKept ==
  ASSUME KBase, KBase', NEW t \in Attempts, status[t] # "absent", NEW charge, Resubmitted(t, charge)
  PROVE  KAppointed'
<1>1. retries \in 0..MaxRetries
  BY DEF KBase, KeepAliveTypeOK
<1>2. CASE Handed(t, retries, TRUE)
  BY <1>1, <1>2, HandedKept
<1>3. CASE \E c \in Attempts, s \in {"live", "failed"} : Begins(t, c, s, NoTimer, status[t])
  BY <1>3, BeginsKept
<1> QED
  BY <1>2, <1>3 DEF Resubmitted

\* The ends of a run.
LEMMA ActsKept ==
  ASSUME KBase, KBase', NEW t \in Attempts, Completes(t) \/ Fails(t) \/ AsksPerson(t)
  PROVE  KAppointed'
<1>1. status[t] = "live" /\ retries \in 0..MaxRetries
  BY DEF Completes, Fails, AsksPerson, KBase, KeepAliveTypeOK
<1>2. CASE Completes(t)
  BY <1>1, <1>2, CompletesIs, EndsKept
<1>3. CASE Fails(t)
  BY <1>1, <1>3, FailsIs, HandedKept, EndsKept
<1>4. CASE AsksPerson(t)
  <2>1. PICK s \in {"blocked", "failed"} : Ends(t, s, [kind |-> "ask", n |-> 0], NoTimer, retries)
    BY <1>4, AsksIs
  <2> QED
    BY <1>1, <2>1, EndsKept
<1> QED
  BY <1>2, <1>3, <1>4

\* What a person does.
LEMMA PersonKept ==
  ASSUME KBase, KBase', KAppointed, NEW t \in Attempts, Cancel(t) \/ RetryTask(t) \/ ResumeTask(t)
  PROVE  KAppointed'
<1>1. awake /\ swept' = swept /\ armed' = armed
  BY CancelIs, RetryTaskIs, ResumeTaskIs DEF Cancel, RetryTask, ResumeTask
<1>2. CASE Cancel(t)
  <2>1. reason'[t] = "user"
    BY <1>2 DEF Cancel, KBase, KeepAliveTypeOK
  <2> QED
    BY <1>2, <2>1, CancelIs, EndsKept
<1>3. CASE RetryTask(t)
  <2>1. PICK c \in Attempts, s \in {"live", "failed"} : Begins(t, c, s, timer[t], status[t])
    BY <1>3, RetryTaskIs
  <2>2. status[t] # "absent"
    BY <1>3 DEF RetryTask
  <2> QED
    BY <2>1, <2>2, BeginsKept
<1>4. CASE ResumeTask(t)
  <2>1. Resumed(t, timer[t]) /\ status[t] = "paused"
    BY <1>4, ResumeTaskIs DEF ResumeTask
  <2>2. swept' \/ Tip \in armed' => swept \/ Tip \in armed \/ ~Promised(Tip)
    BY <1>1
  <2> QED
    BY <1>1, <2>1, <2>2, ResumedKept
<1> QED
  BY <1>2, <1>3, <1>4

\* The timers.
LEMMA DueKept ==
  ASSUME KBase, KBase', KAppointed, NEW t \in Attempts, Due(t)
  PROVE  KAppointed'
<1>1. awake /\ timer[t].kind # "none" /\ UNCHANGED <<awake, swept, hands, stops>>
  BY RetryDueIs, BudgetDueIs, RearmDueIs, ResumeDueIs DEF Due, Calm
<1>2. /\ status[t] \notin {"absent", "live"} /\ timer[t].attempt \in 0..MaxRetries
      /\ timer[t].spend \in BOOLEAN /\ retries \in 0..MaxRetries
  BY <1>1, TimersOf DEF KBase, KeepAliveTypeOK
<1>3. CASE RetryDue(t)
  <2>1. CASE Handed(t, timer[t].attempt, timer[t].spend)
    BY <1>2, <2>1, HandedKept
  <2>2. CASE LineageCancelled(t) /\ Drops(t, 0)
    BY <2>2, DropsKept
  <2>3. CASE Continued(t) /\ Drops(t, retries)
    BY <2>3, DropsKept
  <2>4. CASE Resubmitted(t, IF timer[t].spend THEN 1 ELSE 0)
    BY <1>2, <2>4, ResubmittedKept
  <2> QED
    BY <1>3, <2>1, <2>2, <2>3, <2>4, RetryDueIs
<1>4. CASE BudgetDue(t)
  BY <1>2, <1>4, BudgetDueIs, HandedKept, ResubmittedKept
<1>5. CASE RearmDue(t)
  BY <1>2, <1>5, RearmDueIs, HandedKept
<1>6. CASE ResumeDue(t)
  <2>1. /\ timer[t].kind = "resume" /\ armed' = armed
        /\ Sets(t, NoTimer, retries) \/ (status[t] = "paused" /\ Resumed(t, NoTimer))
    BY <1>6, ResumeDueIs
  <2>2. swept' \/ Tip \in armed' => swept \/ Tip \in armed \/ ~Promised(Tip)
    BY <1>1, <2>1
  <2> QED
    BY <1>1, <2>1, <2>2, ResumedKept, SetsKept
<1> QED
  BY <1>3, <1>4, <1>5, <1>6 DEF Due

\* The sweep.
LEMMA SweepKept ==
  ASSUME KBase, KBase', KAppointed, Sweep
  PROVE  KAppointed'
<1>1. awake
  BY SweepIs
<1>2. ASSUME \A u \in Attempts : ~Orphaned(u)
      PROVE  Tip \in armed \/ ~Promised(Tip)
  <2>1. Tip \in Attempts
    BY TipIs DEF Rows
  <2> QED
    BY <1>2, <2>1 DEF Orphaned, Promised
<1>3. ASSUME NEW t \in Attempts, SweepRearms(t)
      PROVE  KAppointed'
  <2>1. status[t] # "absent" /\ Restored(t) \in 0..MaxRetries
    BY <1>3, RestoredIs DEF SweepRearms, Chosen, Orphaned
  <2>2. CASE Handed(t, Restored(t), FALSE)
    BY <2>1, <2>2, HandedKept
  <2>3. CASE Sets(t, Soon("rearm"), Restored(t))
    <3>1. timer'[t].kind = "rearm"
      BY <2>3 DEF Sets, Soon, NoTimer, KBase, KeepAliveTypeOK
    <3> QED
      BY <3>1, TimerKeeps
  <2> QED
    BY <1>3, <2>2, <2>3 DEF SweepRearms
<1>4. ASSUME NEW t \in Attempts, SweepResumes(t)
      PROVE  KAppointed'
  <2>1. status[t] = "paused" /\ (Tip \in armed \/ ~Promised(Tip))
    BY <1>2, <1>4 DEF SweepResumes
  <2>2. CASE Sets(t, timer[t], retries)
    BY <1>1, <2>1, <2>2, SetsKept
  <2>3. CASE Sets(t, Soon("resume"), retries)
    <3>1. timer[t].kind \in {"none", "resume"}
      BY <2>1, TimerType
    <3> QED
      BY <1>1, <2>1, <2>3, <3>1, SetsKept
  <2>4. CASE Resumed(t, timer[t])
    BY <1>1, <2>1, <2>4, ResumedKept
  <2> QED
    BY <1>4, <2>2, <2>3, <2>4 DEF SweepResumes
<1>5. CASE SweepRests
  <2>1. /\ parent' = parent /\ text' = text /\ recent' = recent /\ status' = status /\ reason' = reason
        /\ timer' = timer /\ (Tip \in armed \/ ~Promised(Tip))
    BY <1>2, <1>5 DEF SweepRests, rows
  <2> QED
    BY <1>1, <2>1, KeptStays
<1> QED
  BY <1>3, <1>4, <1>5, SweepIs

\* Every step keeps the appointments.
LEMMA KAppointedNext == KBase /\ KBase' /\ KAppointed /\ [KeepAliveNext]_kvars => KAppointed'
<1> SUFFICES ASSUME KBase, KBase', KAppointed, [KeepAliveNext]_kvars
             PROVE  KAppointed'
  OBVIOUS
<1>1. CASE Crash \/ Exit
  BY <1>1 DEF Crash, Exit, Forget, KAppointed
<1>2. CASE Boot
  <2>1. swept' = FALSE /\ armed' = {}
    BY <1>2 DEF Boot, mem, KBase, KMemory
  <2> QED
    BY <2>1 DEF KAppointed
<1>3. CASE UNCHANGED kvars
  <2>1. /\ status' = status /\ parent' = parent /\ reason' = reason /\ text' = text /\ recent' = recent
        /\ awake' = awake /\ swept' = swept /\ armed' = armed /\ timer' = timer
    BY <1>3 DEF kvars, rows, mem
  <2>2. CASE awake
    BY <2>1, <2>2, KeptStays
  <2>3. CASE ~awake
    BY <2>1, <2>3 DEF KAppointed
  <2> QED
    BY <2>2, <2>3
<1> QED
  BY <1>1, <1>2, <1>3, ActsKept, PersonKept, DueKept, SweepKept DEF KeepAliveNext

\* The state of a mission's keep-alive is of its types: no row, text, timer or
\* count is ever outside of what the executor keeps.
THEOREM MissionTyped == KeepAliveSpec => []KeepAliveTypeOK
<1>1. KBase => KeepAliveTypeOK
  BY DEF KBase
<1> QED
  BY <1>1, KBaseInit, KBaseNext, PTL DEF KeepAliveSpec

\* Nothing on the keep-alive's paths ends without another appointment
\* (scheduleMissionKeepAlive, the timers' resubmissions, the sweep): a mission that
\* promises a retry while nothing of it runs has a timer, or one of the reasons
\* Appointed names, whatever fails, stops or restarts, and whatever a person does.
THEOREM NothingIsForgotten == KeepAliveSpec => []Appointed
<1>1. KeepAliveInit => KAppointed
  <2>1. ASSUME KeepAliveInit PROVE LiveRows # {}
    <3>1. 1 \in Attempts
      BY KeepAliveAssumption DEF Attempts
    <3>2. status[1] = "live"
      BY <2>1, <3>1 DEF KeepAliveInit
    <3> QED
      BY <3>1, <3>2 DEF LiveRows
  <2> QED
    BY <2>1 DEF KAppointed
<1>2. KBase /\ KAppointed => Appointed
  <2> SUFFICES ASSUME KBase, KAppointed PROVE Appointed
    OBVIOUS
  <2>1. \A t \in Attempts : timer[t].kind \notin {"none", "resume"} => timer[t] # NoTimer
    BY DEF NoTimer
  <2> QED
    BY <2>1 DEF KAppointed, Appointed, Promised
<1> QED
  BY <1>1, <1>2, KBaseInit, KBaseNext, KAppointedNext, PTL DEF KeepAliveSpec

-----------------------------------------------------------------------------
(* A mission left to itself.                                                  *)

\* What KAlone says of such a mission.
KAll == KOne /\ KLive /\ KTimers /\ KPaused /\ KCount /\ KSweep

\* KAlone and KAll say the same of a mission left to itself.
LEMMA AloneIs == KAlone = (hands = 0 /\ ~WentBack => KAll)
BY DEF KAlone, KAll

\* Only one row comes first among those that wait.
LEMMA ForemostIsOne ==
  ASSUME KBase, NEW x \in Attempts, NEW y \in Attempts, Foremost(x), Foremost(y)
  PROVE  x = y
<1>1. ASSUME x # y PROVE FALSE
  <2>1. <<x, y>> \in recent /\ <<y, x>> \in recent
    BY <1>1 DEF Foremost
  <2> QED
    BY <2>1 DEF KBase, KRows
<1> QED
  BY <1>1

\* The tree of a step that adds no row.
LEMMA SameRows ==
  ASSUME KBase, KBase', parent' = parent,
         \A u \in Attempts : status'[u] = "absent" <=> status[u] = "absent"
  PROVE  /\ Rows' = Rows /\ Tip' = Tip /\ Tip \in Attempts
         /\ \A u \in Attempts : Ancestors(u)' = Ancestors(u) /\ Overtaken(u)' = Overtaken(u)
         /\ WentBack' = WentBack
<1>1. Rows' = Rows /\ Tip' = Tip /\ Tip \in Attempts /\ \A u \in Attempts : Ancestors(u)' = Ancestors(u)
  BY SameTree
<1>2. \A u \in Attempts : Overtaken(u)' = Overtaken(u)
  BY <1>1 DEF Overtaken
<1>3. WentBack' = WentBack
  BY <1>1 DEF WentBack
<1> QED
  BY <1>1, <1>2, <1>3

\* What is blocked with a report stays used up.
LEMMA UsedUpStays ==
  ASSUME KBase, NEW u \in Attempts, Ancestors(u)' = Ancestors(u), UsedUp(u),
         \A a \in Attempts : text[a].kind = "stop" => text'[a] = text[a]
  PROVE  UsedUp(u)'
<1>1. PICK a \in Ancestors(u) : text[a] = [kind |-> "stop", n |-> MaxRetries]
  BY DEF UsedUp
<1>2. a \in Attempts
  BY AncestorsAreParents
<1> QED
  BY <1>1, <1>2 DEF UsedUp

\* The rows that were parked, when the row that comes first has its turn, or a row runs.
LEMMA ParkedAre ==
  ASSUME KBase, KAll, NEW t \in Attempts, status[t] = "live" \/ Foremost(t), NEW u \in Attempts, status[u] = "paused"
  PROVE  \/ Overtaken(u) \/ UsedUp(u)
         \/ Foremost(t) /\ parent[u] = t /\ ~Overtaken(t) /\ status[Tip] # "completed"
<1>1. CASE status[t] = "live"
  BY <1>1 DEF KAll, KLive, LiveRows
<1>2. CASE Foremost(t)
  <2>1. ~NoneWaits
    BY <1>2 DEF NoneWaits, Foremost
  <2>2. parent[u] # NoAttempt => parent[u] \in Attempts
    BY DEF KBase, KeepAliveTypeOK
  <2> QED
    BY <1>2, <2>1, <2>2, ForemostIsOne DEF KAll, KPaused
<1> QED
  BY <1>1, <1>2

\* A row is handed over.
LEMMA HandedAlone ==
  ASSUME KBase, KBase', KAlone, hands = 0, NEW t \in Attempts, NEW n \in 0..MaxRetries, NEW spend \in BOOLEAN,
         Handed(t, n, spend), awake, swept => swept', swept' \/ Moving(t),
         \A u \in Attempts : Moving(u) => u = t,
         status[t] = "live" \/ Foremost(t), Overtaken(t) \/ charged <= n,
         spend /\ n >= MaxRetries => status[t] = "live" \/ CountIn(t) = MaxRetries
  PROVE  KAlone'
<1>1. PICK x, tm, k :
        /\ Outcome(t, n, spend, x, tm, k) /\ Ends(t, "blocked", x, tm, k)
        /\ charged' = IF x.kind \in {"stop", "budget"} THEN 0 ELSE charged
        /\ armed' \subseteq armed \cup {t}
        /\ ~swept' => armed \subseteq armed' /\ (x.kind # "stop" => t \in armed')
  BY DEF Handed
<1>2. KeepAliveTypeOK /\ KTree /\ KRows /\ KMemory
  BY DEF KBase
<1>3. /\ \A u \in Attempts : u # t => status'[u] = status[u] /\ text'[u] = text[u] /\ timer'[u] = timer[u]
      /\ status'[t] = "blocked" /\ text'[t] = x /\ timer'[t] = tm /\ retries' = k /\ parent' = parent
      /\ recent' = Without(recent, t) \cup {t} \X {u \in Attempts \ {t} : status[u] = "blocked"}
  BY <1>1, <1>2 DEF KeepAliveTypeOK, Ends
<1>4. status[t] \in {"live", "blocked"}
  BY DEF Foremost, Waits
<1>5. /\ Rows' = Rows /\ Tip' = Tip /\ Tip \in Attempts
      /\ \A u \in Attempts : Ancestors(u)' = Ancestors(u) /\ Overtaken(u)' = Overtaken(u)
      /\ WentBack' = WentBack
  BY <1>3, <1>4, SameRows
<1>6. /\ x \in Texts /\ tm \in Timers /\ k \in 0..MaxRetries /\ tm.kind \in {"none", "retry", "budget"}
      /\ (tm.kind = "none" <=> x.kind = "stop") /\ x.kind \in {"retry", "carry", "budget", "stop"}
  BY <1>1, <1>2, OutcomeIs
<1> SUFFICES ASSUME ~WentBack' PROVE KAll'
  BY AloneIs, Zenon DEF KAlone, KAll
<1>7. KAll
  BY <1>5, AloneIs
<1>8. text[t].kind # "stop" \/ status[t] = "live"
  BY DEF Foremost, Waits
<1>9. \A a \in Attempts : text[a].kind = "stop" => text'[a] = text[a]
  BY <1>2, <1>3, <1>8 DEF KRows, NoText
<1>10. \A u \in Attempts : Moving(u)' => u = t
  BY <1>3 DEF Moving
<1>11. KOne'
  BY <1>10 DEF KOne
<1>12. KLive'
  <2>1. LiveRows' = {}
    BY <1>3, <1>10 DEF LiveRows, Moving
  <2> QED
    BY <2>1 DEF KLive
<1>13. x.kind # "stop" => Foremost(t)'
  BY <1>3, <1>6 DEF Foremost, Waits
<1>14. KTimers'
  <2>1. ASSUME NEW u \in Attempts, u # t PROVE timer'[u].kind = "none"
    BY <1>10, <2>1 DEF Moving
  <2>2. ASSUME tm.kind = "retry"
        PROVE  /\ CountIn(t)' = retries'
               /\ retries' = IF tm.spend THEN tm.attempt + 1 ELSE tm.attempt
               /\ Overtaken(t) \/ charged' <= tm.attempt
    <3>1. /\ tm.spend = spend /\ tm.attempt = n /\ k = (IF spend THEN n + 1 ELSE n)
          /\ x.n = k /\ x.kind \in {"retry", "carry"}
      BY <1>1, <2>2 DEF Outcome, Soon, NoTimer
    <3>2. CountIn(t)' = k
      BY <1>3, <3>1 DEF CountIn
    <3>3. charged' = charged
      BY <1>1, <3>1
    <3> QED
      BY <1>3, <3>1, <3>2, <3>3
  <2>3. tm.kind = "budget" => charged' = 0 /\ retries' = 0
    BY <1>1, <1>3 DEF Outcome, NoTimer
  <2>4. /\ tm.kind \in {"retry", "budget"} => Foremost(t)'
        /\ Overtaken(t)' = Overtaken(t) /\ timer'[t] = tm
    BY <1>3, <1>5, <1>6, <1>13
  <2> QED
    BY <1>6, <2>1, <2>2, <2>3, <2>4 DEF KTimers
<1>15. KPaused'
  <2>1. ASSUME NEW u \in Attempts, status'[u] = "paused"
        PROVE  \/ Overtaken(u)' \/ UsedUp(u)'
               \/ /\ parent'[u] # NoAttempt /\ (Foremost(parent[u]))' /\ ~(Overtaken(parent[u]))'
                  /\ (status[Tip])' # "completed"
    <3>1. status[u] = "paused" /\ u # t
      BY <1>3, <2>1
    <3>2. CASE Overtaken(u)
      BY <1>5, <3>2
    <3>3. CASE UsedUp(u)
      BY <1>5, <1>9, <3>3, UsedUpStays
    <3>4. CASE Foremost(t) /\ parent[u] = t /\ ~Overtaken(t) /\ status[Tip] # "completed"
      <4>1. CASE x.kind # "stop"
        <5>1. parent'[u] = t /\ t # NoAttempt
          BY <1>3, <3>4, KeepAliveAssumption DEF Attempts, NoAttempt
        <5>2. (status[Tip])' # "completed"
          BY <1>3, <1>5, <3>4
        <5> QED
          BY <1>5, <1>13, <3>4, <4>1, <5>1, <5>2
      <4>2. CASE x.kind = "stop"
        <5>1. spend /\ n >= MaxRetries /\ x = [kind |-> "stop", n |-> CountIn(t)]
          BY <1>1, <4>2 DEF Outcome
        <5>2. status[t] # "live"
          BY <3>4 DEF Foremost, Waits
        <5>3. text'[t] = [kind |-> "stop", n |-> MaxRetries]
          BY <1>3, <5>1, <5>2
        <5>4. t \in Ancestors(u)
          <6>1. Step /\ t # NoAttempt
            BY <1>2, AncestorsStep, KeepAliveAssumption DEF KeepAliveTypeOK, Attempts, NoAttempt
          <6> QED
            BY <3>4, <6>1 DEF Step
        <5> QED
          BY <1>5, <5>3, <5>4 DEF UsedUp
      <4> QED
        BY <4>1, <4>2
    <3> QED
      BY <1>7, <3>1, <3>2, <3>3, <3>4, ParkedAre
  <2> QED
    BY <1>3, <2>1 DEF KPaused
<1>16. KCount'
  <2>0. charged <= MaxRetries /\ (status[Tip] = "completed" => charged = 0) /\ charged \in Nat
    BY <1>2, <1>7 DEF KAll, KCount, KeepAliveTypeOK
  <2>1. charged' = 0 \/ (charged' = charged /\ x.kind \in {"retry", "carry"})
    BY <1>1, <1>6
  <2>2. charged' = 0 \/ (Foremost(t)' /\ Backed(t)')
    <3>1. SUFFICES ASSUME x.kind \in {"retry", "carry"}, charged' = charged PROVE Foremost(t)' /\ Backed(t)'
      BY <2>1
    <3>2. Foremost(t)'
      BY <1>13, <3>1
    <3>3. k >= n /\ x.n = k
      BY <1>1, <3>1 DEF Outcome
    <3>4. CountIn(t)' = k
      BY <1>3, <3>1, <3>3 DEF CountIn
    <3>5. Overtaken(t)' \/ charged' <= CountIn(t)'
      BY <1>5, <1>6, <2>0, <3>1, <3>3, <3>4, KeepAliveAssumption
    <3> QED
      BY <3>2, <3>5 DEF Backed
  <2>3. (status[Tip])' = "completed" => charged' = 0
    BY <1>3, <1>5, <2>0, <2>1
  <2>4. charged' <= MaxRetries
    BY <2>0, <2>1, KeepAliveAssumption
  <2> QED
    BY <2>2, <2>3, <2>4 DEF KCount
<1>17. KSweep'
  <2>1. SUFFICES ASSUME awake', ~swept'
                 PROVE  \A u \in Attempts : status'[u] # "paused" /\ (Waits(u)' => u \in armed')
    BY DEF KSweep
  <2>2. \A u \in Attempts : status[u] # "paused" /\ (Waits(u) => u \in armed)
    BY <1>7, <2>1 DEF KAll, KSweep
  <2>3. ASSUME NEW u \in Attempts, u # t PROVE status'[u] # "paused" /\ (Waits(u)' => u \in armed')
    BY <1>1, <1>3, <2>1, <2>2, <2>3 DEF Waits
  <2>4. Waits(t)' => t \in armed'
    BY <1>1, <1>3, <2>1 DEF Waits
  <2> QED
    BY <1>3, <2>3, <2>4
<1> QED
  BY <1>11, <1>12, <1>14, <1>15, <1>16, <1>17 DEF KAll

\* The counts of the next state.
LEMMA CountTypeNext == KBase' => (\A u \in Attempts : CountIn(u) \in 0..MaxRetries)'
<1>1. KBase => \A u \in Attempts : CountIn(u) \in 0..MaxRetries
  BY CountType DEF KBase
<1> QED
  BY <1>1, PTL

\* The row that comes first still does, and still backs the count, when only rows
\* that do not wait change.
LEMMA BackedStays ==
  ASSUME KBase, KBase', KAll, Rows' = Rows, charged' = charged,
         \A u \in Attempts : Ancestors(u)' = Ancestors(u) /\ Overtaken(u)' = Overtaken(u),
         \A u \in Attempts : Waits(u)' = Waits(u) /\ CountIn(u) <= CountIn(u)',
         \A u, v \in Attempts : Waits(u) /\ Waits(v) /\ <<u, v>> \in recent => <<u, v>> \in recent'
  PROVE  /\ charged' = 0 \/ \E x \in Attempts : Foremost(x)' /\ Backed(x)'
         /\ \A u \in Attempts : Foremost(u) => Foremost(u)'
         /\ NoneWaits => NoneWaits'
<1>1. \A u \in Attempts : Foremost(u) => Foremost(u)'
  BY DEF Foremost
<1>2. NoneWaits => NoneWaits'
  BY DEF NoneWaits
<1>3. ASSUME NEW x \in Attempts, Foremost(x), Backed(x)
      PROVE  Foremost(x)' /\ Backed(x)'
  <2>1. CASE Overtaken(x)
    BY <1>1, <1>3, <2>1 DEF Backed
  <2>2. CASE \E a \in Ancestors(x) \cup {x} : charged <= CountIn(a)
    <3>1. PICK a \in Ancestors(x) \cup {x} : charged <= CountIn(a)
      BY <2>2
    <3>2. a \in Attempts
      BY AncestorsAreParents
    <3>3. CountIn(a) \in 0..MaxRetries /\ CountIn(a)' \in 0..MaxRetries /\ charged \in Nat
      BY <3>2, CountType, CountTypeNext DEF KBase, KeepAliveTypeOK
    <3>4. charged' <= CountIn(a)'
      BY <3>1, <3>2, <3>3, KeepAliveAssumption
    <3>5. a \in Ancestors(x)' \cup {x}
      BY <3>1
    <3> QED
      BY <1>1, <1>3, <3>4, <3>5 DEF Backed
  <2> QED
    BY <1>3, <2>1, <2>2 DEF Backed
<1> QED
  BY <1>1, <1>2, <1>3 DEF KAll, KCount

\* A run is over, and nothing is appointed.
LEMMA RunOverAlone ==
  ASSUME KBase, KBase', KAlone, hands = 0, NEW t \in Attempts, status[t] = "live", NEW s, NEW x, NEW n,
         Ends(t, s, x, NoTimer, n), awake' = awake, swept' = swept, armed' = armed,
         \/ s = "completed" /\ charged' = 0
         \/ s = "failed" /\ charged' = 0
         \/ s \in {"blocked", "failed"} /\ x = [kind |-> "ask", n |-> 0] /\ charged' = charged
  PROVE  KAlone'
<1>1. /\ KeepAliveTypeOK /\ KTree /\ KRows /\ KMemory /\ text[t] = NoText /\ CountIn(t) = 0
      /\ charged \in Nat
  BY LiveHasNone DEF KBase, KeepAliveTypeOK
<1>2. /\ \A u \in Attempts : u # t => status'[u] = status[u] /\ text'[u] = text[u] /\ timer'[u] = timer[u]
      /\ status'[t] = s /\ text'[t] = x /\ timer'[t] = NoTimer /\ parent' = parent
      /\ \A u, v \in Attempts : u # t /\ v # t /\ <<u, v>> \in recent => <<u, v>> \in recent'
  BY <1>1 DEF KeepAliveTypeOK, Ends, Without
<1>3. /\ Rows' = Rows /\ Tip' = Tip /\ Tip \in Attempts
      /\ \A u \in Attempts : Ancestors(u)' = Ancestors(u) /\ Overtaken(u)' = Overtaken(u)
      /\ WentBack' = WentBack
  BY <1>2, SameRows
<1> SUFFICES ASSUME ~WentBack' PROVE KAll'
  BY AloneIs, Zenon DEF KAlone, KAll
<1>4. KAll
  BY <1>3, AloneIs
<1>5. \A u \in Attempts : ~(Moving(u)')
  <2>1. \A u \in Attempts : Moving(u) => u = t
    BY <1>4 DEF KAll, KOne, Moving
  <2> QED
    BY <1>2, <2>1 DEF Moving, NoTimer
<1>6. KOne'
  BY <1>5 DEF KOne
<1>7. KLive'
  <2>1. LiveRows' = {}
    BY <1>5 DEF LiveRows, Moving
  <2> QED
    BY <2>1 DEF KLive
<1>8. KTimers'
  <2>1. \A u \in Attempts : timer'[u].kind = "none"
    BY <1>5 DEF Moving
  <2> QED
    BY <2>1 DEF KTimers
<1>9. ~Waits(t) /\ ~(Waits(t)') /\ \A u \in Attempts : Waits(u)' = Waits(u)
  BY <1>2 DEF Waits
<1>10. KPaused'
  <2>1. ASSUME NEW u \in Attempts, status'[u] = "paused"
        PROVE  Overtaken(u)' \/ UsedUp(u)'
    <3>1. status[u] = "paused"
      BY <1>2, <2>1
    <3>2. Overtaken(u) \/ UsedUp(u)
      BY <1>4, <3>1 DEF KAll, KLive, LiveRows
    <3>3. \A a \in Attempts : text[a].kind = "stop" => text'[a] = text[a]
      BY <1>1, <1>2 DEF NoText
    <3> QED
      BY <1>3, <3>2, <3>3, UsedUpStays
  <2> QED
    BY <2>1 DEF KPaused
<1>11. KCount'
  <2>1. CASE charged' = 0
    BY <2>1, KeepAliveAssumption DEF KCount
  <2>2. CASE charged' = charged /\ s # "completed" /\ x = [kind |-> "ask", n |-> 0]
    <3>1. \A u \in Attempts : CountIn(u) <= CountIn(u)'
      <4>1. CountIn(t)' = 0
        BY <1>2, <2>2 DEF CountIn
      <4>2. \A u \in Attempts : CountIn(u) \in 0..MaxRetries
        BY <1>1, CountType
      <4>3. \A u \in Attempts : u # t => CountIn(u)' = CountIn(u)
        BY <1>2 DEF CountIn
      <4> QED
        BY <1>1, <4>1, <4>2, <4>3, KeepAliveAssumption
    <3>2. \A u, v \in Attempts : Waits(u) /\ Waits(v) /\ <<u, v>> \in recent => <<u, v>> \in recent'
      BY <1>2, <1>9
    <3>3. charged' = 0 \/ \E y \in Attempts : Foremost(y)' /\ Backed(y)'
      BY <1>3, <1>4, <1>9, <2>2, <3>1, <3>2, BackedStays
    <3>4. (status[Tip])' = "completed" => charged' = 0
      BY <1>2, <1>3, <1>4, <2>2 DEF KAll, KCount
    <3> QED
      BY <1>4, <2>2, <3>3, <3>4 DEF KAll, KCount
  <2> QED
    BY <2>1, <2>2
<1>12. KSweep'
  BY <1>2, <1>4, <1>9 DEF KAll, KSweep, Moving
<1> QED
  BY <1>6, <1>7, <1>8, <1>10, <1>11, <1>12 DEF KAll

\* A timer goes off in vain, or one is set.
LEMMA SetsAlone ==
  ASSUME KBase, KBase', KAlone, hands = 0, NEW t \in Attempts, status[t] # "live", NEW tm, NEW n,
         Sets(t, tm, n), awake, charged' = charged,
         swept' \/ (swept' = swept /\ armed' = armed /\ Moving(t)),
         \A u \in Attempts : Moving(u) => u = t,
         \/ tm.kind = "none"
         \/ tm.kind = "rearm" /\ Foremost(t) /\ (Overtaken(t) \/ charged <= n)
         \/ tm.kind = "resume" /\ (NoneWaits \/ status[Tip] = "completed")
  PROVE  KAlone'
<1>1. KeepAliveTypeOK
  BY DEF KBase
<1>2. /\ status' = status /\ parent' = parent /\ text' = text /\ recent' = recent /\ retries' = n
      /\ \A u \in Attempts : u # t => timer'[u] = timer[u]
      /\ timer'[t] = tm
  BY <1>1 DEF Sets, rows, KeepAliveTypeOK
<1>3. /\ Rows' = Rows /\ Tip' = Tip /\ Tip \in Attempts
      /\ \A u \in Attempts : Ancestors(u)' = Ancestors(u) /\ Overtaken(u)' = Overtaken(u)
      /\ WentBack' = WentBack
  BY <1>2, SameRows
<1> SUFFICES ASSUME ~WentBack' PROVE KAll'
  BY AloneIs, Zenon DEF KAlone, KAll
<1>4. KAll
  BY <1>3, AloneIs
<1>5. /\ \A u : Waits(u)' = Waits(u) /\ CountIn(u)' = CountIn(u)
      /\ \A u \in Attempts : Foremost(u)' = Foremost(u) /\ UsedUp(u)' = UsedUp(u) /\ Backed(u)' = Backed(u)
      /\ NoneWaits' = NoneWaits
  <2>1. \A u : Waits(u)' = Waits(u) /\ CountIn(u)' = CountIn(u)
    BY <1>2 DEF Waits, CountIn
  <2>2. \A u \in Attempts : Foremost(u)' = Foremost(u)
    BY <1>2, <2>1 DEF Foremost
  <2>3. \A u \in Attempts : UsedUp(u)' = UsedUp(u)
    BY <1>2, <1>3 DEF UsedUp
  <2>4. \A u \in Attempts : Backed(u)' = Backed(u)
    BY <1>3, <2>1 DEF Backed
  <2>5. NoneWaits' = NoneWaits
    BY <2>1 DEF NoneWaits
  <2> QED
    BY <2>1, <2>2, <2>3, <2>4, <2>5
<1>6. /\ \A u \in Attempts : Moving(u)' => u = t
      /\ \A u \in Attempts : status[u] # "live"
      /\ \A u \in Attempts : u # t => timer'[u].kind = "none"
  BY <1>2 DEF Moving
<1>7. KOne'
  BY <1>6 DEF KOne
<1>8. KLive'
  BY <1>2, <1>6 DEF KLive, LiveRows
<1>9. KTimers'
  BY <1>2, <1>3, <1>5, <1>6 DEF KTimers
<1>10. KPaused'
  <2>1. ASSUME NEW u \in Attempts, status[u] = "paused"
        PROVE  \/ Overtaken(u)' \/ UsedUp(u)'
               \/ /\ parent'[u] # NoAttempt /\ (Foremost(parent[u]))' /\ ~(Overtaken(parent[u]))'
                  /\ (status[Tip])' # "completed"
               \/ NoneWaits' /\ \A v \in Attempts : status'[v] = "paused" => v = u
    <3>1. \/ Overtaken(u) \/ UsedUp(u)
          \/ /\ parent[u] # NoAttempt /\ Foremost(parent[u]) /\ ~Overtaken(parent[u])
             /\ status[Tip] # "completed"
          \/ NoneWaits /\ \A v \in Attempts : status[v] = "paused" => v = u
      BY <1>4, <2>1 DEF KAll, KPaused
    <3>2. parent[u] # NoAttempt => parent[u] \in Attempts
      BY <1>1 DEF KeepAliveTypeOK
    <3> QED
      BY <1>2, <1>3, <1>5, <3>1, <3>2
  <2> QED
    BY <1>2, <2>1 DEF KPaused
<1>11. KCount'
  BY <1>2, <1>3, <1>4, <1>5 DEF KAll, KCount
<1>12. KSweep'
  BY <1>2, <1>4, <1>5 DEF KAll, KSweep
<1> QED
  BY <1>7, <1>8, <1>9, <1>10, <1>11, <1>12 DEF KAll

\* What a row that comes leaves as it was.
LEMMA Grows ==
  ASSUME KBase, KBase', NEW p \in Attempts, NEW c \in Attempts, NEW s, NEW tm, NEW old,
         Begins(p, c, s, tm, old), status[p] \notin {"absent", "live"},
         old = status[p] \/ (status[p] = "paused" /\ old = "cancelled")
  PROVE  /\ \A u \in Rows : Overtaken(u) \/ parent[u] = p => Overtaken(u)'
         /\ Overtaken(p) \/ WentBack => WentBack'
         /\ \A u \in Attempts : Waits(u)' = Waits(u) /\ CountIn(u)' = CountIn(u)
         /\ \A u \in Attempts : Foremost(u)' = Foremost(u)
         /\ NoneWaits' = NoneWaits
         /\ \A u \in Rows : UsedUp(u) => UsedUp(u)'
         /\ UsedUp(p) => UsedUp(c)'
<1>1. /\ Rows' = Rows \cup {c} /\ c \notin Rows /\ Tip' = c /\ \A u \in Rows : u < c
      /\ \A t \in Rows : Ancestors(t)' = Ancestors(t)
      /\ Ancestors(c)' = {p} \cup Ancestors(p)
      /\ parent'[c] = p /\ \A u \in Rows : parent'[u] = parent[u]
  BY NewRow
<1>2. p \in Rows /\ \A u \in Rows : u \in Attempts
  BY DEF Rows
<1>3. \A u \in Rows : Overtaken(u) \/ parent[u] = p => Overtaken(u)'
  BY <1>1 DEF Overtaken
<1>4. Overtaken(p) => WentBack'
  <2>1. SUFFICES ASSUME Overtaken(p) PROVE WentBack'
    OBVIOUS
  <2>2. PICK u \in Rows : p < u /\ parent[u] = parent[p]
    BY <2>1 DEF Overtaken
  <2>3. p \in Rows' /\ u \in Rows' /\ c \in Rows' /\ p < u /\ u < c /\ parent'[u] = parent'[p] /\ parent'[c] = p
    BY <1>1, <1>2, <2>2
  <2> QED
    BY <2>3 DEF WentBack
<1>5. WentBack => WentBack'
  <2>1. SUFFICES ASSUME WentBack PROVE WentBack'
    OBVIOUS
  <2>2. PICK t \in Rows, u \in Rows, v \in Rows : t < u /\ parent[u] = parent[t] /\ parent[v] = t /\ u < v
    BY <2>1 DEF WentBack
  <2>3. t \in Rows' /\ u \in Rows' /\ v \in Rows' /\ parent'[u] = parent'[t] /\ parent'[v] = t
    BY <1>1, <2>2
  <2> QED
    BY <2>2, <2>3 DEF WentBack
<1>6. /\ status' = [status EXCEPT ![c] = s, ![p] = old] /\ s \in {"live", "failed"}
      /\ status[c] = "absent" /\ c # p /\ text' = text /\ recent' = recent /\ status \in [Attempts -> Statuses]
  BY DEF Begins, Fresh, KBase, KeepAliveTypeOK
<1>7. /\ \A u \in Attempts : u # c /\ u # p => status'[u] = status[u]
      /\ status'[c] = s /\ status'[p] = old
  BY <1>6
<1>8. \A u \in Attempts : Waits(u)' = Waits(u) /\ CountIn(u)' = CountIn(u)
  BY <1>6, <1>7 DEF Waits, CountIn
<1>9. \A u \in Attempts : Foremost(u)' = Foremost(u)
  BY <1>6, <1>8 DEF Foremost
<1>10. NoneWaits' = NoneWaits
  BY <1>8 DEF NoneWaits
<1>11. \A u \in Rows : UsedUp(u) => UsedUp(u)'
  BY <1>1, <1>6 DEF UsedUp
<1>12. UsedUp(p) => UsedUp(c)'
  BY <1>1, <1>6 DEF UsedUp
<1> QED
  BY <1>3, <1>4, <1>5, <1>8, <1>9, <1>10, <1>11, <1>12

\* A due retry continues the row it is set on.
LEMMA ContinuesAlone ==
  ASSUME KBase, KBase', KAlone, hands = 0, NEW t \in Attempts, NEW c \in Attempts, NEW s \in {"live", "failed"},
         Begins(t, c, s, NoTimer, status[t]), Foremost(t), Moving(t), \A u \in Attempts : Moving(u) => u = t,
         awake' = awake, swept' = swept, armed' = armed, charged' \in Nat,
         Overtaken(t) \/ charged' <= CountIn(t), Overtaken(t) \/ charged' <= retries
  PROVE  KAlone'
<1>1. KeepAliveTypeOK /\ KRows /\ KTree /\ status[t] = "blocked" /\ t \in Rows
  BY DEF KBase, Foremost, Waits, Rows
<1>2. /\ Rows' = Rows \cup {c} /\ c \notin Rows /\ Tip' = c /\ \A u \in Rows : u < c
      /\ Ancestors(c)' = {t} \cup Ancestors(t)
      /\ parent'[c] = t /\ \A u \in Rows : parent'[u] = parent[u]
  BY <1>1, NewRow
<1>3. /\ \A u \in Rows : Overtaken(u) \/ parent[u] = t => Overtaken(u)'
      /\ Overtaken(t) \/ WentBack => WentBack'
      /\ \A u \in Attempts : Waits(u)' = Waits(u) /\ CountIn(u)' = CountIn(u)
      /\ \A u \in Attempts : Foremost(u)' = Foremost(u)
      /\ \A u \in Rows : UsedUp(u) => UsedUp(u)'
  BY <1>1, Grows
<1>4. /\ \A u \in Attempts : u # c => status'[u] = status[u]
      /\ \A u \in Attempts : u # t => timer'[u] = timer[u]
      /\ status'[c] = s /\ timer'[t] = NoTimer /\ status[c] = "absent" /\ c # t /\ retries' = retries
  BY <1>1 DEF Begins, Fresh, KeepAliveTypeOK
<1> SUFFICES ASSUME ~WentBack' PROVE KAll'
  BY AloneIs, Zenon DEF KAlone, KAll
<1>5. KAll /\ ~Overtaken(t)
  BY <1>3, AloneIs
<1>6. /\ \A u \in Attempts : Moving(u)' => u = c
      /\ \A u \in Attempts : timer'[u].kind = "none"
  <2>1. timer[c].kind = "none"
    BY <1>1, <1>4 DEF KRows, NoTimer
  <2>2. \A u \in Attempts : u # t => timer[u].kind = "none" /\ status[u] # "live"
    BY DEF Moving
  <2>3. \A u \in Attempts : timer'[u].kind = "none"
    BY <1>4, <2>1, <2>2 DEF NoTimer
  <2>4. \A u \in Attempts : u # c => status'[u] # "live"
    BY <1>1, <1>4, <2>2
  <2> QED
    BY <2>3, <2>4 DEF Moving
<1>7. KOne'
  BY <1>6 DEF KOne
<1>8. \A u \in Attempts : status'[u] = "paused" => u \in Rows /\ status[u] = "paused" /\ (Overtaken(u)' \/ UsedUp(u)')
  <2>1. ASSUME NEW u \in Attempts, status'[u] = "paused"
        PROVE  u \in Rows /\ status[u] = "paused" /\ (Overtaken(u)' \/ UsedUp(u)')
    <3>1. status[u] = "paused" /\ u \in Rows
      BY <1>4, <2>1 DEF Rows
    <3> QED
      BY <1>3, <1>5, <3>1, ParkedAre
  <2> QED
    BY <2>1
<1>9. charged' <= CountIn(t)' /\ charged' <= retries' /\ Foremost(t)'
  BY <1>3, <1>4, <1>5
<1>10. KLive'
  <2>1. ASSUME NEW d \in LiveRows'
        PROVE  /\ \A u \in Rows' : u <= d
               /\ \A u \in Attempts : status'[u] = "paused" => Overtaken(u)' \/ UsedUp(u)'
               /\ charged' <= retries'
               /\ parent'[d] # NoAttempt /\ (Foremost(parent[d]))' /\ charged' <= (CountIn(parent[d]))'
    <3>1. d = c
      BY <1>6 DEF LiveRows, Moving
    <3>2. \A u \in Rows' : u <= c
      BY <1>2, KeepAliveAssumption DEF Rows, Attempts
    <3>3. parent'[d] = t /\ t # NoAttempt
      BY <1>2, <3>1, KeepAliveAssumption DEF Attempts, NoAttempt
    <3> QED
      BY <1>8, <1>9, <3>1, <3>2, <3>3
  <2> QED
    BY <2>1 DEF KLive
<1>11. KTimers'
  BY <1>6 DEF KTimers
<1>12. KPaused'
  BY <1>8 DEF KPaused
<1>13. KCount'
  <2>1. Backed(t)'
    BY <1>9 DEF Backed
  <2>2. charged' <= MaxRetries
    BY <1>1, <1>4, <1>9, KeepAliveAssumption DEF KeepAliveTypeOK
  <2>3. (status[Tip])' # "completed"
    BY <1>2, <1>4
  <2> QED
    BY <1>9, <2>1, <2>2, <2>3 DEF KCount
<1>14. KSweep'
  <2>1. SUFFICES ASSUME awake', ~swept'
                 PROVE  \A u \in Attempts : status'[u] # "paused" /\ (Waits(u)' => u \in armed')
    BY DEF KSweep
  <2>2. \A u \in Attempts : status[u] # "paused" /\ (Waits(u) => u \in armed)
    BY <1>5, <2>1 DEF KAll, KSweep
  <2> QED
    BY <1>3, <1>4, <2>2
<1> QED
  BY <1>7, <1>10, <1>11, <1>12, <1>13, <1>14 DEF KAll

\* The parked rows, when a parked row has its turn.
LEMMA ParkedRest ==
  ASSUME KBase, KAll, NoneWaits \/ status[Tip] = "completed", NEW u \in Attempts, status[u] = "paused"
  PROVE  /\ charged = 0
         /\ \/ Overtaken(u) \/ UsedUp(u)
            \/ NoneWaits /\ \A v \in Attempts : status[v] = "paused" => v = u
<1>1. NoneWaits => \A x \in Attempts : ~Foremost(x)
  BY DEF NoneWaits, Foremost
<1>2. charged = 0
  BY <1>1 DEF KAll, KCount
<1>3. parent[u] # NoAttempt => parent[u] \in Attempts
  BY DEF KBase, KeepAliveTypeOK
<1> QED
  BY <1>1, <1>2, <1>3 DEF KAll, KPaused

\* A parked row is continued, or stays parked because the queue is full.
LEMMA ResumesAlone ==
  ASSUME KBase, KBase', KAlone, hands = 0, NEW t \in Attempts, NEW c \in Attempts, NEW s, NEW tm, NEW old,
         Begins(t, c, s, tm, old), status[t] = "paused", tm.kind = "none",
         (s = "live" /\ old = "cancelled") \/ (s = "failed" /\ old = "paused"),
         NoneWaits \/ status[Tip] = "completed", \A u \in Attempts : Moving(u) => u = t,
         awake, awake' = awake, swept' \/ (swept' = swept /\ Moving(t)), charged' = charged
  PROVE  KAlone'
<1>1. KeepAliveTypeOK /\ KRows /\ KTree /\ t \in Rows
  BY DEF KBase, Rows
<1>2. /\ Rows' = Rows \cup {c} /\ c \notin Rows /\ Tip' = c /\ \A u \in Rows : u < c
      /\ parent'[c] = t /\ \A u \in Rows : parent'[u] = parent[u]
  BY <1>1, NewRow
<1>3. /\ \A u \in Rows : Overtaken(u) => Overtaken(u)'
      /\ Overtaken(t) \/ WentBack => WentBack'
      /\ NoneWaits' = NoneWaits
      /\ \A u \in Rows : UsedUp(u) => UsedUp(u)'
      /\ UsedUp(t) => UsedUp(c)'
  BY <1>1, Grows
<1>4. /\ \A u \in Attempts : u # c /\ u # t => status'[u] = status[u]
      /\ \A u \in Attempts : u # t => timer'[u] = timer[u]
      /\ status'[c] = s /\ status'[t] = old /\ timer'[t] = tm /\ status[c] = "absent" /\ c # t /\ retries' = retries
  BY <1>1 DEF Begins, Fresh, KeepAliveTypeOK
<1> SUFFICES ASSUME ~WentBack' PROVE KAll'
  BY AloneIs, Zenon DEF KAlone, KAll
<1>5. KAll /\ ~Overtaken(t)
  BY <1>3, AloneIs
<1>6. /\ \A u \in Attempts : Moving(u)' => u = c
      /\ \A u \in Attempts : timer'[u].kind = "none"
  <2>1. timer[c].kind = "none"
    BY <1>1, <1>4 DEF KRows, NoTimer
  <2>2. \A u \in Attempts : u # t => timer[u].kind = "none" /\ status[u] # "live"
    BY DEF Moving
  <2>3. \A u \in Attempts : timer'[u].kind = "none"
    BY <1>4, <2>1, <2>2
  <2>4. \A u \in Attempts : u # c => status'[u] # "live"
    BY <1>1, <1>4, <2>2
  <2> QED
    BY <2>3, <2>4 DEF Moving
<1>7. KOne'
  BY <1>6 DEF KOne
<1>8. charged = 0 /\ (UsedUp(t) \/ (NoneWaits /\ \A v \in Attempts : status[v] = "paused" => v = t))
  BY <1>5, ParkedRest
<1>9. \A u \in Attempts : status'[u] = "paused" => status[u] = "paused" /\ u \in Rows /\ (old = "cancelled" => u # t)
  BY <1>4 DEF Rows
<1>10. \A u \in Attempts : status'[u] = "paused" =>
         \/ Overtaken(u)' \/ UsedUp(u)'
         \/ NoneWaits' /\ u = t /\ old = "paused" /\ \A v \in Attempts : status'[v] = "paused" => v = u
  <2>1. ASSUME NEW u \in Attempts, status'[u] = "paused"
        PROVE  \/ Overtaken(u)' \/ UsedUp(u)'
               \/ NoneWaits' /\ u = t /\ old = "paused" /\ \A v \in Attempts : status'[v] = "paused" => v = u
    <3>1. status[u] = "paused" /\ u \in Rows
      BY <1>9, <2>1
    <3>2. CASE Overtaken(u) \/ UsedUp(u)
      BY <1>3, <3>1, <3>2
    <3>3. CASE NoneWaits /\ \A v \in Attempts : status[v] = "paused" => v = u
      BY <1>3, <1>9, <2>1, <3>3
    <3> QED
      BY <1>5, <3>1, <3>2, <3>3, ParkedRest
  <2> QED
    BY <2>1
<1>11. KLive'
  <2>1. ASSUME NEW d \in LiveRows'
        PROVE  /\ \A u \in Rows' : u <= d
               /\ \A u \in Attempts : status'[u] = "paused" => Overtaken(u)' \/ UsedUp(u)'
               /\ charged' <= retries'
               /\ charged' = 0 /\ (UsedUp(d)' \/ (NoneWaits' /\ \A u \in Attempts : status'[u] # "paused"))
    <3>1. d = c
      BY <1>6 DEF LiveRows, Moving
    <3>2. \A u \in Rows' : u <= c
      BY <1>2, KeepAliveAssumption DEF Rows, Attempts
    <3>3. old = "cancelled"
      BY <1>4, <3>1 DEF LiveRows
    <3>4. 0 <= retries'
      BY <1>1, <1>4, KeepAliveAssumption DEF KeepAliveTypeOK
    <3>5. UsedUp(c)' \/ (NoneWaits' /\ \A u \in Attempts : status'[u] # "paused")
      BY <1>3, <1>8, <1>9, <3>3
    <3> QED
      BY <1>8, <1>10, <3>1, <3>2, <3>3, <3>4, <3>5
  <2> QED
    BY <2>1 DEF KLive
<1>12. KTimers'
  BY <1>6 DEF KTimers
<1>13. KPaused'
  BY <1>10 DEF KPaused
<1>14. KCount'
  <2>1. charged' <= MaxRetries
    BY <1>8, KeepAliveAssumption
  <2> QED
    BY <1>8, <2>1 DEF KCount
<1>15. KSweep'
  <2>1. swept'
    BY <1>5 DEF KAll, KSweep
  <2> QED
    BY <2>1 DEF KSweep
<1> QED
  BY <1>7, <1>11, <1>12, <1>13, <1>14, <1>15 DEF KAll

\* A parked row is retired.
LEMMA RetiresAlone ==
  ASSUME KBase, KBase', KAlone, hands = 0, NEW t \in Attempts, NEW tm, Retires(t, tm), tm.kind = "none",
         \A u \in Attempts : Moving(u) => u = t, awake, awake' = awake, charged' = charged,
         swept' \/ (swept' = swept /\ Moving(t))
  PROVE  KAlone'
<1>1. KeepAliveTypeOK /\ status[t] = "paused"
  BY DEF KBase, Retires
<1>2. /\ \A u \in Attempts : u # t => status'[u] = status[u] /\ timer'[u] = timer[u]
      /\ status'[t] = "cancelled" /\ timer'[t] = tm /\ parent' = parent /\ text' = text /\ recent' = recent
  BY <1>1 DEF Retires, KeepAliveTypeOK
<1>3. /\ Rows' = Rows /\ Tip' = Tip /\ Tip \in Attempts
      /\ \A u \in Attempts : Ancestors(u)' = Ancestors(u) /\ Overtaken(u)' = Overtaken(u)
      /\ WentBack' = WentBack
  BY <1>1, <1>2, SameRows
<1> SUFFICES ASSUME ~WentBack' PROVE KAll'
  BY AloneIs, Zenon DEF KAlone, KAll
<1>4. KAll
  BY <1>3, AloneIs
<1>5. /\ \A u \in Attempts : Waits(u)' = Waits(u) /\ CountIn(u)' = CountIn(u)
      /\ \A u \in Attempts : Foremost(u)' = Foremost(u) /\ UsedUp(u)' = UsedUp(u) /\ Backed(u)' = Backed(u)
      /\ NoneWaits' = NoneWaits
  <2>1. \A u \in Attempts : Waits(u)' = Waits(u) /\ CountIn(u)' = CountIn(u)
    BY <1>1, <1>2 DEF Waits, CountIn
  <2>2. \A u \in Attempts : Foremost(u)' = Foremost(u)
    BY <1>2, <2>1 DEF Foremost
  <2>3. \A u \in Attempts : UsedUp(u)' = UsedUp(u)
    BY <1>2, <1>3 DEF UsedUp
  <2>4. \A u \in Attempts : Backed(u)' = Backed(u)
    <3>1. ASSUME NEW u \in Attempts PROVE Backed(u)' = Backed(u)
      <4>1. \A a \in Ancestors(u) \cup {u} : CountIn(a)' = CountIn(a)
        BY <1>2 DEF CountIn
      <4> QED
        BY <1>2, <1>3, <4>1 DEF Backed
    <3> QED
      BY <3>1
  <2>5. NoneWaits' = NoneWaits
    BY <2>1 DEF NoneWaits
  <2> QED
    BY <2>1, <2>2, <2>3, <2>4, <2>5
<1>6. \A u \in Attempts : ~(Moving(u)') /\ status'[u] # "live" /\ timer'[u].kind = "none"
  BY <1>1, <1>2 DEF Moving
<1>7. KOne'
  BY <1>6 DEF KOne
<1>8. KLive'
  BY <1>6 DEF KLive, LiveRows
<1>9. KTimers'
  BY <1>6 DEF KTimers
<1>10. KPaused'
  <2>1. ASSUME NEW u \in Attempts, status'[u] = "paused"
        PROVE  \/ Overtaken(u)' \/ UsedUp(u)'
               \/ /\ parent'[u] # NoAttempt /\ (Foremost(parent[u]))' /\ ~(Overtaken(parent[u]))'
                  /\ (status[Tip])' # "completed"
               \/ NoneWaits' /\ \A v \in Attempts : status'[v] = "paused" => v = u
    <3>0. status[u] = "paused"
      BY <1>1, <1>2, <2>1
    <3>1. \/ Overtaken(u) \/ UsedUp(u)
          \/ /\ parent[u] # NoAttempt /\ Foremost(parent[u]) /\ ~Overtaken(parent[u])
             /\ status[Tip] # "completed"
          \/ NoneWaits /\ \A v \in Attempts : status[v] = "paused" => v = u
      BY <1>4, <3>0 DEF KAll, KPaused
    <3>2. parent[u] # NoAttempt => parent[u] \in Attempts
      BY <1>1 DEF KeepAliveTypeOK
    <3>3. (status[Tip])' = "completed" => status[Tip] = "completed"
      BY <1>1, <1>2, <1>3
    <3>4. \A v \in Attempts : status'[v] = "paused" => status[v] = "paused"
      BY <1>1, <1>2
    <3> QED
      BY <1>2, <1>3, <1>5, <3>1, <3>2, <3>3, <3>4
  <2> QED
    BY <2>1 DEF KPaused
<1>11. KCount'
  <2>1. (status[Tip])' = "completed" => status[Tip] = "completed"
    BY <1>1, <1>2, <1>3
  <2> QED
    BY <1>4, <1>5, <2>1 DEF KAll, KCount
<1>12. KSweep'
  <2>1. swept'
    BY <1>1, <1>4 DEF KAll, KSweep
  <2> QED
    BY <2>1 DEF KSweep
<1> QED
  BY <1>7, <1>8, <1>9, <1>10, <1>11, <1>12 DEF KAll

\* A parked row is resumed.
LEMMA ResumedAlone ==
  ASSUME KBase, KBase', KAlone, KAll, hands = 0, NEW t \in Attempts, NEW tm, Resumed(t, tm), tm.kind = "none",
         status[t] = "paused", NoneWaits \/ status[Tip] = "completed",
         \A u \in Attempts : Moving(u) => u = t, awake, awake' = awake, charged' = charged,
         swept' \/ (swept' = swept /\ Moving(t))
  PROVE  KAlone'
<1>1. CASE Retires(t, tm)
  BY <1>1, RetiresAlone
<1>2. ASSUME NEW c \in Attempts, NEW s, NEW old, Begins(t, c, s, tm, old),
             (s = "live" /\ old = "cancelled") \/ (s = "failed" /\ old = "paused")
      PROVE  KAlone'
  BY <1>2, ResumesAlone
<1> QED
  BY <1>1, <1>2 DEF Resumed

\* Rows stay, and so does what they continue.
LEMMA RowsStay ==
  ASSUME KBase, KBase', [KeepAliveNext]_kvars
  PROVE  WentBack => WentBack'
<1>1. ASSUME parent' = parent, \A u \in Attempts : status'[u] = "absent" <=> status[u] = "absent"
      PROVE  WentBack => WentBack'
  BY <1>1, SameRows
<1>2. ASSUME NEW t \in Attempts, NEW s, s # "absent", NEW x, NEW tm, NEW n, Ends(t, s, x, tm, n), status[t] # "absent"
      PROVE  WentBack => WentBack'
  BY <1>1, <1>2 DEF Ends, KBase, KeepAliveTypeOK
<1>3. ASSUME NEW t \in Attempts, NEW n, NEW spend, Handed(t, n, spend), status[t] # "absent"
      PROVE  WentBack => WentBack'
  BY <1>2, <1>3 DEF Handed
<1>4. ASSUME NEW t \in Attempts, NEW tm, NEW n, Sets(t, tm, n)
      PROVE  WentBack => WentBack'
  BY <1>1, <1>4 DEF Sets, rows
<1>5. ASSUME NEW t \in Attempts, NEW c \in Attempts, NEW s, NEW tm, NEW old, Begins(t, c, s, tm, old),
             status[t] \notin {"absent", "live"},
             old = status[t] \/ (status[t] = "paused" /\ old = "cancelled")
      PROVE  WentBack => WentBack'
  BY <1>5, Grows
<1>6. ASSUME NEW t \in Attempts, NEW tm, Resumed(t, tm), status[t] = "paused"
      PROVE  WentBack => WentBack'
  <2>1. CASE Retires(t, tm)
    BY <1>1, <2>1 DEF Retires, KBase, KeepAliveTypeOK
  <2> QED
    BY <1>5, <1>6, <2>1 DEF Resumed
<1>7. ASSUME NEW t \in Attempts, NEW charge, Resubmitted(t, charge), status[t] \notin {"absent", "live"}
      PROVE  WentBack => WentBack'
  BY <1>3, <1>5, <1>7 DEF Resubmitted
<1>8. ASSUME NEW t \in Attempts, Completes(t) \/ Fails(t) \/ AsksPerson(t)
      PROVE  WentBack => WentBack'
  <2>1. status[t] # "absent"
    BY <1>8 DEF Completes, Fails, AsksPerson
  <2> QED
    BY <1>2, <1>3, <1>8, <2>1, CompletesIs, FailsIs, AsksIs
<1>9. ASSUME NEW t \in Attempts, Cancel(t) \/ RetryTask(t) \/ ResumeTask(t)
      PROVE  WentBack => WentBack'
  <2>1. CASE Cancel(t)
    BY <1>2, <2>1, CancelIs
  <2>2. CASE RetryTask(t)
    <3>1. status[t] \notin {"absent", "live"}
      BY <2>2 DEF RetryTask
    <3> QED
      BY <1>5, <2>2, <3>1, RetryTaskIs
  <2>3. CASE ResumeTask(t)
    <3>1. status[t] = "paused"
      BY <2>3 DEF ResumeTask
    <3> QED
      BY <1>6, <2>3, <3>1, ResumeTaskIs
  <2> QED
    BY <1>9, <2>1, <2>2, <2>3
<1>10. ASSUME NEW t \in Attempts, Due(t)
       PROVE  WentBack => WentBack'
  <2>1. status[t] \notin {"absent", "live"}
    BY <1>10, RetryDueIs, BudgetDueIs, RearmDueIs, ResumeDueIs, TimersOf DEF Due
  <2>2. CASE RetryDue(t)
    BY <1>3, <1>4, <1>7, <2>1, <2>2, RetryDueIs DEF Drops
  <2>3. CASE BudgetDue(t)
    BY <1>3, <1>7, <2>1, <2>3, BudgetDueIs
  <2>4. CASE RearmDue(t)
    BY <1>3, <2>1, <2>4, RearmDueIs
  <2>5. CASE ResumeDue(t)
    BY <1>4, <1>6, <2>5, ResumeDueIs
  <2> QED
    BY <1>10, <2>2, <2>3, <2>4, <2>5 DEF Due
<1>11. CASE Sweep
  <2>1. ASSUME NEW t \in Attempts, SweepRearms(t) PROVE WentBack => WentBack'
    <3>1. status[t] # "absent"
      BY <2>1 DEF SweepRearms, Chosen, Orphaned
    <3> QED
      BY <1>3, <1>4, <2>1, <3>1 DEF SweepRearms
  <2>2. ASSUME NEW t \in Attempts, SweepResumes(t) PROVE WentBack => WentBack'
    BY <1>4, <1>6, <2>2 DEF SweepResumes
  <2>3. CASE SweepRests
    BY <1>1, <2>3 DEF SweepRests, rows
  <2> QED
    BY <1>11, <2>1, <2>2, <2>3, SweepIs
<1>12. CASE Crash
  BY <1>1, <1>12 DEF Crash, Forget
<1>13. CASE Exit
  BY <1>1, <1>13 DEF Exit, Forget
<1>14. CASE Boot
  BY <1>1, <1>14 DEF Boot, LiveRows
<1>15. CASE UNCHANGED kvars
  BY <1>1, <1>15 DEF kvars, rows
<1> QED
  BY <1>8, <1>9, <1>10, <1>11, <1>12, <1>13, <1>14, <1>15 DEF KeepAliveNext

\* The ends of a run.
LEMMA ActsAlone ==
  ASSUME KBase, KBase', KAlone, KAll, hands = 0, NEW t \in Attempts, Completes(t) \/ Fails(t) \/ AsksPerson(t)
  PROVE  KAlone'
<1>1. /\ status[t] = "live" /\ awake /\ awake' = awake /\ swept' = swept
  BY DEF Completes, Fails, AsksPerson
<1>2. CASE Completes(t)
  <2>1. Ends(t, "completed", NoText, NoTimer, retries) /\ armed' = armed /\ charged' = 0
    BY <1>2, CompletesIs DEF Completes
  <2> QED
    BY <1>1, <2>1, RunOverAlone
<1>3. CASE AsksPerson(t)
  <2>1. PICK s \in {"blocked", "failed"} : Ends(t, s, [kind |-> "ask", n |-> 0], NoTimer, retries)
    BY <1>3, AsksIs
  <2>2. armed' = armed /\ charged' = charged
    BY <1>3, AsksIs DEF AsksPerson
  <2> QED
    BY <1>1, <2>1, <2>2, RunOverAlone
<1>4. CASE Fails(t)
  <2>1. CASE Ends(t, "failed", [kind |-> "stop", n |-> 0], NoTimer, 0) /\ armed' = armed /\ charged' = 0
    BY <1>1, <2>1, RunOverAlone
  <2>2. CASE Handed(t, retries, TRUE)
    <3>1. retries \in 0..MaxRetries
      BY DEF KBase, KeepAliveTypeOK
    <3>2. Moving(t) /\ (\A u \in Attempts : Moving(u) => u = t) /\ charged <= retries
      BY <1>1 DEF KAll, KOne, KLive, Moving, LiveRows
    <3> QED
      BY <1>1, <2>2, <3>1, <3>2, HandedAlone
  <2> QED
    BY <1>4, <2>1, <2>2, FailsIs
<1> QED
  BY <1>2, <1>3, <1>4

\* A retry is handed over again, or its row is continued.
LEMMA ResubmittedAlone ==
  ASSUME KBase, KBase', KAlone, hands = 0, NEW t \in Attempts, NEW charge \in Nat, Resubmitted(t, charge),
         awake, Calm, Foremost(t), Moving(t), \A u \in Attempts : Moving(u) => u = t,
         Overtaken(t) \/ (charged + charge <= retries /\ charged + charge <= CountIn(t)),
         retries >= MaxRetries => CountIn(t) = MaxRetries
  PROVE  KAlone'
<1>1. retries \in 0..MaxRetries /\ charged \in Nat /\ MaxRetries \in Nat
  BY KeepAliveAssumption DEF KBase, KeepAliveTypeOK
<1>2. awake' = awake /\ swept' = swept
  BY DEF Calm
<1>3. CASE Handed(t, retries, TRUE)
  <2>1. Overtaken(t) \/ charged <= retries
    BY <1>1
  <2> QED
    BY <1>1, <1>2, <1>3, <2>1, HandedAlone
<1>4. ASSUME NEW c \in Attempts, NEW s \in {"live", "failed"}, Begins(t, c, s, NoTimer, status[t]),
             armed' = armed, charged' = IF hands = 0 THEN charged + charge ELSE 0
      PROVE  KAlone'
  <2>1. charged' = charged + charge /\ charged' \in Nat
    BY <1>1, <1>4
  <2>2. (Overtaken(t) \/ charged' <= CountIn(t)) /\ (Overtaken(t) \/ charged' <= retries)
    BY <2>1
  <2> QED
    BY <1>2, <1>4, <2>1, <2>2, ContinuesAlone
<1> QED
  BY <1>3, <1>4 DEF Resubmitted

\* The timers.
LEMMA DueAlone ==
  ASSUME KBase, KBase', KAlone, KAll, hands = 0, NEW t \in Attempts, Due(t)
  PROVE  KAlone'
<1>1. awake /\ timer[t].kind # "none" /\ UNCHANGED <<awake, swept, hands, stops>>
  BY RetryDueIs, BudgetDueIs, RearmDueIs, ResumeDueIs DEF Due, Calm
<1>2. /\ status[t] \notin {"absent", "live"} /\ timer[t].attempt \in 0..MaxRetries
      /\ timer[t].spend \in BOOLEAN
  BY <1>1, TimersOf
<1>3. /\ retries \in 0..MaxRetries /\ charged \in Nat /\ MaxRetries \in Nat /\ MaxRetries > 0
      /\ CountIn(t) \in 0..MaxRetries
  BY CountType, KeepAliveAssumption DEF KBase, KeepAliveTypeOK
<1>4. Moving(t) /\ \A u \in Attempts : Moving(u) => u = t
  BY <1>1 DEF KAll, KOne, Moving
<1>5. CASE RetryDue(t)
  <2>1. timer[t].kind = "retry" /\ Calm
    BY <1>5, RetryDueIs
  <2>2. /\ Foremost(t) /\ CountIn(t) = retries
        /\ retries = (IF timer[t].spend THEN timer[t].attempt + 1 ELSE timer[t].attempt)
        /\ Overtaken(t) \/ charged <= timer[t].attempt
    BY <2>1 DEF KAll, KTimers
  <2>3. CASE Handed(t, timer[t].attempt, timer[t].spend)
    <3>1. timer[t].spend /\ timer[t].attempt >= MaxRetries => CountIn(t) = MaxRetries
      BY <1>2, <1>3, <2>2
    <3> QED
      BY <1>1, <1>2, <1>4, <2>2, <2>3, <3>1, HandedAlone
  <2>4. ASSUME NEW n, Drops(t, n) PROVE KAlone'
    <3>1. Sets(t, NoTimer, n) /\ armed' = armed /\ charged' = charged /\ NoTimer.kind = "none"
      BY <2>4 DEF Drops, NoTimer
    <3> QED
      BY <1>1, <1>2, <1>4, <3>1, SetsAlone
  <2>5. CASE Resubmitted(t, IF timer[t].spend THEN 1 ELSE 0)
    <3> DEFINE charge == IF timer[t].spend THEN 1 ELSE 0
    <3>1. charge \in Nat /\ timer[t].attempt + charge = retries
      BY <1>2, <2>2
    <3>2. Overtaken(t) \/ (charged + charge <= retries /\ charged + charge <= CountIn(t))
      BY <1>2, <1>3, <2>2, <3>1
    <3>3. retries >= MaxRetries => CountIn(t) = MaxRetries
      BY <1>3, <2>2
    <3> QED
      BY <1>1, <1>4, <2>1, <2>2, <2>5, <3>1, <3>2, <3>3, ResubmittedAlone
  <2> QED
    BY <1>5, <2>3, <2>4, <2>5, RetryDueIs
<1>6. CASE BudgetDue(t)
  <2>1. timer[t].kind = "budget" /\ Calm /\ (Handed(t, retries, TRUE) \/ Resubmitted(t, 0))
    BY <1>6, BudgetDueIs
  <2>2. Foremost(t) /\ charged = 0 /\ retries = 0
    BY <2>1 DEF KAll, KTimers
  <2>3. CASE Handed(t, retries, TRUE)
    <3>1. ~(retries >= MaxRetries) /\ charged <= retries
      BY <1>3, <2>2
    <3> QED
      BY <1>1, <1>3, <1>4, <2>2, <2>3, <3>1, HandedAlone
  <2>4. CASE Resubmitted(t, 0)
    BY <1>1, <1>3, <1>4, <2>1, <2>2, <2>4, ResubmittedAlone
  <2> QED
    BY <2>1, <2>3, <2>4
<1>7. CASE RearmDue(t)
  <2>1. timer[t].kind = "rearm" /\ Handed(t, retries, FALSE)
    BY <1>7, RearmDueIs
  <2>2. Foremost(t) /\ (Overtaken(t) \/ charged <= retries)
    BY <2>1 DEF KAll, KTimers
  <2> QED
    BY <1>1, <1>3, <1>4, <2>1, <2>2, HandedAlone
<1>8. CASE ResumeDue(t)
  <2>1. /\ timer[t].kind = "resume" /\ charged' = charged /\ armed' = armed
        /\ Sets(t, NoTimer, retries) \/ (status[t] = "paused" /\ Resumed(t, NoTimer))
    BY <1>8, ResumeDueIs
  <2>2. (NoneWaits \/ status[Tip] = "completed") /\ NoTimer.kind = "none"
    BY <2>1 DEF KAll, KTimers, NoTimer
  <2>3. CASE Sets(t, NoTimer, retries)
    BY <1>1, <1>2, <1>4, <2>1, <2>2, <2>3, SetsAlone
  <2>4. CASE status[t] = "paused" /\ Resumed(t, NoTimer)
    BY <1>1, <1>4, <2>1, <2>2, <2>4, ResumedAlone
  <2> QED
    BY <2>1, <2>3, <2>4
<1> QED
  BY <1>5, <1>6, <1>7, <1>8 DEF Due

\* The sweep: what it re-arms comes first, and what it restores backs the count.
LEMMA SweepAlone ==
  ASSUME KBase, KBase', KAlone, KAll, hands = 0, Sweep
  PROVE  KAlone'
<1>1. awake /\ ~swept /\ swept' = TRUE /\ UNCHANGED <<awake, hands, stops>>
  BY SweepIs
<1>2. /\ charged \in Nat /\ MaxRetries \in Nat
  BY KeepAliveAssumption DEF KBase, KeepAliveTypeOK
<1>3. ASSUME NEW t \in Attempts, SweepRearms(t) PROVE KAlone'
  <2>1. Orphaned(t) /\ \A u \in Attempts \ {t} : Orphaned(u) => <<t, u>> \in recent
    BY <1>3 DEF SweepRearms, Chosen
  <2>2. Waits(t) /\ t \notin armed /\ status[t] = "blocked" /\ status[Tip] # "completed"
    BY <2>1 DEF Orphaned, Waits
  <2>3. armed = {} /\ \A u \in Attempts : ~Moving(u)
    BY <1>1, <2>2 DEF KAll, KSweep
  <2>4. \A u \in Attempts : Waits(u) => Orphaned(u)
    BY <2>2, <2>3 DEF Waits, Orphaned
  <2>5. Foremost(t)
    BY <2>1, <2>2, <2>4 DEF Foremost
  <2>6. Restored(t) \in 0..MaxRetries /\ \A a \in Ancestors(t) \cup {t} : CountIn(a) <= Restored(t)
    BY RestoredIs
  <2>7. Overtaken(t) \/ charged <= Restored(t)
    <3>1. CASE charged = 0
      BY <2>6, <3>1, <1>2
    <3>2. CASE charged # 0
      <4>1. Backed(t)
        BY <2>5, <3>2, ForemostIsOne DEF KAll, KCount
      <4>2. ASSUME NEW a \in Ancestors(t) \cup {t}, charged <= CountIn(a) PROVE charged <= Restored(t)
        <5>1. a \in Attempts
          BY AncestorsAreParents
        <5>2. CountIn(a) \in 0..MaxRetries
          BY <5>1, CountType DEF KBase
        <5> QED
          BY <1>2, <2>6, <4>2, <5>2
      <4> QED
        BY <4>1, <4>2 DEF Backed
    <3> QED
      BY <3>1, <3>2
  <2>8. CASE Handed(t, Restored(t), FALSE)
    BY <1>1, <2>3, <2>5, <2>6, <2>7, <2>8, HandedAlone
  <2>9. CASE Sets(t, Soon("rearm"), Restored(t)) /\ charged' = charged
    <3>1. Soon("rearm").kind = "rearm"
      BY DEF Soon, NoTimer
    <3> QED
      BY <1>1, <2>2, <2>3, <2>5, <2>7, <2>9, <3>1, SetsAlone
  <2> QED
    BY <1>3, <2>8, <2>9 DEF SweepRearms
<1>4. ASSUME NEW t \in Attempts, SweepResumes(t), charged' = charged PROVE KAlone'
  <2>1. status[t] = "paused" /\ \A u \in Attempts : ~Orphaned(u)
    BY <1>4 DEF SweepResumes
  <2>2. armed = {} /\ \A u \in Attempts : ~Moving(u)
    BY <1>1, <2>1 DEF KAll, KSweep
  <2>3. NoneWaits \/ status[Tip] = "completed"
    BY <2>1, <2>2 DEF NoneWaits, Waits, Orphaned
  <2>4. timer[t].kind = "none" /\ Soon("resume").kind = "resume"
    BY <2>2 DEF Moving, Soon, NoTimer
  <2>5. CASE Sets(t, timer[t], retries)
    BY <1>1, <1>4, <2>1, <2>2, <2>4, <2>5, SetsAlone
  <2>6. CASE Sets(t, Soon("resume"), retries)
    BY <1>1, <1>4, <2>1, <2>2, <2>3, <2>4, <2>6, SetsAlone
  <2>7. CASE Resumed(t, timer[t])
    BY <1>1, <1>4, <2>1, <2>2, <2>3, <2>4, <2>7, ResumedAlone
  <2> QED
    BY <1>4, <2>5, <2>6, <2>7 DEF SweepResumes
<1>5. CASE charged' = charged /\ SweepRests
  <2>1. /\ status' = status /\ parent' = parent /\ reason' = reason /\ text' = text /\ recent' = recent
        /\ retries' = retries /\ timer' = timer /\ charged' = charged
        /\ \A u \in Attempts : status[u] # "paused"
    BY <1>5 DEF SweepRests, rows
  <2>2. /\ Rows' = Rows /\ Tip' = Tip
        /\ \A u \in Attempts : Ancestors(u)' = Ancestors(u) /\ Overtaken(u)' = Overtaken(u)
    BY <2>1, SameRows
  <2>3. /\ \A u : Waits(u)' = Waits(u) /\ CountIn(u)' = CountIn(u) /\ Moving(u)' = Moving(u)
        /\ LiveRows' = LiveRows
    BY <2>1 DEF Waits, CountIn, Moving, LiveRows
  <2>4. /\ \A u : Foremost(u)' = Foremost(u)
        /\ \A u \in Attempts : UsedUp(u)' = UsedUp(u) /\ Backed(u)' = Backed(u)
        /\ NoneWaits' = NoneWaits
    BY <2>1, <2>2, <2>3 DEF Foremost, UsedUp, Backed, NoneWaits
  <2>5. LiveRows \subseteq Attempts
    BY DEF LiveRows
  <2>6. KOne'
    BY <2>3 DEF KAll, KOne
  <2>7. KLive'
    BY <1>1, <2>1, <2>2, <2>3, <2>4, <2>5 DEF KAll, KLive
  <2>8. KTimers'
    BY <2>1, <2>2, <2>3, <2>4 DEF KAll, KTimers
  <2>9. KPaused'
    BY <2>1 DEF KPaused
  <2>10. KCount'
    BY <2>1, <2>2, <2>4 DEF KAll, KCount
  <2>11. KSweep'
    BY <1>1 DEF KSweep
  <2>12. KAll'
    BY <2>6, <2>7, <2>8, <2>9, <2>10, <2>11 DEF KAll
  <2> QED
    BY <2>12 DEF KAlone, KAll
<1> QED
  BY <1>3, <1>4, <1>5, SweepIs

\* The process dies: the rows stay as they are.
LEMMA CrashAlone ==
  ASSUME KBase, KBase', KAlone, KAll, Crash
  PROVE  KAlone'
<1>1. /\ status' = status /\ parent' = parent /\ text' = text /\ recent' = recent
      /\ awake' = FALSE /\ timer' = [t \in Attempts |-> NoTimer] /\ charged' = charged
  BY DEF Crash, Forget
<1>2. /\ Rows' = Rows /\ Tip' = Tip
      /\ \A u \in Attempts : Ancestors(u)' = Ancestors(u) /\ Overtaken(u)' = Overtaken(u)
  BY <1>1, SameRows
<1>3. /\ \A u : Waits(u)' = Waits(u) /\ CountIn(u)' = CountIn(u)
      /\ LiveRows' = LiveRows /\ LiveRows \subseteq Attempts
      /\ \A u \in Attempts : timer'[u].kind = "none" /\ (Moving(u)' => Moving(u))
  BY <1>1 DEF Waits, CountIn, Moving, LiveRows, NoTimer
<1>4. /\ \A u : Foremost(u)' = Foremost(u)
      /\ \A u \in Attempts : UsedUp(u)' = UsedUp(u) /\ Backed(u)' = Backed(u)
      /\ NoneWaits' = NoneWaits
  BY <1>1, <1>2, <1>3 DEF Foremost, UsedUp, Backed, NoneWaits
<1>5. KOne'
  BY <1>3 DEF KAll, KOne
<1>6. KLive'
  BY <1>1, <1>2, <1>3, <1>4 DEF KAll, KLive
<1>7. KTimers'
  BY <1>3 DEF KTimers
<1>8. KPaused'
  <2>1. \A u \in Attempts : parent[u] # NoAttempt => parent[u] \in Attempts
    BY DEF KBase, KeepAliveTypeOK
  <2>2. ASSUME NEW u \in Attempts, status[u] = "paused"
        PROVE  \/ Overtaken(u)' \/ UsedUp(u)'
               \/ /\ parent'[u] # NoAttempt /\ (Foremost(parent[u]))' /\ ~(Overtaken(parent[u]))'
                  /\ (status[Tip])' # "completed"
               \/ NoneWaits' /\ \A v \in Attempts : status'[v] = "paused" => v = u
    <3>1. \/ Overtaken(u) \/ UsedUp(u)
          \/ /\ parent[u] # NoAttempt /\ Foremost(parent[u]) /\ ~Overtaken(parent[u])
             /\ status[Tip] # "completed"
          \/ NoneWaits /\ \A v \in Attempts : status[v] = "paused" => v = u
      BY <2>2 DEF KAll, KPaused
    <3> QED
      BY <1>1, <1>2, <1>4, <2>1, <3>1
  <2> QED
    BY <1>1, <2>2 DEF KPaused
<1>9. KCount'
  BY <1>1, <1>2, <1>4 DEF KAll, KCount
<1>10. KSweep'
  BY <1>1 DEF KSweep
<1> QED
  BY <1>5, <1>6, <1>7, <1>8, <1>9, <1>10 DEF KAlone, KAll

\* What the shutdown leaves: if anything was live or paused, the newest of it
\* comes first, and the count is backed by what it continues.
LEMMA LeftIsBacked ==
  ASSUME KBase, KAll, NEW x \in Attempts, status[x] \in {"live", "paused"}
  PROVE  \/ charged = 0 \/ Overtaken(x)
         \/ \E a \in Ancestors(x) : status[a] \notin {"live", "paused"} /\ charged <= CountIn(a)
<1>1. /\ KTree /\ KRows /\ KeepAliveTypeOK /\ MaxRetries \in Nat /\ charged \in Nat /\ Step
  BY AncestorsStep, KeepAliveAssumption DEF KBase, KeepAliveTypeOK
<1>2. ASSUME NEW a \in Attempts, charged <= CountIn(a), charged # 0
      PROVE  status[a] \notin {"live", "paused"}
  <2>1. text[a] = NoText => CountIn(a) = 0
    BY DEF CountIn, NoText
  <2> QED
    BY <1>1, <1>2, <2>1 DEF KRows
<1>3. CASE UsedUp(x)
  <2>1. PICK a \in Ancestors(x) : text[a] = [kind |-> "stop", n |-> MaxRetries]
    BY <1>3 DEF UsedUp
  <2>2. a \in Attempts
    BY AncestorsAreParents
  <2>3. CountIn(a) = MaxRetries /\ charged <= MaxRetries
    BY <2>1 DEF CountIn, KAll, KCount
  <2>4. charged <= CountIn(a)
    BY <2>3
  <2> QED
    BY <1>2, <2>2, <2>4
<1>4. ASSUME parent[x] # NoAttempt, Foremost(parent[x]), charged # 0,
             NEW b \in Ancestors(parent[x]) \cup {parent[x]}, charged <= CountIn(b)
      PROVE  \E a \in Ancestors(x) : status[a] \notin {"live", "paused"} /\ charged <= CountIn(a)
  <2>1. b \in Ancestors(x)
    BY <1>1, <1>4 DEF Step
  <2>2. b \in Attempts
    BY <2>1, AncestorsAreParents
  <2> QED
    BY <1>2, <1>4, <2>1, <2>2
<1>5. CASE status[x] = "live"
  <2>1. \/ parent[x] # NoAttempt /\ Foremost(parent[x]) /\ charged <= CountIn(parent[x])
        \/ charged = 0
    BY <1>5 DEF KAll, KLive, LiveRows
  <2> QED
    BY <1>4, <2>1
<1>6. CASE status[x] = "paused"
  <2>1. CASE NoneWaits
    BY <2>1 DEF KAll, KCount, NoneWaits, Foremost
  <2>2. CASE parent[x] # NoAttempt /\ Foremost(parent[x]) /\ ~Overtaken(parent[x]) /\ charged # 0
    <3>1. PICK y \in Attempts : Foremost(y) /\ Backed(y)
      BY <2>2 DEF KAll, KCount
    <3>2. parent[x] \in Attempts
      BY <1>1, <2>2 DEF KeepAliveTypeOK
    <3>3. y = parent[x]
      BY <2>2, <3>1, <3>2, ForemostIsOne
    <3> QED
      BY <1>4, <2>2, <3>1, <3>3 DEF Backed
  <2> QED
    BY <1>3, <1>6, <2>1, <2>2 DEF KAll, KPaused
<1> QED
  BY <1>5, <1>6

\* The process shuts down: every row that ran or was parked waits.
LEMMA ExitAlone ==
  ASSUME KBase, KBase', KAlone, KAll, Exit
  PROVE  KAlone'
<1> DEFINE left == {t \in Attempts : status[t] \in {"live", "paused"}}
           o == [kind |-> "other", n |-> 0]
<1>1. /\ status' = [t \in Attempts |-> IF t \in left THEN "blocked" ELSE status[t]]
      /\ text' = [t \in Attempts |-> IF t \in left THEN o ELSE text[t]]
      /\ recent' = recent \cup left \X {u \in Attempts : status[u] = "blocked"}
                     \cup {p \in left \X left : p[1] > p[2]}
      /\ parent' = parent /\ awake' = FALSE /\ timer' = [t \in Attempts |-> NoTimer] /\ charged' = charged
  BY DEF Exit, Forget
<1>2. /\ KRows /\ charged \in Nat /\ \A u \in left : CountIn(u) = 0
  BY DEF KBase, KRows, KeepAliveTypeOK, CountIn, NoText
<1>3. /\ Rows' = Rows /\ Tip' = Tip /\ Tip \in Attempts
      /\ \A u \in Attempts : Ancestors(u)' = Ancestors(u) /\ Overtaken(u)' = Overtaken(u)
  BY <1>1, SameRows
<1>4. /\ \A u \in Attempts : status'[u] \notin {"live", "paused"} /\ timer'[u].kind = "none"
      /\ LiveRows' = {}
  BY <1>1 DEF LiveRows, NoTimer
<1>5. \A u \in Attempts : Waits(u)' = (Waits(u) \/ u \in left)
  BY <1>1 DEF Waits
<1>6. \A u \in Attempts : CountIn(u)' = CountIn(u)
  <2>1. ASSUME NEW u \in Attempts PROVE CountIn(u)' = CountIn(u)
    <3>1. CASE u \in left
      BY <1>1, <1>2, <3>1 DEF CountIn
    <3>2. CASE u \notin left
      BY <1>1, <3>2 DEF CountIn
    <3> QED
      BY <3>1, <3>2
  <2> QED
    BY <2>1
<1>7. ASSUME NEW u \in Attempts, Backed(u) PROVE Backed(u)'
  <2>1. \A a \in Ancestors(u) : a \in Attempts
    BY AncestorsAreParents
  <2> QED
    BY <1>1, <1>3, <1>6, <1>7, <2>1 DEF Backed
<1>8. charged = 0 \/ \E x \in Attempts : Foremost(x)' /\ Backed(x)'
  <2>1. CASE left = {}
    <3>1. \A u \in Attempts : Foremost(u) => Foremost(u)'
      BY <1>1, <1>5, <2>1 DEF Foremost
    <3> QED
      BY <1>7, <3>1 DEF KAll, KCount
  <2>2. CASE left # {}
    <3>1. left \in SUBSET (0..MaxRows) /\ MaxRows \in Nat
      BY KeepAliveAssumption DEF Attempts
    <3>2. PICK x \in left : \A u \in left : u <= x
      <4> HIDE DEF left
      <4> QED
        BY <2>2, <3>1, GreatestNat
    <3>3. x \in Attempts /\ status[x] \in {"live", "paused"}
      BY <3>2
    <3>4. Foremost(x)'
      <4>1. ASSUME NEW u \in Attempts \ {x}, Waits(u)' PROVE <<x, u>> \in recent'
        <5>1. CASE u \in left
          <6>1. x > u
            BY <3>2, <4>1, <5>1, KeepAliveAssumption DEF Attempts
          <6> QED
            BY <1>1, <3>2, <5>1, <6>1
        <5>2. CASE u \notin left
          <6>1. status[u] = "blocked"
            BY <1>5, <4>1, <5>2 DEF Waits
          <6> QED
            BY <1>1, <3>2, <4>1, <6>1
        <5> QED
          BY <5>1, <5>2
      <4> QED
        BY <1>5, <3>2, <3>3, <4>1 DEF Foremost
    <3>5. charged = 0 \/ Backed(x)'
      <4>1. CASE Overtaken(x)
        BY <1>3, <3>3, <4>1 DEF Backed
      <4>2. ASSUME NEW a \in Ancestors(x), charged <= CountIn(a) PROVE Backed(x)'
        <5>1. a \in Attempts
          BY <3>3, AncestorsAreParents
        <5>2. a \in Ancestors(x)' \cup {x} /\ charged' <= CountIn(a)'
          BY <1>1, <1>3, <1>6, <3>3, <4>2, <5>1
        <5> QED
          BY <5>2 DEF Backed
      <4> QED
        BY <3>3, <4>1, <4>2, LeftIsBacked
    <3> QED
      BY <3>3, <3>4, <3>5
  <2> QED
    BY <2>1, <2>2
<1>9. KCount'
  <2>1. (status[Tip])' = "completed" => charged' = 0
    BY <1>1, <1>3 DEF KAll, KCount
  <2> QED
    BY <1>1, <1>8, <2>1 DEF KAll, KCount
<1>10. KOne' /\ KLive' /\ KTimers' /\ KPaused' /\ KSweep'
  BY <1>1, <1>4 DEF KOne, Moving, KLive, KTimers, KPaused, KSweep
<1> QED
  BY <1>9, <1>10 DEF KAlone, KAll

\* A row that ran when the process died is parked by the boot.
LEMMA RanIsParked ==
  ASSUME KBase, KAll, ~WentBack, NEW c \in Attempts, status[c] = "live"
  PROVE  \/ UsedUp(c)
         \/ parent[c] # NoAttempt /\ Foremost(parent[c]) /\ ~Overtaken(parent[c])
         \/ NoneWaits /\ \A t \in Attempts : status[t] # "paused"
<1>1. KTree /\ KeepAliveTypeOK
  BY DEF KBase
<1>2. ASSUME parent[c] # NoAttempt, Foremost(parent[c]), Overtaken(parent[c])
      PROVE  FALSE
  <2> DEFINE p == parent[c]
  <2>1. p \in Attempts /\ p \in Rows /\ c \in Rows /\ parent[p] < p
    BY <1>1, <1>2 DEF KeepAliveTypeOK, KTree, Foremost, Waits, Rows
  <2>2. PICK w \in Rows : p < w /\ parent[w] = parent[p]
    BY <1>2 DEF Overtaken
  <2>3. w # c
    BY <2>1, <2>2, <1>1, KeepAliveAssumption DEF Attempts, NoAttempt, KeepAliveTypeOK
  <2>4. w <= c
    BY <2>2 DEF KAll, KLive, LiveRows
  <2>5. w < c
    BY <2>2, <2>3, <2>4, KeepAliveAssumption DEF Rows, Attempts
  <2> QED
    BY <2>1, <2>2, <2>5 DEF WentBack
<1> QED
  BY <1>2 DEF KAll, KLive, LiveRows

\* The process boots.
LEMMA BootAlone ==
  ASSUME KBase, KBase', KAlone, hands = 0, Boot
  PROVE  KAlone'
<1> DEFINE old == {t \in Attempts : status[t] = "paused" /\ SupersededRow(t)}
<1>1. /\ status' = [t \in Attempts |-> IF t \in old THEN "cancelled"
                                         ELSE IF t \in LiveRows THEN "paused" ELSE status[t]]
      /\ text' = text /\ recent' = recent /\ parent' = parent /\ armed' = armed
      /\ timer' = timer /\ charged' = charged /\ ~awake
  BY DEF Boot, mem
<1>2. armed = {} /\ \A t \in Attempts : timer[t].kind = "none"
  BY <1>1 DEF KBase, KMemory
<1>3. /\ \A t \in Attempts : t \in old => status[t] = "paused"
      /\ \A t \in Attempts : t \in LiveRows <=> status[t] = "live"
  BY DEF LiveRows
<1> HIDE DEF old
<1>4. /\ \A u \in Attempts : (status'[u] = "absent" <=> status[u] = "absent")
      /\ \A u \in Attempts : (status'[u] = "blocked" <=> status[u] = "blocked")
      /\ \A u \in Attempts : (status'[u] = "completed" <=> status[u] = "completed")
      /\ \A u \in Attempts : status'[u] # "live"
      /\ \A u \in Attempts : status'[u] = "paused" => status[u] \in {"live", "paused"}
  BY <1>1, <1>3
<1>5. /\ Rows' = Rows /\ Tip' = Tip /\ Tip \in Attempts
      /\ \A u \in Attempts : Ancestors(u)' = Ancestors(u) /\ Overtaken(u)' = Overtaken(u)
      /\ WentBack' = WentBack
  BY <1>1, <1>4, SameRows
<1> SUFFICES ASSUME ~WentBack' PROVE KAll'
  BY AloneIs, Zenon DEF KAlone, KAll
<1>6. KAll /\ ~WentBack
  BY <1>5, AloneIs
<1>7. /\ \A u \in Attempts : Waits(u)' = Waits(u)
      /\ \A u : CountIn(u)' = CountIn(u)
      /\ \A u \in Attempts : ~(Moving(u)') /\ timer'[u].kind = "none"
      /\ LiveRows' = {}
  BY <1>1, <1>2, <1>4 DEF Waits, CountIn, Moving, LiveRows
<1>8. /\ \A u \in Attempts : Foremost(u)' = Foremost(u) /\ UsedUp(u)' = UsedUp(u) /\ Backed(u)' = Backed(u)
      /\ NoneWaits' = NoneWaits
  BY <1>1, <1>5, <1>7 DEF Foremost, UsedUp, Backed, NoneWaits
<1>9. ASSUME NEW u \in Attempts, status'[u] = "paused"
      PROVE  \/ Overtaken(u)' \/ UsedUp(u)'
             \/ /\ parent'[u] # NoAttempt /\ (Foremost(parent[u]))' /\ ~(Overtaken(parent[u]))'
                /\ (status[Tip])' # "completed"
             \/ NoneWaits' /\ \A t \in Attempts : status'[t] = "paused" => t = u
  <2>1. parent[u] # NoAttempt => parent[u] \in Attempts
    BY DEF KBase, KeepAliveTypeOK
  <2>2. SUFFICES \/ Overtaken(u) \/ UsedUp(u)
                 \/ /\ parent[u] # NoAttempt /\ Foremost(parent[u]) /\ ~Overtaken(parent[u])
                    /\ status[Tip] # "completed"
                 \/ NoneWaits /\ \A t \in Attempts : status'[t] = "paused" => t = u
    BY <1>1, <1>4, <1>5, <1>8, <2>1
  <2>3. CASE status[u] = "live"
    <3>1. Tip = u
      <4>1. Tip \in Rows /\ (\A w \in Rows : w <= Tip) /\ u \in Rows /\ \A w \in Rows : w <= u
        BY <1>6, <2>3, TipIs DEF Rows, KAll, KLive, LiveRows
      <4> QED
        BY <4>1, KeepAliveAssumption DEF Rows, Attempts
    <3>2. \A t \in Attempts : status[t] = "live" => t = u
      BY <1>6, <2>3 DEF KAll, KOne, Moving
    <3>3. (\A t \in Attempts : status[t] # "paused") => \A t \in Attempts : status'[t] = "paused" => t = u
      BY <1>4, <3>2
    <3> QED
      BY <1>6, <2>3, <3>1, <3>3, RanIsParked
  <2>4. CASE status[u] = "paused"
    <3>1. CASE LiveRows # {}
      BY <1>6, <2>4, <3>1 DEF KAll, KLive
    <3>2. CASE LiveRows = {}
      <4>1. \A t \in Attempts : status'[t] = "paused" => status[t] = "paused"
        BY <1>1, <1>3, <3>2
      <4> QED
        BY <1>6, <2>4, <4>1 DEF KAll, KPaused
    <3> QED
      BY <3>1, <3>2
  <2> QED
    BY <1>4, <1>9, <2>3, <2>4
<1>10. KPaused'
  BY <1>9 DEF KPaused
<1>11. KCount'
  BY <1>1, <1>4, <1>5, <1>6, <1>8 DEF KAll, KCount
<1>12. KOne' /\ KLive' /\ KTimers' /\ KSweep'
  BY <1>1, <1>2, <1>7 DEF KOne, KLive, KTimers, KSweep
<1> QED
  BY <1>10, <1>11, <1>12 DEF KAll

\* The mission begins alone.
LEMMA KAloneInit == KeepAliveInit => KAlone
<1> SUFFICES ASSUME KeepAliveInit PROVE KAlone
  OBVIOUS
<1>1. 1 \in Attempts /\ \A t \in Attempts : t = 1 \/ t > 1
  BY KeepAliveAssumption DEF Attempts
<1>2. /\ LiveRows = {1} /\ Rows = {1} /\ NoneWaits
      /\ \A t \in Attempts : status[t] # "paused" /\ status[t] # "completed" /\ timer[t].kind = "none" /\ ~Waits(t)
  BY <1>1 DEF KeepAliveInit, LiveRows, Rows, NoneWaits, Waits, NoTimer
<1>3. Tip = 1
  BY <1>2 DEF Tip
<1>4. KOne /\ KLive
  BY <1>1, <1>2 DEF KeepAliveInit, KOne, Moving, KLive
<1>5. KTimers /\ KPaused
  BY <1>2 DEF KTimers, KPaused
<1>6. KCount /\ KSweep
  BY <1>1, <1>2, <1>3, KeepAliveAssumption DEF KeepAliveInit, KCount, KSweep
<1> QED
  BY <1>4, <1>5, <1>6 DEF KAlone

\* Every step keeps what a mission left to itself looks like.
LEMMA KAloneNext == KBase /\ KBase' /\ KAlone /\ [KeepAliveNext]_kvars => KAlone'
<1> SUFFICES ASSUME KBase, KBase', KAlone, [KeepAliveNext]_kvars PROVE KAlone'
  OBVIOUS
<1>1. CASE UNCHANGED kvars
  <2>1. /\ status' = status /\ parent' = parent /\ text' = text /\ recent' = recent /\ awake' = awake
        /\ swept' = swept /\ retries' = retries /\ timer' = timer /\ armed' = armed /\ hands' = hands
        /\ charged' = charged
    BY <1>1 DEF kvars, rows, mem
  <2>2. /\ Rows' = Rows /\ Tip' = Tip /\ WentBack' = WentBack
        /\ \A u \in Attempts : Ancestors(u)' = Ancestors(u) /\ Overtaken(u)' = Overtaken(u)
    BY <2>1, SameRows
  <2>3. /\ \A u : Waits(u)' = Waits(u) /\ CountIn(u)' = CountIn(u) /\ Moving(u)' = Moving(u)
        /\ LiveRows' = LiveRows /\ LiveRows \subseteq Attempts
    BY <2>1 DEF Waits, CountIn, Moving, LiveRows
  <2>4. /\ \A u : Foremost(u)' = Foremost(u)
        /\ \A u \in Attempts : UsedUp(u)' = UsedUp(u) /\ Backed(u)' = Backed(u)
        /\ NoneWaits' = NoneWaits
    BY <2>1, <2>2, <2>3 DEF Foremost, UsedUp, Backed, NoneWaits
  <2>5. KOne' = KOne /\ KSweep' = KSweep
    BY <2>1, <2>3 DEF KOne, KSweep
  <2>6. KLive => KLive'
    BY <2>1, <2>2, <2>3, <2>4 DEF KLive
  <2>7. KTimers => KTimers'
    BY <2>1, <2>2, <2>3, <2>4 DEF KTimers
  <2>8. KPaused => KPaused'
    <3>1. ASSUME KPaused, NEW u \in Attempts, status[u] = "paused"
          PROVE  \/ Overtaken(u)' \/ UsedUp(u)'
                 \/ /\ parent'[u] # NoAttempt /\ (Foremost(parent[u]))' /\ ~(Overtaken(parent[u]))'
                    /\ (status[Tip])' # "completed"
                 \/ NoneWaits' /\ \A v \in Attempts : status'[v] = "paused" => v = u
      <4>1. \/ Overtaken(u) \/ UsedUp(u)
            \/ /\ parent[u] # NoAttempt /\ Foremost(parent[u]) /\ ~Overtaken(parent[u])
               /\ status[Tip] # "completed"
            \/ NoneWaits /\ \A v \in Attempts : status[v] = "paused" => v = u
        BY <3>1 DEF KPaused
      <4>2. parent[u] # NoAttempt => parent[u] \in Attempts
        BY DEF KBase, KeepAliveTypeOK
      <4> QED
        BY <2>1, <2>2, <2>4, <4>1, <4>2
    <3> QED
      BY <2>1, <3>1 DEF KPaused
  <2>9. KCount => KCount'
    BY <2>1, <2>2, <2>4 DEF KCount
  <2> QED
    BY <2>1, <2>2, <2>5, <2>6, <2>7, <2>8, <2>9 DEF KAlone
<1>2. ASSUME NEW t \in Attempts, Cancel(t) \/ RetryTask(t) \/ ResumeTask(t) PROVE KAlone'
  <2>1. hands' = hands + 1 /\ hands \in Nat
    BY <1>2 DEF Cancel, RetryTask, ResumeTask, ByHand, KBase, KeepAliveTypeOK
  <2>2. hands' # 0
    BY <2>1
  <2> QED
    BY <2>2 DEF KAlone
<1>3. ASSUME hands' = hands, hands = 0 /\ ~WentBack' => (KAll => KAlone') PROVE KAlone'
  <2>1. CASE hands = 0 /\ ~WentBack'
    <3>1. KAll
      BY <2>1, RowsStay, AloneIs
    <3> QED
      BY <1>3, <2>1, <3>1
  <2>2. CASE ~(hands = 0 /\ ~WentBack')
    BY <1>3, <2>2 DEF KAlone
  <2> QED
    BY <2>1, <2>2
<1>4. ASSUME NEW t \in Attempts, Completes(t) \/ Fails(t) \/ AsksPerson(t) PROVE KAlone'
  BY <1>3, <1>4, ActsAlone, Zenon DEF Completes, Fails, AsksPerson
<1>5. ASSUME NEW t \in Attempts, Due(t) PROVE KAlone'
  <2>1. hands' = hands
    BY <1>5, RetryDueIs, BudgetDueIs, RearmDueIs, ResumeDueIs DEF Due, Calm
  <2> QED
    BY <1>3, <1>5, <2>1, DueAlone
<1>6. CASE Sweep
  <2>1. hands' = hands
    BY <1>6, SweepIs
  <2> QED
    BY <1>3, <1>6, <2>1, SweepAlone
<1>7. CASE Crash \/ Exit
  <2>1. hands' = hands
    BY <1>7 DEF Crash, Exit, Forget
  <2> QED
    BY <1>3, <1>7, <2>1, CrashAlone, ExitAlone
<1>8. CASE Boot
  <2>1. hands' = hands
    BY <1>8 DEF Boot
  <2> QED
    BY <1>3, <1>8, <2>1, BootAlone
<1> QED
  BY <1>1, <1>2, <1>4, <1>5, <1>6, <1>7, <1>8 DEF KeepAliveNext

\* The limit of retries (MAX_MISSION_RETRIES) holds across restarts: for any limit
\* and any number of rows, crashes and shutdowns, a mission left to itself is charged
\* no more retries between two reports, as long as the lineage does not go back to a
\* row it had passed over; and what the process counts, the rows can restore.
THEOREM RetriesAreLimited == KeepAliveSpec => []RetriesLimited
<1>1. KBase /\ KAlone => RetriesLimited
  <2> SUFFICES ASSUME KBase, KAlone PROVE RetriesLimited
    OBVIOUS
  <2>1. charged \in Nat /\ hands \in Nat /\ MaxRetries \in Nat
    BY KeepAliveAssumption DEF KBase, KeepAliveTypeOK
  <2>2. RetryBudget
    <3>1. CASE hands = 0
      BY <3>1 DEF KAlone, KCount, RetryBudget
    <3>2. CASE hands > 0
      BY <2>1, <3>2 DEF KBase, KMemory, RetryBudget
    <3> QED
      BY <2>1, <3>1, <3>2
  <2>3. CountIsDurable
    BY DEF KBase, KMemory, CountIsDurable
  <2> QED
    BY <2>2, <2>3 DEF RetriesLimited
<1> QED
  BY <1>1, KBaseInit, KBaseNext, KAloneInit, KAloneNext, PTL DEF KeepAliveSpec

==============================================================================
