---------------------------- MODULE LearningQueue ----------------------------
(* The queue of the learning pipeline (src/learning/pipeline/                *)
(* learning-queue.ts): work of others is run one item at a time. An          *)
(* observation may be dropped; a durable item, a run's settlement, may not:  *)
(* what the queue cannot carry is handed to the item's fallback or counted.  *)
(* Shutdown drains the durable work under a deadline and a budget of items,  *)
(* while items that run enqueue more. Items are numbered as they are offered.*)
EXTENDS Naturals, FiniteSets, Sequences, SequencesExt

CONSTANTS MaxQueue, MaxDurable, \* maxQueueSize, maxDurableQueueSize
          DrainItems,           \* the item budget of shutdown
          MaxOffers             \* bound: items offered

ASSUME LearnAssumption ==
  {MaxQueue, MaxDurable} \subseteq Nat \ {0} /\ {DrainItems, MaxOffers} \subseteq Nat

VARIABLES kind,    \* of each offered item: "observation", "durable" with a
                   \* fallback, "bare" without
          queue,
          current, \* the item in flight, 0 for none
          mode,    \* "open", "draining" (stopped) or "drained"
          left, deadline, \* drainBudget
          started, \* items that were run, the one in flight included
          evicted, \* observations that overflow dropped or refused
          fallen,  \* how often an item's fallback was called
          counted  \* durable items reported without a fallback

lvars == <<kind, queue, current, mode, left, deadline, started, evicted, fallen, counted>>

Items == 1..MaxOffers
Kinds == {"observation", "durable", "bare"}
Offered == DOMAIN kind
Durable(k, i) == k[i] # "observation"

LearnInit ==
  /\ kind = <<>> /\ queue = <<>> /\ current = 0
  /\ mode = "open" /\ left = 0 /\ deadline = FALSE
  /\ started = {} /\ evicted = {} /\ counted = {}
  /\ fallen = [i \in Items |-> 0]

---------------------------------------------------------------------------
(* One turn of processNext, which ends with an item in flight or the pass    *)
(* over.                                                                     *)

\* Mutant of UpToLastDurable: a drain discards every observation.
UpToLastDurable_DurableOnly(k, q) == SelectSeq(q, LAMBDA i : Durable(k, i))

\* Once stopped, what trails the last durable item is discarded.
UpToLastDurable(k, q) ==
  SubSeq(q, 1, CHOOSE n \in 0..Len(q) :
    /\ n > 0 => Durable(k, q[n])
    /\ \A j \in n + 1..Len(q) : ~Durable(k, q[j]))

DrainSpent == left = 0 \/ deadline

\* k and q are the kinds and the queue as the turn finds them.
Turn(k, q) ==
  LET r == IF mode = "open" THEN q ELSE UpToLastDurable(k, q) IN
    IF r = <<>> \/ (mode = "draining" /\ DrainSpent)
    THEN queue' = r /\ current' = 0 /\ UNCHANGED <<left, started>>
    ELSE /\ queue' = Tail(r) /\ current' = Head(r)
         /\ started' = started \cup {Head(r)}
         /\ left' = IF mode = "draining" THEN left - 1 ELSE left

ItemEnds ==
  /\ current # 0
  /\ Turn(kind, queue)
  /\ UNCHANGED <<kind, mode, deadline, evicted, fallen, counted>>

---------------------------------------------------------------------------
(* enqueue.                                                                  *)

Offers(c) ==
  /\ Len(kind) < MaxOffers
  /\ kind' = Append(kind, c)
  /\ UNCHANGED <<mode, deadline>>
New == Len(kind) + 1
Idle == UNCHANGED <<queue, current, left, started>>

DurableQueued == Cardinality({j \in DOMAIN queue : Durable(kind, queue[j])})

\* Its fallback does the work at once, or it is counted.
Abandons(S, k) ==
  /\ fallen' = [i \in Items |-> IF i \in S /\ k[i] = "durable" THEN fallen[i] + 1 ELSE fallen[i]]
  /\ counted' = counted \cup {i \in S : k[i] = "bare"}

RefuseDurable(c) ==
  /\ c # "observation" /\ (mode = "drained" \/ DurableQueued >= MaxDurable)
  /\ Offers(c) /\ Idle
  /\ Abandons({New}, kind')
  /\ UNCHANGED evicted

RefuseObservation ==
  /\ \/ mode # "open"
     \/ Len(queue) >= MaxQueue /\ \A j \in DOMAIN queue : Durable(kind, queue[j])
  /\ Offers("observation") /\ Idle
  /\ evicted' = evicted \cup {New}
  /\ UNCHANGED <<fallen, counted>>

\* An item in flight means a pass is running, which will come to this one.
Joins(c, q) ==
  IF current # 0 THEN queue' = Append(q, New) /\ UNCHANGED <<current, left, started>>
  ELSE Turn(kind', Append(q, New))

Enqueue(c) ==
  /\ IF c = "observation" THEN mode = "open" /\ Len(queue) < MaxQueue
     ELSE mode # "drained" /\ DurableQueued < MaxDurable
  /\ Offers(c) /\ Joins(c, queue)
  /\ UNCHANGED <<evicted, fallen, counted>>

\* An observation at the bound takes the place of the oldest one.
EnqueueEvicting(n) ==
  /\ mode = "open" /\ Len(queue) >= MaxQueue
  /\ n \in DOMAIN queue /\ ~Durable(kind, queue[n])
  /\ \A j \in 1..n - 1 : Durable(kind, queue[j])
  /\ Offers("observation") /\ Joins("observation", RemoveAt(queue, n))
  /\ evicted' = evicted \cup {queue[n]}
  /\ UNCHANGED <<fallen, counted>>

---------------------------------------------------------------------------
(* shutdown.                                                                 *)

ShutdownBegins ==
  /\ mode = "open"
  /\ mode' = "draining" /\ left' = DrainItems
  /\ UNCHANGED <<kind, queue, current, deadline, started, evicted, fallen, counted>>

DeadlineStrikes ==
  /\ mode = "draining" /\ ~deadline
  /\ deadline' = TRUE
  /\ UNCHANGED <<kind, queue, current, mode, left, started, evicted, fallen, counted>>

\* Mutant of ShutdownEnds: what was handed to its fallback stays queued.
ShutdownEnds_KeepsQueue ==
  /\ mode = "draining" /\ (current = 0 \/ deadline)
  /\ mode' = "drained"
  /\ Abandons({i \in Range(queue) : Durable(kind, i)}, kind)
  /\ UNCHANGED <<kind, queue, current, left, deadline, started, evicted>>

\* The pass ended, its budget or its work done; or the deadline passed, with an
\* item that cannot be stopped still in flight.
ShutdownEnds ==
  /\ mode = "draining" /\ (current = 0 \/ deadline)
  /\ mode' = "drained" /\ queue' = <<>>
  /\ Abandons({i \in Range(queue) : Durable(kind, i)}, kind)
  /\ UNCHANGED <<kind, current, left, deadline, started, evicted>>

LearnNext ==
  \/ ItemEnds \/ RefuseObservation \/ ShutdownBegins \/ DeadlineStrikes \/ ShutdownEnds
  \/ \E c \in Kinds : RefuseDurable(c) \/ Enqueue(c)
  \/ \E n \in 1..MaxQueue + MaxDurable : EnqueueEvicting(n)

LearnSpec == LearnInit /\ [][LearnNext]_lvars

---------------------------------------------------------------------------
(* What it promises.                                                         *)

\* Types; the bounds hold, each for its own class of items: together they allow
\* MaxQueue + MaxDurable items.
LearnTypeOK ==
  /\ kind \in Seq(Kinds) /\ Len(kind) <= MaxOffers
  /\ Range(queue) \cup evicted \cup started \cup counted \subseteq Offered
  /\ current \in 0..Len(kind) /\ (current # 0 => current \in started)
  /\ mode \in {"open", "draining", "drained"} /\ left \in 0..DrainItems /\ deadline \in BOOLEAN
  /\ fallen \in [Items -> Nat]
  /\ DurableQueued <= MaxDurable /\ Len(queue) - DurableQueued <= MaxQueue
  /\ mode = "open" /\ queue # <<>> => current # 0

\* A durable item is in exactly one place: waiting, run, handed to its fallback
\* once, or counted as lost. Whatever a running item enqueues and however
\* shutdown ends, it is neither dropped silently nor settled twice.
SettledOnce ==
  \A i \in Offered : Durable(kind, i) =>
    Cardinality({j \in DOMAIN queue : queue[j] = i}) + fallen[i]
      + (IF i \in started THEN 1 ELSE 0) + (IF i \in counted THEN 1 ELSE 0) = 1

\* Items run in the order they were taken, in a drain too, and an observation
\* leaves the queue unrun only at the bound or when no durable item waits
\* behind it: a settlement sees the observations it judges.
EvidenceFirst ==
  [][\A i \in Range(queue) :
       /\ i \in Range(queue') => \A j \in started' \ started : j < i
       /\ i \notin Range(queue') /\ mode' # "drained" =>
            \/ i \in started' \cup evicted'
            \/ ~Durable(kind, i) /\ \A j \in Range(queue') : Durable(kind', j) => j < i]_lvars

=============================================================================
