-------------------------- MODULE Publication_proofs --------------------------
(***************************************************************************)
(* How work reaches the project: the write lock of a project's bulk        *)
(* writers, and the workspace leases whose commits take it.                *)
(***************************************************************************)
EXTENDS ProjectWriteLock, WorkspaceLease, TLAPS, FiniteSetTheorems

-----------------------------------------------------------------------------
(* The write lock.                                                         *)

(***************************************************************************)
(* For any writers, processes and machines, as long as no two processes    *)
(* survive one that died in the middle of a section: whoever works under   *)
(* the lock has it, one decision is made at a time, and a lock that nobody *)
(* holds can be taken away.                                                *)
(*                                                                         *)
(* Alone is the state after such a death: one process is left, and its     *)
(* sections do not interleave with anything. Before it, no directory is    *)
(* without an owner but the one whose maker is about to write the file,    *)
(* and no marker without a reclaim at work; after it, these two fail, and  *)
(* the one thread that is left makes up for them.                          *)
(***************************************************************************)
Alone == \A p, q \in up : p = q

Deciding == {"decide", "move", "drop", "dropbusy"}
Judging  == {"mark", "unmark", "remark", "decide", "move"}

\* Its token was in the owner file, and it holds nothing any more.
Past(w) == pc[w] \in {"done", "gaveup", "dead"}

\* The processes and their threads.
Threads ==
  /\ \A w \in Writers : pc[w] = "dead" <=> Home[w] \notin up
  /\ \A v, w \in Writers :
       Home[v] = Home[w] /\ pc[v] \in Section /\ pc[w] \in Section => v = w

\* Where a writer is whose handle is not released.
Handles ==
  /\ \A w \in held : pc[w] \in Judging \cup {"hold", "again", "drop", "dropbusy"}
  /\ \A w \in Writers : pc[w] \in {"hold", "again"} => w \in held
  /\ \A w \in held : pc[w] \in Judging => seen[w] = w

\* The lock directory and its owner file.
Directory ==
  /\ owner # NoOne => lock = owner /\ (owner \in held \/ Past(owner))
  /\ \A w \in Writers : pc[w] = "own" => lock = w /\ owner = NoOne
  /\ \A w \in held : pc[w] # "drop" => owner = w
  /\ \A w \in Writers : pc[w] = "done" \/ (w \in held /\ pc[w] = "drop") => owner # w
  /\ lock # NoOne /\ owner = NoOne => pc[lock] = "own" \/ Alone
  /\ old => owner \notin held /\ (owner = NoOne => Alone)

\* What a reclaim that is no release was justified against, and acts on.
Reclaims ==
  /\ \A w \in Writers \ held :
       pc[w] \in Judging => \/ seen[w] = NoOne /\ Alone
                            \/ seen[w] # NoOne /\ Past(seen[w])
  /\ \A w \in Writers \ held :
       pc[w] = "move" => owner \notin held /\ (Alone \/ (owner # NoOne /\ owner = seen[w]))

\* The marker belongs to the reclaim that decides.
Markers ==
  /\ \A w \in Writers : pc[w] \in Deciding => marker = w
  /\ marker # NoOne => pc[marker] \in Deciding \/ Alone
  /\ spent => Alone
  /\ \A w \in Writers : pc[w] \in {"unmark", "remark"} => Alone

IInv == TypeOK /\ Threads /\ Handles /\ Directory /\ Reclaims /\ Markers

-----------------------------------------------------------------------------
(* Every step keeps the invariant.                                         *)

\* A reclaim that could not act keeps the counts of retries in their range.
LEMMA ContendedTyped ==
  ASSUME TypeOK, NEW w \in Writers, Contended(w)
  PROVE  /\ pc' \in [Writers -> PCs]
         /\ held' \subseteq Writers
         /\ tries' \in [Writers -> 0..MaxRelease]
<1> USE LockAssumption DEF TypeOK
<1>1. CASE w \in held /\ tries[w] < MaxRelease
  <2>1. tries[w] + 1 \in 0..MaxRelease /\ tries' = [tries EXCEPT ![w] = @ + 1]
    BY <1>1 DEF Contended
  <2>2. tries' \in [Writers -> 0..MaxRelease]
    BY <2>1
  <2> QED
    BY <1>1, <2>2 DEF Contended, To, PCs
<1>2. CASE w \notin held
  BY <1>2 DEF Contended, To, PCs
<1>3. CASE w \in held /\ ~(tries[w] < MaxRelease)
  BY <1>3 DEF Contended, To, PCs
<1> QED
  BY <1>1, <1>2, <1>3

\* Taking a free path, or finding it taken.
LEMMA TryKeeps ==
  ASSUME IInv, NEW w \in Writers, Try(w)
  PROVE  IInv'
<1> USE LockAssumption DEF IInv, Try, To, Turn, disk
<1>1. TypeOK'
  BY DEF TypeOK, PCs, Section, Fragile
<1>2. Threads'
  BY DEF TypeOK, Threads, Section, Fragile
<1>3. Handles'
  BY DEF TypeOK, Handles, Directory, Judging
<1>4. Directory'
  BY DEF TypeOK, Threads, Handles, Directory, Reclaims, Alone, Section, Fragile, Deciding,
     Judging, Past
<1>5. Reclaims'
  BY DEF TypeOK, Threads, Handles, Directory, Reclaims, Markers, Alone, Section, Fragile,
     Deciding, Judging, Past
<1>6. Markers'
  BY DEF TypeOK, Threads, Handles, Markers, Alone, Section, Fragile, Deciding, Judging, Past
<1> QED
  BY <1>1, <1>2, <1>3, <1>4, <1>5, <1>6

\* The owner file goes into the writer's own directory.
LEMMA WriteOwnerKeeps ==
  ASSUME IInv, NEW w \in Writers, WriteOwner(w)
  PROVE  IInv'
<1> USE LockAssumption DEF IInv, WriteOwner, To, disk
<1>1. TypeOK'
  BY DEF TypeOK, PCs, Section, Fragile
<1>2. Threads'
  BY DEF TypeOK, Threads, Section, Fragile
<1>3. Handles'
  BY DEF TypeOK, Handles, Directory, Judging
<1>4. Directory'
  BY DEF TypeOK, Threads, Handles, Directory, Reclaims, Alone, Section, Fragile, Deciding,
     Judging, Past
<1>5. Reclaims'
  BY DEF TypeOK, Threads, Handles, Directory, Reclaims, Markers, Alone, Section, Fragile,
     Deciding, Judging, Past
<1>6. Markers'
  BY DEF TypeOK, Threads, Handles, Markers, Alone, Section, Fragile, Deciding, Judging, Past
<1> QED
  BY <1>1, <1>2, <1>3, <1>4, <1>5, <1>6

\* What justifies a reclaim is past for good.
LEMMA LookKeeps ==
  ASSUME IInv, NEW w \in Writers, Look(w)
  PROVE  IInv'
<1> USE LockAssumption DEF IInv, Look, To, Stale, Verdict, disk
<1>1. TypeOK'
  BY DEF TypeOK, PCs, Section, Fragile
<1>2. Threads'
  BY DEF TypeOK, Threads, Section, Fragile
<1>3. Handles'
  BY DEF TypeOK, Handles, Directory, Judging
<1>4. Directory'
  BY DEF TypeOK, Threads, Handles, Directory, Reclaims, Alone, Section, Fragile, Deciding,
     Judging, Past
<1>5. Reclaims'
  BY DEF TypeOK, Threads, Handles, Directory, Reclaims, Markers, Alone, Section, Fragile,
     Deciding, Judging, Past
<1>6. Markers'
  BY DEF TypeOK, Threads, Handles, Markers, Alone, Section, Fragile, Deciding, Judging, Past
<1> QED
  BY <1>1, <1>2, <1>3, <1>4, <1>5, <1>6

\* Working without the lock touches nothing.
LEMMA TimeOutKeeps ==
  ASSUME IInv, NEW w \in Writers, TimeOut(w)
  PROVE  IInv'
<1> USE LockAssumption DEF IInv, TimeOut, To, Turn, disk
<1>1. TypeOK'
  BY DEF TypeOK, PCs, Section, Fragile
<1>2. Threads'
  BY DEF TypeOK, Threads, Section, Fragile
<1>3. Handles'
  BY DEF TypeOK, Handles, Directory, Judging
<1>4. Directory'
  BY DEF TypeOK, Threads, Handles, Directory, Reclaims, Alone, Section, Fragile, Deciding,
     Judging, Past
<1>5. Reclaims'
  BY DEF TypeOK, Threads, Handles, Directory, Reclaims, Markers, Alone, Section, Fragile,
     Deciding, Judging, Past
<1>6. Markers'
  BY DEF TypeOK, Threads, Handles, Markers, Alone, Section, Fragile, Deciding, Judging, Past
<1> QED
  BY <1>1, <1>2, <1>3, <1>4, <1>5, <1>6

\* A release is justified against the holder's own token.
LEMMA ReleaseKeeps ==
  ASSUME IInv, NEW w \in Writers, Release(w)
  PROVE  IInv'
<1> USE LockAssumption DEF IInv, Release, To, Turn, disk
<1>1. TypeOK'
  BY DEF TypeOK, PCs, Section, Fragile
<1>2. Threads'
  BY DEF TypeOK, Threads, Section, Fragile
<1>3. Handles'
  BY DEF TypeOK, Handles, Directory, Judging
<1>4. Directory'
  BY DEF TypeOK, Threads, Handles, Directory, Reclaims, Alone, Section, Fragile, Deciding,
     Judging, Past
<1>5. Reclaims'
  BY DEF TypeOK, Threads, Handles, Directory, Reclaims, Markers, Alone, Section, Fragile,
     Deciding, Judging, Past
<1>6. Markers'
  BY DEF TypeOK, Threads, Handles, Markers, Alone, Section, Fragile, Deciding, Judging, Past
<1> QED
  BY <1>1, <1>2, <1>3, <1>4, <1>5, <1>6

\* The marker is made, found spent, or left to its maker.
LEMMA MarkKeeps ==
  ASSUME IInv, NEW w \in Writers, Mark(w)
  PROVE  IInv'
<1> USE LockAssumption DEF IInv, Mark, To, Contended, Orphaned, disk
<1>1. TypeOK'
  <2>1. CASE Contended(w)
    <3>1. /\ pc' \in [Writers -> PCs] /\ held' \subseteq Writers
          /\ tries' \in [Writers -> 0..MaxRelease]
      BY <2>1, ContendedTyped
    <3>2. /\ marker' \in Writers \cup {NoOne} /\ spent' \in BOOLEAN
          /\ UNCHANGED <<lock, owner, old, up, seen>>
      BY DEF TypeOK
    <3> QED
      BY <3>1, <3>2 DEF TypeOK
  <2>2. CASE ~Contended(w)
    <3>1. UNCHANGED <<lock, owner, old, up, seen, held, tries>>
      BY <2>2 DEF Contended
    <3>2. /\ marker' \in Writers \cup {NoOne} /\ spent' \in BOOLEAN
          /\ pc' \in [Writers -> PCs]
      BY <2>2 DEF TypeOK, PCs, Section, Fragile
    <3> QED
      BY <3>1, <3>2 DEF TypeOK
  <2> QED
    BY <2>1, <2>2
<1>2. Threads'
  BY DEF TypeOK, Threads, Section, Fragile
<1>3. Handles'
  BY DEF TypeOK, Handles, Directory, Judging
<1>4. Directory'
  BY DEF TypeOK, Threads, Handles, Directory, Reclaims, Alone, Section, Fragile, Deciding,
     Judging, Past
<1>5. Reclaims'
  BY DEF TypeOK, Threads, Handles, Directory, Reclaims, Markers, Alone, Section, Fragile,
     Deciding, Judging, Past
<1>6. Markers'
  BY DEF TypeOK, Threads, Handles, Markers, Alone, Section, Fragile, Deciding, Judging, Past
<1> QED
  BY <1>1, <1>2, <1>3, <1>4, <1>5, <1>6

\* Only a writer that is alone removes a marker not its own.
LEMMA UnmarkKeeps ==
  ASSUME IInv, NEW w \in Writers, Unmark(w)
  PROVE  IInv'
<1> USE LockAssumption DEF IInv, Unmark, To, disk
<1>1. TypeOK'
  BY DEF TypeOK, PCs, Section, Fragile
<1>2. Threads'
  BY DEF TypeOK, Threads, Section, Fragile
<1>3. Handles'
  BY DEF TypeOK, Handles, Directory, Judging
<1>4. Directory'
  BY DEF TypeOK, Threads, Handles, Directory, Reclaims, Alone, Section, Fragile, Deciding,
     Judging, Past
<1>5. Reclaims'
  BY DEF TypeOK, Threads, Handles, Directory, Reclaims, Markers, Alone, Section, Fragile,
     Deciding, Judging, Past
<1>6. Markers'
  BY DEF TypeOK, Threads, Handles, Markers, Alone, Section, Fragile, Deciding, Judging, Past
<1> QED
  BY <1>1, <1>2, <1>3, <1>4, <1>5, <1>6

\* It makes its own, or leaves the lock as it is.
LEMMA RemarkKeeps ==
  ASSUME IInv, NEW w \in Writers, Remark(w)
  PROVE  IInv'
<1> USE LockAssumption DEF IInv, Remark, To, Contended, disk
<1>1. TypeOK'
  <2>1. CASE marker = NoOne
    BY <2>1 DEF TypeOK, PCs, Section, Fragile
  <2>2. CASE marker # NoOne
    <3>1. /\ pc' \in [Writers -> PCs] /\ held' \subseteq Writers
          /\ tries' \in [Writers -> 0..MaxRelease]
      BY <2>2, ContendedTyped
    <3> QED
      BY <2>2, <3>1 DEF TypeOK
  <2> QED
    BY <2>1, <2>2
<1>2. Threads'
  BY DEF TypeOK, Threads, Section, Fragile
<1>3. Handles'
  BY DEF TypeOK, Handles, Directory, Judging
<1>4. Directory'
  BY DEF TypeOK, Threads, Handles, Directory, Reclaims, Alone, Section, Fragile, Deciding,
     Judging, Past
<1>5. Reclaims'
  BY DEF TypeOK, Threads, Handles, Directory, Reclaims, Markers, Alone, Section, Fragile,
     Deciding, Judging, Past
<1>6. Markers'
  BY DEF TypeOK, Threads, Handles, Markers, Alone, Section, Fragile, Deciding, Judging, Past
<1> QED
  BY <1>1, <1>2, <1>3, <1>4, <1>5, <1>6

\* Under the marker the owner is the one that was judged.
LEMMA DecideKeeps ==
  ASSUME IInv, NEW w \in Writers, Decide(w)
  PROVE  IInv'
<1> USE LockAssumption DEF IInv, Decide, To, Ours, Verdict, disk
<1>1. TypeOK'
  BY DEF TypeOK, PCs, Section, Fragile
<1>2. Threads'
  BY DEF TypeOK, Threads, Section, Fragile
<1>3. Handles'
  BY DEF TypeOK, Handles, Directory, Judging
<1>4. Directory'
  BY DEF TypeOK, Threads, Handles, Directory, Reclaims, Alone, Section, Fragile, Deciding,
     Judging, Past
<1>5. Reclaims'
  BY DEF TypeOK, Threads, Handles, Directory, Reclaims, Markers, Alone, Section, Fragile,
     Deciding, Judging, Past
<1>6. Markers'
  BY DEF TypeOK, Threads, Handles, Markers, Alone, Section, Fragile, Deciding, Judging, Past
<1> QED
  BY <1>1, <1>2, <1>3, <1>4, <1>5, <1>6

\* No lock of a live holder is moved.
LEMMA MovedKeeps ==
  ASSUME IInv, NEW w \in Writers, Moved(w)
  PROVE  IInv'
<1> USE LockAssumption DEF IInv, Moved, To, disk
<1>1. TypeOK'
  BY DEF TypeOK, PCs, Section, Fragile
<1>2. Threads'
  BY DEF TypeOK, Threads, Section, Fragile
<1>3. Handles'
  BY DEF TypeOK, Handles, Directory, Judging
<1>4. Directory'
  BY DEF TypeOK, Threads, Handles, Directory, Reclaims, Alone, Section, Fragile, Deciding,
     Judging, Past
<1>5. Reclaims'
  BY DEF TypeOK, Threads, Handles, Directory, Reclaims, Markers, Alone, Section, Fragile,
     Deciding, Judging, Past
<1>6. Markers'
  BY DEF TypeOK, Threads, Handles, Markers, Alone, Section, Fragile, Deciding, Judging, Past
<1> QED
  BY <1>1, <1>2, <1>3, <1>4, <1>5, <1>6

\* A directory that cannot be moved stands.
LEMMA BusyKeeps ==
  ASSUME IInv, NEW w \in Writers, Busy(w)
  PROVE  IInv'
<1> USE LockAssumption DEF IInv, Busy, To, disk
<1>1. TypeOK'
  BY DEF TypeOK, PCs, Section, Fragile
<1>2. Threads'
  BY DEF TypeOK, Threads, Section, Fragile
<1>3. Handles'
  BY DEF TypeOK, Handles, Directory, Judging
<1>4. Directory'
  BY DEF TypeOK, Threads, Handles, Directory, Reclaims, Alone, Section, Fragile, Deciding,
     Judging, Past
<1>5. Reclaims'
  BY DEF TypeOK, Threads, Handles, Directory, Reclaims, Markers, Alone, Section, Fragile,
     Deciding, Judging, Past
<1>6. Markers'
  BY DEF TypeOK, Threads, Handles, Markers, Alone, Section, Fragile, Deciding, Judging, Past
<1> QED
  BY <1>1, <1>2, <1>3, <1>4, <1>5, <1>6

\* The marker removed is the reclaim's own.
LEMMA DropKeeps ==
  ASSUME IInv, NEW w \in Writers, Drop(w)
  PROVE  IInv'
<1> USE LockAssumption DEF IInv, Drop, To, Settled, Contended, disk
<1>1. TypeOK'
  <2>1. CASE pc[w] = "drop"
    BY <2>1 DEF TypeOK, PCs
  <2>2. CASE pc[w] = "dropbusy"
    <3>1. /\ pc' \in [Writers -> PCs] /\ held' \subseteq Writers
          /\ tries' \in [Writers -> 0..MaxRelease]
      BY <2>2, ContendedTyped
    <3> QED
      BY <3>1 DEF TypeOK
  <2> QED
    BY <2>1, <2>2
<1>2. Threads'
  BY DEF TypeOK, Threads, Section, Fragile
<1>3. Handles'
  BY DEF TypeOK, Handles, Directory, Judging
<1>4. Directory'
  BY DEF TypeOK, Threads, Handles, Directory, Reclaims, Alone, Section, Fragile, Deciding,
     Judging, Past
<1>5. Reclaims'
  BY DEF TypeOK, Threads, Handles, Directory, Reclaims, Markers, Alone, Section, Fragile,
     Deciding, Judging, Past
<1>6. Markers'
  BY DEF TypeOK, Threads, Handles, Markers, Alone, Section, Fragile, Deciding, Judging, Past
<1> QED
  BY <1>1, <1>2, <1>3, <1>4, <1>5, <1>6

\* The heartbeat keeps a holder's lock young.
LEMMA AgeLockKeeps ==
  ASSUME IInv, AgeLock
  PROVE  IInv'
<1> USE LockAssumption DEF IInv, AgeLock, mem
<1>1. TypeOK' /\ Threads' /\ Handles' /\ Reclaims' /\ Markers'
  BY DEF TypeOK, Threads, Handles, Reclaims, Markers, Alone, Past
<1>2. Directory'
  BY DEF TypeOK, Directory, Renewed, Alone, Past
<1> QED
  BY <1>1, <1>2

\* A marker grows old only when its maker is dead.
LEMMA AgeMarkerKeeps ==
  ASSUME IInv, AgeMarker
  PROVE  IInv'
<1> USE LockAssumption DEF IInv, AgeMarker, mem
<1>1. TypeOK' /\ Threads' /\ Handles' /\ Directory' /\ Reclaims'
  BY DEF TypeOK, Threads, Handles, Directory, Reclaims, Alone, Past
<1>2. Markers'
  BY DEF TypeOK, Threads, Markers, Orphaned, Alone, Past, Deciding
<1> QED
  BY <1>1, <1>2

\* Of at most one process any two are the same.
LEMMA AtMostOne ==
  ASSUME NEW S \in SUBSET Procs, Cardinality(S) <= 1
  PROVE  \A p, q \in S : p = q
<1> SUFFICES ASSUME NEW p \in S, NEW q \in S, p # q
             PROVE  FALSE
  OBVIOUS
<1>1. IsFiniteSet(S) /\ Cardinality(S) \in Nat
  BY LockAssumption, FS_Subset, FS_CardinalityType
<1>2. IsFiniteSet(S \ {p}) /\ Cardinality(S \ {p}) = Cardinality(S) - 1
  BY <1>1, FS_RemoveElement
<1>3. S \ {p} = {}
  BY <1>1, <1>2, FS_EmptySet
<1> QED
  BY <1>3

\* Whoever dies in the middle of a section leaves at most one process.
LEMMA CrashKeeps ==
  ASSUME Survivors <= 1, IInv, NEW p \in Procs, Crash(p)
  PROVE  IInv'
<1> USE LockAssumption DEF IInv, Crash, disk
<1>1. (\E w \in Writers : Home[w] = p /\ pc[w] \in Fragile) => Alone'
  <2> SUFFICES ASSUME NEW w \in Writers, Home[w] = p, pc[w] \in Fragile
               PROVE  Alone'
    OBVIOUS
  <2>1. up' \in SUBSET Procs /\ up' = up \ {p} /\ Cardinality(up') <= Survivors
    BY DEF TypeOK
  <2>2. Cardinality(up') \in Nat
    BY <2>1, FS_Subset, FS_CardinalityType
  <2>3. Cardinality(up') <= 1
    BY <2>1, <2>2
  <2> QED
    BY <2>1, <2>3, AtMostOne DEF Alone
<1>2. Alone => Alone'
  BY DEF Alone
<1>3. TypeOK'
  BY DEF TypeOK, PCs
<1>4. Threads'
  BY DEF TypeOK, Threads, Section, Fragile
<1>5. Handles'
  BY DEF TypeOK, Handles, Judging
<1>6. Directory'
  BY <1>1, <1>2 DEF TypeOK, Directory, Past, Fragile
<1>7. Reclaims'
  BY <1>2 DEF TypeOK, Handles, Reclaims, Judging, Past
<1>8. Markers'
  BY <1>1, <1>2 DEF TypeOK, Markers, Deciding, Fragile
<1> QED
  BY <1>3, <1>4, <1>5, <1>6, <1>7, <1>8

-----------------------------------------------------------------------------
(* The theorems.                                                           *)

\* No process runs yet, and nothing is on disk.
LEMMA InitHolds == Init => IInv
<1> SUFFICES ASSUME Init
             PROVE  IInv
  OBVIOUS
<1> USE LockAssumption DEF Init
<1>1. TypeOK
  <2>1. 0 \in 0..MaxRelease
    OBVIOUS
  <2>2. tries \in [Writers -> 0..MaxRelease]
    BY <2>1
  <2>3. pc \in [Writers -> PCs] /\ seen \in [Writers -> Writers \cup {NoOne}]
    BY DEF PCs
  <2> QED
    BY <2>2, <2>3 DEF TypeOK
<1>2. Threads /\ Handles /\ Directory /\ Reclaims /\ Markers
  BY DEF Threads, Handles, Directory, Reclaims, Markers, Section, Fragile,
         Deciding, Judging, Past
<1> QED
  BY <1>1, <1>2 DEF IInv

\* A step, or none.
LEMMA NextKeeps ==
  ASSUME Survivors <= 1, IInv, [Next]_vars
  PROVE  IInv'
<1>1. ASSUME NEW w \in Writers, Step(w) \/ TimeOut(w)
      PROVE  IInv'
  BY <1>1, TryKeeps, WriteOwnerKeeps, LookKeeps, TimeOutKeeps, ReleaseKeeps, MarkKeeps,
     UnmarkKeeps, RemarkKeeps, DecideKeeps, MovedKeeps, BusyKeeps, DropKeeps DEF Step
<1>2. ASSUME NEW p \in Procs, Crash(p)
      PROVE  IInv'
  BY <1>2, CrashKeeps
<1>3. CASE AgeLock \/ AgeMarker
  BY <1>3, AgeLockKeeps, AgeMarkerKeeps
<1>4. CASE UNCHANGED vars
  BY <1>4 DEF vars, disk, mem, IInv, TypeOK, Threads, Handles, Directory, Reclaims,
              Markers, Alone, Past
<1> QED
  BY <1>1, <1>2, <1>3, <1>4 DEF Next

\* The invariant holds in every reachable state.
LEMMA Invariant ==
  ASSUME Survivors <= 1
  PROVE  Spec => []IInv
<1>1. IInv /\ [Next]_vars => IInv'
  BY NextKeeps
<1> QED
  BY <1>1, InitHolds, PTL DEF Spec

\* The state of the lock is typed; the retries of a release stay in their range
\* (RELEASE_RETRIES).
THEOREM LockTyped ==
  ASSUME Survivors <= 1
  PROVE  Spec => []TypeOK
<1>1. IInv => TypeOK
  BY DEF IInv
<1> QED
  BY <1>1, Invariant, PTL

\* No reclaim takes the lock from a holder that is alive (reclaim).
THEOREM HolderSafe ==
  ASSUME Survivors <= 1
  PROVE  Spec => []HolderKeepsLock
<1>1. IInv => HolderKeepsLock
  BY LockAssumption DEF IInv, TypeOK, Handles, Directory, HolderKeepsLock
<1> QED
  BY <1>1, Invariant, PTL

\* One reclaim decides at a time (takeReclaimMarker).
THEOREM DecisionSerialized ==
  ASSUME Survivors <= 1
  PROVE  Spec => []OneDecision
<1>1. IInv => OneDecision
  BY DEF IInv, Markers, Deciding, OneDecision
<1> QED
  BY <1>1, Invariant, PTL

\* A lock nobody holds is not taken for a live one (holderIsAlive, release).
THEOREM FreeLockBreakable ==
  ASSUME Survivors <= 1
  PROVE  Spec => []FreeLockCanBeTaken
<1>1. IInv => FreeLockCanBeTaken
  BY LockAssumption DEF IInv, TypeOK, Threads, Directory, Past, FreeLockCanBeTaken, Verdict
<1> QED
  BY <1>1, Invariant, PTL

-----------------------------------------------------------------------------
(* Workspace leases.                                                       *)

(***************************************************************************)
(* For any leases, files, edits and mishaps: the leases are typed, what an *)
(* agent wrote exists somewhere, and no edit of a person is overwritten    *)
(* unseen.                                                                 *)
(*                                                                         *)
(* LeaseBase says of which leases there are commits, and that only the one *)
(* that holds the project's lock has decided writes before it. WorkInv     *)
(* follows an agent's version: what is anywhere but in its author's copy   *)
(* was published (Published), so that taking a copy away (Authored) or     *)
(* ending a commit (Earned) takes nothing away that is not elsewhere.      *)
(* EditsInv follows the person's: an edit not made yet is nowhere          *)
(* (Timely), so a file that looks like the seed is the seed (Handed), and  *)
(* a decided write stays justified until it happens, for whoever touches   *)
(* the file in between is one that the commit does not see (Warranted).    *)
(***************************************************************************)

JobSet == [pc : {"idle", "waiting", "writing", "done"},
           out : [Files -> {"none", "conflict", "write", "failed", "written"}],
           unsaved : SUBSET Files, failed : BOOLEAN]
JobsTyped == job \in [Jobs -> JobSet]

\* Which leases there are commits of.
Committed ==
  \A l \in Leases :
    /\ job[<<l, "run">>].pc # "idle" => stage[l] = "settled"
    /\ job[<<l, "stop">>].pc # "idle" =>
         \/ manager = "disposing" /\ stage[l] \in {"open", "settled"}
         \/ manager = "salvaging" /\ stage[l] = "over"

\* Only the commit that holds the lock has writes before it.
Deferring == \A j \in Jobs : \A f \in Files : job[j].out[f] = "write" => writing = j

Before == {"free", "snapshot", "seeded"}

LeaseBase == LeaseTypeOK /\ JobsTyped /\ Committed /\ Deferring

\* The agent's version of f is elsewhere than in its copy.
Saved(l, f) == \/ <<l, f>> \in landed
               \/ shelf[l][f] = l
               \/ shelf[FolderOf[l]][f] = l

\* A version that is elsewhere than in its agent's copy was published.
Published ==
  \A l \in Leases, f \in Files :
    /\ tree[f] = l => <<l, f>> \in landed
    /\ \A m \in Leases : given[m][f] = l => <<l, f>> \in landed
    /\ \A m \in Leases : copy[m][f] = l /\ (m # l \/ stage[m] = "seeded") => <<l, f>> \in landed

Authored ==
  \A l \in Leases :
    /\ stage[l] \in Before => authored[l] = {}
    /\ \A f \in authored[l] :
       /\ copy[l][f] \in {l, NoFile}
       /\ copy[l][f] = NoFile => Saved(l, f)
       /\ dir[l] \in {"removing", "gone"} => Saved(l, f)

Earned ==
  \A j \in Jobs : ~Loss(j) =>
    \A f \in authored[j[1]] :
      /\ job[j].pc = "writing" => Saved(j[1], f) \/ job[j].out[f] = "write"
      /\ job[j].pc = "done" => Saved(j[1], f)

WorkInv == LeaseBase /\ Published /\ Authored /\ Earned

\* What the person has not written yet.
Future == (acts + 1)..MaxActs \ {Head}
Timely == \A f \in Files :
           /\ tree[f] \notin Future
           /\ \A l \in Leases : copy[l][f] \notin Future /\ base[l][f] \notin Future

Seeded(l) == stage[l] \in {"open", "settled"} \/ seedFile[l]

Handed ==
  \A l \in Leases :
    /\ stage[l] \in Before => given[l] = Empty /\ seedFile[l] = FALSE
    /\ \A f \in Files :
       /\ tree[f] = base[l][f] /\ tree[f] \notin {Head, l, NoFile} =>
            /\ given[l][f] \in {NoFile, tree[f]}
            /\ stage[l] = "seeded" => copy[l][f] \in {NoFile, tree[f]}
       /\ Seeded(l) => copy[l][f] \in {given[l][f], l, NoFile}

Overwritable(l, f) ==
  \/ tree[f] # NoFile /\ tree[f] \in {given[l][f], l, Head}
  \/ tree[f] = NoFile /\ ~ExistedAtSeed(l, f)
Warranted ==
  \A j \in Jobs : \A f \in Files : job[j].out[f] = "write" =>
    /\ copy[j[1]][f] \in {j[1], NoFile}
    /\ f \notin hasty => Overwritable(j[1], f)
EditsInv == LeaseBase /\ Timely /\ Handed /\ Warranted

\* A commit that has not begun, or has ended before it began, writes nothing.
LEMMA JobFacts ==
  /\ NoJob.pc = "idle" /\ NoJob.failed = FALSE /\ \A f \in Files : NoJob.out[f] = "none"
  /\ \A l \in Leases : Starts(l).pc \in {"waiting", "done"} /\ \A f \in Files : Starts(l).out[f] = "none"
  /\ \A l \in Leases : Starts(l).pc = "done" => Starts(l).failed
  /\ NoJob \in JobSet /\ \A l \in Leases : Starts(l) \in JobSet
  BY DEF NoJob, Starts, JobSet

\* The types, one by one.
LEMMA LeaseUnfold ==
  ASSUME LeaseTypeOK
  PROVE  /\ copy \in [Leases -> [Files -> Held]] /\ given \in [Leases -> [Files -> Held]]
         /\ manager \in {"up", "disposing", "down", "salvaging"} /\ mishaps \in 0..MaxMishaps
         /\ tree \in [Files -> Held] /\ acts \in 0..MaxActs /\ hasty \subseteq Files
         /\ writing \in Jobs \cup {Free}
         /\ stage \in [Leases -> {"free", "snapshot", "seeded", "open", "settled", "orphan", "over"}]
         /\ dir \in [Leases -> {"none", "present", "removing", "gone"}]
         /\ base \in [Leases -> [Files -> Held \cup {Absent, Outdated}]]
         /\ seedFile \in [Leases -> BOOLEAN] /\ shelf \in [Folders -> [Files -> Held]]
         /\ authored \in [Leases -> SUBSET Files] /\ landed \subseteq Leases \X Files
         /\ \A j \in Jobs : job[j].pc = "writing" <=> writing = j
  BY DEF LeaseTypeOK

\* A mishap leaves the budget in its range.
LEMMA MishapTyped ==
  ASSUME LeaseTypeOK, NEW n \in Nat, Mishap(n)
  PROVE  mishaps' \in 0..MaxMishaps /\ manager' = manager
  BY LeaseAssumption DEF LeaseTypeOK, Mishap

\* Every commit is a run's or a stop's, of a lease.
LEMMA JobOf ==
  /\ \A l \in Leases : <<l, "run">> \in Jobs /\ <<l, "stop">> \in Jobs
  /\ \A j \in Jobs : j[1] \in Leases /\ (j = <<j[1], "run">> \/ j = <<j[1], "stop">>) /\ j # Free
  /\ \A j \in Jobs : <<j[1], j[2]>> = j /\ j[2] \in Committers
  BY LeaseAssumption DEF Jobs, Committers

\* The commit j goes on, the others stay.
JobBecomes(j, place, out, unsaved, failed) ==
  /\ JobsTyped' /\ \A k \in Jobs : k # j => job'[k] = job[k]
  /\ job'[j].pc = place /\ job'[j].out = out /\ job'[j].unsaved = unsaved /\ job'[j].failed = failed

\* A commit replaced by a typed one.
LEMMA JobReplaced ==
  ASSUME JobsTyped, NEW j \in Jobs, NEW r \in JobSet, job' = [job EXCEPT ![j] = r]
  PROVE  JobBecomes(j, r.pc, r.out, r.unsaved, r.failed)
  BY DEF JobsTyped, JobBecomes

\* What each step makes of its commit.
LEMMA JobMoves ==
  ASSUME JobsTyped, NEW j \in Jobs
  PROVE  /\ LockTimesOut(j) => JobBecomes(j, "done", job[j].out, job[j].unsaved, TRUE)
         /\ \A f \in Files : WritesFile(j, f) =>
              JobBecomes(j, job[j].pc, [job[j].out EXCEPT ![f] = "written"], job[j].unsaved, job[j].failed)
         /\ \A f \in Files : WriteFails(j, f) =>
              JobBecomes(j, job[j].pc, [job[j].out EXCEPT ![f] = "failed"], job[j].unsaved, TRUE)
         /\ \A S \in SUBSET Files : Finishes(j, S) =>
              JobBecomes(j, "done", job[j].out, job[j].unsaved, job[j].failed)
         /\ \A kept \in BOOLEAN : Judged(j, kept) =>
              JobBecomes(j, "idle", NoJob.out, NoJob.unsaved, NoJob.failed)
<1>0. job[j] \in JobSet
  BY DEF JobsTyped
<1>1. ASSUME LockTimesOut(j)
      PROVE  JobBecomes(j, "done", job[j].out, job[j].unsaved, TRUE)
  <2>1. PICK r : r = [job[j] EXCEPT !.pc = "done", !.failed = TRUE]
    OBVIOUS
  <2>2. /\ r \in JobSet /\ r.pc = "done" /\ r.failed = TRUE
        /\ r.out = job[j].out /\ r.unsaved = job[j].unsaved
    BY <1>0, <2>1 DEF JobSet
  <2>3. job' = [job EXCEPT ![j] = r]
    BY <1>1, <2>1 DEF LockTimesOut, JobsTyped
  <2> QED
    BY <2>2, <2>3, JobReplaced
<1>2. ASSUME NEW f \in Files, WritesFile(j, f)
      PROVE  JobBecomes(j, job[j].pc, [job[j].out EXCEPT ![f] = "written"], job[j].unsaved, job[j].failed)
  <2>1. PICK r : r = [job[j] EXCEPT !.out = [job[j].out EXCEPT ![f] = "written"]]
    OBVIOUS
  <2>2. /\ r \in JobSet /\ r.pc = job[j].pc /\ r.failed = job[j].failed
        /\ r.out = [job[j].out EXCEPT ![f] = "written"] /\ r.unsaved = job[j].unsaved
    BY <1>0, <2>1 DEF JobSet
  <2>3. job' = [job EXCEPT ![j] = r]
    BY <1>2, <2>1 DEF WritesFile, JobsTyped
  <2> QED
    BY <2>2, <2>3, JobReplaced
<1>3. ASSUME NEW f \in Files, WriteFails(j, f)
      PROVE  JobBecomes(j, job[j].pc, [job[j].out EXCEPT ![f] = "failed"], job[j].unsaved, TRUE)
  <2>1. PICK r : r = [job[j] EXCEPT !.out = [job[j].out EXCEPT ![f] = "failed"], !.failed = TRUE]
    OBVIOUS
  <2>2. /\ r \in JobSet /\ r.pc = job[j].pc /\ r.failed = TRUE
        /\ r.out = [job[j].out EXCEPT ![f] = "failed"] /\ r.unsaved = job[j].unsaved
    BY <1>0, <2>1 DEF JobSet
  <2>3. job' = [job EXCEPT ![j] = r]
    BY <1>3, <2>1 DEF WriteFails, JobsTyped
  <2> QED
    BY <2>2, <2>3, JobReplaced
<1>4. ASSUME NEW S \in SUBSET Files, Finishes(j, S)
      PROVE  JobBecomes(j, "done", job[j].out, job[j].unsaved, job[j].failed)
  <2>1. PICK r : r = [job[j] EXCEPT !.pc = "done"]
    OBVIOUS
  <2>2. /\ r \in JobSet /\ r.pc = "done" /\ r.failed = job[j].failed
        /\ r.out = job[j].out /\ r.unsaved = job[j].unsaved
    BY <1>0, <2>1 DEF JobSet
  <2>3. job' = [job EXCEPT ![j] = r]
    BY <1>4, <2>1 DEF Finishes, JobsTyped
  <2> QED
    BY <2>2, <2>3, JobReplaced
<1>5. ASSUME NEW kept \in BOOLEAN, Judged(j, kept)
      PROVE  JobBecomes(j, "idle", NoJob.out, NoJob.unsaved, NoJob.failed)
  <2>1. job' = [job EXCEPT ![j] = NoJob] /\ NoJob \in JobSet /\ NoJob.pc = "idle"
    BY <1>5, JobFacts DEF Judged
  <2> QED
    BY <2>1, JobReplaced
<1> QED
  BY <1>1, <1>2, <1>3, <1>4, <1>5

\* A commit that begins, of a run or of a stop.
LEMMA JobStarts ==
  ASSUME JobsTyped, NEW j \in Jobs, NEW l \in Leases, job' = [job EXCEPT ![j] = Starts(l)]
  PROVE  JobBecomes(j, Starts(l).pc, Starts(l).out, Starts(l).unsaved, Starts(l).failed)
  BY JobFacts, JobReplaced

\* A commit that decides, for what could not be read, S, nor be set aside, T.
Choices(l, S) == [f \in Files |-> IF f \in S THEN "failed" ELSE Outcome(l, f)]
LEMMA JobDecides ==
  ASSUME LeaseTypeOK, JobsTyped, NEW j \in Jobs, NEW S \in SUBSET Files, NEW T \in SUBSET Files, Decides(j, S, T)
  PROVE  /\ JobBecomes(j, "writing", Choices(j[1], S), T \ S, S # {} \/ dir[j[1]] = "gone")
         /\ Choices(j[1], S) \in [Files -> {"none", "conflict", "write", "failed"}]
<1>1. Choices(j[1], S) \in [Files -> {"none", "conflict", "write", "failed"}]
  BY DEF Outcome, Choices
<1>2. PICK r : r = [pc |-> "writing", out |-> Choices(j[1], S), unsaved |-> T \ S,
                    failed |-> S # {} \/ dir[j[1]] = "gone"]
  OBVIOUS
<1>3. r \in JobSet
  BY <1>1, <1>2 DEF JobSet
<1>4. job' = [job EXCEPT ![j] = r]
  BY <1>2 DEF Decides, Choices
<1> QED
  BY <1>1, <1>2, <1>3, <1>4, JobReplaced

\* What is set aside: S of the copy of l.
LEMMA ShelvedFacts ==
  ASSUME LeaseTypeOK, NEW l \in Leases, NEW S, Shelved(l, S)
  PROVE  /\ shelf' \in [Folders -> [Files -> Held]] /\ Folder(l) \in Folders
         /\ \A d \in Folders, f \in Files :
              shelf'[d][f] = IF d = Folder(l) /\ f \in S THEN copy[l][f] ELSE shelf[d][f]
<1>1. Folder(l) \in Folders
  BY DEF Folder, Folders
<1>2. shelf' = [shelf EXCEPT ![Folder(l)] = [f \in Files |-> IF f \in S THEN copy[l][f] ELSE shelf[Folder(l)][f]]]
  BY <1>1, LeaseUnfold DEF Shelved
<1> QED
  BY <1>1, <1>2, LeaseUnfold

\* Every step keeps the types and LeaseBase.
LEMMA TakesSnapshotBase ==
  ASSUME LeaseBase, NEW l \in Leases, TakesSnapshot(l)
  PROVE  LeaseBase'
<1>1. LeaseTypeOK'
  BY LeaseUnfold DEF TakesSnapshot, LeaseBase, LeaseTypeOK, process, person, lease, results
<1>2. JobsTyped' /\ Committed' /\ Deferring'
  BY LeaseUnfold, JobOf DEF TakesSnapshot, LeaseBase, JobsTyped, Committed, Deferring, process,
     person, lease, results
<1> QED
  BY <1>1, <1>2 DEF LeaseBase

LEMMA SeedsBase ==
  ASSUME LeaseBase, NEW l \in Leases, NEW seed \in [Files -> Held], Seeds(l, seed)
  PROVE  LeaseBase'
<1>1. LeaseTypeOK'
  BY LeaseUnfold DEF Seeds, LeaseBase, LeaseTypeOK, process, person, lease, results
<1>2. JobsTyped' /\ Committed' /\ Deferring'
  BY LeaseUnfold, JobOf DEF Seeds, LeaseBase, JobsTyped, Committed, Deferring, process, person,
     lease, results
<1> QED
  BY <1>1, <1>2 DEF LeaseBase

LEMMA OpensBase ==
  ASSUME LeaseBase, NEW l \in Leases, NEW b \in BOOLEAN, Opens(l, b)
  PROVE  LeaseBase'
<1>1. LeaseTypeOK'
  BY LeaseUnfold, MishapTyped DEF Opens, LeaseBase, LeaseTypeOK, process, person, lease,
     results, Reconciled
<1>2. JobsTyped' /\ Committed' /\ Deferring'
  BY LeaseUnfold, JobOf, MishapTyped DEF Opens, LeaseBase, JobsTyped, Committed, Deferring,
     process, person, lease, results
<1> QED
  BY <1>1, <1>2 DEF LeaseBase

LEMMA AgentWritesBase ==
  ASSUME LeaseBase, NEW l \in Leases, NEW f \in Files, AgentWrites(l, f)
  PROVE  LeaseBase'
<1>1. LeaseTypeOK'
  BY LeaseUnfold DEF AgentWrites, LeaseBase, LeaseTypeOK, process, person, lease, results, Held,
     Versions
<1>2. JobsTyped' /\ Committed' /\ Deferring'
  BY LeaseUnfold, JobOf DEF AgentWrites, LeaseBase, JobsTyped, Committed, Deferring, process,
     person, lease, results
<1> QED
  BY <1>1, <1>2 DEF LeaseBase

LEMMA AgentDeletesBase ==
  ASSUME LeaseBase, NEW l \in Leases, NEW f \in Files, AgentDeletes(l, f)
  PROVE  LeaseBase'
<1>1. LeaseTypeOK'
  BY LeaseUnfold DEF AgentDeletes, LeaseBase, LeaseTypeOK, process, person, lease, results, Held
<1>2. JobsTyped' /\ Committed' /\ Deferring'
  BY LeaseUnfold, JobOf DEF AgentDeletes, LeaseBase, JobsTyped, Committed, Deferring, process,
     person, lease, results
<1> QED
  BY <1>1, <1>2 DEF LeaseBase

LEMMA PersonActsBase ==
  ASSUME LeaseBase, NEW f \in Files, NEW v \in Held, PersonActs(f, v)
  PROVE  LeaseBase'
<1>1. LeaseTypeOK'
  BY LeaseUnfold, LeaseAssumption DEF PersonActs, LeaseBase, LeaseTypeOK, process, person,
     lease, results
<1>2. JobsTyped' /\ Committed' /\ Deferring'
  BY LeaseUnfold, JobOf DEF PersonActs, LeaseBase, JobsTyped, Committed, Deferring, process,
     person, lease, results
<1> QED
  BY <1>1, <1>2 DEF LeaseBase

LEMMA LockTimesOutBase ==
  ASSUME LeaseBase, NEW j \in Jobs, LockTimesOut(j)
  PROVE  LeaseBase'
<1>1. JobBecomes(j, "done", job[j].out, job[j].unsaved, TRUE)
  BY JobMoves DEF LockTimesOut, LeaseBase
<1>2. LeaseTypeOK'
  BY <1>1, LeaseUnfold, JobOf, MishapTyped DEF LockTimesOut, LeaseBase, LeaseTypeOK, JobBecomes,
     process, person, lease, results
<1>3. manager' = manager /\ UNCHANGED <<writing, stage>>
  BY DEF LockTimesOut, Mishap, lease
<1>4. Committed' /\ Deferring'
  <2>1. job[j].pc # "idle"
    BY LeaseUnfold DEF LockTimesOut, LeaseBase, Deferring
  <2>2. Committed'
    BY <1>1, <1>3, <2>1, JobOf DEF LeaseBase, Committed, JobBecomes
  <2>3. Deferring'
    BY <1>1, <1>3 DEF LeaseBase, Deferring, JobBecomes, JobsTyped, JobSet
  <2> QED
    BY <2>2, <2>3
<1> QED
  BY <1>1, <1>2, <1>4 DEF LeaseBase, JobBecomes

LEMMA WritesFileBase ==
  ASSUME LeaseBase, NEW j \in Jobs, NEW f \in Files, WritesFile(j, f)
  PROVE  LeaseBase'
<1>1. JobBecomes(j, job[j].pc, [job[j].out EXCEPT ![f] = "written"], job[j].unsaved, job[j].failed)
  BY JobMoves DEF JobsTyped, LeaseBase
<1>2. LeaseTypeOK'
  BY <1>1, LeaseUnfold, JobOf DEF WritesFile, LeaseBase, LeaseTypeOK, JobBecomes, process,
     person, lease, results
<1>3. Committed' /\ Deferring'
  BY <1>1, LeaseUnfold, JobOf, JobFacts DEF WritesFile, JobsTyped, JobSet, LeaseBase, Committed,
     Deferring, JobBecomes, process, person, lease, results
<1> QED
  BY <1>1, <1>2, <1>3 DEF LeaseBase, JobBecomes

LEMMA WriteFailsBase ==
  ASSUME LeaseBase, NEW j \in Jobs, NEW f \in Files, WriteFails(j, f)
  PROVE  LeaseBase'
<1>1. JobBecomes(j, job[j].pc, [job[j].out EXCEPT ![f] = "failed"], job[j].unsaved, TRUE) /\ shelf' \in [Folders -> [Files -> Held]]
  BY JobMoves, JobOf, ShelvedFacts DEF WriteFails, LeaseBase
<1>2. LeaseTypeOK'
  BY <1>1, LeaseUnfold, JobOf, MishapTyped DEF WriteFails, LeaseBase, LeaseTypeOK, JobBecomes,
     process, person, lease, results
<1>3. manager' = manager /\ UNCHANGED <<writing, stage>>
  BY DEF WriteFails, Mishap, lease
<1>4. Committed' /\ Deferring'
  <2>1. job[j].pc # "idle"
    BY LeaseUnfold DEF WriteFails, LeaseBase, Deferring
  <2>2. /\ \A m \in Jobs : m # j => job'[m] = job[m]
        /\ job'[j].pc = job[j].pc /\ job'[j].out = [job[j].out EXCEPT ![f] = "failed"]
    BY <1>1 DEF JobBecomes
  <2>3. job[j].out \in [Files -> {"none", "conflict", "write", "failed", "written"}]
    BY DEF LeaseBase, JobsTyped, JobSet
  <2>4. \A m \in Jobs : /\ job'[m].pc = job[m].pc
                        /\ \A g \in Files : job'[m].out[g] = "write" => job[m].out[g] = "write"
    BY <2>2, <2>3
  <2>5. Committed'
    BY <1>3, <2>4, JobOf DEF LeaseBase, Committed
  <2>6. Deferring'
    BY <1>3, <2>4 DEF LeaseBase, Deferring
  <2> QED
    BY <2>5, <2>6
<1> QED
  BY <1>1, <1>2, <1>4 DEF LeaseBase, JobBecomes

LEMMA FinishesBase ==
  ASSUME LeaseBase, NEW j \in Jobs, NEW deleted \in SUBSET Files, Finishes(j, deleted)
  PROVE  LeaseBase'
<1>1. JobBecomes(j, "done", job[j].out, job[j].unsaved, job[j].failed)
  BY JobMoves DEF JobsTyped, LeaseBase
<1>2. LeaseTypeOK'
  BY <1>1, LeaseUnfold, JobOf DEF Finishes, LeaseBase, LeaseTypeOK, JobBecomes, process, person,
     lease, results, Held
<1>3. Committed' /\ Deferring'
  BY <1>1, LeaseUnfold, JobOf, JobFacts DEF Finishes, LeaseBase, Committed, Deferring,
     JobBecomes, process, person, lease, results
<1> QED
  BY <1>1, <1>2, <1>3 DEF LeaseBase, JobBecomes

LEMMA RunSettlesBase ==
  ASSUME LeaseBase, NEW l \in Leases, RunSettles(l)
  PROVE  LeaseBase'
<1>1. JobBecomes(<<l, "run">>, Starts(l).pc, Starts(l).out, Starts(l).unsaved, Starts(l).failed)
  BY JobStarts, JobOf DEF RunSettles, LeaseBase
<1>2. LeaseTypeOK'
  <2>1. job[<<l, "run">>].pc = "idle" /\ Starts(l).pc # "writing"
    BY JobFacts DEF RunSettles, LeaseBase, Committed
  <2>2. \A j \in Jobs : job'[j].pc = "writing" <=> writing = j
    BY <1>1, <2>1, LeaseUnfold, JobOf DEF LeaseBase, JobBecomes
  <2> QED
    BY <2>2, LeaseUnfold DEF RunSettles, LeaseBase, LeaseTypeOK, process, person, results
<1>3. Committed' /\ Deferring'
  BY <1>1, LeaseUnfold, JobOf, JobFacts DEF RunSettles, LeaseBase, Committed, Deferring,
     JobBecomes, process, person, lease, results
<1> QED
  BY <1>1, <1>2, <1>3 DEF LeaseBase, JobBecomes

LEMMA JudgedBase ==
  ASSUME LeaseBase, NEW j \in Jobs, NEW kept \in BOOLEAN, Judged(j, kept)
  PROVE  LeaseBase'
<1>1. JobBecomes(j, "idle", NoJob.out, NoJob.unsaved, NoJob.failed)
  BY JobMoves DEF JobsTyped, LeaseBase
<1>2. LeaseTypeOK'
  BY <1>1, LeaseUnfold, JobOf, JobFacts DEF Judged, Releases, LeaseBase, LeaseTypeOK,
     JobBecomes, process, person, lease, results
<1>3. Committed' /\ Deferring'
  BY <1>1, LeaseUnfold, JobOf, JobFacts DEF Judged, LeaseBase, Committed, Deferring, JobBecomes,
     process, person, lease, results
<1> QED
  BY <1>1, <1>2, <1>3 DEF LeaseBase, JobBecomes

LEMMA DisposesBase ==
  ASSUME LeaseBase, Disposes
  PROVE  LeaseBase'
<1>1. JobsTyped'
  BY JobFacts, JobOf DEF Disposes, LeaseBase, JobsTyped
<1>2. \A j \in Jobs : job'[j] = IF j[2] = "stop" /\ stage[j[1]] \in {"open", "settled"} /\ dir[j[1]] = "present"
                                THEN Starts(j[1]) ELSE job[j]
  BY DEF Disposes
<1>3. LeaseTypeOK'
  <2>1. \A j \in Jobs : job'[j].pc = "writing" <=> job[j].pc = "writing"
    <3>1. ASSUME NEW j \in Jobs
          PROVE  job'[j].pc = "writing" <=> job[j].pc = "writing"
      <4>1. CASE job'[j] = job[j]
        BY <4>1
      <4>2. CASE job'[j] # job[j]
        <5>1. j[2] = "stop" /\ manager = "up" /\ job'[j] = Starts(j[1])
          BY <1>2, <4>2 DEF Disposes
        <5>2. j = <<j[1], "stop">>
          BY <5>1, JobOf
        <5>3. job[j].pc = "idle"
          <6>1. job[<<j[1], "stop">>].pc = "idle"
            BY <5>1, JobOf DEF LeaseBase, Committed
          <6> QED
            BY <5>2, <6>1
        <5> QED
          BY <5>1, <5>3, JobFacts, JobOf
      <4> QED
        BY <4>1, <4>2
    <3> QED
      BY <3>1
  <2> QED
    BY <2>1, LeaseUnfold DEF Disposes, LeaseBase, LeaseTypeOK, person, lease, results
<1>4. Committed' /\ Deferring'
  BY <1>2, LeaseUnfold, JobOf, JobFacts DEF Disposes, LeaseBase, Committed, Deferring, person,
     lease, results
<1> QED
  BY <1>1, <1>3, <1>4 DEF LeaseBase

LEMMA FileGoesBase ==
  ASSUME LeaseBase, NEW l \in Leases, NEW f \in Files, FileGoes(l, f)
  PROVE  LeaseBase'
<1>1. LeaseTypeOK'
  BY LeaseUnfold DEF FileGoes, LeaseBase, LeaseTypeOK, process, person, lease, results, Held
<1>2. JobsTyped' /\ Committed' /\ Deferring'
  BY LeaseUnfold, JobOf DEF FileGoes, LeaseBase, JobsTyped, Committed, Deferring, process,
     person, lease, results
<1> QED
  BY <1>1, <1>2 DEF LeaseBase

LEMMA DirectoryGoneBase ==
  ASSUME LeaseBase, NEW l \in Leases, DirectoryGone(l)
  PROVE  LeaseBase'
<1>1. LeaseTypeOK'
  BY LeaseUnfold DEF DirectoryGone, LeaseBase, LeaseTypeOK, process, person, lease, results
<1>2. JobsTyped' /\ Committed' /\ Deferring'
  BY LeaseUnfold, JobOf DEF DirectoryGone, LeaseBase, JobsTyped, Committed, Deferring, process,
     person, lease, results
<1> QED
  BY <1>1, <1>2 DEF LeaseBase

LEMMA ProcessEndsBase ==
  ASSUME LeaseBase, ProcessEnds
  PROVE  LeaseBase'
<1>1. LeaseTypeOK'
  BY LeaseUnfold, JobFacts, JobOf, LeaseAssumption DEF ProcessEnds, LeaseBase, LeaseTypeOK,
     process, person, lease, results, JobsTyped
<1>2. JobsTyped' /\ Committed' /\ Deferring'
  BY LeaseUnfold, JobOf, JobFacts DEF ProcessEnds, LeaseBase, JobsTyped, Committed, Deferring,
     process, person, lease, results, JobSet
<1> QED
  BY <1>1, <1>2 DEF LeaseBase

LEMMA ProcessStartsBase ==
  ASSUME LeaseBase, ProcessStarts
  PROVE  LeaseBase'
<1>1. LeaseTypeOK'
  BY LeaseUnfold DEF ProcessStarts, LeaseBase, LeaseTypeOK, process, person, lease, results
<1>2. JobsTyped' /\ Committed' /\ Deferring'
  BY LeaseUnfold, JobOf DEF ProcessStarts, LeaseBase, JobsTyped, Committed, Deferring, process,
     person, lease, results
<1> QED
  BY <1>1, <1>2 DEF LeaseBase

LEMMA SalvageBeginsBase ==
  ASSUME LeaseBase, NEW l \in Leases, SalvageBegins(l)
  PROVE  LeaseBase'
<1>1. JobBecomes(<<l, "stop">>, Starts(l).pc, Starts(l).out, Starts(l).unsaved, Starts(l).failed)
  BY JobStarts, JobOf DEF SalvageBegins, LeaseBase
<1>2. LeaseTypeOK'
  BY <1>1, LeaseUnfold, JobOf, JobFacts DEF SalvageBegins, LeaseBase, LeaseTypeOK, JobBecomes,
     process, person, lease, results
<1>3. Committed' /\ Deferring'
  BY <1>1, LeaseUnfold, JobOf, JobFacts DEF SalvageBegins, LeaseBase, Committed, Deferring,
     JobBecomes, process, person, lease, results
<1> QED
  BY <1>1, <1>2, <1>3 DEF LeaseBase, JobBecomes

LEMMA SalvageEndsBase ==
  ASSUME LeaseBase, SalvageEnds
  PROVE  LeaseBase'
<1>1. LeaseTypeOK'
  BY LeaseUnfold DEF SalvageEnds, LeaseBase, LeaseTypeOK, process, person, lease, results
<1>2. JobsTyped' /\ Committed' /\ Deferring'
  BY LeaseUnfold, JobOf DEF SalvageEnds, LeaseBase, JobsTyped, Committed, Deferring, process,
     person, lease, results
<1> QED
  BY <1>1, <1>2 DEF LeaseBase

LEMMA DecidesBase ==
  ASSUME LeaseBase, NEW j \in Jobs, NEW S \in SUBSET Files, NEW T \in SUBSET Files, Decides(j, S, T)
  PROVE  LeaseBase'
<1>1. /\ JobBecomes(j, "writing", Choices(j[1], S), T \ S, S # {} \/ dir[j[1]] = "gone")
      /\ shelf' \in [Folders -> [Files -> Held]]
  BY JobDecides, JobOf, ShelvedFacts DEF Decides, LeaseBase
<1>2. Cardinality(S) + Cardinality(T) \in Nat
  BY LeaseAssumption, FS_Subset, FS_CardinalityType
<1>3. /\ mishaps' \in 0..MaxMishaps /\ manager' = manager /\ writing' = j /\ writing = Free /\ job[j].pc = "waiting"
      /\ UNCHANGED <<tree, acts, hasty, stage, dir, copy, given, base, seedFile, authored, landed>>
  BY <1>2, MishapTyped DEF Decides, LockFree, LeaseBase, person, lease
<1>4. LeaseTypeOK'
  BY <1>1, <1>3, LeaseUnfold, JobOf DEF LeaseBase, LeaseTypeOK, JobBecomes
<1>5. Committed'
  BY <1>1, <1>3, JobOf DEF LeaseBase, Committed, JobBecomes
<1>6. Deferring'
  <2>1. ASSUME NEW k \in Jobs, k # j, NEW f \in Files
        PROVE  job'[k].out[f] # "write"
    BY <1>1, <1>3, <2>1, JobOf DEF LeaseBase, Deferring, JobBecomes
  <2> QED
    BY <1>3, <2>1 DEF Deferring
<1> QED
  BY <1>1, <1>4, <1>5, <1>6 DEF LeaseBase, JobBecomes

\* The initial states satisfy LeaseBase, and all steps together keep it.
LEMMA LeaseInitBase == LeaseInit => LeaseBase
<1> SUFFICES ASSUME LeaseInit
             PROVE  LeaseBase
  OBVIOUS
<1>1. LeaseTypeOK
  BY LeaseAssumption, JobFacts, JobOf DEF LeaseInit, LeaseTypeOK, Empty, Held, Versions, Folders
<1>2. JobsTyped /\ Committed /\ Deferring
  BY JobFacts, JobOf DEF LeaseInit, JobsTyped, Committed, Deferring
<1> QED
  BY <1>1, <1>2 DEF LeaseBase

LEMMA LeaseStutterBase ==
  ASSUME LeaseBase, UNCHANGED lvars
  PROVE  LeaseBase'
<1>1. LeaseTypeOK'
  BY LeaseUnfold DEF lvars, LeaseBase, LeaseTypeOK
<1> QED
  BY <1>1 DEF lvars, LeaseBase, JobsTyped, Committed, Deferring

LEMMA LeaseNextBase ==
  ASSUME LeaseBase, [LeaseNext]_lvars
  PROVE  LeaseBase'
<1>1. ASSUME NEW l \in Leases, StopJudges(l) \/ \E b \in BOOLEAN : RunJudges(l, b)
      PROVE  LeaseBase'
  BY <1>1, JudgedBase, JobOf DEF StopJudges, RunJudges, Loss, LeaseBase, JobsTyped, JobSet
<1> QED
  BY <1>1, TakesSnapshotBase, SeedsBase, OpensBase, AgentWritesBase, AgentDeletesBase,
     PersonActsBase, LockTimesOutBase, DecidesBase, WritesFileBase, WriteFailsBase,
     FinishesBase, RunSettlesBase, DisposesBase, FileGoesBase, DirectoryGoneBase,
     ProcessEndsBase, ProcessStartsBase, SalvageBeginsBase, SalvageEndsBase,
     LeaseStutterBase DEF LeaseNext

\* The types of leases and commits, and that a commit writes exactly while it
\* holds the project's write lock.
THEOREM LeaseTyped == LeaseSpec => []LeaseTypeOK
<1>1. LeaseBase => LeaseTypeOK
  BY DEF LeaseBase
<1> QED
  BY <1>1, LeaseInitBase, LeaseNextBase, PTL DEF LeaseSpec

-----------------------------------------------------------------------------
(* No work is lost.                                                        *)

\* No two leases share a folder of the quarantine.
OwnFolders ==
  \A l, m \in Leases : l # m => FolderOf[l] # FolderOf[m] /\ FolderOf[l] # m

\* What no version, no lease and no mark can be at once.
LEMMA LeaseConstants ==
  /\ NoFile \notin Leases /\ Head \notin Leases /\ \A n \in 0..MaxActs : n \notin Leases
  /\ NoFile \notin Versions /\ NoFile # Head /\ Head \in Held /\ NoFile \in Held
  /\ \A v \in Held : v # Absent \/ v = NoFile
  /\ \A v \in Held : v # Outdated \/ v = NoFile
  BY LeaseAssumption DEF Versions, Held

\* What a step sets aside: versions that are, and so the lease's own where the
\* agent wrote them.
LEMMA SetAside ==
  ASSUME WorkInv, OwnFolders, NEW l \in Leases, NEW S, Shelved(l, S), landed' = landed,
         \A f \in Files : f \in S => copy[l][f] # NoFile
  PROVE  /\ \A m \in Leases : \A f \in authored[m] : Saved(m, f) => Saved(m, f)'
         /\ \A f \in authored[l] : f \in S => Saved(l, f)'
<1>1. /\ shelf' \in [Folders -> [Files -> Held]] /\ Folder(l) \in Folders
      /\ \A d \in Folders, f \in Files :
           shelf'[d][f] = IF d = Folder(l) /\ f \in S THEN copy[l][f] ELSE shelf[d][f]
  BY ShelvedFacts DEF WorkInv, LeaseBase
<1>2. Folder(l) \in {l, FolderOf[l]} /\ \A m \in Leases : m \in Folders /\ FolderOf[m] \in Folders
  BY DEF Folder, Folders
<1>3. \A m \in Leases : \A f \in authored[m] : f \in Files /\ copy[m][f] \in {m, NoFile}
  BY LeaseUnfold DEF WorkInv, LeaseBase, Authored
<1>4. ASSUME NEW m \in Leases, NEW f \in authored[m], Saved(m, f)
      PROVE  Saved(m, f)'
  <2>1. CASE m = l /\ f \in S
    <3>1. copy[l][f] = l
      BY <1>3, <1>4, <2>1
    <3> QED
      BY <1>1, <1>2, <1>3, <1>4, <2>1, <3>1 DEF Saved
  <2>2. CASE ~(m = l /\ f \in S)
    <3>1. m = Folder(l) \/ FolderOf[m] = Folder(l) => m = l
      BY <1>2 DEF OwnFolders
    <3>2. shelf'[m][f] = shelf[m][f] /\ shelf'[FolderOf[m]][f] = shelf[FolderOf[m]][f]
      BY <1>1, <1>2, <1>3, <1>4, <2>2, <3>1
    <3> QED
      BY <1>4, <3>2 DEF Saved
  <2> QED
    BY <2>1, <2>2
<1>5. ASSUME NEW f \in authored[l], f \in S
      PROVE  Saved(l, f)'
  <2>1. copy[l][f] = l
    BY <1>3, <1>5
  <2> QED
    BY <1>1, <1>2, <1>3, <1>5, <2>1 DEF Saved
<1> QED
  BY <1>4, <1>5

\* A step that lets no commit go on, or only as one that fails or has nothing
\* left to write, keeps what the commits have earned.
LEMMA EarnedKept ==
  ASSUME WorkInv,
         \A m \in Leases : \A h \in authored'[m] : h \in authored[m] /\ (Saved(m, h) => Saved(m, h)'),
         \A k \in Jobs :
           \/ job'[k].pc \notin {"writing", "done"} \/ job'[k].failed
           \/ /\ job'[k].unsaved = job[k].unsaved /\ job'[k].failed = job[k].failed /\ job'[k].out = job[k].out
              /\ \/ job'[k].pc = job[k].pc
                 \/ job[k].pc = "writing" /\ \A f \in Files : job[k].out[f] # "write"
  PROVE  Earned'
<1>1. ASSUME NEW k \in Jobs, ~Loss(k)', NEW h \in authored'[k[1]]
      PROVE  /\ job'[k].pc = "writing" => Saved(k[1], h)' \/ job'[k].out[h] = "write"
             /\ job'[k].pc = "done" => Saved(k[1], h)'
  <2>1. k[1] \in Leases /\ h \in authored[k[1]] /\ h \in Files /\ (Saved(k[1], h) => Saved(k[1], h)')
    BY <1>1, JobOf, LeaseUnfold DEF WorkInv, LeaseBase
  <2>2. CASE job'[k].pc \in {"writing", "done"}
    <3>1. /\ ~job'[k].failed
          /\ job'[k].unsaved = job[k].unsaved /\ job'[k].failed = job[k].failed /\ job'[k].out = job[k].out
          /\ \/ job'[k].pc = job[k].pc
             \/ job[k].pc = "writing" /\ \A f \in Files : job[k].out[f] # "write"
      BY <1>1, <2>2 DEF Loss
    <3>2. ~Loss(k)
      BY <1>1, <3>1 DEF Loss
    <3>3. /\ job[k].pc = "writing" => Saved(k[1], h) \/ job[k].out[h] = "write"
          /\ job[k].pc = "done" => Saved(k[1], h)
      BY <2>1, <3>2 DEF WorkInv, Earned
    <3> QED
      BY <2>1, <3>1, <3>3
  <2> QED
    BY <2>2
<1> QED
  BY <1>1 DEF Earned

\* Every step keeps WorkInv.
LEMMA TakesSnapshotWork ==
  ASSUME WorkInv, OwnFolders, NEW l \in Leases, TakesSnapshot(l)
  PROVE  (Published /\ Authored /\ Earned)'
<1>1. Published'
  BY LeaseUnfold DEF WorkInv, LeaseBase, TakesSnapshot, Published, process, person, lease, results
<1>2. Authored'
  BY LeaseUnfold DEF WorkInv, LeaseBase, TakesSnapshot, Authored, process, person, lease,
     results, Before, Saved
<1>3. Earned'
  BY LeaseUnfold DEF WorkInv, LeaseBase, TakesSnapshot, Earned, process, person, lease, results,
     Loss, Saved
<1> QED
  BY <1>1, <1>2, <1>3

LEMMA SeedsWork ==
  ASSUME WorkInv, OwnFolders, NEW l \in Leases, NEW seed \in [Files -> Held], Seeds(l, seed)
  PROVE  (Published /\ Authored /\ Earned)'
<1>1. Published'
  BY LeaseUnfold, LeaseConstants DEF WorkInv, LeaseBase, Seeds, Published, process, person,
     lease, results, Seedable
<1>2. Authored'
  BY LeaseUnfold, LeaseConstants DEF WorkInv, LeaseBase, Seeds, Authored, process, person,
     lease, results, Before, Saved
<1>3. Earned'
  BY LeaseUnfold DEF WorkInv, LeaseBase, Seeds, Earned, process, person, lease, results, Loss, Saved
<1> QED
  BY <1>1, <1>2, <1>3

LEMMA OpensWork ==
  ASSUME WorkInv, OwnFolders, NEW l \in Leases, NEW b \in BOOLEAN, Opens(l, b)
  PROVE  (Published /\ Authored /\ Earned)'
<1>1. Published'
  BY LeaseUnfold DEF WorkInv, LeaseBase, Opens, Published, process, person, lease, results
<1>2. Authored'
  BY LeaseUnfold DEF WorkInv, LeaseBase, Opens, Authored, process, person, lease, results,
     Before, Saved
<1>3. Earned'
  BY LeaseUnfold DEF WorkInv, LeaseBase, Opens, Earned, process, person, lease, results, Loss, Saved
<1> QED
  BY <1>1, <1>2, <1>3

LEMMA AgentWritesWork ==
  ASSUME WorkInv, OwnFolders, NEW l \in Leases, NEW f \in Files, AgentWrites(l, f)
  PROVE  (Published /\ Authored /\ Earned)'
<1>1. Published'
  BY LeaseUnfold DEF WorkInv, LeaseBase, AgentWrites, Published, process, person, lease, results
<1>2. Authored'
  BY LeaseUnfold, LeaseConstants DEF WorkInv, LeaseBase, AgentWrites, Authored, process, person,
     lease, results, Before, Saved
<1>3. Earned'
  <2>1. ASSUME NEW k \in Jobs, k[1] = l, manager = "up"
        PROVE  job[k].pc = "idle"
    <3>1. /\ job[<<l, "run">>].pc # "idle" => stage[l] = "settled"
          /\ job[<<l, "stop">>].pc # "idle" => manager # "up"
      BY DEF WorkInv, LeaseBase, Committed
    <3>2. k = <<l, "run">> \/ k = <<l, "stop">>
      BY <2>1, JobOf
    <3> QED
      BY <2>1, <3>1, <3>2 DEF AgentWrites
  <2>2. ASSUME NEW k \in Jobs, k[1] # l \/ manager # "up"
        PROVE  authored'[k[1]] = authored[k[1]]
    BY <2>2, JobOf, LeaseUnfold DEF AgentWrites, WorkInv, LeaseBase
  <2>3. UNCHANGED <<job, landed, shelf>>
    BY DEF AgentWrites, results
  <2> QED
    BY <2>1, <2>2, <2>3 DEF WorkInv, Earned, Loss, Saved
<1> QED
  BY <1>1, <1>2, <1>3

LEMMA AgentDeletesWork ==
  ASSUME WorkInv, OwnFolders, NEW l \in Leases, NEW f \in Files, AgentDeletes(l, f)
  PROVE  (Published /\ Authored /\ Earned)'
<1>1. Published'
  BY LeaseUnfold, LeaseConstants DEF WorkInv, LeaseBase, AgentDeletes, Published, process,
     person, lease, results
<1>2. Authored'
  BY LeaseUnfold, LeaseConstants DEF WorkInv, LeaseBase, AgentDeletes, Authored, process,
     person, lease, results, Before, Saved
<1>3. Earned'
  <2>1. \A m \in Leases : authored'[m] \subseteq authored[m]
    BY LeaseUnfold DEF AgentDeletes, WorkInv, LeaseBase
  <2>2. UNCHANGED <<job, landed, shelf>>
    BY DEF AgentDeletes, results
  <2> QED
    BY <2>1, <2>2, EarnedKept DEF Saved
<1> QED
  BY <1>1, <1>2, <1>3

LEMMA PersonActsWork ==
  ASSUME WorkInv, OwnFolders, NEW f \in Files, NEW v \in Held, PersonActs(f, v)
  PROVE  (Published /\ Authored /\ Earned)'
<1>1. Published'
  <2>1. v \notin Leases
    BY LeaseAssumption, LeaseConstants, LeaseUnfold DEF PersonActs, WorkInv, LeaseBase
  <2> QED
    BY <2>1, LeaseUnfold DEF PersonActs, lease, results, WorkInv, LeaseBase, Published
<1>2. Authored'
  BY LeaseUnfold DEF WorkInv, LeaseBase, PersonActs, Authored, process, person, lease, results,
     Saved
<1>3. Earned'
  BY LeaseUnfold DEF WorkInv, LeaseBase, PersonActs, Earned, process, person, lease, results,
     Loss, Saved
<1> QED
  BY <1>1, <1>2, <1>3

LEMMA LockTimesOutWork ==
  ASSUME WorkInv, OwnFolders, NEW j \in Jobs, LockTimesOut(j)
  PROVE  (Published /\ Authored /\ Earned)'
<1>0. JobBecomes(j, "done", job[j].out, job[j].unsaved, TRUE)
  BY JobMoves DEF WorkInv, LeaseBase
<1>1. Published'
  BY <1>0, LeaseUnfold DEF WorkInv, LeaseBase, LockTimesOut, Published, process, person, lease,
     results
<1>2. Authored'
  BY <1>0, LeaseUnfold DEF WorkInv, LeaseBase, LockTimesOut, Authored, process, person, lease,
     results, Saved
<1>3. Earned'
  <2>1. UNCHANGED <<authored, landed, shelf>>
    BY DEF LockTimesOut, lease, results
  <2> QED
    BY <1>0, <2>1, EarnedKept DEF Saved, JobBecomes
<1> QED
  BY <1>1, <1>2, <1>3

LEMMA FinishesWork ==
  ASSUME WorkInv, OwnFolders, NEW j \in Jobs, NEW S \in SUBSET Files, Finishes(j, S)
  PROVE  (Published /\ Authored /\ Earned)'
<1>0. JobBecomes(j, "done", job[j].out, job[j].unsaved, job[j].failed)
  BY JobMoves DEF WorkInv, LeaseBase
<1>1. Published'
  BY <1>0, LeaseUnfold, LeaseConstants DEF WorkInv, LeaseBase, Finishes, Published, process,
     person, lease, results
<1>2. Authored'
  BY <1>0, LeaseUnfold DEF WorkInv, LeaseBase, Finishes, Authored, process, person, lease,
     results, Saved
<1>3. Earned'
  <2>1. UNCHANGED <<authored, landed, shelf>>
    BY DEF Finishes, lease, results
  <2>2. job[j].pc = "writing" /\ \A f \in Files : job[j].out[f] # "write"
    BY LeaseUnfold DEF Finishes, WorkInv, LeaseBase
  <2> QED
    BY <1>0, <2>1, <2>2, EarnedKept DEF Saved, JobBecomes
<1> QED
  BY <1>1, <1>2, <1>3

LEMMA JudgedWork ==
  ASSUME WorkInv, OwnFolders, NEW j \in Jobs, NEW kept \in BOOLEAN, Judged(j, kept), Loss(j) => kept
  PROVE  (Published /\ Authored /\ Earned)'
<1>0. JobBecomes(j, "idle", NoJob.out, NoJob.unsaved, NoJob.failed)
  BY JobMoves DEF WorkInv, LeaseBase
<1>1. Published'
  BY <1>0, LeaseUnfold DEF WorkInv, LeaseBase, Judged, Published, process, person, lease, results
<1>2. Authored'
  <2>1. ASSUME ~kept, NEW f \in authored[j[1]]
        PROVE  Saved(j[1], f)
    <3>1. ~Loss(j) /\ job[j].pc = "done"
      BY <2>1 DEF Judged
    <3> QED
      BY <2>1, <3>1 DEF WorkInv, Earned
  <2>2. \A l \in Leases : dir'[l] \in {"removing", "gone"} =>
          dir[l] \in {"removing", "gone"} \/ (l = j[1] /\ ~kept)
    BY LeaseUnfold, JobOf DEF Judged, Releases, WorkInv, LeaseBase
  <2>3. UNCHANGED <<stage, copy, authored, landed, shelf>>
    BY DEF Judged, results
  <2> QED
    BY <2>1, <2>2, <2>3 DEF WorkInv, Authored, Saved
<1>3. Earned'
  <2>1. UNCHANGED <<authored, landed, shelf>>
    BY DEF Judged, lease, results
  <2>2. \A k \in Jobs : job'[k] = job[k] \/ job'[k].pc = "idle"
    BY <1>0 DEF JobBecomes
  <2> QED
    BY <1>0, <2>1, <2>2, EarnedKept DEF Saved, JobBecomes
<1> QED
  BY <1>1, <1>2, <1>3

LEMMA RunSettlesWork ==
  ASSUME WorkInv, OwnFolders, NEW l \in Leases, RunSettles(l)
  PROVE  (Published /\ Authored /\ Earned)'
<1>0. JobBecomes(<<l, "run">>, Starts(l).pc, Starts(l).out, Starts(l).unsaved, Starts(l).failed)
  BY JobStarts, JobOf DEF RunSettles, WorkInv, LeaseBase
<1>1. Published'
  BY <1>0, LeaseUnfold DEF WorkInv, LeaseBase, RunSettles, Published, process, person, lease,
     results
<1>2. Authored'
  BY <1>0, LeaseUnfold DEF WorkInv, LeaseBase, RunSettles, Authored, process, person, lease,
     results, Saved, Before
<1>3. Earned'
  <2>1. UNCHANGED <<authored, landed, shelf>>
    BY DEF RunSettles, lease, results
  <2>2. \A k \in Jobs : job'[k] = job[k] \/ job'[k].pc = "waiting" \/ job'[k].failed
    BY <1>0, JobFacts, JobOf DEF JobBecomes
  <2> QED
    BY <1>0, <2>1, <2>2, EarnedKept DEF Saved, JobBecomes
<1> QED
  BY <1>1, <1>2, <1>3

LEMMA SalvageBeginsWork ==
  ASSUME WorkInv, OwnFolders, NEW l \in Leases, SalvageBegins(l)
  PROVE  (Published /\ Authored /\ Earned)'
<1>0. JobBecomes(<<l, "stop">>, Starts(l).pc, Starts(l).out, Starts(l).unsaved, Starts(l).failed)
  BY JobStarts, JobOf DEF SalvageBegins, WorkInv, LeaseBase
<1>1. Published'
  BY <1>0, LeaseUnfold DEF WorkInv, LeaseBase, SalvageBegins, Published, process, person, lease,
     results
<1>2. Authored'
  BY <1>0, LeaseUnfold DEF WorkInv, LeaseBase, SalvageBegins, Authored, process, person, lease,
     results, Saved, Before
<1>3. Earned'
  BY <1>0, LeaseUnfold, JobFacts, JobOf DEF WorkInv, LeaseBase, SalvageBegins, Earned, process,
     person, lease, results, Loss, Saved, JobBecomes
<1> QED
  BY <1>1, <1>2, <1>3

LEMMA DisposesWork ==
  ASSUME WorkInv, OwnFolders, Disposes
  PROVE  (Published /\ Authored /\ Earned)'
<1>0. \A j \in Jobs : job'[j] = job[j] \/ job'[j] = Starts(j[1])
  BY DEF Disposes
<1>1. Published'
  BY <1>0, LeaseUnfold DEF WorkInv, LeaseBase, Disposes, Published, process, person, lease, results
<1>2. Authored'
  BY <1>0, LeaseUnfold DEF WorkInv, LeaseBase, Disposes, Authored, process, person, lease,
     results, Saved
<1>3. Earned'
  <2>1. UNCHANGED <<authored, landed, shelf>>
    BY DEF Disposes, lease, results
  <2>2. \A k \in Jobs : job'[k] = job[k] \/ job'[k].pc = "waiting" \/ job'[k].failed
    BY <1>0, JobFacts, JobOf
  <2> QED
    BY <1>0, <2>1, <2>2, EarnedKept DEF Saved, JobBecomes
<1> QED
  BY <1>1, <1>2, <1>3

LEMMA FileGoesWork ==
  ASSUME WorkInv, OwnFolders, NEW l \in Leases, NEW f \in Files, FileGoes(l, f)
  PROVE  (Published /\ Authored /\ Earned)'
<1>1. Published'
  BY LeaseUnfold, LeaseConstants DEF WorkInv, LeaseBase, FileGoes, Published, process, person,
     lease, results
<1>2. Authored'
  BY LeaseUnfold, LeaseConstants DEF WorkInv, LeaseBase, FileGoes, Authored, process, person,
     lease, results, Saved
<1>3. Earned'
  BY LeaseUnfold DEF WorkInv, LeaseBase, FileGoes, Earned, process, person, lease, results,
     Loss, Saved
<1> QED
  BY <1>1, <1>2, <1>3

LEMMA DirectoryGoneWork ==
  ASSUME WorkInv, OwnFolders, NEW l \in Leases, DirectoryGone(l)
  PROVE  (Published /\ Authored /\ Earned)'
<1>1. Published'
  BY LeaseUnfold DEF WorkInv, LeaseBase, DirectoryGone, Published, process, person, lease, results
<1>2. Authored'
  BY LeaseUnfold DEF WorkInv, LeaseBase, DirectoryGone, Authored, process, person, lease,
     results, Saved
<1>3. Earned'
  BY LeaseUnfold DEF WorkInv, LeaseBase, DirectoryGone, Earned, process, person, lease, results,
     Loss, Saved
<1> QED
  BY <1>1, <1>2, <1>3

LEMMA ProcessEndsWork ==
  ASSUME WorkInv, OwnFolders, ProcessEnds
  PROVE  (Published /\ Authored /\ Earned)'
<1>1. Published'
  BY LeaseUnfold DEF WorkInv, LeaseBase, ProcessEnds, Published, process, person, lease, results
<1>2. Authored'
  BY LeaseUnfold DEF WorkInv, LeaseBase, ProcessEnds, Authored, process, person, lease, results,
     Saved, Before
<1>3. Earned'
  BY LeaseUnfold, JobFacts DEF WorkInv, LeaseBase, ProcessEnds, Earned, process, person, lease,
     results, Loss, Saved
<1> QED
  BY <1>1, <1>2, <1>3

LEMMA ProcessStartsWork ==
  ASSUME WorkInv, OwnFolders, ProcessStarts
  PROVE  (Published /\ Authored /\ Earned)'
<1>1. Published'
  BY LeaseUnfold DEF WorkInv, LeaseBase, ProcessStarts, Published, process, person, lease, results
<1>2. Authored'
  BY LeaseUnfold DEF WorkInv, LeaseBase, ProcessStarts, Authored, process, person, lease,
     results, Saved
<1>3. Earned'
  BY LeaseUnfold DEF WorkInv, LeaseBase, ProcessStarts, Earned, process, person, lease, results,
     Loss, Saved
<1> QED
  BY <1>1, <1>2, <1>3

LEMMA SalvageEndsWork ==
  ASSUME WorkInv, OwnFolders, SalvageEnds
  PROVE  (Published /\ Authored /\ Earned)'
<1>1. Published'
  BY LeaseUnfold DEF WorkInv, LeaseBase, SalvageEnds, Published, process, person, lease, results
<1>2. Authored'
  BY LeaseUnfold DEF WorkInv, LeaseBase, SalvageEnds, Authored, process, person, lease, results,
     Saved
<1>3. Earned'
  BY LeaseUnfold DEF WorkInv, LeaseBase, SalvageEnds, Earned, process, person, lease, results,
     Loss, Saved
<1> QED
  BY <1>1, <1>2, <1>3

LEMMA WritesFileWork ==
  ASSUME WorkInv, OwnFolders, NEW j \in Jobs, NEW f \in Files, WritesFile(j, f)
  PROVE  (Published /\ Authored /\ Earned)'
<1>1. /\ JobBecomes(j, job[j].pc, [job[j].out EXCEPT ![f] = "written"], job[j].unsaved, job[j].failed)
      /\ j[1] \in Leases /\ job[j] \in JobSet
  BY JobMoves, JobOf DEF WorkInv, LeaseBase, JobsTyped
<1>2. /\ tree' = [tree EXCEPT ![f] = copy[j[1]][f]] /\ copy[j[1]][f] # NoFile
      /\ landed' = landed \cup {<<j[1], f>>}
      /\ UNCHANGED <<stage, dir, copy, given, authored, shelf>>
  BY DEF WritesFile
<1>3. Published'
  BY <1>1, <1>2, LeaseUnfold DEF WorkInv, LeaseBase, Published
<1>4. Authored'
  BY <1>2 DEF WorkInv, Authored, Saved
<1>5. ASSUME NEW k \in Jobs, ~Loss(k)', NEW h \in authored'[k[1]]
      PROVE  /\ job'[k].pc = "writing" => Saved(k[1], h)' \/ job'[k].out[h] = "write"
             /\ job'[k].pc = "done" => Saved(k[1], h)'
  <2>1. h \in authored[k[1]] /\ h \in Files /\ (Saved(k[1], h) => Saved(k[1], h)')
    BY <1>2, <1>5, LeaseUnfold, JobOf DEF WorkInv, LeaseBase, Saved
  <2>2. ~Loss(k) /\ job'[k].pc = job[k].pc
    BY <1>1, <1>5 DEF Loss, JobBecomes
  <2>3. job[k].out[h] = "write" => job'[k].out[h] = "write" \/ (k = j /\ h = f)
    BY <1>1, <2>1 DEF JobBecomes, JobSet
  <2>4. k = j /\ h = f => Saved(k[1], h)'
    BY <1>2 DEF Saved
  <2> QED
    BY <2>1, <2>2, <2>3, <2>4 DEF WorkInv, Earned
<1>6. Earned'
  BY <1>5 DEF Earned
<1> QED
  BY <1>3, <1>4, <1>6

LEMMA WriteFailsWork ==
  ASSUME WorkInv, OwnFolders, NEW j \in Jobs, NEW f \in Files, WriteFails(j, f)
  PROVE  (Published /\ Authored /\ Earned)'
<1>1. /\ JobBecomes(j, job[j].pc, [job[j].out EXCEPT ![f] = "failed"], job[j].unsaved, TRUE)
      /\ j[1] \in Leases
  BY JobMoves, JobOf DEF WorkInv, LeaseBase
<1>2. PICK S : S = {f} \ {g \in Files : copy[j[1]][g] = NoFile} /\ Shelved(j[1], S)
  BY DEF WriteFails
<1>3. UNCHANGED <<tree, stage, dir, copy, given, authored, landed>>
  BY DEF WriteFails, lease
<1>4. \A m \in Leases : \A h \in authored[m] : Saved(m, h) => Saved(m, h)'
  BY <1>1, <1>2, <1>3, SetAside
<1>5. Published'
  BY <1>3 DEF WorkInv, Published
<1>6. Authored'
  BY <1>3, <1>4 DEF WorkInv, Authored
<1>7. Earned'
  BY <1>1, <1>3, <1>4, JobOf DEF WorkInv, Earned, Loss, JobBecomes
<1> QED
  BY <1>5, <1>6, <1>7

LEMMA DecidesWork ==
  ASSUME WorkInv, OwnFolders, NEW j \in Jobs, NEW S \in SUBSET Files, NEW T \in SUBSET Files, Decides(j, S, T)
  PROVE  (Published /\ Authored /\ Earned)'
<1>1. PICK l : l = j[1]
  OBVIOUS
<1>2. /\ JobBecomes(j, "writing", Choices(l, S), T \ S, S # {} \/ dir[l] = "gone")
      /\ l \in Leases
  BY <1>1, JobDecides, JobOf DEF WorkInv, LeaseBase
<1>3. PICK K : /\ Shelved(l, K)
               /\ K = {f \in Files : Choices(l, S)[f] \in {"conflict", "failed"}} \ T
  BY <1>1 DEF Decides, Choices
<1>4. /\ UNCHANGED <<tree, stage, dir, copy, given, authored, landed>>
      /\ S \subseteq {f \in Files : Outcome(l, f) # "none"}
  BY <1>1 DEF Decides, lease
<1>5. \A f \in Files : f \in K => copy[l][f] # NoFile
  <2>1. \A f \in Files : copy[l][f] = NoFile => Outcome(l, f) = "none"
    BY DEF Outcome
  <2> QED
    BY <1>3, <1>4, <2>1 DEF Choices
<1>6. /\ \A m \in Leases : \A h \in authored[m] : Saved(m, h) => Saved(m, h)'
      /\ \A h \in authored[l] : h \in K => Saved(l, h)'
  BY <1>2, <1>3, <1>4, <1>5, SetAside
<1>7. Published'
  BY <1>4 DEF WorkInv, Published
<1>8. Authored'
  BY <1>4, <1>6 DEF WorkInv, Authored
<1>9. ASSUME ~Loss(j)', NEW h \in authored[l]
      PROVE  Saved(l, h)' \/ job'[j].out[h] = "write"
  <2>1. S = {} /\ T \ S = {} /\ h \in Files /\ copy[l][h] \in {l, NoFile}
    BY <1>2, <1>9, LeaseUnfold DEF Loss, JobBecomes, WorkInv, LeaseBase, Authored
  <2>2. job'[j].out[h] = Outcome(l, h)
    BY <1>2, <2>1 DEF JobBecomes, Choices
  <2>3. CASE Outcome(l, h) = "write"
    BY <2>2, <2>3
  <2>4. CASE Outcome(l, h) = "conflict"
    BY <1>3, <1>6, <1>9, <2>1, <2>4 DEF Choices
  <2>5. CASE Outcome(l, h) = "none"
    <3>1. copy[l][h] \in {NoFile, tree[h]} \/ copy[l][h] = given[l][h]
      BY <2>5 DEF Outcome, Untouched
    <3>2. Saved(l, h)
      BY <1>2, <1>9, <2>1, <3>1 DEF WorkInv, Authored, Published, Saved
    <3> QED
      BY <1>2, <1>6, <1>9, <3>2
  <2> QED
    BY <2>3, <2>4, <2>5 DEF Outcome
<1>10. ASSUME NEW k \in Jobs, ~Loss(k)', NEW h \in authored'[k[1]]
      PROVE  /\ job'[k].pc = "writing" => Saved(k[1], h)' \/ job'[k].out[h] = "write"
             /\ job'[k].pc = "done" => Saved(k[1], h)'
  <2>1. CASE k = j
    BY <1>1, <1>2, <1>4, <1>9, <1>10, <2>1 DEF JobBecomes
  <2>2. CASE k # j
    BY <1>2, <1>4, <1>6, <1>10, <2>2, JobOf DEF WorkInv, Earned, Loss, JobBecomes
  <2> QED
    BY <2>1, <2>2
<1>11. Earned'
  BY <1>10 DEF Earned
<1> QED
  BY <1>7, <1>8, <1>11

\* All steps together keep WorkInv.
LEMMA LeaseNextWork ==
  ASSUME WorkInv, OwnFolders, [LeaseNext]_lvars
  PROVE  WorkInv'
<1>1. ASSUME NEW l \in Leases, StopJudges(l) \/ \E b \in BOOLEAN : RunJudges(l, b)
      PROVE  (Published /\ Authored /\ Earned)'
  BY <1>1, JudgedWork, JobOf DEF StopJudges, RunJudges, Loss, WorkInv, LeaseBase, JobsTyped, JobSet
<1>2. ASSUME UNCHANGED lvars
      PROVE  (Published /\ Authored /\ Earned)'
  BY <1>2 DEF lvars, WorkInv, Published, Authored, Earned, Saved, Loss
<1>3. (Published /\ Authored /\ Earned)'
  BY <1>1, <1>2, TakesSnapshotWork, SeedsWork, OpensWork, AgentWritesWork, AgentDeletesWork,
     PersonActsWork, LockTimesOutWork, DecidesWork, WritesFileWork, WriteFailsWork,
     FinishesWork, RunSettlesWork, DisposesWork, FileGoesWork, DirectoryGoneWork,
     ProcessEndsWork, ProcessStartsWork, SalvageBeginsWork, SalvageEndsWork
     DEF LeaseNext
<1> QED
  BY <1>3, LeaseNextBase DEF WorkInv

\* What an agent wrote before the end of its process stays in its copy, goes to
\* the quarantine or reaches the project, whatever runs, persons, commits,
\* mishaps, shutdowns, deaths and salvages do in whatever order, as long as no
\* two leases share a folder of the quarantine.
THEOREM NoWorkIsLost ==
  ASSUME OwnFolders
  PROVE  LeaseSpec => []WorkKept
<1>1. ASSUME LeaseInit
      PROVE  WorkInv
  <2>1. LeaseBase
    BY <1>1, LeaseInitBase
  <2>2. Published
    <3>1. 0 \notin Leases
      BY LeaseConstants, LeaseAssumption
    <3> QED
      BY <1>1, <3>1, LeaseConstants DEF LeaseInit, Published, Empty
  <2>3. Authored /\ Earned
    BY <1>1, JobOf DEF LeaseInit, Authored, Earned
  <2> QED
    BY <2>1, <2>2, <2>3 DEF WorkInv
<1>2. ASSUME WorkInv
      PROVE  WorkKept
  <2>1. \A l \in Leases : l \in Folders /\ FolderOf[l] \in Folders
    BY DEF Folders
  <2> QED
    BY <1>2, <2>1 DEF WorkInv, Authored, Saved, WorkKept
<1> QED
  BY <1>1, <1>2, LeaseNextWork, PTL DEF LeaseSpec

-----------------------------------------------------------------------------
(* A person's edits are respected.                                         *)

\* An edit that is still to be made has none of the names in use.
LEMMA FutureFacts ==
  ASSUME LeaseTypeOK
  PROVE  /\ {NoFile, Absent, Outdated, Head, 0} \cap Future = {} /\ Leases \cap Future = {}
         /\ Future \subseteq 0..MaxActs
         /\ acts < MaxActs => acts + 1 \in 0..MaxActs /\ (acts + 1 # Head => acts + 1 \in Future)
<1>1. acts \in 0..MaxActs /\ MaxActs \in Nat
  BY LeaseAssumption, LeaseUnfold
<1>2. Future \subseteq 0..MaxActs /\ 0 \notin Future
  BY <1>1 DEF Future
<1>3. NoFile \notin 0..MaxActs /\ Absent \notin 0..MaxActs /\ Outdated \notin 0..MaxActs
  BY LeaseAssumption DEF Versions
<1>4. acts < MaxActs => acts + 1 \in 0..MaxActs /\ (acts + 1 # Head => acts + 1 \in Future)
  BY <1>1 DEF Future
<1>5. Head \notin Future
  BY DEF Future
<1> QED
  BY <1>2, <1>3, <1>4, <1>5, LeaseAssumption

\* A lease that is not open has no commit with writes before it.
LEMMA WritesWhenOpen ==
  ASSUME LeaseBase, NEW j \in Jobs, NEW f \in Files, job[j].out[f] = "write"
  PROVE  writing = j /\ j[1] \in Leases /\ stage[j[1]] \notin Before
<1>1. writing = j /\ job[j].pc = "writing"
  BY LeaseUnfold DEF LeaseBase, Deferring
<1>2. j[1] \in Leases /\ (j = <<j[1], "run">> \/ j = <<j[1], "stop">>)
  BY JobOf
<1> QED
  BY <1>1, <1>2 DEF LeaseBase, Committed, Before

\* Every step keeps what EditsInv says beyond LeaseBase.
LEMMA TakesSnapshotEdits ==
  ASSUME EditsInv, SyncMayFail = FALSE, NEW l \in Leases, TakesSnapshot(l)
  PROVE  (Timely /\ Handed /\ Warranted)'
<1>1. Timely'
  BY LeaseUnfold DEF EditsInv, LeaseBase, TakesSnapshot, Timely, process, person, lease,
     results, Future
<1>2. Handed'
  BY LeaseUnfold, LeaseConstants DEF EditsInv, LeaseBase, TakesSnapshot, Handed, process,
     person, lease, results, Seeded, Before, Empty
<1>3. Warranted'
  BY LeaseUnfold, JobOf DEF EditsInv, LeaseBase, TakesSnapshot, Warranted, process, person,
     lease, results, Overwritable, ExistedAtSeed, Deferring, Committed
<1> QED
  BY <1>1, <1>2, <1>3

LEMMA SeedsEdits ==
  ASSUME EditsInv, SyncMayFail = FALSE, NEW l \in Leases, NEW seed \in [Files -> Held], Seeds(l, seed)
  PROVE  (Timely /\ Handed /\ Warranted)'
<1>1. Timely'
  BY LeaseUnfold, LeaseConstants, FutureFacts DEF EditsInv, LeaseBase, Seeds, Timely, Future,
     process, person, lease, results, Seedable
<1>2. Handed'
  BY LeaseUnfold, LeaseConstants DEF EditsInv, LeaseBase, Seeds, Handed, process, person, lease,
     results, Seeded, Before, Seedable, Empty
<1>3. Warranted'
  <2>1. UNCHANGED <<job, tree, hasty>> /\ \A m \in Leases : m # l => /\ copy'[m] = copy[m] /\ given'[m] = given[m] /\ base'[m] = base[m]
    BY LeaseUnfold DEF Seeds, person, results, EditsInv, LeaseBase
  <2>2. stage[l] \in Before
    BY DEF Seeds, Before
  <2> QED
    BY <2>1, <2>2, WritesWhenOpen DEF EditsInv, Warranted, Overwritable, ExistedAtSeed
<1> QED
  BY <1>1, <1>2, <1>3

LEMMA OpensEdits ==
  ASSUME EditsInv, SyncMayFail = FALSE, NEW l \in Leases, NEW b \in BOOLEAN, Opens(l, b)
  PROVE  (Timely /\ Handed /\ Warranted)'
<1>1. Timely'
  BY LeaseUnfold, LeaseConstants, FutureFacts DEF EditsInv, LeaseBase, Opens, Timely, Future,
     process, person, lease, results, Reconciled
<1>2. Handed'
  BY LeaseUnfold, LeaseConstants DEF EditsInv, LeaseBase, Opens, Handed, process, person, lease,
     results, Seeded, Before, Reconciled
<1>3. Warranted'
  <2>1. UNCHANGED <<job, tree, hasty>> /\ \A m \in Leases : m # l => /\ copy'[m] = copy[m] /\ given'[m] = given[m] /\ base'[m] = base[m]
    BY LeaseUnfold DEF Opens, person, results, EditsInv, LeaseBase
  <2>2. stage[l] \in Before
    BY DEF Opens, Before
  <2> QED
    BY <2>1, <2>2, WritesWhenOpen DEF EditsInv, Warranted, Overwritable, ExistedAtSeed
<1> QED
  BY <1>1, <1>2, <1>3

LEMMA AgentWritesEdits ==
  ASSUME EditsInv, SyncMayFail = FALSE, NEW l \in Leases, NEW f \in Files, AgentWrites(l, f)
  PROVE  (Timely /\ Handed /\ Warranted)'
<1>1. Timely'
  BY LeaseUnfold, LeaseConstants DEF EditsInv, LeaseBase, AgentWrites, Timely, process, person,
     lease, results, Future
<1>2. Handed'
  BY LeaseUnfold, LeaseConstants DEF EditsInv, LeaseBase, AgentWrites, Handed, process, person,
     lease, results, Seeded, Before
<1>3. Warranted'
  BY LeaseUnfold DEF EditsInv, LeaseBase, AgentWrites, Warranted, process, person, lease,
     results, Overwritable, ExistedAtSeed
<1> QED
  BY <1>1, <1>2, <1>3

LEMMA AgentDeletesEdits ==
  ASSUME EditsInv, SyncMayFail = FALSE, NEW l \in Leases, NEW f \in Files, AgentDeletes(l, f)
  PROVE  (Timely /\ Handed /\ Warranted)'
<1>1. Timely'
  BY LeaseUnfold, LeaseConstants, FutureFacts DEF EditsInv, LeaseBase, AgentDeletes, Timely,
     Future, process, person, lease, results
<1>2. Handed'
  BY LeaseUnfold, LeaseConstants DEF EditsInv, LeaseBase, AgentDeletes, Handed, process, person,
     lease, results, Seeded, Before
<1>3. Warranted'
  BY LeaseUnfold DEF EditsInv, LeaseBase, AgentDeletes, Warranted, process, person, lease,
     results, Overwritable, ExistedAtSeed
<1> QED
  BY <1>1, <1>2, <1>3

LEMMA PersonActsEdits ==
  ASSUME EditsInv, SyncMayFail = FALSE, NEW f \in Files, NEW v \in Held, PersonActs(f, v)
  PROVE  (Timely /\ Handed /\ Warranted)'
<1>0. /\ acts < MaxActs /\ v \in {acts + 1, Head, NoFile} /\ acts' = acts + 1
      /\ UNCHANGED <<stage, copy, given, base, seedFile>> /\ tree' = [tree EXCEPT ![f] = v]
  BY DEF PersonActs, lease
<1>1. Timely'
  <2>1. acts \in 0..MaxActs /\ MaxActs \in Nat
    BY LeaseAssumption, LeaseUnfold DEF EditsInv, LeaseBase
  <2>2. Future' \subseteq Future /\ acts + 1 \notin Future'
    BY <1>0, <2>1 DEF Future
  <2>3. NoFile \notin Future /\ Head \notin Future
    BY FutureFacts DEF EditsInv, LeaseBase
  <2>4. \A g \in Files : tree'[g] = IF g = f THEN v ELSE tree[g]
    BY <1>0, LeaseUnfold DEF EditsInv, LeaseBase
  <2> QED
    BY <1>0, <2>2, <2>3, <2>4 DEF EditsInv, Timely
<1>2. Handed'
  <2>1. \A g \in Files : tree'[g] = IF g = f THEN v ELSE tree[g]
    BY <1>0, LeaseUnfold DEF EditsInv, LeaseBase
  <2>2. \A l \in Leases : base[l][f] = v => v \in {Head, NoFile}
    BY <1>0, FutureFacts DEF EditsInv, LeaseBase, Timely
  <2> QED
    BY <1>0, <2>1, <2>2 DEF EditsInv, Handed, Seeded
<1>3. Warranted'
  BY LeaseUnfold DEF EditsInv, LeaseBase, PersonActs, Warranted, process, person, lease,
     results, Overwritable, ExistedAtSeed, Pending
<1> QED
  BY <1>1, <1>2, <1>3

LEMMA LockTimesOutEdits ==
  ASSUME EditsInv, SyncMayFail = FALSE, NEW j \in Jobs, LockTimesOut(j)
  PROVE  (Timely /\ Handed /\ Warranted)'
<1>0. JobBecomes(j, "done", job[j].out, job[j].unsaved, TRUE)
  BY JobMoves DEF EditsInv, LeaseBase
<1>1. Timely'
  BY <1>0, LeaseUnfold DEF EditsInv, LeaseBase, LockTimesOut, Timely, process, person, lease,
     results, Future
<1>2. Handed'
  BY <1>0, LeaseUnfold DEF EditsInv, LeaseBase, LockTimesOut, Handed, process, person, lease,
     results, Seeded, Before
<1>3. Warranted'
  <2>1. \A k \in Jobs : job'[k].out = job[k].out
    BY <1>0 DEF JobBecomes
  <2>2. UNCHANGED <<tree, hasty, copy, given, base>>
    BY DEF LockTimesOut, person, lease
  <2> QED
    BY <2>1, <2>2 DEF EditsInv, Warranted, Overwritable, ExistedAtSeed
<1> QED
  BY <1>1, <1>2, <1>3

LEMMA FinishesEdits ==
  ASSUME EditsInv, SyncMayFail = FALSE, NEW j \in Jobs, NEW S \in SUBSET Files, Finishes(j, S)
  PROVE  (Timely /\ Handed /\ Warranted)'
<1>0. JobBecomes(j, "done", job[j].out, job[j].unsaved, job[j].failed)
  BY JobMoves DEF EditsInv, LeaseBase
<1>1. Timely'
  BY LeaseUnfold, LeaseConstants, FutureFacts DEF EditsInv, LeaseBase, Finishes, Timely, Future,
     process, person, lease, results
<1>2. Handed'
  BY <1>0, LeaseUnfold, LeaseConstants DEF EditsInv, LeaseBase, Finishes, Handed, process,
     person, lease, results, Seeded, Before
<1>3. Warranted'
  BY <1>0, LeaseUnfold DEF EditsInv, LeaseBase, Finishes, Warranted, process, person, lease,
     results, Overwritable, ExistedAtSeed, Deferring, JobBecomes
<1> QED
  BY <1>1, <1>2, <1>3

LEMMA JudgedEdits ==
  ASSUME EditsInv, SyncMayFail = FALSE, NEW j \in Jobs, NEW kept \in BOOLEAN, Judged(j, kept)
  PROVE  (Timely /\ Handed /\ Warranted)'
<1>0. JobBecomes(j, "idle", NoJob.out, NoJob.unsaved, NoJob.failed)
  BY JobMoves DEF EditsInv, LeaseBase
<1>1. Timely'
  BY <1>0, LeaseUnfold DEF EditsInv, LeaseBase, Judged, Timely, process, person, lease, results,
     Future
<1>2. Handed'
  BY <1>0, LeaseUnfold DEF EditsInv, LeaseBase, Judged, Handed, process, person, lease, results,
     Seeded, Before
<1>3. Warranted'
  BY <1>0, LeaseUnfold, JobFacts DEF EditsInv, LeaseBase, Judged, Warranted, process, person,
     lease, results, Overwritable, ExistedAtSeed, JobBecomes
<1> QED
  BY <1>1, <1>2, <1>3

LEMMA RunSettlesEdits ==
  ASSUME EditsInv, SyncMayFail = FALSE, NEW l \in Leases, RunSettles(l)
  PROVE  (Timely /\ Handed /\ Warranted)'
<1>0. JobBecomes(<<l, "run">>, Starts(l).pc, Starts(l).out, Starts(l).unsaved, Starts(l).failed)
  BY JobStarts, JobOf DEF RunSettles, EditsInv, LeaseBase
<1>1. Timely'
  BY <1>0, LeaseUnfold DEF EditsInv, LeaseBase, RunSettles, Timely, process, person, lease,
     results, Future
<1>2. Handed'
  BY <1>0, LeaseUnfold DEF EditsInv, LeaseBase, RunSettles, Handed, process, person, lease,
     results, Seeded, Before
<1>3. Warranted'
  BY <1>0, LeaseUnfold, JobFacts, JobOf DEF EditsInv, LeaseBase, RunSettles, Warranted, process,
     person, lease, results, Overwritable, ExistedAtSeed, JobBecomes
<1> QED
  BY <1>1, <1>2, <1>3

LEMMA SalvageBeginsEdits ==
  ASSUME EditsInv, SyncMayFail = FALSE, NEW l \in Leases, SalvageBegins(l)
  PROVE  (Timely /\ Handed /\ Warranted)'
<1>0. JobBecomes(<<l, "stop">>, Starts(l).pc, Starts(l).out, Starts(l).unsaved, Starts(l).failed)
  BY JobStarts, JobOf DEF SalvageBegins, EditsInv, LeaseBase
<1>1. Timely'
  BY <1>0, LeaseUnfold DEF EditsInv, LeaseBase, SalvageBegins, Timely, process, person, lease,
     results, Future
<1>2. Handed'
  BY <1>0, LeaseUnfold DEF EditsInv, LeaseBase, SalvageBegins, Handed, process, person, lease,
     results, Seeded, Before
<1>3. Warranted'
  BY <1>0, LeaseUnfold, JobFacts, JobOf DEF EditsInv, LeaseBase, SalvageBegins, Warranted,
     process, person, lease, results, Overwritable, ExistedAtSeed, JobBecomes
<1> QED
  BY <1>1, <1>2, <1>3

LEMMA DisposesEdits ==
  ASSUME EditsInv, SyncMayFail = FALSE, Disposes
  PROVE  (Timely /\ Handed /\ Warranted)'
<1>0. \A j \in Jobs : job'[j] = job[j] \/ job'[j] = Starts(j[1])
  BY DEF Disposes
<1>1. Timely'
  BY <1>0, LeaseUnfold DEF EditsInv, LeaseBase, Disposes, Timely, process, person, lease,
     results, Future
<1>2. Handed'
  BY <1>0, LeaseUnfold DEF EditsInv, LeaseBase, Disposes, Handed, process, person, lease,
     results, Seeded, Before
<1>3. Warranted'
  BY <1>0, LeaseUnfold, JobFacts, JobOf DEF EditsInv, LeaseBase, Disposes, Warranted, process,
     person, lease, results, Overwritable, ExistedAtSeed
<1> QED
  BY <1>1, <1>2, <1>3

LEMMA FileGoesEdits ==
  ASSUME EditsInv, SyncMayFail = FALSE, NEW l \in Leases, NEW f \in Files, FileGoes(l, f)
  PROVE  (Timely /\ Handed /\ Warranted)'
<1>1. Timely'
  BY LeaseUnfold, LeaseConstants, FutureFacts DEF EditsInv, LeaseBase, FileGoes, Timely, Future,
     process, person, lease, results
<1>2. Handed'
  BY LeaseUnfold, LeaseConstants DEF EditsInv, LeaseBase, FileGoes, Handed, process, person,
     lease, results, Seeded, Before
<1>3. Warranted'
  BY LeaseUnfold DEF EditsInv, LeaseBase, FileGoes, Warranted, process, person, lease, results,
     Overwritable, ExistedAtSeed
<1> QED
  BY <1>1, <1>2, <1>3

LEMMA DirectoryGoneEdits ==
  ASSUME EditsInv, SyncMayFail = FALSE, NEW l \in Leases, DirectoryGone(l)
  PROVE  (Timely /\ Handed /\ Warranted)'
<1>1. Timely'
  BY LeaseUnfold DEF EditsInv, LeaseBase, DirectoryGone, Timely, process, person, lease,
     results, Future
<1>2. Handed'
  BY LeaseUnfold DEF EditsInv, LeaseBase, DirectoryGone, Handed, process, person, lease,
     results, Seeded, Before
<1>3. Warranted'
  BY LeaseUnfold DEF EditsInv, LeaseBase, DirectoryGone, Warranted, process, person, lease,
     results, Overwritable, ExistedAtSeed
<1> QED
  BY <1>1, <1>2, <1>3

LEMMA ProcessEndsEdits ==
  ASSUME EditsInv, SyncMayFail = FALSE, ProcessEnds
  PROVE  (Timely /\ Handed /\ Warranted)'
<1>1. Timely'
  BY LeaseUnfold DEF EditsInv, LeaseBase, ProcessEnds, Timely, process, person, lease, results,
     Future
<1>2. Handed'
  BY LeaseUnfold DEF EditsInv, LeaseBase, ProcessEnds, Handed, process, person, lease, results,
     Seeded, Before
<1>3. Warranted'
  BY LeaseUnfold, JobFacts DEF EditsInv, LeaseBase, ProcessEnds, Warranted, process, person,
     lease, results, Overwritable, ExistedAtSeed
<1> QED
  BY <1>1, <1>2, <1>3

LEMMA ProcessStartsEdits ==
  ASSUME EditsInv, SyncMayFail = FALSE, ProcessStarts
  PROVE  (Timely /\ Handed /\ Warranted)'
<1>1. Timely'
  BY LeaseUnfold DEF EditsInv, LeaseBase, ProcessStarts, Timely, process, person, lease,
     results, Future
<1>2. Handed'
  BY LeaseUnfold DEF EditsInv, LeaseBase, ProcessStarts, Handed, process, person, lease,
     results, Seeded, Before
<1>3. Warranted'
  BY LeaseUnfold DEF EditsInv, LeaseBase, ProcessStarts, Warranted, process, person, lease,
     results, Overwritable, ExistedAtSeed
<1> QED
  BY <1>1, <1>2, <1>3

LEMMA SalvageEndsEdits ==
  ASSUME EditsInv, SyncMayFail = FALSE, SalvageEnds
  PROVE  (Timely /\ Handed /\ Warranted)'
<1>1. Timely'
  BY LeaseUnfold DEF EditsInv, LeaseBase, SalvageEnds, Timely, process, person, lease, results,
     Future
<1>2. Handed'
  BY LeaseUnfold DEF EditsInv, LeaseBase, SalvageEnds, Handed, process, person, lease, results,
     Seeded, Before
<1>3. Warranted'
  BY LeaseUnfold DEF EditsInv, LeaseBase, SalvageEnds, Warranted, process, person, lease,
     results, Overwritable, ExistedAtSeed
<1> QED
  BY <1>1, <1>2, <1>3

LEMMA WriteFailsEdits ==
  ASSUME EditsInv, SyncMayFail = FALSE, NEW j \in Jobs, NEW f \in Files, WriteFails(j, f)
  PROVE  (Timely /\ Handed /\ Warranted)'
<1>0. JobBecomes(j, job[j].pc, [job[j].out EXCEPT ![f] = "failed"], job[j].unsaved, TRUE)
  BY JobMoves DEF EditsInv, LeaseBase
<1>1. Timely'
  BY <1>0, LeaseUnfold DEF EditsInv, LeaseBase, WriteFails, Timely, process, person, lease,
     results, Future
<1>2. Handed'
  BY <1>0, LeaseUnfold DEF EditsInv, LeaseBase, WriteFails, Handed, process, person, lease,
     results, Seeded, Before
<1>3. Warranted'
  BY <1>0, LeaseUnfold DEF EditsInv, LeaseBase, WriteFails, Warranted, process, person, lease,
     results, Overwritable, ExistedAtSeed, JobBecomes, JobsTyped, JobSet
<1> QED
  BY <1>1, <1>2, <1>3

LEMMA WritesFileEdits ==
  ASSUME EditsInv, SyncMayFail = FALSE, NEW j \in Jobs, NEW f \in Files, WritesFile(j, f)
  PROVE  (Timely /\ Handed /\ Warranted)'
<1>1. /\ JobBecomes(j, job[j].pc, [job[j].out EXCEPT ![f] = "written"], job[j].unsaved, job[j].failed)
      /\ j[1] \in Leases /\ job[j] \in JobSet /\ copy[j[1]][f] \in Held
  <2>1. JobsTyped /\ copy \in [Leases -> [Files -> Held]] /\ j[1] \in Leases
    BY JobOf, LeaseUnfold DEF EditsInv, LeaseBase
  <2>2. JobBecomes(j, job[j].pc, [job[j].out EXCEPT ![f] = "written"], job[j].unsaved, job[j].failed)
    BY <2>1, JobMoves
  <2> QED
    BY <2>1, <2>2 DEF JobsTyped
<1>2. PICK c : c = copy[j[1]][f] /\ c # NoFile
  BY DEF WritesFile
<1>3. /\ UNCHANGED <<acts, hasty, writing, stage, copy, given, seedFile>> /\ writing = j
      /\ tree' = [tree EXCEPT ![f] = c]
      /\ \A l \in Leases, g \in Files : base'[l][g] = IF g = f /\ base[l][g] = c THEN Outdated ELSE base[l][g]
  BY <1>2, LeaseUnfold DEF WritesFile, person, EditsInv, LeaseBase, Deferring
<1>4. tree'[f] = c /\ \A g \in Files : g # f => tree'[g] = tree[g] /\ \A l \in Leases : base'[l][g] = base[l][g]
  BY <1>3, LeaseUnfold DEF EditsInv, LeaseBase
<1>5. \A l \in Leases : base'[l][f] # c
  BY <1>1, <1>2, <1>3, LeaseConstants
<1>6. Timely'
  <2>1. Outdated \notin Future
    BY FutureFacts DEF EditsInv, LeaseBase
  <2> QED
    BY <1>1, <1>2, <1>3, <1>4, <2>1 DEF EditsInv, Timely, Future
<1>7. Handed'
  BY <1>3, <1>4, <1>5 DEF EditsInv, Handed, Seeded
<1>8. Warranted'
  <2>1. ASSUME NEW k \in Jobs, NEW g \in Files, job'[k].out[g] = "write"
        PROVE  k = j /\ g # f /\ job[k].out[g] = "write"
    BY <1>1, <1>3, <2>1 DEF JobBecomes, JobSet, EditsInv, LeaseBase, Deferring
  <2> QED
    BY <1>1, <1>3, <1>4, <2>1 DEF EditsInv, Warranted, Overwritable, ExistedAtSeed
<1> QED
  BY <1>6, <1>7, <1>8

LEMMA DecidesEdits ==
  ASSUME EditsInv, SyncMayFail = FALSE, NEW j \in Jobs, NEW S \in SUBSET Files, NEW T \in SUBSET Files,
         Decides(j, S, T)
  PROVE  (Timely /\ Handed /\ Warranted)'
<1>1. PICK l : l = j[1]
  OBVIOUS
<1>2. /\ JobBecomes(j, "writing", Choices(l, S), T \ S, S # {} \/ dir[l] = "gone")
      /\ l \in Leases
  BY <1>1, JobDecides, JobOf DEF EditsInv, LeaseBase
<1>3. UNCHANGED <<tree, acts, hasty, stage, copy, given, base, seedFile>> /\ job[j].pc = "waiting" /\ writing = Free
  BY DEF Decides, person, lease, LockFree
<1>4. ASSUME NEW f \in Files, Outcome(l, f) = "write"
      PROVE  copy[l][f] \in {l, NoFile} /\ Overwritable(l, f)
  <2>1. copy[l][f] # given[l][f] /\ ~QuarantineOnly(l) /\ ~Conflict(l, f)
    BY <1>4 DEF Outcome, Untouched, Conflict
  <2>2. Seeded(l)
    <3>1. j = <<l, "run">> \/ j = <<l, "stop">>
      BY <1>1, JobOf
    <3> QED
      BY <1>2, <1>3, <2>1, <3>1, LeaseUnfold DEF EditsInv, LeaseBase, Committed, QuarantineOnly,
         Seeded
  <2>3. copy[l][f] \in {l, NoFile}
    BY <1>2, <2>1, <2>2 DEF EditsInv, Handed
  <2>4. CASE tree[f] = NoFile
    BY <2>1, <2>3, <2>4 DEF Conflict, Overwritable, ExistedAtSeed
  <2>5. CASE tree[f] # NoFile
    <3>1. /\ tree[f] \in {base[l][f], Head}
          /\ given[l][f] # NoFile \/ base[l][f] = NoFile
      BY <2>1, <2>5 DEF Conflict, UserChanged
    <3>2. tree[f] = base[l][f] /\ tree[f] \notin {Head, l} => given[l][f] \in {NoFile, tree[f]}
      BY <1>2, <2>5 DEF EditsInv, Handed
    <3>3. tree[f] \in {given[l][f], l, Head}
      BY <2>5, <3>1, <3>2
    <3> QED
      BY <2>3, <2>5, <3>3 DEF Overwritable
  <2> QED
    BY <2>3, <2>4, <2>5
<1>5. Timely' /\ Handed'
  BY <1>3 DEF EditsInv, Timely, Future, Handed, Seeded
<1>6. Warranted'
  <2>1. ASSUME NEW k \in Jobs, NEW g \in Files, job'[k].out[g] = "write"
        PROVE  k = j /\ Outcome(l, g) = "write"
    BY <1>2, <1>3, <2>1, JobOf DEF JobBecomes, Choices, EditsInv, LeaseBase, Deferring
  <2> QED
    BY <1>1, <1>3, <1>4, <2>1 DEF Warranted, Overwritable, ExistedAtSeed
<1> QED
  BY <1>5, <1>6

\* All steps together keep EditsInv.
LEMMA LeaseNextEdits ==
  ASSUME EditsInv, SyncMayFail = FALSE, [LeaseNext]_lvars
  PROVE  EditsInv'
<1>1. ASSUME NEW l \in Leases, StopJudges(l) \/ \E b \in BOOLEAN : RunJudges(l, b)
      PROVE  (Timely /\ Handed /\ Warranted)'
  BY <1>1, JudgedEdits, JobOf DEF StopJudges, RunJudges, Loss, EditsInv, LeaseBase, JobsTyped,
     JobSet
<1>2. ASSUME UNCHANGED lvars
      PROVE  (Timely /\ Handed /\ Warranted)'
  BY <1>2 DEF lvars, EditsInv, Timely, Future, Handed, Seeded, Warranted, Overwritable,
     ExistedAtSeed
<1>3. (Timely /\ Handed /\ Warranted)'
  BY <1>1, <1>2, TakesSnapshotEdits, SeedsEdits, OpensEdits, AgentWritesEdits,
     AgentDeletesEdits, PersonActsEdits, LockTimesOutEdits, DecidesEdits, WritesFileEdits,
     WriteFailsEdits, FinishesEdits, RunSettlesEdits, DisposesEdits, FileGoesEdits,
     DirectoryGoneEdits, ProcessEndsEdits, ProcessStartsEdits, SalvageBeginsEdits,
     SalvageEndsEdits
     DEF LeaseNext
<1> QED
  BY <1>3, LeaseNextBase DEF EditsInv

\* What one step may do to a file of the project.
Respects ==
  \A f \in Files :
    tree'[f] # tree[f] /\ acts' = acts /\ f \notin hasty =>
      LET l == writing[1] IN
        /\ tree'[f] \in {l, NoFile}
        /\ \/ tree[f] # NoFile /\ tree[f] \in {given[l][f], l, Head}
           \/ tree[f] = NoFile /\ ~ExistedAtSeed(l, f)
           \/ tree'[f] = NoFile /\ base[l][f] = NoFile

LEMMA StepRespects ==
  ASSUME EditsInv, [LeaseNext]_lvars
  PROVE  Respects
<1>1. ASSUME NEW j \in Jobs, NEW g \in Files, WritesFile(j, g)
      PROVE  Respects
  <2>1. writing = j /\ tree' = [tree EXCEPT ![g] = copy[j[1]][g]] /\ hasty' = hasty
    BY <1>1 DEF WritesFile, EditsInv, LeaseBase, Deferring, person
  <2>2. \A f \in Files : tree'[f] # tree[f] => f = g
    BY <2>1, LeaseUnfold DEF EditsInv, LeaseBase
  <2>3. tree'[g] = copy[j[1]][g] /\ copy[j[1]][g] \in {j[1], NoFile}
    BY <1>1, <2>1, LeaseUnfold DEF WritesFile, EditsInv, LeaseBase, Warranted
  <2>4. g \notin hasty => Overwritable(j[1], g)
    BY <1>1 DEF WritesFile, EditsInv, Warranted
  <2> QED
    BY <2>1, <2>2, <2>3, <2>4 DEF Respects, Overwritable
<1>2. ASSUME NEW j \in Jobs, NEW S \in SUBSET Files, Finishes(j, S)
      PROVE  Respects
  <2>1. /\ writing = j /\ S \subseteq Deletable(j[1]) /\ j[1] \in Leases
        /\ \A f \in Files : tree'[f] = IF f \in S THEN NoFile ELSE tree[f]
    BY <1>2, JobOf DEF Finishes
  <2>2. ASSUME NEW f \in Files, f \in S, tree[f] # NoFile
        PROVE  tree[f] \in {given[j[1]][f], j[1], Head} \/ base[j[1]][f] = NoFile
    <3>1. given[j[1]][f] # NoFile /\ base[j[1]][f] \in {NoFile, tree[f]}
      BY <2>1, <2>2 DEF Deletable
    <3> QED
      BY <2>1, <2>2, <3>1 DEF EditsInv, Handed
  <2> QED
    BY <2>1, <2>2 DEF Respects
<1>3. ASSUME tree' = tree \/ acts' # acts
      PROVE  Respects
  BY <1>3 DEF Respects
<1>4. ASSUME NEW f \in Files, NEW v \in Held, PersonActs(f, v)
      PROVE  acts' # acts
  BY <1>4, LeaseAssumption, LeaseUnfold DEF PersonActs, EditsInv, LeaseBase
<1>5. \/ tree' = tree
      \/ \E f \in Files, v \in Held : PersonActs(f, v)
      \/ \E j \in Jobs : \E f \in Files : WritesFile(j, f)
      \/ \E j \in Jobs : \E S \in SUBSET Files : Finishes(j, S)
  BY DEF LeaseNext, lvars, TakesSnapshot, Seeds, Opens, AgentWrites, AgentDeletes, LockTimesOut,
     Decides, WriteFails,
         RunSettles, RunJudges, StopJudges, Judged, Disposes, FileGoes, DirectoryGone, ProcessEnds,
         ProcessStarts, SalvageBegins, SalvageEnds
<1> QED
  BY <1>1, <1>2, <1>3, <1>4, <1>5

\* No commit and no deletion of one overwrites what a person has made of a file,
\* whatever the two do between the copy and the commit and however many leases
\* touch the file, as long as no worktree stays at the last commit unnoticed.
THEOREM EditsAreRespected ==
  ASSUME SyncMayFail = FALSE
  PROVE  LeaseSpec => EditsRespected
<1>1. ASSUME LeaseInit
      PROVE  EditsInv
  <2>1. LeaseBase
    BY <1>1, LeaseInitBase
  <2>2. Timely
    <3>1. NoFile \notin Future /\ Head \notin Future /\ 0 \notin Future
      BY <2>1, FutureFacts DEF LeaseBase
    <3> QED
      BY <1>1, <3>1 DEF LeaseInit, Timely, Empty
  <2>3. Handed
    BY <1>1 DEF LeaseInit, Handed, Seeded, Empty, Before
  <2>4. Warranted
    BY <1>1, JobFacts DEF LeaseInit, Warranted
  <2> QED
    BY <2>1, <2>2, <2>3, <2>4 DEF EditsInv
<1>2. EditsInv /\ [LeaseNext]_lvars => [Respects]_lvars
  BY StepRespects
<1>3. EditsInv /\ [LeaseNext]_lvars => EditsInv'
  BY LeaseNextEdits
<1>4. [Respects]_lvars <=>
      [\A f \in Files :
         tree'[f] # tree[f] /\ acts' = acts /\ f \notin hasty =>
           LET l == writing[1] IN
             /\ tree'[f] \in {l, NoFile}
             /\ \/ tree[f] # NoFile /\ tree[f] \in {given[l][f], l, Head}
                \/ tree[f] = NoFile /\ ~ExistedAtSeed(l, f)
                \/ tree'[f] = NoFile /\ base[l][f] = NoFile]_lvars
  BY DEF Respects
<1> QED
  BY <1>1, <1>2, <1>3, <1>4, PTL DEF LeaseSpec, EditsRespected

=============================================================================
