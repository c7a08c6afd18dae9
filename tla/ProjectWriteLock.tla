-------------------------- MODULE ProjectWriteLock --------------------------
(***************************************************************************)
(* The advisory lock that serializes the bulk writers of one project, in   *)
(* several processes: a directory made with mkdir, an owner file in it,    *)
(* and beside it a marker directory that serializes the decision to take   *)
(* the lock away from its owner, which a release does too.                 *)
(*                                                                         *)
(* A process is one JavaScript thread: between two awaits only one of its  *)
(* writers acts. The file system is shared, so an action is one call of it *)
(* and the calls of different processes interleave. A writer stands for    *)
(* one call of acquireProjectWriteLock, and for the token the call drew.   *)
(***************************************************************************)
EXTENDS Naturals, FiniteSets

CONSTANTS
  Writers,
  NoOne,       (* no writer                                                *)
  Procs,       (* process lifetimes (incarnation)                          *)
  Home,        (* of each writer its process                               *)
  Host,        (* of each process its machine                              *)
  MaxRelease,  (* RELEASE_RETRIES                                          *)
  Survivors    (* A process may die between two calls of a section that    *)
               (* make or remove a directory only while at most so many    *)
               (* others live. It may always die elsewhere.                *)

ASSUME LockAssumption ==
  /\ NoOne \notin Writers
  /\ IsFiniteSet(Procs)
  /\ Home \in [Writers -> Procs]
  /\ MaxRelease \in Nat /\ Survivors \in Nat

VARIABLES
  (* on disk                                                               *)
  lock,    (* whose mkdir made the lock directory; NoOne: it is not there  *)
  owner,   (* whose token its owner file holds; NoOne: there is no file    *)
  old,     (* older than staleMs: the owner file, or without one the       *)
           (* directory                                                    *)
  marker,  (* whose mkdir made the reclaim marker                          *)
  spent,   (* ... and it is older than RECLAIM_MARKER_STALE_MS             *)
  (* in the processes                                                      *)
  up,      (* those that run                                               *)
  held,    (* tokens whose handle is not released (ProcessLockState.held)  *)
  pc,
  seen,    (* the owner a reclaim was justified against                    *)
  tries    (* how often a release was put off                              *)

disk == <<lock, owner, old, marker, spent>>
mem  == <<up, held, pc, seen, tries>>
vars == <<disk, mem>>

\* A section of the code that runs without an await is at one of these.
Fragile == {"own", "decide", "move", "drop", "dropbusy"}
Section == Fragile \cup {"look", "mark", "unmark", "remark"}
PCs     == Section \cup {"off", "wait", "hold", "again", "done", "gaveup", "unlocked", "dead"}

\* The type invariant.
TypeOK ==
  /\ lock \in Writers \cup {NoOne} /\ owner \in Writers \cup {NoOne}
  /\ marker \in Writers \cup {NoOne}
  /\ old \in BOOLEAN /\ spent \in BOOLEAN
  /\ up \subseteq Procs /\ held \subseteq Writers
  /\ pc \in [Writers -> PCs]
  /\ seen \in [Writers -> Writers \cup {NoOne}]
  /\ tries \in [Writers -> 0..MaxRelease]

\* No other writer of the process is in a section.
Turn(w) == \A v \in Writers : Home[v] = Home[w] /\ v # w => pc[v] \notin Section

To(w, place) == pc' = [pc EXCEPT ![w] = place]

\* holderIsAlive. Of its own process a writer knows which tokens are held; of
\* another one on the same machine whether it runs; of other machines nothing.
Verdict(w, o) ==
  IF Home[o] = Home[w] THEN (IF o \in held THEN "alive" ELSE "gone")
  ELSE IF Host[Home[o]] = Host[Home[w]] THEN (IF Home[o] \in up THEN "alive" ELSE "gone")
  ELSE "unknown"

-----------------------------------------------------------------------------
(* Acquiring: acquireProjectWriteLock polls until it takes the lock or its *)
(* time is up.                                                             *)

Try(w) ==
  /\ pc[w] \in {"off", "wait"} /\ Turn(w)
  /\ IF lock = NoOne
     THEN /\ lock' = w /\ owner' = NoOne /\ old' = FALSE
          /\ To(w, "own")
     ELSE /\ UNCHANGED <<lock, owner, old>>
          /\ To(w, "look")
  /\ UNCHANGED <<marker, spent, up, held, seen, tries>>

\* The path is written, whoever's directory is there by now; without one the
\* write fails, which the code takes for a lock without metadata.
WriteOwner(w) ==
  /\ pc[w] = "own"
  /\ owner' = IF lock = NoOne THEN NoOne ELSE w
  /\ old' = FALSE
  /\ held' = held \cup {w}
  /\ To(w, "hold")
  /\ UNCHANGED <<lock, marker, spent, up, seen, tries>>

\* breakIfStale: what justifies taking the lock from its owner.
Stale(w) ==
  /\ lock # NoOne
  /\ IF owner = NoOne THEN old
     ELSE \/ Verdict(w, owner) = "gone"
          \/ Verdict(w, owner) = "unknown" /\ old

Look(w) ==
  /\ pc[w] = "look"
  /\ IF Stale(w) THEN To(w, "mark") /\ seen' = [seen EXCEPT ![w] = owner]
                 ELSE To(w, "wait") /\ UNCHANGED seen
  /\ UNCHANGED <<disk, up, held, tries>>

\* Proceeding without the lock.
TimeOut(w) ==
  /\ pc[w] = "wait" /\ Turn(w)
  /\ To(w, "unlocked")
  /\ UNCHANGED <<disk, up, held, seen, tries>>

\* The work under the lock is done, or a release comes back after 500 ms.
Release(w) ==
  /\ pc[w] \in {"hold", "again"} /\ Turn(w)
  /\ seen' = [seen EXCEPT ![w] = w]
  /\ To(w, "mark")
  /\ UNCHANGED <<disk, up, held, tries>>

-----------------------------------------------------------------------------
(* reclaim: the marker, the owner read again, the rename, the marker.      *)

\* The reclaim is over, and it could decide.
Settled(w) ==
  /\ To(w, IF w \in held THEN "done" ELSE "wait")
  /\ held' = held \ {w}
  /\ UNCHANGED tries

\* Mutants of Contended: one retry too many; a release that could not act is
\* over.
Contended_OneMore(w) ==
  IF w \notin held THEN To(w, "wait") /\ UNCHANGED <<held, tries>>
  ELSE IF tries[w] <= MaxRelease
  THEN To(w, "again") /\ tries' = [tries EXCEPT ![w] = @ + 1] /\ UNCHANGED held
  ELSE To(w, "gaveup") /\ held' = held \ {w} /\ UNCHANGED tries

Contended_Reported(w) ==
  IF w \notin held THEN To(w, "wait") /\ UNCHANGED <<held, tries>>
  ELSE To(w, "done") /\ held' = held \ {w} /\ UNCHANGED tries

\* It could not: a release tries again, until it gives up.
Contended(w) ==
  IF w \notin held THEN To(w, "wait") /\ UNCHANGED <<held, tries>>
  ELSE IF tries[w] < MaxRelease
  THEN To(w, "again") /\ tries' = [tries EXCEPT ![w] = @ + 1] /\ UNCHANGED held
  ELSE To(w, "gaveup") /\ held' = held \ {w} /\ UNCHANGED tries

\* The retries of a release last twice as long as a marker does, so a marker
\* whose maker died does not use them up.
Orphaned == marker # NoOne /\ Home[marker] \notin up

\* Mutant of Mark: whoever finds a marker overrides it, old or not.
Mark_Impatient(w) ==
  /\ pc[w] = "mark"
  /\ IF marker = NoOne
     THEN marker' = w /\ spent' = FALSE /\ To(w, "decide")
     ELSE To(w, "unmark") /\ UNCHANGED <<marker, spent>>
  /\ UNCHANGED <<lock, owner, old, up, held, seen, tries>>

\* takeReclaimMarker, in up to three calls.
Mark(w) ==
  /\ pc[w] = "mark"
  /\ CASE marker = NoOne ->
            /\ marker' = w /\ spent' = FALSE
            /\ To(w, "decide") /\ UNCHANGED <<held, tries>>
       [] marker # NoOne /\ spent ->
            To(w, "unmark") /\ UNCHANGED <<marker, spent, held, tries>>
       [] OTHER ->
            /\ IF Orphaned /\ w \in held THEN To(w, "again") /\ UNCHANGED <<held, tries>>
                                         ELSE Contended(w)
            /\ UNCHANGED <<marker, spent>>
  /\ UNCHANGED <<lock, owner, old, up, seen>>

Unmark(w) ==
  /\ pc[w] = "unmark"
  /\ marker' = NoOne /\ spent' = FALSE
  /\ To(w, "remark")
  /\ UNCHANGED <<lock, owner, old, up, held, seen, tries>>

Remark(w) ==
  /\ pc[w] = "remark"
  /\ IF marker = NoOne
     THEN marker' = w /\ spent' = FALSE /\ To(w, "decide") /\ UNCHANGED <<held, tries>>
     ELSE Contended(w) /\ UNCHANGED <<marker, spent>>
  /\ UNCHANGED <<lock, owner, old, up, seen>>

\* Mutant of Ours: the owner is not read again under the marker.
Ours_AsSeen(w) == TRUE

\* The lock is still the one that was judged.
Ours(w) ==
  IF seen[w] # NoOne THEN owner = seen[w]
  ELSE owner = NoOne \/ Verdict(w, owner) = "gone"

Decide(w) ==
  /\ pc[w] = "decide"
  /\ To(w, IF Ours(w) THEN "move" ELSE "drop")
  /\ UNCHANGED <<disk, up, held, seen, tries>>

\* Renamed aside and removed, or gone already.
Moved(w) ==
  /\ pc[w] = "move"
  /\ lock' = NoOne /\ owner' = NoOne /\ old' = FALSE
  /\ To(w, "drop")
  /\ UNCHANGED <<marker, spent, up, held, seen, tries>>

\* Something holds the directory open, and it stands.
Busy(w) ==
  /\ pc[w] = "move" /\ lock # NoOne
  /\ To(w, "dropbusy")
  /\ UNCHANGED <<disk, up, held, seen, tries>>

\* dropReclaimMarker removes the marker that is there.
Drop(w) ==
  /\ marker' = NoOne /\ spent' = FALSE
  /\ \/ pc[w] = "drop" /\ Settled(w)
     \/ pc[w] = "dropbusy" /\ Contended(w)
  /\ UNCHANGED <<lock, owner, old, up, seen>>

-----------------------------------------------------------------------------
(* Time, and death.                                                        *)

\* The heartbeat of a handle renews the owner file with its token; a process
\* that made the directory writes the file at once.
Renewed == IF owner = NoOne THEN pc[lock] = "own" ELSE owner \in held

AgeLock ==
  /\ lock # NoOne /\ ~old /\ ~Renewed
  /\ old' = TRUE
  /\ UNCHANGED <<lock, owner, marker, spent, mem>>

\* A reclaim that is alive takes no thirty seconds.
AgeMarker ==
  /\ Orphaned /\ ~spent
  /\ spent' = TRUE
  /\ UNCHANGED <<lock, owner, old, marker, mem>>

Crash(p) ==
  /\ p \in up
  /\ (\E w \in Writers : Home[w] = p /\ pc[w] \in Fragile)
       => Cardinality(up \ {p}) <= Survivors
  /\ up' = up \ {p}
  /\ pc' = [w \in Writers |-> IF Home[w] = p THEN "dead" ELSE pc[w]]
  /\ held' = {w \in held : Home[w] # p}
  /\ UNCHANGED <<disk, seen, tries>>

-----------------------------------------------------------------------------
Init ==
  /\ lock = NoOne /\ owner = NoOne /\ old = FALSE
  /\ marker = NoOne /\ spent = FALSE
  /\ up = Procs /\ held = {}
  /\ pc = [w \in Writers |-> "off"]
  /\ seen = [w \in Writers |-> NoOne]
  /\ tries = [w \in Writers |-> 0]

Step(w) ==
  \/ Try(w) \/ WriteOwner(w) \/ Look(w) \/ Release(w)
  \/ Mark(w) \/ Unmark(w) \/ Remark(w) \/ Decide(w) \/ Moved(w) \/ Busy(w) \/ Drop(w)

Next ==
  \/ \E w \in Writers : Step(w) \/ TimeOut(w)
  \/ \E p \in Procs : Crash(p)
  \/ AgeLock \/ AgeMarker

Spec == Init /\ [][Next]_vars

-----------------------------------------------------------------------------
(* Properties.                                                             *)

\* Who works under the lock has it: the directory at the path is the one it
\* made, with its token. No reclaim takes a lock from a holder that is alive,
\* whatever it saw before (the comment above reclaim); so no two hold it.
HolderKeepsLock ==
  \A w \in Writers : pc[w] = "hold" => lock = w /\ owner = w

\* One decision about the lock at a time (takeReclaimMarker).
OneDecision ==
  \A v, w \in Writers : pc[v] \in {"decide", "move"} /\ pc[w] \in {"decide", "move"} => v = w

\* A lock that nobody holds any more can be taken away by every process that
\* meets it, at once or when it is old: a release that could not act is never
\* taken for one that did, and a dead holder is known to be dead (breakIfStale,
\* the retries of release). A release that gave up may leave such a lock.
FreeLockCanBeTaken ==
  lock # NoOne /\ lock \notin held /\ pc[lock] # "own"
    => \/ \E v \in Writers : pc[v] = "gaveup"
       \/ owner = NoOne
       \/ \A w \in Writers : Home[w] \in up => Verdict(w, owner) # "alive"

=============================================================================
