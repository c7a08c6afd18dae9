----------------------------- MODULE RuntimeLock -----------------------------
(* One runtime per installation (src/core/runtime-lock.ts). Starters claim a *)
(* lock file under the configuration root and mirror it where runtimes of    *)
(* older versions look; a lock whose owner is gone is taken over, serialized *)
(* by a recovery file beside it. A claim is one hard link; every call of the *)
(* file system is a step, and a starter may die between any two of them. An  *)
(* owner on the same machine is judged by its process, one elsewhere by the  *)
(* age of its lock, which a live owner keeps fresh. A process number that a  *)
(* stranger took over is left out, as the code admits it.                    *)
EXTENDS Naturals, FiniteSets

CONSTANTS Starters,   \* processes that start a runtime, each once
          Elders,     \* runtimes of older versions, on the same machine
          Former,     \* a runtime that died before, and may have left its locks
          MachineOf,  \* host and process namespace
          Nobody,
          MaxAttempts

Runtimes == Starters \cup Elders \cup {Former}
Paths == {"primary", "legacy"}

ASSUME LockfileAssumption ==
  /\ Nobody \notin Runtimes /\ Former \notin Starters /\ Starters \cap Elders = {}
  /\ MaxAttempts \in Nat \ {0}

VARIABLES setup,        \* whether the installation's own directory is writable,
                        \* and whether it is older versions or other machines
                        \* that compete
          lockFile,     \* by path: whose claim is there
          refreshed,    \* it is younger than the staleness
          recoveryFile, \* whose takeover is going on
          at,           \* of a runtime: where it is in acquireRuntimeLock
          path, attempt,\* the path and the round of its claimLock
          judged,       \* the claim it judged stale
          grave         \* the claim it has renamed away

rvars == <<setup, lockFile, refreshed, recoveryFile, at, path, attempt, judged, grave>>
files == <<lockFile, refreshed, recoveryFile>>

NotUp == {"unborn", "stopped", "dead"}
Alive(r) == at[r] \notin NotUp
Local(p, o) == setup.elders \/ MachineOf[p] = MachineOf[o]

\* holderIsLive of the lock at f
HolderIsLive(p, f) ==
  LET o == lockFile[f] IN
    o # Nobody /\ (IF Local(p, o) THEN Alive(o) ELSE refreshed[f])

RuntimeInit ==
  /\ setup \in [elders : BOOLEAN, writable : BOOLEAN]
  /\ lockFile \in [Paths -> {Nobody, Former}]
  /\ refreshed \in {[f \in Paths |-> b] : b \in BOOLEAN}
  /\ recoveryFile = [f \in Paths |-> Nobody]
  /\ at = [r \in Runtimes |-> IF r = Former THEN "dead" ELSE "unborn"]
  /\ path = [p \in Starters |-> "primary"] /\ attempt = [p \in Starters |-> 1]
  /\ judged = [p \in Starters |-> Nobody] /\ grave = [p \in Starters |-> Nobody]

---------------------------------------------------------------------------
(* Where a starter goes next.                                                *)

Goes(p, where) == at' = [at EXCEPT ![p] = where]
Claims(p, f) ==
  /\ Goes(p, "judge")
  /\ path' = [path EXCEPT ![p] = f] /\ attempt' = [attempt EXCEPT ![p] = 1]
Stays(p) == UNCHANGED <<path, attempt>>

\* Mutant of TurnedAway: the primary lock is not given back.
TurnedAway_KeepsPrimary(p) == Goes(p, "stopped") /\ Stays(p)

\* A refusal at the mirror gives the primary lock back.
TurnedAway(p) ==
  IF path[p] = "primary" THEN Goes(p, "stopped") /\ Stays(p)
  ELSE Goes(p, "withdraw") /\ path' = [path EXCEPT ![p] = "primary"] /\ UNCHANGED attempt

Claimed(p) ==
  IF path[p] = "primary" THEN Claims(p, "legacy") ELSE Goes(p, "running") /\ Stays(p)

NextAttempt(p) ==
  IF attempt[p] < MaxAttempts
  THEN Goes(p, "judge") /\ attempt' = [attempt EXCEPT ![p] = @ + 1] /\ UNCHANGED path
  ELSE TurnedAway(p)

Lock(p) == lockFile[path[p]]
Recovery(p) == recoveryFile[path[p]]
WritesLock(p, r) == lockFile' = [lockFile EXCEPT ![path[p]] = r]
Publishes(p) ==
  WritesLock(p, p) /\ refreshed' = [refreshed EXCEPT ![path[p]] = TRUE]
Memory == UNCHANGED <<setup, judged, grave>>

---------------------------------------------------------------------------
(* acquireRuntimeLock and claimLock.                                         *)

\* A live lock of an older version stops the start before anything is claimed.
LooksAtLegacy(p) ==
  /\ at[p] = "unborn"
  /\ IF HolderIsLive(p, "legacy") THEN Goes(p, "stopped") /\ Stays(p) ELSE Claims(p, "primary")
  /\ UNCHANGED files /\ Memory

FindsHolder(p) ==
  /\ at[p] = "judge" /\ HolderIsLive(p, path[p])
  /\ TurnedAway(p)
  /\ UNCHANGED files /\ Memory

Mirrorless(p) == path[p] = "legacy" /\ ~setup.writable
SkipsMirror(p) ==
  /\ at[p] = "judge" /\ ~HolderIsLive(p, path[p]) /\ Mirrorless(p)
  /\ Goes(p, "running") /\ Stays(p)
  /\ UNCHANGED files /\ Memory

FindsNone(p) ==
  /\ at[p] = "judge" /\ Lock(p) = Nobody /\ ~Mirrorless(p)
  /\ Goes(p, "publish") /\ Stays(p)
  /\ UNCHANGED files /\ Memory

FindsStale(p) ==
  /\ at[p] = "judge" /\ Lock(p) # Nobody /\ ~HolderIsLive(p, path[p]) /\ ~Mirrorless(p)
  /\ judged' = [judged EXCEPT ![p] = Lock(p)]
  /\ Goes(p, "enter") /\ Stays(p)
  /\ UNCHANGED <<files, setup, grave>>

\* Mutant of TriesClaim: the claim is renamed into place, not linked.
TriesClaim_Overwrites(p) ==
  at[p] = "publish" /\ Publishes(p) /\ Claimed(p) /\ UNCHANGED recoveryFile /\ Memory
TriesClaim(p) ==
  /\ at[p] = "publish"
  /\ IF Lock(p) = Nobody
     THEN Publishes(p) /\ Claimed(p)
     ELSE NextAttempt(p) /\ UNCHANGED <<lockFile, refreshed>>
  /\ UNCHANGED recoveryFile /\ Memory

---------------------------------------------------------------------------
(* takeOverStale, in the recovery file's mutual exclusion.                   *)

EntersRecovery(p) ==
  /\ at[p] = "enter" /\ Recovery(p) = Nobody
  /\ recoveryFile' = [recoveryFile EXCEPT ![path[p]] = p]
  /\ Goes(p, "rejudge") /\ Stays(p)
  /\ UNCHANGED <<lockFile, refreshed>> /\ Memory

FindsRecovery(p) ==
  /\ at[p] = "enter" /\ Recovery(p) # Nobody
  /\ Goes(p, "wait") /\ Stays(p)
  /\ UNCHANGED files /\ Memory

ForgetsJudged(p) == judged' = [judged EXCEPT ![p] = Nobody]

WaitEnds(p) ==
  /\ at[p] = "wait" /\ Recovery(p) = Nobody
  /\ NextAttempt(p) /\ ForgetsJudged(p)
  /\ UNCHANGED <<files, setup, grave>>

WaitTimesOut(p) ==
  /\ at[p] = "wait" /\ Recovery(p) # Nobody
  /\ TurnedAway(p) /\ ForgetsJudged(p)
  /\ UNCHANGED <<files, setup, grave>>

Rejudges(p) ==
  /\ at[p] = "rejudge"
  /\ Goes(p, IF Lock(p) = judged[p] /\ ~HolderIsLive(p, path[p]) THEN "remove" ELSE "leave")
  /\ Stays(p)
  /\ UNCHANGED files /\ Memory

\* removeLockIfUnchanged: rename, then compare; another's claim is linked back
\* if the path is still free.
Buries(p, next, gone) ==
  /\ IF Lock(p) = Nobody
     THEN Goes(p, gone) /\ UNCHANGED <<lockFile, grave>>
     ELSE Goes(p, next) /\ WritesLock(p, Nobody) /\ grave' = [grave EXCEPT ![p] = Lock(p)]
  /\ UNCHANGED <<setup, refreshed, recoveryFile, judged>>

Compares(p, expected, removed, kept) ==
  /\ Goes(p, IF grave[p] = expected THEN removed ELSE kept)
  /\ IF grave[p] # expected /\ Lock(p) = Nobody THEN WritesLock(p, grave[p]) ELSE UNCHANGED lockFile
  /\ grave' = [grave EXCEPT ![p] = Nobody]
  /\ UNCHANGED <<setup, refreshed, recoveryFile, judged>>

BuriesStale(p) == at[p] = "remove" /\ Buries(p, "compare", "leave") /\ Stays(p)
ComparesStale(p) == at[p] = "compare" /\ Compares(p, judged[p], "reclaim", "leave") /\ Stays(p)

Reclaims(p) ==
  /\ at[p] = "reclaim"
  /\ IF Lock(p) = Nobody
     THEN Publishes(p) /\ Goes(p, "leave with it")
     ELSE Goes(p, "leave") /\ UNCHANGED <<lockFile, refreshed>>
  /\ Stays(p) /\ UNCHANGED recoveryFile /\ Memory

LeavesRecovery(p) ==
  /\ at[p] \in {"leave", "leave with it"}
  /\ recoveryFile' = [recoveryFile EXCEPT ![path[p]] = Nobody]
  /\ IF at[p] = "leave" THEN NextAttempt(p) ELSE Claimed(p)
  /\ ForgetsJudged(p) /\ UNCHANGED <<setup, lockFile, refreshed, grave>>

---------------------------------------------------------------------------
(* The end: a refusal at the mirror, a stop, a death.                        *)

StopsRuntime(p) ==
  /\ p \in Starters /\ at[p] = "running"
  /\ Goes(p, "release")
  /\ path' = [path EXCEPT ![p] = "primary"] /\ UNCHANGED attempt
  /\ UNCHANGED files /\ Memory

\* release() of both, or of the primary lock alone.
Released(p) == IF path[p] = "legacy" \/ ~setup.writable THEN "stopped" ELSE "release"
ReleasesLock(p) ==
  /\ at[p] = "release"
  /\ Buries(p, "released", Released(p))
  /\ UNCHANGED attempt
  /\ path' = IF Lock(p) = Nobody THEN [path EXCEPT ![p] = "legacy"] ELSE path
LockReleased(p) ==
  /\ at[p] = "released"
  /\ Compares(p, p, Released(p), Released(p))
  /\ UNCHANGED attempt
  /\ path' = [path EXCEPT ![p] = "legacy"]

Withdraws(p) == at[p] = "withdraw" /\ Buries(p, "withdrawn", "stopped") /\ Stays(p)
Withdrawn(p) == at[p] = "withdrawn" /\ Compares(p, p, "stopped", "stopped") /\ Stays(p)

RuntimeDies(r) ==
  /\ Alive(r)
  /\ Goes(r, "dead")
  /\ grave' = [p \in Starters |-> IF p = r THEN Nobody ELSE grave[p]]
  /\ judged' = [p \in Starters |-> IF p = r THEN Nobody ELSE judged[p]]
  /\ UNCHANGED <<setup, files, path, attempt>>

LockAges(f) ==
  /\ lockFile[f] # Nobody /\ ~Alive(lockFile[f]) /\ refreshed[f]
  /\ refreshed' = [refreshed EXCEPT ![f] = FALSE]
  /\ UNCHANGED <<setup, lockFile, recoveryFile, at, path, attempt, judged, grave>>

\* An older version knows the legacy path only; here it takes a free one.
ElderStarts(e) ==
  /\ at[e] = "unborn" /\ setup.elders /\ setup.writable
  /\ lockFile["legacy"] = Nobody
  /\ lockFile' = [lockFile EXCEPT !["legacy"] = e] /\ refreshed' = [refreshed EXCEPT !["legacy"] = TRUE]
  /\ Goes(e, "running")
  /\ UNCHANGED <<setup, recoveryFile, path, attempt, judged, grave>>

ElderStops(e) ==
  /\ at[e] = "running"
  /\ lockFile' = [lockFile EXCEPT !["legacy"] = IF @ = e THEN Nobody ELSE @]
  /\ Goes(e, "stopped")
  /\ UNCHANGED <<setup, refreshed, recoveryFile, path, attempt, judged, grave>>

RuntimeNext ==
  \/ \E p \in Starters :
       \/ LooksAtLegacy(p) \/ FindsHolder(p) \/ SkipsMirror(p) \/ FindsNone(p) \/ FindsStale(p)
       \/ TriesClaim(p) \/ EntersRecovery(p) \/ FindsRecovery(p) \/ WaitEnds(p) \/ WaitTimesOut(p)
       \/ Rejudges(p) \/ BuriesStale(p) \/ ComparesStale(p) \/ Reclaims(p) \/ LeavesRecovery(p)
       \/ StopsRuntime(p) \/ ReleasesLock(p) \/ LockReleased(p) \/ Withdraws(p) \/ Withdrawn(p)
  \/ \E r \in Runtimes : RuntimeDies(r)
  \/ \E f \in Paths : LockAges(f)
  \/ \E e \in Elders : ElderStarts(e) \/ ElderStops(e)

RuntimeSpec == RuntimeInit /\ [][RuntimeNext]_rvars

---------------------------------------------------------------------------
Running == {r \in Runtimes : at[r] = "running"}
InRecovery(p) == at[p] \in {"rejudge", "remove", "compare", "reclaim", "leave", "leave with it"}

\* Types, and that a claim judged or renamed away is one that some runtime wrote.
RuntimeTypeOK ==
  /\ setup \in [elders : BOOLEAN, writable : BOOLEAN]
  /\ lockFile \in [Paths -> Runtimes \cup {Nobody}] /\ refreshed \in [Paths -> BOOLEAN]
  /\ recoveryFile \in [Paths -> Starters \cup {Nobody}]
  /\ path \in [Starters -> Paths] /\ attempt \in [Starters -> 1..MaxAttempts]
  /\ {judged, grave} \subseteq [Starters -> Runtimes \cup {Nobody}]

\* "One install gets exactly one live runtime": through every takeover of a
\* stale lock at most one runtime runs, on whatever machine and of whatever
\* version, and whoever runs has the lock at every path that others look at.
OneRuntime ==
  /\ Cardinality(Running) <= 1
  /\ \A p \in Running \cap Starters :
       lockFile["primary"] = p /\ (setup.writable => lockFile["legacy"] = p)

\* A start that was refused, wherever it was turned away, and a runtime that
\* stopped leave neither a lock nor a recovery file, which nobody would break;
\* and a starter in the recovery section is the one the recovery file names.
NothingLeftBehind ==
  /\ \A p \in Starters : at[p] = "stopped" =>
       \A f \in Paths : lockFile[f] # p /\ recoveryFile[f] # p
  /\ \A p \in Starters : InRecovery(p) => recoveryFile[path[p]] = p

=============================================================================
