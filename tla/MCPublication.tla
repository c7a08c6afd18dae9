---------------------------- MODULE MCPublication ----------------------------
(* How work reaches the project: workspace leases that are committed, and the *)
(* write lock their commits take. A lease's commit holds one lock of its own, *)
(* in one process, so the two stand side by side, and a behaviour lets one of *)
(* them move: the lock alone, two leases of which the one is the other's      *)
(* person, one lease with one file and many hands and mishaps, or one lease   *)
(* with two files, of which one may land and the other not.                   *)
EXTENDS MCProjectWriteLock, WorkspaceLease

CONSTANTS x, y, f, g

\* The runs' workers have names of their own, or names that begin alike.
OwnFolder == [l \in Leases |-> IF l = x THEN 1 ELSE 2]
OneFolder == [l \in Leases |-> 1]

VARIABLE scene
pvars == <<scene, vars, lvars>>

\* How much of the leases a scene uses.
Leased(S) == stage = [l \in Leases |-> IF l \in S THEN "free" ELSE "over"]
Left(hands, accidents) == acts = MaxActs - hands /\ mishaps = accidents
Without == tree[g] = NoFile

PublicationInit ==
  /\ Init /\ LeaseInit
  /\ \/ scene = "lock" /\ Leased({}) /\ Left(0, 0) /\ tree = Empty
     \/ scene = "two leases" /\ Leased({x, y}) /\ Left(0, 0) /\ Without
     \/ scene = "one file" /\ Leased({x}) /\ Left(2, 2) /\ Without
     \/ scene = "two files" /\ Leased({x}) /\ Left(1, 1) /\ tree[f] = 0 /\ tree[g] # 0

\* Whose step it is, and what the others keep.
Locking == scene = "lock"
LockAlone == UNCHANGED <<scene, lvars>>
Leasing == scene # "lock"
LeasesAlone ==
  /\ UNCHANGED <<scene, vars>>
  /\ scene # "two files" => tree'[g] = NoFile /\ \A l \in Leases : copy'[l][g] = NoFile

LockNext ==
  \/ \E w \in Writers : Locking /\ Step(w) /\ LockAlone
  \/ \E w \in Writers : Locking /\ TimeOut(w) /\ LockAlone
  \/ \E p \in Procs : Locking /\ Crash(p) /\ LockAlone
  \/ Locking /\ AgeLock /\ LockAlone
  \/ Locking /\ AgeMarker /\ LockAlone

LeasesNext ==
  \/ \E l \in Leases : Leasing /\ TakesSnapshot(l) /\ LeasesAlone
  \/ \E l \in Leases, seed \in [Files -> Held] : Leasing /\ Seeds(l, seed) /\ LeasesAlone
  \/ \E l \in Leases, b \in BOOLEAN : Leasing /\ Opens(l, b) /\ LeasesAlone
  \/ \E l \in Leases, h \in Files : Leasing /\ AgentWrites(l, h) /\ LeasesAlone
  \/ \E l \in Leases, h \in Files : Leasing /\ AgentDeletes(l, h) /\ LeasesAlone
  \/ \E h \in Files, v \in Held : Leasing /\ PersonActs(h, v) /\ LeasesAlone
  \/ \E l \in Leases : Leasing /\ RunSettles(l) /\ LeasesAlone
  \/ \E j \in Jobs : Leasing /\ LockTimesOut(j) /\ LeasesAlone
  \/ \E j \in Jobs, S, T \in SUBSET Files : Leasing /\ Decides(j, S, T) /\ LeasesAlone
  \/ \E j \in Jobs, h \in Files : Leasing /\ WritesFile(j, h) /\ LeasesAlone
  \/ \E j \in Jobs, h \in Files : Leasing /\ WriteFails(j, h) /\ LeasesAlone
  \/ \E j \in Jobs, S \in SUBSET Files : Leasing /\ Finishes(j, S) /\ LeasesAlone
  \/ \E l \in Leases, b \in BOOLEAN : Leasing /\ RunJudges(l, b) /\ LeasesAlone
  \/ \E l \in Leases : Leasing /\ StopJudges(l) /\ LeasesAlone
  \/ \E l \in Leases, h \in Files : Leasing /\ FileGoes(l, h) /\ LeasesAlone
  \/ \E l \in Leases : Leasing /\ DirectoryGone(l) /\ LeasesAlone
  \/ Leasing /\ Disposes /\ LeasesAlone
  \/ Leasing /\ ProcessEnds /\ LeasesAlone
  \/ Leasing /\ ProcessStarts /\ LeasesAlone
  \/ \E l \in Leases : Leasing /\ SalvageBegins(l) /\ LeasesAlone
  \/ Leasing /\ SalvageEnds /\ LeasesAlone

PublicationNext == LockNext \/ LeasesNext
PublicationSpec == PublicationInit /\ [][PublicationNext]_pvars

=============================================================================
