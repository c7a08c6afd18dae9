--------------------------- MODULE WorkspaceLease ---------------------------
(* Workspace leases and what becomes of the work in them                     *)
(* (src/agents/multi/workspace-lease-manager.ts). An agent works in a copy   *)
(* of the project; committing the lease takes home what the agent changed,   *)
(* one commit at a time under the project's write lock, and releasing it     *)
(* deletes the copy. A person edits the project meanwhile, other leases are  *)
(* committed, shutdown commits what is still leased, runs that unwind        *)
(* included, and the next start commits what a dead process left behind. A   *)
(* version of a file is named by who wrote it, for its bytes and its stamps   *)
(* alike; a commit that brings one back outdates its stamps. Left out: that  *)
(* a Unity asset and its .meta travel together, paths nobody may publish, the *)
(* replay of an agent's own git commits, leases seeded from leases, and the  *)
(* records for a person's review.                                            *)
EXTENDS Naturals, FiniteSets

CONSTANTS Leases, Files,
          FolderOf,     \* of a lease: the quarantine folder of its salvage
          Head,         \* as a version: what the last git commit holds
          NoFile,       \* as a version: there is no such file
          Absent,       \* as a stamp: it appeared while the lease was seeded
          Outdated,     \* as a stamp: the version was written anew since
          Free,         \* the project write lock has no holder
          MaxActs,      \* what a person does to the project
          MaxMishaps,   \* deaths, and calls that fail
          SyncMayFail   \* whether a worktree may stay at the last commit

\* 0 is the file as found; n is what the person's n-th act made of it.
Versions == 0..MaxActs \cup Leases \cup {Head}
Held == Versions \cup {NoFile}
Committers == {"run", "stop"}          \* the run itself; dispose() or salvage
Jobs == Leases \X Committers
Folders == Leases \cup {FolderOf[l] : l \in Leases}

ASSUME LeaseAssumption ==
  /\ IsFiniteSet(Files) /\ MaxActs \in Nat /\ MaxMishaps \in Nat /\ SyncMayFail \in BOOLEAN
  /\ Free \notin Jobs /\ Head \notin Leases /\ Leases \cap 0..MaxActs = {}
  /\ {NoFile, Absent, Outdated} \cap Versions = {} /\ Cardinality({NoFile, Absent, Outdated}) = 3

VARIABLES manager,  \* of the process: up, disposing, down, salvaging
          mishaps,  \* how many more there may be
          tree,     \* the project
          acts,     \* what the person has done to it
          hasty,    \* files it touched between a commit's decision and its write
          writing,  \* the commit that holds the project write lock
          stage,    \* of a lease
          dir,      \* its directory
          copy,     \* the files in it
          given,    \* leaseSeed: what the agent was handed
          base,     \* sourceSeed: what the project held then
          seedFile, \* whether the two are on disk beside the directory
          job,      \* the commits under way
          shelf,    \* the quarantine
          authored, \* what the agent wrote before the end and did not delete
          landed    \* what commits have put into the project

lvars == <<manager, mishaps, tree, acts, hasty, writing, stage, dir, copy, given, base,
           seedFile, job, shelf, authored, landed>>
process == <<manager, mishaps>>
person == <<acts, hasty>>
lease == <<stage, dir, copy, given, base, seedFile, authored>>
results == <<shelf, landed>>

NoJob == [pc |-> "idle", out |-> [f \in Files |-> "none"], unsaved |-> {}, failed |-> FALSE]
Empty == [f \in Files |-> NoFile]

LeaseInit ==
  /\ manager = "up" /\ mishaps \in 0..MaxMishaps
  /\ tree \in [Files -> {0, Head, NoFile}]
  /\ acts \in 0..MaxActs /\ hasty = {} /\ writing = Free
  /\ stage \in [Leases -> {"free", "over"}] /\ dir = [l \in Leases |-> "none"]
  /\ copy = [l \in Leases |-> Empty] /\ given = copy /\ base = copy
  /\ seedFile = [l \in Leases |-> FALSE]
  /\ job = [j \in Jobs |-> NoJob]
  /\ shelf = [d \in Folders |-> Empty]
  /\ authored = [l \in Leases |-> {}] /\ landed = {}

\* n calls fail.
Mishap(n) == n <= mishaps /\ mishaps' = mishaps - n /\ UNCHANGED manager

---------------------------------------------------------------------------
(* acquireLease: a look at the project, the copy, and a second look.         *)

TakesSnapshot(l) ==
  /\ manager = "up" /\ stage[l] = "free"
  /\ stage' = [stage EXCEPT ![l] = "snapshot"]
  /\ base' = [base EXCEPT ![l] = tree]
  /\ UNCHANGED <<process, tree, person, writing, dir, copy, given, seedFile, job, authored, results>>

\* A worktree holds no ignored file and none past the budget of the sync; one
\* whose sync failed holds the last commit.
Seedable(f) == {tree[f], NoFile} \cup (IF SyncMayFail THEN {Head} ELSE {})

Seeds(l, seed) ==
  /\ stage[l] = "snapshot" /\ \A f \in Files : seed[f] \in Seedable(f)
  /\ stage' = [stage EXCEPT ![l] = "seeded"]
  /\ dir' = [dir EXCEPT ![l] = "present"]
  /\ copy' = [copy EXCEPT ![l] = seed]
  /\ UNCHANGED <<process, tree, person, writing, given, base, seedFile, job, authored, results>>

\* Mutant of Reconciled: the baseline is the project after the seeding.
Reconciled_After(l) == tree

\* reconcileSeedBaseline: what moved or went during the seeding keeps its
\* earlier stamp, what appeared is recorded as absent.
Reconciled(l) ==
  [f \in Files |-> IF base[l][f] = NoFile /\ tree[f] # NoFile THEN Absent ELSE base[l][f]]

Opens(l, persisted) ==
  /\ stage[l] = "seeded" /\ Mishap(IF persisted THEN 0 ELSE 1)
  /\ stage' = [stage EXCEPT ![l] = "open"]
  /\ given' = [given EXCEPT ![l] = copy[l]]
  /\ base' = [base EXCEPT ![l] = Reconciled(l)]
  /\ seedFile' = [seedFile EXCEPT ![l] = persisted]
  /\ UNCHANGED <<tree, person, writing, dir, copy, job, authored, results>>

---------------------------------------------------------------------------
(* The agent in its copy, and the person in the project.                     *)

AgentWrites(l, f) ==
  /\ stage[l] = "open" /\ dir[l] = "present" /\ copy[l][f] # l
  /\ copy' = [copy EXCEPT ![l][f] = l]
  /\ authored' = [authored EXCEPT ![l] = IF manager = "up" THEN @ \cup {f} ELSE @]
  /\ UNCHANGED <<process, tree, person, writing, stage, dir, given, base, seedFile, job, results>>

AgentDeletes(l, f) ==
  /\ stage[l] = "open" /\ dir[l] = "present" /\ copy[l][f] # NoFile
  /\ copy' = [copy EXCEPT ![l][f] = NoFile]
  /\ authored' = [authored EXCEPT ![l] = @ \ {f}]
  /\ UNCHANGED <<process, tree, person, writing, stage, dir, given, base, seedFile, job, results>>

\* A commit that decided to write the file has not done so yet.
Pending(f) == \E j \in Jobs : job[j].out[f] = "write"

PersonActs(f, v) ==
  /\ acts < MaxActs
  /\ v \in {acts + 1, Head, NoFile} /\ tree[f] # v
  /\ tree' = [tree EXCEPT ![f] = v]
  /\ acts' = acts + 1
  /\ hasty' = IF Pending(f) THEN hasty \cup {f} ELSE hasty
  /\ UNCHANGED <<process, writing, lease, job, results>>

---------------------------------------------------------------------------
(* commitLease.                                                              *)

QuarantineOnly(l) == manager = "salvaging" /\ ~seedFile[l]
Folder(l) == IF manager = "salvaging" THEN FolderOf[l] ELSE l
ExistedAtSeed(l, f) == base[l][f] \notin {NoFile, Absent}

\* What is at a file's place in the project is not what the lease was made of,
\* nor what the last commit holds.
UserChanged(l, f) == tree[f] \notin {base[l][f], Head}

\* processFile: what becomes of a file of the copy.
Conflict(l, f) ==
  \/ QuarantineOnly(l)
  \/ tree[f] # NoFile /\ given[l][f] = NoFile /\ base[l][f] # NoFile
  \/ tree[f] # NoFile /\ UserChanged(l, f)
  \/ tree[f] = NoFile /\ ExistedAtSeed(l, f)
Untouched(l, f) == ~QuarantineOnly(l) /\ copy[l][f] = given[l][f]
Outcome(l, f) ==
  IF copy[l][f] \in {NoFile, tree[f]} \/ Untouched(l, f) THEN "none"
  ELSE IF Conflict(l, f) THEN "conflict" ELSE "write"

Starts(l) ==
  IF dir[l] = "gone" THEN [NoJob EXCEPT !.pc = "done", !.failed = TRUE]
  ELSE [NoJob EXCEPT !.pc = "waiting"]

LockTimesOut(j) ==
  /\ job[j].pc = "waiting" /\ writing # Free /\ Mishap(1)
  /\ job' = [job EXCEPT ![j].pc = "done", ![j].failed = TRUE]
  /\ UNCHANGED <<tree, person, writing, lease, results>>

Shelved(l, S) ==
  shelf' = [shelf EXCEPT ![Folder(l)] = [f \in Files |-> IF f \in S THEN copy[l][f] ELSE @[f]]]

\* Mutant of LockFree: the commit proceeds unlocked.
LockFree_Anyway == writing \in Jobs \cup {Free}
LockFree == writing = Free

\* All decisions come before the first write; what cannot be read has failed,
\* what cannot be quarantined is unsaved.
Decides(j, unread, unsaved) ==
  LET l == j[1]
      out == [f \in Files |-> IF f \in unread THEN "failed" ELSE Outcome(l, f)]
      kept == {f \in Files : out[f] \in {"conflict", "failed"}}
  IN
  /\ job[j].pc = "waiting" /\ LockFree
  /\ unread \subseteq {f \in Files : Outcome(l, f) # "none"} /\ unsaved \subseteq kept
  /\ Mishap(Cardinality(unread) + Cardinality(unsaved))
  /\ writing' = j
  /\ job' = [job EXCEPT ![j] = [pc |-> "writing", out |-> out,
                                unsaved |-> unsaved \ unread,
                                failed |-> unread # {} \/ dir[l] = "gone"]]
  /\ Shelved(l, kept \ unsaved)
  /\ UNCHANGED <<tree, person, lease, landed>>

\* writeOne: staged, then renamed. The bytes may have been there before, the
\* stamps are new.
WritesFile(j, f) ==
  /\ job[j].out[f] = "write" /\ copy[j[1]][f] # NoFile
  /\ base' = [l \in Leases |-> [base[l] EXCEPT ![f] = IF @ = copy[j[1]][f] THEN Outdated ELSE @]]
  /\ tree' = [tree EXCEPT ![f] = copy[j[1]][f]]
  /\ job' = [job EXCEPT ![j].out[f] = "written"]
  /\ landed' = landed \cup {<<j[1], f>>}
  /\ UNCHANGED <<process, person, writing, stage, dir, copy, given, seedFile, authored, shelf>>

\* A copy that went meanwhile has failed too.
WriteFails(j, f) ==
  /\ job[j].out[f] = "write"
  /\ Mishap(IF copy[j[1]][f] = NoFile THEN 0 ELSE 1)
  /\ job' = [job EXCEPT ![j].out[f] = "failed", ![j].failed = TRUE]
  /\ Shelved(j[1], {f} \ {g \in Files : copy[j[1]][g] = NoFile})
  /\ UNCHANGED <<tree, person, writing, lease, landed>>

\* What the copy was seeded with and does not hold any more is deleted from the
\* project if it is the system's own, and what it was when the lease was taken.
Deletable(l) ==
  IF QuarantineOnly(l) THEN {}
  ELSE {f \in Files : given[l][f] # NoFile /\ copy[l][f] = NoFile /\ base[l][f] \in {NoFile, tree[f]}}

Finishes(j, deleted) ==
  /\ writing = j /\ \A f \in Files : job[j].out[f] # "write"
  /\ deleted \subseteq Deletable(j[1])
  /\ tree' = [f \in Files |-> IF f \in deleted THEN NoFile ELSE tree[f]]
  /\ writing' = Free
  /\ job' = [job EXCEPT ![j].pc = "done"]
  /\ UNCHANGED <<process, person, lease, results>>

---------------------------------------------------------------------------
(* What the callers do with a commit and its result.                         *)

Conflicts(j) == {f \in Files : job[j].out[f] = "conflict"}

\* Mutant of Loss: a conflict counts as kept though the quarantine refused it.
Loss_Failed(j) == job[j].failed
Loss(j) == job[j].failed \/ job[j].unsaved # {}

\* release(), once for a lease.
Releases(l) == dir' = [dir EXCEPT ![l] = IF @ = "present" THEN "removing" ELSE @]
Judged(j, kept) ==
  /\ job[j].pc = "done"
  /\ job' = [job EXCEPT ![j] = NoJob]
  /\ IF kept THEN UNCHANGED dir ELSE Releases(j[1])
  /\ UNCHANGED <<process, tree, person, writing, stage, copy, given, base, seedFile, authored, results>>

RunSettles(l) ==
  /\ stage[l] = "open"
  /\ stage' = [stage EXCEPT ![l] = "settled"]
  /\ job' = [job EXCEPT ![<<l, "run">>] = Starts(l)]
  /\ UNCHANGED <<process, tree, person, writing, dir, copy, given, base, seedFile, authored, results>>

\* judgePublication: an authored conflict keeps the lease as a loss does, one
\* of generated files does not.
RunJudges(l, kept) ==
  /\ Loss(<<l, "run">>) => kept
  /\ kept => Loss(<<l, "run">>) \/ Conflicts(<<l, "run">>) # {}
  /\ Judged(<<l, "run">>, kept)

\* dispose(): every lease of this process, whatever its run is doing.
Disposes ==
  /\ manager = "up" /\ manager' = "disposing"
  /\ job' = [j \in Jobs |-> IF j[2] = "stop" /\ stage[j[1]] \in {"open", "settled"} /\ dir[j[1]] = "present"
                            THEN Starts(j[1]) ELSE job[j]]
  /\ UNCHANGED <<mishaps, tree, person, writing, lease, results>>

StopJudges(l) == Judged(<<l, "stop">>, Loss(<<l, "stop">>))

\* A directory goes file by file, the seed file after it.
FileGoes(l, f) ==
  /\ dir[l] = "removing" /\ copy[l][f] # NoFile
  /\ copy' = [copy EXCEPT ![l][f] = NoFile]
  /\ UNCHANGED <<process, tree, person, writing, stage, dir, given, base, seedFile, authored, job, results>>

DirectoryGone(l) ==
  /\ dir[l] = "removing" /\ copy[l] = Empty
  /\ dir' = [dir EXCEPT ![l] = "gone"] /\ seedFile' = [seedFile EXCEPT ![l] = FALSE]
  /\ UNCHANGED <<process, tree, person, writing, stage, copy, given, base, authored, job, results>>

---------------------------------------------------------------------------
(* The end of the process, and the salvage of the next start, one orphan     *)
(* after the other.                                                          *)

\* The process exits when dispose() returns, or dies.
ProcessEnds ==
  /\ \/ manager = "disposing" /\ (\A l \in Leases : job[<<l, "stop">>].pc = "idle") /\ UNCHANGED mishaps
     \/ manager # "down" /\ mishaps > 0 /\ mishaps' = mishaps - 1
  /\ manager' = "down"
  /\ writing' = Free /\ job' = [j \in Jobs |-> NoJob]
  /\ dir' = [l \in Leases |-> IF dir[l] = "removing" THEN "present" ELSE dir[l]]
  /\ stage' = [l \in Leases |-> IF stage[l] = "free" THEN "free"
                                ELSE IF dir'[l] = "present" THEN "orphan" ELSE "over"]
  /\ UNCHANGED <<tree, person, copy, given, base, seedFile, authored, results>>

ProcessStarts ==
  /\ manager = "down" /\ manager' = "salvaging"
  /\ UNCHANGED <<mishaps, tree, person, writing, lease, job, results>>

SalvageBegins(l) ==
  /\ manager = "salvaging" /\ stage[l] = "orphan" /\ \A j \in Jobs : job[j].pc = "idle"
  /\ stage' = [stage EXCEPT ![l] = "over"]
  /\ job' = [job EXCEPT ![<<l, "stop">>] = Starts(l)]
  /\ UNCHANGED <<process, tree, person, writing, dir, copy, given, base, seedFile, authored, results>>

\* acquireLease waits for the salvage to end.
SalvageEnds ==
  /\ manager = "salvaging" /\ manager' = "up"
  /\ \A l \in Leases : stage[l] # "orphan" /\ dir[l] # "removing"
  /\ \A j \in Jobs : job[j].pc = "idle"
  /\ UNCHANGED <<mishaps, tree, person, writing, lease, job, results>>

LeaseNext ==
  \/ \E l \in Leases :
       \/ TakesSnapshot(l) \/ RunSettles(l) \/ StopJudges(l) \/ DirectoryGone(l) \/ SalvageBegins(l)
       \/ \E seed \in [Files -> Held] : Seeds(l, seed)
       \/ \E b \in BOOLEAN : Opens(l, b) \/ RunJudges(l, b)
       \/ \E f \in Files : AgentWrites(l, f) \/ AgentDeletes(l, f) \/ FileGoes(l, f)
  \/ \E f \in Files, v \in Held : PersonActs(f, v)
  \/ \E j \in Jobs :
       \/ LockTimesOut(j)
       \/ \E S, T \in SUBSET Files : Decides(j, S, T)
       \/ \E f \in Files : WritesFile(j, f) \/ WriteFails(j, f)
       \/ \E S \in SUBSET Files : Finishes(j, S)
  \/ Disposes \/ ProcessEnds \/ ProcessStarts \/ SalvageEnds

LeaseSpec == LeaseInit /\ [][LeaseNext]_lvars

---------------------------------------------------------------------------
\* Types, and that a commit writes exactly while it holds the project's lock.
LeaseTypeOK ==
  /\ manager \in {"up", "disposing", "down", "salvaging"} /\ mishaps \in 0..MaxMishaps
  /\ tree \in [Files -> Held] /\ acts \in 0..MaxActs /\ hasty \subseteq Files
  /\ writing \in Jobs \cup {Free}
  /\ stage \in [Leases -> {"free", "snapshot", "seeded", "open", "settled", "orphan", "over"}]
  /\ dir \in [Leases -> {"none", "present", "removing", "gone"}]
  /\ {copy, given} \subseteq [Leases -> [Files -> Held]]
  /\ base \in [Leases -> [Files -> Held \cup {Absent, Outdated}]]
  /\ seedFile \in [Leases -> BOOLEAN] /\ shelf \in [Folders -> [Files -> Held]]
  /\ authored \in [Leases -> SUBSET Files] /\ landed \subseteq Leases \X Files
  /\ \A j \in Jobs : job[j].pc = "writing" <=> writing = j

\* "Overwriting them would silently discard the user's own edit": whatever a
\* commit changes in the project was, until then, what the agent had been
\* handed or had published before, or what the last git commit holds, or it was
\* missing when the lease was taken; and it becomes the agent's version or
\* nothing. Left out are a person who acts between a commit's decision and its
\* write, and a deletion of a file of which no stamp was recorded.
EditsRespected ==
  [][\A f \in Files :
       tree'[f] # tree[f] /\ acts' = acts /\ f \notin hasty =>
         LET l == writing[1] IN
           /\ tree'[f] \in {l, NoFile}
           /\ \/ tree[f] # NoFile /\ tree[f] \in {given[l][f], l, Head}
              \/ tree[f] = NoFile /\ ~ExistedAtSeed(l, f)
              \/ tree'[f] = NoFile /\ base[l][f] = NoFile]_lvars

\* What an agent wrote before the end of the process is in its copy, in the
\* quarantine, or has reached the project: "Delete the workspace ONLY when
\* everything divergent in it now exists somewhere else".
WorkKept ==
  \A l \in Leases : \A f \in authored[l] :
    copy[l][f] = l \/ <<l, f>> \in landed \/ \E d \in Folders : shelf[d][f] = l

=============================================================================
