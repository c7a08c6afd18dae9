---------------------------- MODULE Daemon_proofs ----------------------------
(* Proofs about the daemon: that one runtime of it runs per installation     *)
(* (RuntimeLock), deployments with a person's approval (Deployment) and the  *)
(* triggers of the heartbeat (Heartbeat), for any number of starters, older  *)
(* runtimes, machines, proposals, checks, triggers, occurrences and tasks,   *)
(* and any threshold of the circuit breaker that the last two consult.       *)
EXTENDS RuntimeLock, Deployment, Heartbeat, FiniteSetTheorems, TLAPS

\* What each operation of a breaker does to the failures it has counted.
LEMMA BreakerMoves ==
  ASSUME NEW b \in Breaker, NEW e \in BOOLEAN
  PROVE  /\ Asked(b, e) \in Breaker /\ Asked(b, e).fails = b.fails
         /\ Succeeded(b) \in Breaker /\ Succeeded(b).fails = 0
         /\ Failed(b) \in Breaker /\ Failed(b).fails = OneMore(b.fails)
         /\ Closed \in Breaker
BY BreakerAssumption DEF Breaker, Asked, Succeeded, Failed, OneMore, Closed

---------------------------------------------------------------------------
(* Deployment.                                                               *)

\* The types, in parts: the two tables with the history, what the trigger, the
\* readiness checks and the executor remember, and the flags a crash resets.
DTables ==
  /\ log \in [Proposals -> {"none", "proposed", "executing"} \cup Ended]
  /\ appr \in [Proposals -> {"none", "pending", "approved", "denied", "expired"}]
  /\ late \subseteq Proposals /\ \A p \in late : appr[p] = "pending"
  /\ basis \in [Proposals -> 0..MaxChecks] /\ ran \in [Proposals -> 0..1]
DMemory ==
  /\ deploying \in 0..MaxProposals /\ step \in {"idle", "script", "verify", "rollback"}
  /\ deploying = 0 <=> step = "idle"
  /\ ready \in 0..MaxChecks /\ checking \in 0..MaxChecks /\ nextCheck \in 1..MaxChecks + 1
  /\ deployBreaker \in Breaker
DFlags ==
  /\ up \in BOOLEAN /\ proposalPending \in BOOLEAN /\ cooling \in BOOLEAN
  /\ ~up => ~proposalPending /\ ~cooling /\ ready = 0 /\ checking = 0 /\ deploying = 0
DTyped == DTables /\ DMemory /\ DFlags

\* A script runs once, for the proposal that was approved and is recorded.
DRuns ==
  \A p \in Proposals :
    /\ ran[p] = 1 => appr[p] = "approved"
    /\ log[p] = "none" => appr[p] = "none"
    /\ deploying = p => ran[p] = 1

\* Where a readiness result is: cached, in flight, or spent on a request. A spent
\* one is in the cache only while the flag or the deployment holds further asking
\* back: the step that gives either up clears the cache.
DBasis ==
  /\ ready < nextCheck /\ checking < nextCheck
  /\ checking # 0 => checking # ready
  /\ \A p \in Proposals : appr[p] # "none" =>
       /\ 0 < basis[p] /\ basis[p] < nextCheck
       /\ basis[p] # checking
       /\ basis[p] = ready => proposalPending \/ deploying # 0

\* The inductive invariant.
DInv == DTyped /\ DRuns /\ LogTellsTheRun /\ DBasis /\ FreshBasis

\* It holds when the daemon is first up.
LEMMA DInvInit == DeployInit => DInv
<1> SUFFICES ASSUME DeployInit PROVE DInv
  OBVIOUS
<1>1. DTyped
  <2>1. DTables
    BY DeployAssumption DEF DeployInit, DTables
  <2>2. DMemory
    BY DeployAssumption, BreakerAssumption DEF DeployInit, DMemory, Breaker, Closed
  <2>3. DFlags
    BY DEF DeployInit, DFlags
  <2> QED
    BY <2>1, <2>2, <2>3 DEF DTyped
<1>2. DRuns /\ LogTellsTheRun /\ DBasis /\ FreshBasis
  BY DeployAssumption DEF DeployInit, DRuns, LogTellsTheRun, DBasis, FreshBasis, Proposals
<1> QED
  BY <1>1, <1>2 DEF DInv

\* Readiness checks, from their start to their result.
LEMMA CheckKeeps ==
  ASSUME DInv, NEW b \in BOOLEAN, CheckStarts \/ CheckThrows \/ CheckEnds(b)
  PROVE  DInv'
<1>1. DTyped'
  BY DeployAssumption DEF DInv, DTyped, DTables, DMemory, DFlags, CheckStarts, CheckThrows, CheckEnds, DBasis, Pending
<1>2. DRuns' /\ LogTellsTheRun' /\ FreshBasis'
  BY DEF DInv, DRuns, LogTellsTheRun, FreshBasis, CheckStarts, CheckThrows, CheckEnds
<1>3. DBasis'
  BY DeployAssumption DEF DInv, DTyped, DTables, DMemory, DFlags, CheckStarts, CheckThrows, CheckEnds, DBasis
<1> QED
  BY <1>1, <1>2, <1>3 DEF DInv

\* Ticks that ask for nothing.
LEMMA TickKeeps ==
  ASSUME DInv, NEW b \in BOOLEAN, CooldownEnds \/ TickQuiet(b) \/ TickSettles(b)
  PROVE  DInv'
<1>0. deployBreaker' \in Breaker
  BY BreakerMoves DEF DInv, DTyped, DTables, DMemory, DFlags, CooldownEnds, TickQuiet, TickSettles, Tick
<1>1. \A p \in Proposals : appr'[p] = appr[p] \/ (appr[p] = "pending" /\ appr'[p] = "expired")
  BY DEF CooldownEnds, TickQuiet, TickSettles, Expired, Pending
<1>2. appr' \in [Proposals -> {"none", "pending", "approved", "denied", "expired"}]
  BY DEF DInv, DTyped, DTables, DMemory, DFlags, CooldownEnds, TickQuiet, TickSettles, Expired
<1>3. DTyped'
  <2>1. DTables'
    BY <1>2 DEF DInv, DTyped, DTables, CooldownEnds, TickQuiet, TickSettles, Tick
  <2>2. DMemory'
    BY <1>0, DeployAssumption DEF DInv, DTyped, DMemory, CooldownEnds, TickQuiet, TickSettles, Tick
  <2>3. DFlags'
    BY DEF DInv, DTyped, DFlags, CooldownEnds, TickQuiet, TickSettles, Tick
  <2> QED
    BY <2>1, <2>2, <2>3 DEF DTyped
<1>4. DRuns' /\ LogTellsTheRun'
  BY <1>1 DEF DInv, DRuns, LogTellsTheRun, CooldownEnds, TickQuiet, TickSettles, Tick
<1>5. DBasis' /\ FreshBasis'
  <2>1. \A p \in Proposals : appr'[p] # "none" => appr[p] # "none"
    BY <1>1
  <2>2. /\ UNCHANGED <<basis, nextCheck, checking, deploying>>
        /\ \/ ready' = ready /\ proposalPending' = proposalPending
           \/ ready' = 0
    BY DEF CooldownEnds, TickQuiet, TickSettles, Tick
  <2>3. ready' < nextCheck' /\ checking' < nextCheck' /\ (checking' # 0 => checking' # ready')
    BY <2>2 DEF DInv, DTyped, DMemory, DBasis
  <2> QED
    BY <2>1, <2>2, <2>3 DEF DInv, DBasis, FreshBasis
<1> QED
  BY <1>3, <1>4, <1>5 DEF DInv

\* A tick that proposes: the result it spends was spent on no other request.
LEMMA ProposeKeeps ==
  ASSUME DInv, NEW b \in BOOLEAN, NEW p \in Proposals, NEW asked \in BOOLEAN,
         TickProposes(b, p, asked)
  PROVE  DInv'
<1>0. deployBreaker' \in Breaker
  BY BreakerMoves DEF DInv, DTyped, DTables, DMemory, DFlags, TickProposes, Tick
<1>1. appr[p] = "none" /\ log[p] = "none" /\ ran[p] = 0 /\ deploying = 0
  BY DEF DInv, DTyped, DTables, DMemory, DFlags, DRuns, TickProposes, Reached
<1>2. \A q \in Proposals : q # p =>
        appr'[q] = appr[q] \/ (appr[q] = "pending" /\ appr'[q] = "expired")
  BY DEF TickProposes, Expired, Pending
<1>3. appr'[p] = IF asked THEN "pending" ELSE "none"
  BY <1>1 DEF TickProposes, Expired, Pending
<1>4. appr' \in [Proposals -> {"none", "pending", "approved", "denied", "expired"}]
  BY DEF DInv, DTyped, DTables, DMemory, DFlags, TickProposes, Expired
<1>5. /\ log \in [Proposals -> {"none", "proposed", "executing"} \cup Ended]
      /\ log' = [log EXCEPT ![p] = "proposed"]
      /\ basis \in [Proposals -> 0..MaxChecks]
      /\ basis' = IF asked THEN [basis EXCEPT ![p] = ready] ELSE basis
      /\ ready \in 0..MaxChecks
  BY DEF DInv, DTyped, DTables, DMemory, DFlags, TickProposes
<1>6. DTyped'
  BY <1>0, <1>4, <1>5 DEF DInv, DTyped, DTables, DMemory, DFlags, TickProposes, Tick, Pending
<1>7. DRuns'
  BY <1>1, <1>2, <1>3, <1>5 DEF DInv, DRuns, TickProposes, Tick
<1>8. LogTellsTheRun'
  BY <1>1, <1>5 DEF DInv, LogTellsTheRun, TickProposes, Tick
<1>9. /\ ~proposalPending /\ ready # 0 /\ proposalPending' = asked /\ ready' = ready
      /\ UNCHANGED <<checking, nextCheck, deploying>>
  BY DEF TickProposes, Tick
<1>10. \A q \in Proposals : appr[q] # "none" => basis[q] # ready
  BY <1>1, <1>9 DEF DInv, DBasis
<1>11. \A q \in Proposals : q # p => basis'[q] = basis[q] /\ (appr'[q] # "none" => appr[q] # "none")
  BY <1>2, <1>5
<1>12. asked => basis'[p] = ready
  BY <1>5
<1>13. DBasis'
  <2>1. ASSUME NEW q \in Proposals, appr'[q] # "none"
        PROVE  /\ 0 < basis'[q] /\ basis'[q] < nextCheck'
               /\ basis'[q] # checking'
               /\ basis'[q] = ready' => proposalPending' \/ deploying' # 0
    <3>1. CASE q = p
      BY <1>3, <1>5, <1>9, <1>12, <2>1, <3>1 DEF DInv, DBasis
    <3>2. CASE q # p
      BY <1>9, <1>10, <1>11, <2>1, <3>2 DEF DInv, DBasis
    <3> QED
      BY <3>1, <3>2
  <2> QED
    BY <1>9, <2>1 DEF DInv, DBasis
<1>14. FreshBasis'
  <2> SUFFICES ASSUME NEW q \in Proposals, NEW r \in Proposals, q # r,
                      appr'[q] # "none", appr'[r] # "none"
               PROVE  basis'[q] # basis'[r]
    BY DEF FreshBasis
  <2>1. CASE q = p
    BY <1>3, <1>10, <1>11, <1>12, <2>1
  <2>2. CASE r = p
    BY <1>3, <1>10, <1>11, <1>12, <2>2
  <2>3. CASE q # p /\ r # p
    BY <1>11, <2>3 DEF DInv, FreshBasis
  <2> QED
    BY <2>1, <2>2, <2>3
<1> QED
  BY <1>6, <1>7, <1>8, <1>13, <1>14 DEF DInv

\* Decisions that start no deployment.
LEMMA DecisionKeeps ==
  ASSUME DInv, NEW p \in Proposals,
         DeadlinePasses(p) \/ DecideLate(p) \/ Deny(p) \/ ApproveFails(p)
  PROVE  DInv'
<1>0. deployBreaker' \in Breaker
  BY BreakerMoves DEF DInv, DTyped, DTables, DMemory, DFlags, DeadlinePasses, DecideLate, Deny, ApproveFails, Decided
<1>1. /\ appr[p] = "pending" /\ ran[p] = 0 /\ deploying # p
      /\ appr \in [Proposals -> {"none", "pending", "approved", "denied", "expired"}]
      /\ log \in [Proposals -> {"none", "proposed", "executing"} \cup Ended]
  BY DEF DInv, DTyped, DTables, DMemory, DFlags, DRuns, DeadlinePasses, DecideLate, Deny, ApproveFails, Decided, Pending
<1>2. /\ appr' \in [Proposals -> {"none", "pending", "approved", "denied", "expired"}]
      /\ \A q \in Proposals : q # p => appr'[q] = appr[q]
      /\ appr'[p] # "none"
  BY <1>1 DEF DeadlinePasses, DecideLate, Deny, ApproveFails, Decided
<1>3. /\ log' \in [Proposals -> {"none", "proposed", "executing"} \cup Ended]
      /\ \A q \in Proposals : q # p => log'[q] = log[q]
      /\ log'[p] = log[p] \/ log'[p] = "failed"
  BY <1>1 DEF DeadlinePasses, DecideLate, Deny, ApproveFails, Decided, Ended
<1>4. /\ UNCHANGED <<up, checking, nextCheck, deploying, step, conf, basis, ran>>
      /\ ready' = ready \/ ready' = 0
  BY DEF DeadlinePasses, DecideLate, Deny, ApproveFails, Decided
<1>5. late' \subseteq {q \in Proposals : appr'[q] = "pending"}
  BY <1>1 DEF DInv, DTyped, DTables, DMemory, DFlags, DeadlinePasses, DecideLate, Deny, ApproveFails, Decided, Pending
<1>6. DTyped'
  <2>1. DTables'
    BY <1>2, <1>3, <1>4, <1>5 DEF DInv, DTyped, DTables
  <2>2. DMemory'
    BY <1>0, <1>4, DeployAssumption DEF DInv, DTyped, DMemory
  <2>3. DFlags'
    <3>1. CASE DeadlinePasses(p) \/ DecideLate(p)
      BY <3>1 DEF DeadlinePasses, DecideLate, DInv, DTyped, DFlags
    <3>2. CASE Deny(p) \/ ApproveFails(p)
      <4>1. up /\ up' = up /\ proposalPending' = FALSE /\ (cooling' = cooling \/ cooling' = TRUE)
        BY <3>2 DEF Deny, ApproveFails, Decided
      <4> QED
        BY <4>1 DEF DInv, DTyped, DFlags
    <3> QED
      BY <3>1, <3>2
  <2> QED
    BY <2>1, <2>2, <2>3 DEF DTyped
<1>7. DRuns' /\ LogTellsTheRun'
  BY <1>1, <1>2, <1>3, <1>4 DEF DInv, DRuns, LogTellsTheRun
<1>8. DBasis' /\ FreshBasis'
  <2>1. \A q \in Proposals : appr'[q] # "none" => appr[q] # "none"
    BY <1>1, <1>2
  <2>2. ready' = 0 \/ (ready' = ready /\ proposalPending' = proposalPending)
    <3>1. CASE DeadlinePasses(p) \/ DecideLate(p)
      BY <3>1 DEF DeadlinePasses, DecideLate
    <3>2. CASE Deny(p) \/ ApproveFails(p)
      BY <3>2 DEF Deny, ApproveFails
    <3> QED
      BY <3>1, <3>2
  <2>3. ready' < nextCheck' /\ checking' < nextCheck' /\ (checking' # 0 => checking' # ready')
    BY <1>4, <2>2 DEF DInv, DTyped, DMemory, DBasis
  <2> QED
    BY <1>4, <2>1, <2>2, <2>3 DEF DInv, DBasis, FreshBasis
<1> QED
  BY <1>6, <1>7, <1>8 DEF DInv

\* An approval that starts the script. A pending request never had one.
LEMMA ApproveKeeps ==
  ASSUME DInv, NEW p \in Proposals, Approve(p)
  PROVE  DInv'
<1>1. /\ appr[p] = "pending" /\ ran[p] = 0 /\ deploying = 0 /\ p \notin late /\ up
      /\ log' = [log EXCEPT ![p] = "executing"] /\ appr' = [appr EXCEPT ![p] = "approved"]
      /\ ran' = [ran EXCEPT ![p] = @ + 1] /\ deploying' = p /\ step' = "script"
      /\ proposalPending' = FALSE
      /\ UNCHANGED <<late, up, checking, nextCheck, conf, basis, cooling, ready, deployBreaker>>
  BY DEF DInv, DTyped, DTables, DMemory, DFlags, DRuns, Approve, Decided, Pending
<1>2. /\ appr \in [Proposals -> {"none", "pending", "approved", "denied", "expired"}]
      /\ log \in [Proposals -> {"none", "proposed", "executing"} \cup Ended]
      /\ ran \in [Proposals -> 0..1] /\ p # 0 /\ p \in 0..MaxProposals
  BY DEF DInv, DTyped, DTables, DMemory, DFlags, Proposals
<1>3. ran' \in [Proposals -> 0..1] /\ ran'[p] = 1
  BY <1>1, <1>2
<1>4. DTyped'
  BY <1>1, <1>2, <1>3 DEF DInv, DTyped, DTables, DMemory, DFlags, Pending
<1>5. DRuns' /\ LogTellsTheRun'
  <2>1. DRuns'
    BY <1>1, <1>2, <1>3 DEF DInv, DRuns
  <2>2. \A q \in Proposals : q # p => log'[q] = log[q] /\ ran'[q] = ran[q] /\ log[q] # "executing"
    BY <1>1, <1>2, DeployAssumption DEF DInv, LogTellsTheRun, Proposals
  <2>3. log'[p] = "executing"
    BY <1>1, <1>2
  <2> QED
    BY <1>1, <2>1, <2>2, <2>3 DEF DInv, LogTellsTheRun
<1>6. DBasis' /\ FreshBasis'
  BY <1>1, <1>2 DEF DInv, DBasis, FreshBasis
<1> QED
  BY <1>4, <1>5, <1>6 DEF DInv

\* The scripts' ends: each either goes on to the next script or ends the deployment.
LEMMA ScriptKeeps ==
  ASSUME DInv, NEW ok \in BOOLEAN,
         ScriptSucceeds \/ ScriptFails \/ VerifyEnds(ok) \/ RollbackEnds(ok)
  PROVE  DInv'
<1> DEFINE Over(s) == /\ log' = [log EXCEPT ![deploying] = s]
                      /\ deploying' = 0 /\ step' = "idle" /\ ready' = 0
                      /\ cooling' \in BOOLEAN /\ deployBreaker' \in Breaker
           On(s) == /\ log' = [log EXCEPT ![deploying] = s]
                    /\ step' = "rollback" /\ UNCHANGED <<deploying, deployBreaker, cooling, ready>>
<1>1. /\ deploying \in Proposals /\ step # "idle" /\ ran[deploying] = 1 /\ up
      /\ log \in [Proposals -> {"none", "proposed", "executing"} \cup Ended]
  <2>1. step \in {"script", "verify", "rollback"}
    BY DEF ScriptSucceeds, ScriptFails, VerifyEnds, RollbackEnds
  <2>2. deploying \in Proposals
    BY <2>1, DeployAssumption DEF DInv, DTyped, DMemory, Proposals
  <2>3. deploying # 0
    BY <2>2 DEF Proposals
  <2> QED
    BY <2>1, <2>2, <2>3 DEF DInv, DTyped, DTables, DFlags, DRuns
<1>2. UNCHANGED <<appr, late, up, proposalPending, checking, nextCheck, conf, basis, ran>>
  BY DEF ScriptSucceeds, ScriptFails, VerifyEnds, RollbackEnds, Scripts
<1>3. ASSUME NEW s, NEW success \in BOOLEAN, Ends(s, success) PROVE Over(s)
  BY <1>3, BreakerMoves DEF Ends, DInv, DTyped, DTables, DMemory, DFlags
<1>4. ASSUME NEW s \in {"failed", "post_verify_failed"}, FailsWith(s)
      PROVE  On(s) \/ Over(s) \/ Over("rollback_failed")
  <2>1. CASE Ends(IF conf.rollback THEN "rollback_failed" ELSE s, FALSE)
    BY <1>3, <2>1
  <2>2. CASE /\ conf.rollback /\ step' = "rollback" /\ log' = [log EXCEPT ![deploying] = s]
             /\ UNCHANGED <<deploying, deployBreaker, cooling, ready>>
    BY <2>2
  <2> QED
    BY <1>4, <2>1, <2>2 DEF FailsWith
<1>5. \/ \E s \in Ended : Over(s)
      \/ \E s \in {"failed", "post_verify_failed"} : On(s)
      \/ step = "script" /\ step' = "verify"
           /\ UNCHANGED <<log, deploying, deployBreaker, cooling, ready>>
  <2> HIDE DEF Over, On
  <2>1. CASE ScriptSucceeds
    <3>1. CASE conf.verify
      BY <2>1, <3>1 DEF ScriptSucceeds
    <3>2. CASE ~conf.verify
      BY <1>3, <2>1, <3>2 DEF ScriptSucceeds, Ended
    <3> QED
      BY <3>1, <3>2
  <2>2. CASE ScriptFails
    BY <1>4, <2>2 DEF ScriptFails, Ended
  <2>3. CASE VerifyEnds(ok)
    <3>1. CASE ok
      BY <1>3, <2>3, <3>1 DEF VerifyEnds, Ended
    <3>2. CASE ~ok
      BY <1>4, <2>3, <3>2 DEF VerifyEnds, Ended
    <3> QED
      BY <3>1, <3>2
  <2>4. CASE RollbackEnds(ok)
    <3>1. PICK s \in Ended : s = IF ok THEN "rollback_completed" ELSE "rollback_failed"
      BY DEF Ended
    <3>2. Ends(s, FALSE)
      BY <2>4, <3>1 DEF RollbackEnds
    <3> QED
      BY <1>3, <3>2
  <2> QED
    BY <2>1, <2>2, <2>3, <2>4
<1>6. ASSUME NEW s \in Ended, Over(s) PROVE DInv'
  <2>1. DTyped'
    BY <1>1, <1>2, <1>6, DeployAssumption DEF DInv, DTyped, DTables, DMemory, DFlags, Pending
  <2>2. DRuns'
    BY <1>1, <1>2, <1>6, DeployAssumption DEF DInv, DRuns, Proposals, Ended
  <2>3. LogTellsTheRun'
    <3>1. s # "executing"
      BY DEF Ended
    <3> QED
      BY <1>1, <1>2, <1>6, <3>1, DeployAssumption DEF DInv, LogTellsTheRun, Proposals
  <2>4. DBasis' /\ FreshBasis'
    BY <1>2, <1>6, DeployAssumption DEF DInv, DTyped, DTables, DMemory, DFlags, DBasis, FreshBasis
  <2> QED
    BY <2>1, <2>2, <2>3, <2>4 DEF DInv
<1>7. ASSUME NEW s \in {"failed", "post_verify_failed"}, On(s) PROVE DInv'
  <2>1. DTyped'
    BY <1>1, <1>2, <1>7 DEF DInv, DTyped, DTables, DMemory, DFlags, Pending, Ended
  <2>2. DRuns'
    BY <1>1, <1>2, <1>7 DEF DInv, DRuns
  <2>3. LogTellsTheRun'
    BY <1>1, <1>2, <1>7 DEF DInv, LogTellsTheRun
  <2>4. DBasis' /\ FreshBasis'
    BY <1>2, <1>7 DEF DInv, DBasis, FreshBasis
  <2> QED
    BY <2>1, <2>2, <2>3, <2>4 DEF DInv
<1>8. ASSUME step = "script", step' = "verify",
             UNCHANGED <<log, deploying, deployBreaker, cooling, ready>>
      PROVE  DInv'
  <2>1. DTyped' /\ DRuns'
    BY <1>1, <1>2, <1>8 DEF DInv, DTyped, DTables, DMemory, DFlags, Pending, DRuns
  <2>2. LogTellsTheRun' /\ DBasis' /\ FreshBasis'
    BY <1>2, <1>8 DEF DInv, LogTellsTheRun, DBasis, FreshBasis
  <2> QED
    BY <2>1, <2>2 DEF DInv
<1> QED
  BY <1>5, <1>6, <1>7, <1>8

\* Crash, boot, and the crash that comes between a decision and its effect.
LEMMA DownKeeps ==
  ASSUME DInv, DeployCrash \/ DeployBoot \/ \E p \in Proposals : DecideCut(p)
  PROVE  DInv'
<1>1. CASE DeployCrash
  <2>1. DTyped'
    <3>1. DTables'
      BY <1>1 DEF DeployCrash, Forgets, DInv, DTyped, DTables
    <3>2. Closed \in Breaker
      BY BreakerAssumption DEF Breaker, Closed
    <3>3. DMemory'
      BY <1>1, <3>2, DeployAssumption DEF DeployCrash, Forgets, DInv, DTyped, DMemory
    <3>4. DFlags'
      BY <1>1 DEF DeployCrash, Forgets, DFlags
    <3> QED
      BY <3>1, <3>3, <3>4 DEF DTyped
  <2>2. DRuns' /\ LogTellsTheRun'
    BY <1>1, DeployAssumption DEF DeployCrash, Forgets, DInv, DRuns, LogTellsTheRun, Proposals
  <2>3. DBasis' /\ FreshBasis'
    BY <1>1 DEF DeployCrash, Forgets, DInv, DTyped, DTables, DMemory, DFlags, DBasis, FreshBasis
  <2> QED
    BY <2>1, <2>2, <2>3 DEF DInv
<1>2. ASSUME NEW p \in Proposals, DecideCut(p) PROVE DInv'
  <2>0. /\ appr[p] = "pending" /\ p \notin late /\ Forgets
        /\ appr' = [appr EXCEPT ![p] = "approved"] /\ log' = log
        /\ appr \in [Proposals -> {"none", "pending", "approved", "denied", "expired"}]
    BY <1>2 DEF DecideCut, Pending, DInv, DTyped, DTables, DMemory, DFlags
  <2>1. DTyped'
    <3>1. DTables'
      BY <2>0 DEF Forgets, DInv, DTyped, DTables
    <3>2. Closed \in Breaker
      BY BreakerAssumption DEF Breaker, Closed
    <3>3. DMemory'
      BY <2>0, <3>2, DeployAssumption DEF Forgets, DInv, DTyped, DMemory
    <3>4. DFlags'
      BY <2>0 DEF Forgets, DFlags
    <3> QED
      BY <3>1, <3>3, <3>4 DEF DTyped
  <2>2. DRuns' /\ LogTellsTheRun'
    BY <2>0, DeployAssumption DEF Forgets, DInv, DRuns, LogTellsTheRun, Proposals
  <2>3. DBasis' /\ FreshBasis'
    BY <2>0 DEF Forgets, DInv, DTyped, DTables, DMemory, DFlags, DBasis, FreshBasis
  <2> QED
    BY <2>1, <2>2, <2>3 DEF DInv
<1>3. CASE DeployBoot
  <2>1. DTyped'
    BY <1>3 DEF DeployBoot, DInv, DTyped, DTables, DMemory, DFlags, Pending, Ended
  <2>2. DRuns' /\ LogTellsTheRun'
    BY <1>3 DEF DeployBoot, DInv, DTyped, DTables, DMemory, DFlags, DRuns, LogTellsTheRun, Proposals
  <2>3. DBasis' /\ FreshBasis'
    BY <1>3 DEF DeployBoot, DInv, DBasis, FreshBasis
  <2> QED
    BY <2>1, <2>2, <2>3 DEF DInv
<1> QED
  BY <1>1, <1>2, <1>3

\* Every step of the daemon keeps the invariant.
LEMMA DInvNext == DInv /\ [DeployNext]_dvars => DInv'
<1> SUFFICES ASSUME DInv, [DeployNext]_dvars PROVE DInv'
  OBVIOUS
<1>1. CASE UNCHANGED dvars
  BY <1>1 DEF dvars, DInv, DTyped, DTables, DMemory, DFlags, Pending, DRuns, LogTellsTheRun, DBasis, FreshBasis
<1>2. CASE DeployNext
  BY <1>2, CheckKeeps, TickKeeps, ProposeKeeps, DecisionKeeps, ApproveKeeps, ScriptKeeps, DownKeeps
     DEF DeployNext
<1> QED
  BY <1>1, <1>2

\* The parts together are the type invariant.
LEMMA DTypedMeans == DTyped => DeployTypeOK
BY DEF DTyped, DTables, DMemory, DFlags, DeployTypeOK, Pending

\* The log, the queue and what the process remembers of them keep their types; a
\* process that is down remembers nothing (deploy-trigger.ts, approval-queue.ts).
THEOREM DeployTyped == DeploySpec => []DeployTypeOK
<1>1. DInv => DeployTypeOK
  BY DTypedMeans DEF DInv
<1> QED
  BY <1>1, DInvInit, DInvNext, PTL DEF DeploySpec

\* The deploy script runs at most once for a proposal and only after its approval,
\* and the log says what was done: "executing" exactly while it runs, "completed"
\* only if it ran (deploy-approval-bridge.ts, deployment-executor.ts).
THEOREM DeployedAndRecorded == DeploySpec => []DeploymentOnRecord
<1>1. DInv => DeploymentOnRecord
  BY DEF DInv, DTyped, DTables, DMemory, DFlags, DRuns, DeploymentOnRecord, DeployedOnceApproved
<1> QED
  BY <1>1, DInvInit, DInvNext, PTL DEF DeploySpec

\* No two people are asked on the same readiness check: whatever ends a proposal
\* clears the cached result before the trigger may propose again.
THEOREM CheckedAfresh == DeploySpec => []FreshBasis
<1>1. DInv => FreshBasis
  BY DEF DInv
<1> QED
  BY <1>1, DInvInit, DInvNext, PTL DEF DeploySpec

---------------------------------------------------------------------------
(* Heartbeat.                                                                *)

\* The row of a task, and what may become of an occurrence.
TaskRow == [status : TaskStatus, of : Triggers, mine : BOOLEAN, byHand : BOOLEAN]
Fates == {"none", "waits", "suppressed", "dropped", "task", "cut"}

\* The types, without the links between tasks and triggers.
HTyped ==
  /\ loop \in {"running", "paused", "down"}
  /\ fresh \in BOOLEAN /\ due \in [Triggers -> BOOLEAN]
  /\ activeTask \in [Triggers -> 0..MaxTasks] /\ heardFrom \in [Triggers -> 0..MaxTasks]
  /\ breaker \in [Triggers -> Breaker] /\ saved \in [Triggers -> Breaker]
  /\ task \in [Tasks -> {NoTask} \cup TaskRow]
  /\ streak \in [Triggers -> 0..FailureThreshold]
  /\ occurred \in [Triggers -> Nat] /\ fate \in [Triggers -> Fates]

\* A task the loop listens to was submitted for that trigger, and the trigger is
\* held for it until it settles.
HLinks ==
  \A t \in Triggers : heardFrom[t] # 0 =>
    /\ Submitted(heardFrom[t]) /\ task[heardFrom[t]].of = t
    /\ activeTask[t] = heardFrom[t] \/ task[heardFrom[t]].status # "active"

\* Every task this process submitted and that is under way is listened to, so a
\* trigger has at most one.
MineActive(k) == Submitted(k) /\ task[k].mine /\ task[k].status = "active"
HHeard == \A k \in Tasks : MineActive(k) => heardFrom[task[k].of] = k

\* A process that is down listens to nothing.
HDown == loop = "down" => \A t \in Triggers : heardFrom[t] = 0 /\ activeTask[t] = 0

\* The tasks a trigger's occurrences became, and that one still due is not among
\* them: the count that a double fire would break.
Fired(t) == {k \in Tasks : Submitted(k) /\ task[k].of = t /\ ~task[k].byHand}
HFires == \A t \in Triggers : Cardinality(Fired(t)) + (IF due[t] THEN 1 ELSE 0) <= occurred[t]

\* The inductive invariant.
HInv == HTyped /\ HLinks /\ HHeard /\ HDown /\ NothingLost /\ HFires /\ StreakIsReal

\* A row was submitted or it is the empty one.
LEMMA RowFacts ==
  ASSUME HTyped, NEW k \in Tasks
  PROVE  /\ Submitted(k) <=> task[k] \in TaskRow
         /\ ~Submitted(k) <=> task[k] = NoTask
BY DEF HTyped, Submitted, TaskRow, NoTask, TaskStatus

\* The tasks of a trigger can be counted.
LEMMA FiredFinite ==
  ASSUME NEW t
  PROVE  IsFiniteSet(Fired(t)) /\ Cardinality(Fired(t)) \in Nat
<1>1. MaxTasks \in Int /\ 1 \in Int
  BY HeartAssumption
<1>2. IsFiniteSet(Tasks)
  BY <1>1, FS_Interval DEF Tasks
<1> QED
  BY <1>2, FS_Subset, FS_CardinalityType DEF Fired

\* It holds when the loop first runs.
LEMMA HInvInit == HeartInit => HInv
<1> SUFFICES ASSUME HeartInit PROVE HInv
  OBVIOUS
<1>1. Closed \in Breaker /\ Closed.fails = 0 /\ 0 \in 0..FailureThreshold /\ 0 \in 0..MaxTasks
  BY BreakerAssumption, HeartAssumption DEF Breaker, Closed
<1>2. HTyped
  BY <1>1 DEF HeartInit, HTyped, Fates
<1>3. \A k \in Tasks : ~Submitted(k)
  BY DEF HeartInit, Submitted, NoTask
<1>4. HLinks /\ HHeard /\ HDown
  BY <1>3 DEF HeartInit, HLinks, HHeard, HDown, MineActive
<1>5. NothingLost
  BY DEF HeartInit, NothingLost
<1>6. HFires
  <2>1. \A t \in Triggers : Fired(t) = {}
    BY <1>3 DEF Fired
  <2>2. \A t \in Triggers : Cardinality(Fired(t)) = 0
    BY <2>1, FS_EmptySet
  <2> QED
    <3> SUFFICES ASSUME NEW t \in Triggers
                 PROVE  Cardinality(Fired(t)) + (IF due[t] THEN 1 ELSE 0) <= occurred[t]
      BY DEF HFires
    <3>1. CASE Kind[t] = "checklist"
      BY <2>2, <3>1 DEF HeartInit
    <3>2. CASE Kind[t] # "checklist"
      <4>1. ~due[t] /\ occurred[t] = 0
        BY <3>2 DEF HeartInit
      <4> QED
        BY <2>2, <4>1
    <3> QED
      BY <3>1, <3>2
<1>7. StreakIsReal
  BY <1>1 DEF HeartInit, StreakIsReal
<1> QED
  BY <1>2, <1>4, <1>5, <1>6, <1>7 DEF HInv

\* A step that touches no task.
LEMMA RowsStand ==
  ASSUME HInv, UNCHANGED <<task, heardFrom>>, loop' = "down" => loop = "down",
         \/ activeTask' = activeTask
         \/ \E t \in Triggers : activeTask' = Cleared(t) /\ ~StillActive(t)
  PROVE  /\ HLinks' /\ HHeard' /\ HDown' /\ activeTask' \in [Triggers -> 0..MaxTasks]
         /\ \A t : Fired(t)' = Fired(t)
<1>1. /\ activeTask \in [Triggers -> 0..MaxTasks] /\ 0 \in 0..MaxTasks
      /\ \A t \in Triggers : heardFrom[t] # 0 =>
           /\ Submitted(heardFrom[t]) /\ task[heardFrom[t]].of = t
           /\ activeTask[t] = heardFrom[t] \/ task[heardFrom[t]].status # "active"
  BY HeartAssumption DEF HInv, HTyped, HLinks
<1>2. activeTask' \in [Triggers -> 0..MaxTasks]
  BY <1>1 DEF Cleared
<1>3. HLinks'
  BY <1>1 DEF HLinks, Submitted, Cleared, StillActive
<1>4. HHeard' /\ \A t : Fired(t)' = Fired(t)
  BY DEF HInv, HHeard, MineActive, Submitted, Fired
<1>5. HDown'
  BY <1>1 DEF HInv, HDown, Cleared
<1> QED
  BY <1>2, <1>3, <1>4, <1>5

\* An occurrence makes room for one more fire.
LEMMA OccursKeeps == ASSUME HInv, NEW t \in Triggers, Occurs(t) PROVE HInv'
<1>1. /\ UNCHANGED <<loop, activeTask, heardFrom, breaker, saved, fresh, task, streak>>
      /\ occurred' = [occurred EXCEPT ![t] = @ + 1] /\ due' = [due EXCEPT ![t] = TRUE]
      /\ fate' = [fate EXCEPT ![t] = "waits"]
      /\ occurred \in [Triggers -> Nat] /\ due \in [Triggers -> BOOLEAN] /\ fate \in [Triggers -> Fates]
  BY DEF Occurs, HInv, HTyped
<1>2. /\ HLinks' /\ HHeard' /\ HDown' /\ \A x : Fired(x)' = Fired(x)
  BY <1>1, RowsStand
<1>3. HTyped'
  BY <1>1 DEF HInv, HTyped, Fates
<1>4. NothingLost' /\ StreakIsReal'
  BY <1>1 DEF HInv, NothingLost, StreakIsReal
<1>5. HFires'
  <2> SUFFICES ASSUME NEW x \in Triggers
               PROVE  Cardinality(Fired(x)) + (IF due'[x] THEN 1 ELSE 0) <= occurred'[x]
    BY <1>2 DEF HFires
  <2>1. Cardinality(Fired(x)) + (IF due[x] THEN 1 ELSE 0) <= occurred[x] /\ Cardinality(Fired(x)) \in Nat
    BY FiredFinite DEF HInv, HFires
  <2>2. occurred[x] \in Nat
    BY <1>1
  <2>3. x = t \/ (due'[x] = due[x] /\ occurred'[x] = occurred[x])
    BY <1>1
  <2>4. CASE x = t
    <3>1. occurred'[x] = occurred[x] + 1 /\ Cardinality(Fired(x)) <= occurred[x]
      BY <1>1, <2>1, <2>2, <2>4
    <3> QED
      BY <2>1, <2>2, <3>1
  <2> QED
    BY <2>1, <2>3, <2>4
<1> QED
  BY <1>2, <1>3, <1>4, <1>5 DEF HInv

\* The breakers after one of them was asked, or has learned of a failure.
LEMMA AskedCounts ==
  ASSUME HInv, NEW t \in Triggers, NEW e \in BOOLEAN, Asks(t, e)
  PROVE  breaker' \in [Triggers -> Breaker] /\ \A x \in Triggers : breaker'[x].fails = streak[x]
<1>1. breaker \in [Triggers -> Breaker] /\ \A x \in Triggers : breaker[x].fails = streak[x]
  BY DEF HInv, HTyped, StreakIsReal
<1>2. Asked(breaker[t], e) \in Breaker /\ Asked(breaker[t], e).fails = breaker[t].fails
  BY <1>1, BreakerMoves
<1> QED
  BY <1>1, <1>2 DEF Asks

LEMMA FailureCounts ==
  ASSUME HInv, NEW t \in Triggers, NEW b \in Breaker, b.fails = streak[t], Learns(t, Failed(b)),
         streak' = [streak EXCEPT ![t] = OneMore(@)]
  PROVE  /\ breaker' \in [Triggers -> Breaker] /\ saved' \in [Triggers -> Breaker]
         /\ streak' \in [Triggers -> 0..FailureThreshold] /\ StreakIsReal'
<1>1. /\ breaker \in [Triggers -> Breaker] /\ saved \in [Triggers -> Breaker]
      /\ streak \in [Triggers -> 0..FailureThreshold]
      /\ \A x \in Triggers : breaker[x].fails = streak[x] /\ saved[x].fails = streak[x]
  BY DEF HInv, HTyped, StreakIsReal
<1>2. Failed(b) \in Breaker /\ Failed(b).fails = OneMore(b.fails)
  BY BreakerMoves
<1>3. OneMore(streak[t]) \in 0..FailureThreshold
  BY <1>1, BreakerAssumption DEF OneMore
<1> QED
  BY <1>1, <1>2, <1>3 DEF Learns, StreakIsReal

\* What may become of an occurrence in a step that submits nothing.
LEMMA DueStands ==
  ASSUME HInv, NEW t \in Triggers, UNCHANGED occurred, \A x : Fired(x)' = Fired(x),
         \A x \in Triggers : due'[x] => due[x]
  PROVE  HFires'
<1> SUFFICES ASSUME NEW x \in Triggers
             PROVE  Cardinality(Fired(x)) + (IF due'[x] THEN 1 ELSE 0) <= occurred[x]
  BY DEF HFires
<1>1. /\ Cardinality(Fired(x)) + (IF due[x] THEN 1 ELSE 0) <= occurred[x]
      /\ Cardinality(Fired(x)) \in Nat /\ occurred[x] \in Nat
  BY FiredFinite DEF HInv, HTyped, HFires
<1>2. CASE due[x]
  BY <1>1, <1>2
<1>3. CASE ~due[x]
  BY <1>1, <1>3
<1> QED
  BY <1>2, <1>3

\* Evaluations that submit nothing.
LEMMA LookKeeps ==
  ASSUME HInv, NEW t \in Triggers, NEW e \in BOOLEAN, NEW b \in BOOLEAN,
         Refuses(t, e, b) \/ EvaluationThrows(t, e) \/ Suppresses(t, e) \/ SubmitThrows(t, e, b)
  PROVE  HInv'
<1>1. /\ UNCHANGED <<loop, heardFrom, fresh, task, occurred>>
      /\ activeTask' = activeTask \/ (activeTask' = Cleared(t) /\ ~StillActive(t))
  BY DEF Refuses, EvaluationThrows, Suppresses, SubmitThrows, Cleared, Fires
<1>2. /\ HLinks' /\ HHeard' /\ HDown' /\ activeTask' \in [Triggers -> 0..MaxTasks]
      /\ \A x : Fired(x)' = Fired(x)
  BY <1>1, RowsStand
<1>3. /\ breaker' \in [Triggers -> Breaker] /\ saved' \in [Triggers -> Breaker]
      /\ streak' \in [Triggers -> 0..FailureThreshold] /\ StreakIsReal'
  <2>1. CASE EvaluationThrows(t, e)
    <3>1. Asked(breaker[t], e) \in Breaker /\ Asked(breaker[t], e).fails = streak[t]
      BY BreakerMoves DEF HInv, HTyped, StreakIsReal
    <3> QED
      BY <2>1, <3>1, FailureCounts DEF EvaluationThrows
  <2>2. CASE Refuses(t, e, b) \/ Suppresses(t, e) \/ SubmitThrows(t, e, b)
    <3>1. Asks(t, e) /\ UNCHANGED <<saved, streak>>
      BY <2>2 DEF Refuses, Suppresses, SubmitThrows
    <3> QED
      BY <3>1, AskedCounts DEF HInv, HTyped, StreakIsReal
  <2> QED
    BY <2>1, <2>2
<1>4. /\ due' \in [Triggers -> BOOLEAN] /\ fate' \in [Triggers -> Fates]
      /\ \A x \in Triggers : due'[x] => due[x]
      /\ NothingLost'
  <2>0. due \in [Triggers -> BOOLEAN] /\ fate \in [Triggers -> Fates]
    BY DEF HInv, HTyped
  <2>1. CASE Refuses(t, e, b) \/ EvaluationThrows(t, e)
    BY <2>0, <2>1 DEF Refuses, EvaluationThrows, HInv, NothingLost
  <2>2. CASE Suppresses(t, e)
    BY <2>0, <2>2 DEF Suppresses, HInv, NothingLost, Fates
  <2>3. CASE SubmitThrows(t, e, b)
    BY <2>0, <2>3 DEF SubmitThrows, HInv, NothingLost, Fates
  <2> QED
    BY <2>1, <2>2, <2>3
<1>5. HFires'
  BY <1>1, <1>2, <1>4, DueStands
<1>6. HTyped'
  BY <1>1, <1>2, <1>3, <1>4 DEF HInv, HTyped
<1> QED
  BY <1>2, <1>3, <1>4, <1>5, <1>6 DEF HInv

\* stop() saves the breakers and start() loads them.
LEMMA PauseKeeps == ASSUME HInv, Stops \/ Starts PROVE HInv'
<1>1. /\ UNCHANGED <<due, activeTask, heardFrom, fresh, task, occurred, fate, streak>>
      /\ loop' \in {"running", "paused"}
      /\ \/ saved' = breaker /\ breaker' = breaker
         \/ breaker' = saved /\ saved' = saved
  BY DEF Stops, Starts
<1>2. /\ HLinks' /\ HHeard' /\ HDown' /\ \A x : Fired(x)' = Fired(x)
  BY <1>1, RowsStand
<1>3. HTyped' /\ NothingLost' /\ StreakIsReal'
  BY <1>1 DEF HInv, HTyped, NothingLost, StreakIsReal
<1>4. HFires'
  BY <1>1, <1>2 DEF HInv, HFires
<1> QED
  BY <1>2, <1>3, <1>4 DEF HInv

\* A fire finds no task of its trigger under way.
LEMMA NoneUnderWay ==
  ASSUME HInv, NEW t \in Triggers, ~StillActive(t), NEW j \in Tasks, MineActive(j)
  PROVE  task[j].of # t
<1> SUFFICES ASSUME task[j].of = t PROVE FALSE
  OBVIOUS
<1>1. heardFrom[t] = j /\ j # 0
  BY DEF HInv, HHeard, Tasks
<1>2. activeTask[t] = j
  BY <1>1 DEF HInv, HLinks, MineActive
<1> QED
  BY <1>1, <1>2 DEF StillActive, MineActive

\* An evaluation that submits a task, under way or failed at once.
LEMMA NewTaskKeeps ==
  ASSUME HInv, NEW t \in Triggers, NEW e \in BOOLEAN, NEW b \in BOOLEAN, NEW k \in Tasks,
         NEW s \in {"active", "failed"}, Fires(t, e, b), NewTask(k, t, s, b),
         UNCHANGED <<loop, occurred>>,
         heardFrom' = [heardFrom EXCEPT ![t] = IF s = "active" THEN k ELSE 0]
  PROVE  /\ HLinks' /\ HHeard' /\ HDown' /\ NothingLost' /\ HFires'
         /\ activeTask' \in [Triggers -> 0..MaxTasks] /\ heardFrom' \in [Triggers -> 0..MaxTasks]
         /\ due' \in [Triggers -> BOOLEAN] /\ fate' \in [Triggers -> Fates] /\ fresh' = TRUE
         /\ task' \in [Tasks -> {NoTask} \cup TaskRow]
<1>1. /\ ~Submitted(k) /\ fresh' = TRUE
      /\ task' = [task EXCEPT ![k] = [status |-> s, of |-> t, mine |-> TRUE, byHand |-> b]]
      /\ activeTask' = [activeTask EXCEPT ![t] = k]
      /\ due' = [due EXCEPT ![t] = FALSE]
      /\ fate' = [fate EXCEPT ![t] = IF due[t] THEN "task" ELSE @]
  BY DEF NewTask
<1>2. /\ task \in [Tasks -> {NoTask} \cup TaskRow]
      /\ activeTask \in [Triggers -> 0..MaxTasks] /\ heardFrom \in [Triggers -> 0..MaxTasks]
      /\ due \in [Triggers -> BOOLEAN] /\ fate \in [Triggers -> Fates]
      /\ k \in 0..MaxTasks /\ k # 0 /\ 0 \in 0..MaxTasks
  BY HeartAssumption DEF HInv, HTyped, Tasks
<1>3. ~StillActive(t) /\ loop # "down" /\ IF b THEN ~due[t] ELSE due[t]
  BY DEF Fires, Evaluates
<1>4. [status |-> s, of |-> t, mine |-> TRUE, byHand |-> b] \in TaskRow
  BY DEF TaskRow, TaskStatus
<1>5. /\ task' \in [Tasks -> {NoTask} \cup TaskRow]
      /\ task'[k].status = s /\ task'[k].of = t /\ task'[k].mine /\ task'[k].byHand = b
      /\ Submitted(k)'
      /\ \A j \in Tasks : j # k => task'[j] = task[j] /\ (Submitted(j)' <=> Submitted(j))
  BY <1>1, <1>2, <1>4 DEF Submitted
<1>6. /\ activeTask' \in [Triggers -> 0..MaxTasks] /\ heardFrom' \in [Triggers -> 0..MaxTasks]
      /\ due' \in [Triggers -> BOOLEAN] /\ fate' \in [Triggers -> Fates]
      /\ activeTask'[t] = k /\ heardFrom'[t] = (IF s = "active" THEN k ELSE 0)
      /\ \A x \in Triggers : x # t =>
           activeTask'[x] = activeTask[x] /\ heardFrom'[x] = heardFrom[x]
           /\ due'[x] = due[x] /\ fate'[x] = fate[x]
  BY <1>1, <1>2 DEF Fates
<1>7. HLinks'
  <2> SUFFICES ASSUME NEW x \in Triggers, heardFrom'[x] # 0
               PROVE  /\ Submitted(heardFrom[x])' /\ task'[heardFrom'[x]].of = x
                      /\ activeTask'[x] = heardFrom'[x] \/ task'[heardFrom'[x]].status # "active"
    BY DEF HLinks
  <2>1. CASE x = t
    BY <1>5, <1>6, <2>1
  <2>2. CASE x # t
    <3>1. heardFrom'[x] = heardFrom[x] /\ Submitted(heardFrom[x]) /\ heardFrom[x] \in Tasks
      BY <1>2, <1>6, <2>2 DEF HInv, HLinks, Tasks
    <3>2. heardFrom[x] # k
      BY <1>1, <3>1
    <3>3. task'[heardFrom[x]] = task[heardFrom[x]] /\ Submitted(heardFrom[x])'
      BY <1>5, <3>1, <3>2 DEF Submitted
    <3> QED
      BY <1>6, <2>2, <3>1, <3>3 DEF HInv, HLinks
  <2> QED
    BY <2>1, <2>2
<1>8. HHeard'
  <2> SUFFICES ASSUME NEW j \in Tasks, MineActive(j)' PROVE heardFrom'[task'[j].of] = j
    BY DEF HHeard
  <2>1. CASE j = k
    BY <1>5, <1>6, <2>1 DEF MineActive
  <2>2. CASE j # k
    <3>1. MineActive(j) /\ task'[j] = task[j]
      BY <1>5, <2>2 DEF MineActive
    <3>2. task[j].of # t
      BY <1>3, <3>1, NoneUnderWay
    <3>3. task[j].of \in Triggers
      BY <3>1, RowFacts DEF HInv, MineActive, TaskRow
    <3> QED
      BY <1>6, <3>1, <3>2, <3>3 DEF HInv, HHeard
  <2> QED
    BY <2>1, <2>2
<1>9. HDown'
  BY <1>3 DEF HDown
<1>10. NothingLost'
  <2> SUFFICES ASSUME NEW x \in Triggers, Kind[x] # "webhook", fate'[x] = "waits" PROVE due'[x]
    BY DEF NothingLost
  <2>1. CASE x = t
    BY <1>1, <1>2, <2>1 DEF HInv, NothingLost
  <2>2. CASE x # t
    BY <1>6, <2>2 DEF HInv, NothingLost
  <2> QED
    BY <2>1, <2>2
<1>11. HFires'
  <2> SUFFICES ASSUME NEW x \in Triggers
               PROVE  Cardinality(Fired(x)') + (IF due'[x] THEN 1 ELSE 0) <= occurred[x]
    BY DEF HFires
  <2>1. /\ Cardinality(Fired(x)) + (IF due[x] THEN 1 ELSE 0) <= occurred[x]
        /\ IsFiniteSet(Fired(x)) /\ Cardinality(Fired(x)) \in Nat /\ occurred[x] \in Nat
    BY FiredFinite DEF HInv, HTyped, HFires
  <2>2. k \notin Fired(x)
    BY <1>1 DEF Fired
  <2>3. CASE x = t /\ ~b
    <3>1. Fired(x)' = Fired(x) \cup {k}
      BY <1>5, <2>3 DEF Fired
    <3>2. Cardinality(Fired(x)') = Cardinality(Fired(x)) + 1
      BY <2>1, <2>2, <3>1, FS_AddElement
    <3>3. due[x] /\ ~due'[x]
      BY <1>1, <1>2, <1>3, <2>3
    <3> QED
      BY <2>1, <3>2, <3>3
  <2>4. CASE x = t /\ b
    <3>1. Fired(x)' = Fired(x)
      BY <1>5, <2>2, <2>4 DEF Fired
    <3>2. ~due'[x] /\ ~due[x]
      BY <1>1, <1>2, <1>3, <2>4
    <3> QED
      BY <2>1, <3>1, <3>2
  <2>5. CASE x # t
    <3>1. Fired(x)' = Fired(x)
      BY <1>5, <2>2, <2>5 DEF Fired
    <3> QED
      BY <1>6, <2>1, <2>5, <3>1
  <2> QED
    BY <2>3, <2>4, <2>5
<1> QED
  BY <1>1, <1>5, <1>6, <1>7, <1>8, <1>9, <1>10, <1>11

\* The two ways a fire ends in a task: the breaker learns only from the failed one.
LEMMA SubmitKeeps ==
  ASSUME HInv, NEW t \in Triggers, NEW e \in BOOLEAN, NEW b \in BOOLEAN, NEW k \in Tasks,
         Submits(t, e, b, k) \/ SubmitsFailed(t, e, b, k)
  PROVE  HInv'
<1>1. CASE Submits(t, e, b, k)
  <2>1. /\ Fires(t, e, b) /\ NewTask(k, t, "active", b) /\ Asks(t, e)
        /\ heardFrom' = [heardFrom EXCEPT ![t] = k] /\ UNCHANGED <<loop, saved, occurred, streak>>
    BY <1>1 DEF Submits
  <2>2. PICK s \in {"active", "failed"} : s = "active"
    OBVIOUS
  <2>3. /\ HLinks' /\ HHeard' /\ HDown' /\ NothingLost' /\ HFires'
        /\ activeTask' \in [Triggers -> 0..MaxTasks] /\ heardFrom' \in [Triggers -> 0..MaxTasks]
        /\ due' \in [Triggers -> BOOLEAN] /\ fate' \in [Triggers -> Fates] /\ fresh' = TRUE
        /\ task' \in [Tasks -> {NoTask} \cup TaskRow]
    BY <2>1, <2>2, NewTaskKeeps
  <2>4. breaker' \in [Triggers -> Breaker] /\ \A x \in Triggers : breaker'[x].fails = streak[x]
    BY <2>1, AskedCounts
  <2>5. StreakIsReal'
    BY <2>1, <2>4 DEF HInv, StreakIsReal
  <2>6. HTyped'
    BY <2>1, <2>3, <2>4 DEF HInv, HTyped
  <2> QED
    BY <2>3, <2>5, <2>6 DEF HInv
<1>2. CASE SubmitsFailed(t, e, b, k)
  <2>1. /\ Fires(t, e, b) /\ NewTask(k, t, "failed", b)
        /\ heardFrom' = [heardFrom EXCEPT ![t] = 0] /\ UNCHANGED <<loop, occurred>>
        /\ Learns(t, Failed(Asked(breaker[t], e)))
        /\ streak' = [streak EXCEPT ![t] = OneMore(@)]
    BY <1>2 DEF SubmitsFailed
  <2>2. PICK s \in {"active", "failed"} : s = "failed"
    OBVIOUS
  <2>3. /\ HLinks' /\ HHeard' /\ HDown' /\ NothingLost' /\ HFires'
        /\ activeTask' \in [Triggers -> 0..MaxTasks] /\ heardFrom' \in [Triggers -> 0..MaxTasks]
        /\ due' \in [Triggers -> BOOLEAN] /\ fate' \in [Triggers -> Fates] /\ fresh' = TRUE
        /\ task' \in [Tasks -> {NoTask} \cup TaskRow]
    BY <2>1, <2>2, NewTaskKeeps
  <2>4. Asked(breaker[t], e) \in Breaker /\ Asked(breaker[t], e).fails = streak[t]
    BY BreakerMoves DEF HInv, HTyped, StreakIsReal
  <2>5. /\ breaker' \in [Triggers -> Breaker] /\ saved' \in [Triggers -> Breaker]
        /\ streak' \in [Triggers -> 0..FailureThreshold] /\ StreakIsReal'
    BY <2>1, <2>4, FailureCounts
  <2>6. HTyped'
    BY <2>1, <2>3, <2>5 DEF HInv, HTyped
  <2> QED
    BY <2>3, <2>5, <2>6 DEF HInv
<1> QED
  BY <1>1, <1>2

\* A task settles: the breaker learns of it if the loop still listens to it, and
\* hears no more of it unless it is blocked.
LEMMA SettleKeeps ==
  ASSUME HInv, NEW k \in Tasks, NEW s \in TaskStatus \ {"active"}, Settles(k, s)
  PROVE  HInv'
<1> DEFINE t == task[k].of
           heard == heardFrom[t] = k
<1>1. /\ loop # "down" /\ Submitted(k)
      /\ task[k].status = "active" \/ (task[k].status = "blocked" /\ s = "cancelled")
      /\ task' = [task EXCEPT ![k].status = s]
      /\ heardFrom' = IF heard /\ s # "blocked" THEN [heardFrom EXCEPT ![t] = 0] ELSE heardFrom
      /\ IF heard THEN Outcome(t, s)
         ELSE /\ UNCHANGED <<breaker, saved>>
              /\ streak' = IF ~task[k].mine THEN streak
                           ELSE [streak EXCEPT ![t] = CASE s = "completed" -> 0
                                                        [] s = "failed" -> OneMore(@)
                                                        [] OTHER -> @]
      /\ UNCHANGED <<loop, due, activeTask, fresh, occurred, fate>>
  BY DEF Settles
<1>2. task \in [Tasks -> {NoTask} \cup TaskRow] /\ task[k] \in TaskRow /\ t \in Triggers
  BY <1>1, RowFacts DEF HInv, HTyped, TaskRow
<1>3. /\ task'[k] \in TaskRow /\ task' \in [Tasks -> {NoTask} \cup TaskRow] /\ Submitted(k)'
      /\ task'[k].status = s /\ task'[k].of = t /\ task'[k].mine = task[k].mine
      /\ task'[k].byHand = task[k].byHand
      /\ \A j \in Tasks : j # k => task'[j] = task[j] /\ (Submitted(j)' <=> Submitted(j))
  BY <1>1, <1>2 DEF TaskRow, Submitted, TaskStatus
<1> HIDE DEF t, heard
<1>4. heardFrom' \in [Triggers -> 0..MaxTasks]
      /\ \A x \in Triggers : heardFrom'[x] = heardFrom[x] \/ (heardFrom[x] = k /\ heardFrom'[x] = 0)
  BY <1>1, <1>2, HeartAssumption DEF HInv, HTyped, heard
<1>5. HLinks'
  <2> SUFFICES ASSUME NEW x \in Triggers, heardFrom'[x] # 0
               PROVE  /\ Submitted(heardFrom[x])' /\ task'[heardFrom'[x]].of = x
                      /\ activeTask'[x] = heardFrom'[x] \/ task'[heardFrom'[x]].status # "active"
    BY DEF HLinks
  <2>1. /\ heardFrom'[x] = heardFrom[x] /\ heardFrom[x] \in Tasks
        /\ Submitted(heardFrom[x]) /\ task[heardFrom[x]].of = x
        /\ activeTask[x] = heardFrom[x] \/ task[heardFrom[x]].status # "active"
    BY <1>4 DEF HInv, HTyped, HLinks, Tasks
  <2>2. CASE heardFrom[x] = k
    BY <1>3, <2>1, <2>2 DEF t, Submitted
  <2>3. CASE heardFrom[x] # k
    <3>1. task'[heardFrom[x]] = task[heardFrom[x]]
      BY <1>3, <2>1, <2>3
    <3> QED
      BY <1>1, <2>1, <3>1 DEF Submitted
  <2> QED
    BY <2>2, <2>3
<1>6. HHeard'
  <2> SUFFICES ASSUME NEW j \in Tasks, MineActive(j)' PROVE heardFrom'[task'[j].of] = j
    BY DEF HHeard
  <2>1. j # k
    BY <1>3 DEF MineActive
  <2>2. MineActive(j) /\ task'[j] = task[j]
    BY <1>3, <2>1 DEF MineActive
  <2>3. task[j].of \in Triggers
    BY <2>2, RowFacts DEF HInv, MineActive, TaskRow
  <2>4. heardFrom[task[j].of] = j
    BY <2>2 DEF HInv, HHeard
  <2> QED
    BY <1>4, <2>1, <2>2, <2>3, <2>4
<1>7. HDown' /\ NothingLost'
  BY <1>1 DEF HInv, HDown, NothingLost
<1>8. HFires'
  <2>1. \A x : Fired(x)' = Fired(x)
    BY <1>1, <1>3 DEF Fired, t
  <2> QED
    BY <1>1, <2>1 DEF HInv, HFires
<1>9. /\ breaker' \in [Triggers -> Breaker] /\ saved' \in [Triggers -> Breaker]
      /\ streak' \in [Triggers -> 0..FailureThreshold] /\ StreakIsReal'
  <2>0. /\ breaker \in [Triggers -> Breaker] /\ saved \in [Triggers -> Breaker]
        /\ streak \in [Triggers -> 0..FailureThreshold]
        /\ \A x \in Triggers : breaker[x].fails = streak[x] /\ saved[x].fails = streak[x]
    BY DEF HInv, HTyped, StreakIsReal
  <2>1. CASE heard
    <3>0. Outcome(t, s)
      BY <1>1, <2>1
    <3>1. CASE s = "failed"
      BY <1>2, <2>0, <3>0, <3>1, FailureCounts DEF Outcome
    <3>2. CASE s = "completed"
      <4>1. Succeeded(breaker[t]) \in Breaker /\ Succeeded(breaker[t]).fails = 0
        BY <1>2, <2>0, BreakerMoves
      <4>2. 0 \in 0..FailureThreshold
        BY BreakerAssumption
      <4>3. Learns(t, Succeeded(breaker[t])) /\ streak' = [streak EXCEPT ![t] = 0]
        BY <3>0, <3>2 DEF Outcome
      <4> QED
        BY <1>2, <2>0, <4>1, <4>2, <4>3 DEF Learns, StreakIsReal
    <3>3. CASE s # "failed" /\ s # "completed"
      BY <2>0, <3>0, <3>3 DEF Outcome, StreakIsReal
    <3> QED
      BY <3>1, <3>2, <3>3
  <2>2. CASE ~heard
    <3>1. ~MineActive(k)
      BY <2>2 DEF HInv, HHeard, heard, t
    <3>2. task[k].mine => s = "cancelled"
      BY <1>1, <3>1 DEF MineActive
    <3>3. UNCHANGED <<breaker, saved>> /\ streak' = streak
      BY <1>1, <1>2, <2>0, <2>2, <3>2
    <3> QED
      BY <2>0, <3>3 DEF StreakIsReal
  <2> QED
    BY <2>1, <2>2
<1>10. HTyped'
  BY <1>1, <1>3, <1>4, <1>9 DEF HInv, HTyped
<1> QED
  BY <1>5, <1>6, <1>7, <1>8, <1>9, <1>10 DEF HInv

\* A crash forgets who is listened to; the tables keep the rest.
LEMMA CrashKeeps == ASSUME HInv, NEW cut \in SUBSET Triggers, HeartCrash(cut) PROVE HInv'
<1>1. /\ loop' = "down" /\ fresh' = FALSE /\ breaker' = saved /\ UNCHANGED <<saved, occurred, streak>>
      /\ due' = [t \in Triggers |-> due[t] /\ t \notin cut /\ Kind[t] # "webhook"]
      /\ fate' = [t \in Triggers |->
           IF due[t] /\ ~due'[t] THEN (IF Kind[t] = "webhook" THEN "dropped" ELSE "cut") ELSE fate[t]]
      /\ activeTask' = [t \in Triggers |-> 0] /\ heardFrom' = [t \in Triggers |-> 0]
      /\ task' = [k \in Tasks |-> IF Submitted(k) THEN [task[k] EXCEPT !.mine = FALSE] ELSE NoTask]
  BY DEF HeartCrash
<1>2. ASSUME NEW k \in Tasks, Submitted(k)
      PROVE  /\ task'[k] \in TaskRow /\ Submitted(k)' /\ ~task'[k].mine
             /\ task'[k].of = task[k].of /\ task'[k].byHand = task[k].byHand
  <2>1. task[k] \in TaskRow /\ task'[k] = [task[k] EXCEPT !.mine = FALSE]
    BY <1>1, <1>2, RowFacts DEF HInv
  <2> QED
    BY <2>1 DEF TaskRow, Submitted, TaskStatus
<1>3. ASSUME NEW k \in Tasks, ~Submitted(k) PROVE task'[k] = NoTask /\ ~Submitted(k)'
  BY <1>1, <1>3 DEF Submitted, NoTask
<1>4. task' \in [Tasks -> {NoTask} \cup TaskRow]
  BY <1>1, <1>2, <1>3
<1>5. HLinks' /\ HHeard' /\ HDown'
  BY <1>1, <1>2, <1>3 DEF HLinks, HHeard, HDown, MineActive
<1>6. HFires'
  <2>1. \A x : Fired(x)' = Fired(x)
    BY <1>2, <1>3 DEF Fired
  <2>2. \A x \in Triggers : due'[x] => due[x]
    BY <1>1
  <2>3. CASE Triggers = {}
    BY <2>3 DEF HFires
  <2>4. CASE Triggers # {}
    BY <1>1, <2>1, <2>2, <2>4, DueStands
  <2> QED
    BY <2>3, <2>4
<1>7. NothingLost'
  BY <1>1 DEF HInv, NothingLost
<1>8. HTyped' /\ StreakIsReal'
  <2>1. due' \in [Triggers -> BOOLEAN] /\ fate' \in [Triggers -> Fates]
    BY <1>1 DEF HInv, HTyped, Fates
  <2>2. activeTask' \in [Triggers -> 0..MaxTasks] /\ heardFrom' \in [Triggers -> 0..MaxTasks]
    BY <1>1, HeartAssumption
  <2> QED
    BY <1>1, <1>4, <2>1, <2>2 DEF HInv, HTyped, StreakIsReal
<1> QED
  BY <1>5, <1>6, <1>7, <1>8 DEF HInv

\* Boot closes tasks that the last process left under way. None of them is its own.
LEMMA BootKeeps ==
  ASSUME HInv, NEW failed \in SUBSET Tasks, NEW blocked \in SUBSET Tasks, HeartBoot(failed, blocked)
  PROVE  HInv'
<1>1. /\ loop = "down" /\ loop' = "running"
      /\ \A k \in failed \cup blocked : task[k].status = "active"
      /\ task' = [k \in Tasks |-> IF k \in failed THEN [task[k] EXCEPT !.status = "failed"]
                                 ELSE IF k \in blocked THEN [task[k] EXCEPT !.status = "blocked"]
                                 ELSE task[k]]
      /\ UNCHANGED <<due, activeTask, heardFrom, breaker, saved, fresh, occurred, fate, streak>>
  BY DEF HeartBoot
<1>2. ASSUME NEW k \in Tasks
      PROVE  /\ task'[k] \in {NoTask} \cup TaskRow /\ (Submitted(k)' <=> Submitted(k))
             /\ Submitted(k) => task'[k].of = task[k].of /\ task'[k].byHand = task[k].byHand
             /\ MineActive(k)' => MineActive(k)
  <2>1. CASE k \in failed \cup blocked
    <3>1. Submitted(k) /\ task[k] \in TaskRow
      BY <1>1, <2>1, RowFacts DEF HInv, Submitted
    <3>2. PICK s \in {"failed", "blocked"} : task'[k] = [task[k] EXCEPT !.status = s]
      BY <1>1, <2>1
    <3> QED
      BY <3>1, <3>2 DEF TaskRow, Submitted, TaskStatus, MineActive
  <2>2. CASE k \notin failed \cup blocked
    <3>1. task'[k] = task[k]
      BY <1>1, <2>2
    <3> QED
      BY <3>1 DEF HInv, HTyped, Submitted, MineActive
  <2> QED
    BY <2>1, <2>2
<1>3. \A t \in Triggers : heardFrom[t] = 0
  BY <1>1 DEF HInv, HDown
<1>4. HLinks' /\ HDown'
  BY <1>1, <1>3 DEF HLinks, HDown
<1>5. HHeard'
  <2> SUFFICES ASSUME NEW k \in Tasks, MineActive(k)' PROVE FALSE
    BY DEF HHeard
  <2>1. MineActive(k) /\ k # 0
    BY <1>2 DEF Tasks
  <2>2. task[k].of \in Triggers
    BY <2>1, RowFacts DEF HInv, MineActive, TaskRow
  <2> QED
    BY <1>3, <2>1, <2>2 DEF HInv, HHeard
<1>6. HFires'
  <2>1. \A x : Fired(x)' = Fired(x)
    BY <1>2 DEF Fired
  <2> QED
    BY <1>1, <2>1 DEF HInv, HFires
<1>7. HTyped' /\ NothingLost' /\ StreakIsReal'
  <2>1. task' \in [Tasks -> {NoTask} \cup TaskRow]
    BY <1>1, <1>2
  <2> QED
    BY <1>1, <2>1 DEF HInv, HTyped, NothingLost, StreakIsReal
<1> QED
  BY <1>4, <1>5, <1>6, <1>7 DEF HInv

\* Every step of the loop keeps the invariant.
LEMMA HInvNext == HInv /\ [HeartNext]_hvars => HInv'
<1> SUFFICES ASSUME HInv, [HeartNext]_hvars PROVE HInv'
  OBVIOUS
<1>1. CASE UNCHANGED hvars
  BY <1>1 DEF hvars, HInv, HTyped, HLinks, HHeard, MineActive, HDown, NothingLost, HFires, Fired,
              StreakIsReal, Submitted
<1>2. ASSUME NEW t \in Triggers, Occurs(t) PROVE HInv'
  BY <1>2, OccursKeeps
<1>3. ASSUME NEW t \in Triggers, NEW e \in BOOLEAN, NEW b \in BOOLEAN,
             EvaluationThrows(t, e) \/ Suppresses(t, e) \/ Refuses(t, e, b) \/ SubmitThrows(t, e, b)
      PROVE  HInv'
  BY <1>3, LookKeeps
<1>4. ASSUME NEW t \in Triggers, NEW e \in BOOLEAN, NEW b \in BOOLEAN, NEW k \in Tasks,
             Submits(t, e, b, k) \/ SubmitsFailed(t, e, b, k)
      PROVE  HInv'
  BY <1>4, SubmitKeeps
<1>5. ASSUME NEW k \in Tasks, NEW s \in TaskStatus \ {"active"}, Settles(k, s) PROVE HInv'
  BY <1>5, SettleKeeps
<1>6. CASE Stops \/ Starts
  BY <1>6, PauseKeeps
<1>7. ASSUME NEW cut \in SUBSET Triggers, HeartCrash(cut) PROVE HInv'
  BY <1>7, CrashKeeps
<1>8. ASSUME NEW failed \in SUBSET Tasks, NEW blocked \in SUBSET Tasks, HeartBoot(failed, blocked)
      PROVE  HInv'
  BY <1>8, BootKeeps
<1> QED
  <2>1. TRUE \in BOOLEAN
    OBVIOUS
  <2> QED
    BY <1>1, <1>2, <1>3, <1>4, <1>5, <1>6, <1>7, <1>8, <2>1 DEF HeartNext

\* The loop's maps, the breakers and the rows keep their types, and a task the loop
\* listens to belongs to the trigger it is listened to for (heartbeat-loop.ts).
THEOREM HeartTyped == HeartSpec => []HeartTypeOK
<1>1. HInv => HeartTypeOK
  BY DEF HInv, HTyped, HLinks, HeartTypeOK, TaskRow
<1> QED
  BY <1>1, HInvInit, HInvNext, PTL DEF HeartSpec

\* No occurrence becomes two tasks, no trigger has two tasks of this process under
\* way, and a durable occurrence that waits stays due, for any triggers and through
\* crashes (heartbeat-loop.ts).
THEOREM OneTaskEach == HeartSpec => []ExactlyOneTask
<1>1. ASSUME HInv PROVE ExactlyOneTask
  <2>1. NoDoubleFire
    <3> SUFFICES ASSUME NEW t \in Triggers PROVE Cardinality(Fired(t)) <= occurred[t]
      BY DEF NoDoubleFire, Fired
    <3>1. /\ Cardinality(Fired(t)) + (IF due[t] THEN 1 ELSE 0) <= occurred[t]
          /\ Cardinality(Fired(t)) \in Nat /\ occurred[t] \in Nat
      BY <1>1, FiredFinite DEF HInv, HTyped, HFires
    <3>2. CASE due[t]
      BY <3>1, <3>2
    <3>3. CASE ~due[t]
      BY <3>1, <3>3
    <3> QED
      BY <3>2, <3>3
  <2>2. NoOverlap
    BY <1>1 DEF HInv, HHeard, MineActive, NoOverlap
  <2> QED
    BY <1>1, <2>1, <2>2 DEF HInv, ExactlyOneTask
<1> QED
  BY <1>1, HInvInit, HInvNext, PTL DEF HeartSpec

\* A breaker's count, in memory and in the database, is the number of failures its
\* trigger has had in a row: no failure is missed or counted twice, also across a
\* stop, a crash and a boot.
THEOREM StreaksAreReal == HeartSpec => []StreakIsReal
<1>1. HInv => StreakIsReal
  BY DEF HInv
<1> QED
  BY <1>1, HInvInit, HInvNext, PTL DEF HeartSpec

---------------------------------------------------------------------------
(* The runtime lock. For any starters, runtimes of older versions, machines  *)
(* and rounds at most one runtime runs, and whoever was refused or stopped   *)
(* left nothing.                                                             *)
(*                                                                           *)
(* The argument: Has says, from where a starter is, which lock files are its *)
(* own, and they are exactly those that name it as long as it lives. So a    *)
(* claim whose owner is not alive is a dead one's, and only a dead one's     *)
(* claim is ever renamed away by another; the one who may do that is whom    *)
(* the recovery file names, so that nothing happens to the claim it judged   *)
(* until it acts on it.                                                      *)

InSection == {"rejudge", "remove", "compare", "reclaim", "leave", "leave with it"}
Claiming == {"judge", "publish", "enter", "wait"} \cup InSection
Wheres == Claiming \cup {"release", "released", "withdraw", "withdrawn", "running"} \cup NotUp

Typed ==
  /\ setup \in [elders : BOOLEAN, writable : BOOLEAN]
  /\ lockFile \in [Paths -> Runtimes \cup {Nobody}]
  /\ refreshed \in [Paths -> BOOLEAN]
  /\ recoveryFile \in [Paths -> Starters \cup {Nobody}]
  /\ at \in [Runtimes -> Wheres]
  /\ path \in [Starters -> Paths]
  /\ attempt \in [Starters -> 1..MaxAttempts]
  /\ judged \in [Starters -> Runtimes \cup {Nobody}]
  /\ grave \in [Starters -> Runtimes \cup {Nobody}]

\* A live owner's claim is fresh.
Fresh == \A f \in Paths : lockFile[f] # Nobody /\ at[lockFile[f]] \notin NotUp => refreshed[f]

\* Runtimes of older versions, and the one that was there before.
Others ==
  /\ at[Former] = "dead"
  /\ \A e \in Elders : at[e] # "dead" =>
       /\ at[e] \in {"unborn", "running", "stopped"}
       /\ lockFile["primary"] # e
       /\ lockFile["legacy"] = e <=> at[e] = "running"
       /\ at[e] = "running" => setup.elders /\ setup.writable

\* The lock at f is the starter's own.
Has(p, f) ==
  IF f = "primary"
  THEN \/ at[p] \in {"leave with it", "running", "withdraw"}
       \/ at[p] = "release" /\ path[p] = "primary"
       \/ at[p] \in Claiming /\ path[p] = "legacy"
  ELSE \/ at[p] = "leave with it" /\ path[p] = "legacy"
       \/ at[p] \in {"running", "release"} /\ setup.writable
       \/ at[p] = "released" /\ path[p] = "primary" /\ setup.writable

\* Where the path is that a starter works at.
Placed(p) ==
  /\ at[p] \in (Claiming \ {"judge"}) \cup {"release"} /\ path[p] = "legacy" => setup.writable
  /\ at[p] \in {"unborn", "withdraw", "withdrawn"} => path[p] = "primary"

\* While it lives, its locks are those that name it, and the recovery file
\* names whom it lets in.
Named(p) ==
  at[p] # "dead" => \A f \in Paths :
    /\ lockFile[f] = p <=> Has(p, f)
    /\ recoveryFile[f] = p <=> at[p] \in InSection /\ path[p] = f

\* What it has in its hands when it takes a lock over or gives one back.
Handles(p) ==
  /\ at[p] \in {"enter", "rejudge", "remove", "compare"} => judged[p] # Nobody
  /\ at[p] = "remove" => lockFile[path[p]] = judged[p] /\ at[judged[p]] = "dead"
  /\ at[p] = "compare" => grave[p] = judged[p]
  /\ at[p] \in {"released", "withdrawn"} => grave[p] = p

RInv ==
  /\ Typed /\ Fresh /\ Others
  /\ \A p \in Starters : Placed(p) /\ Named(p) /\ Handles(p)

-----------------------------------------------------------------------------
(* What a step of a starter does, and leaves alone.                        *)

\* It goes to w and works at f.
Steps(p, w, f) ==
  /\ at' \in [Runtimes -> Wheres] /\ path' \in [Starters -> Paths]
  /\ attempt' \in [Starters -> 1..MaxAttempts]
  /\ at'[p] = w /\ path'[p] = f
  /\ \A q \in Runtimes \ {p} : at'[q] = at[q]
  /\ \A q \in Starters \ {p} : path'[q] = path[q]

\* It has j and g in its hands.
Takes(p, j, g) ==
  /\ judged' \in [Starters -> Runtimes \cup {Nobody}]
  /\ grave' \in [Starters -> Runtimes \cup {Nobody}]
  /\ judged'[p] = j /\ grave'[p] = g
  /\ \A q \in Starters \ {p} : judged'[q] = judged[q] /\ grave'[q] = grave[q]

\* It writes its claim where none is, and takes away its own or, in the
\* recovery section, a dead one's.
Writes(p) ==
  /\ setup' = setup
  /\ lockFile' \in [Paths -> Runtimes \cup {Nobody}]
  /\ refreshed' \in [Paths -> BOOLEAN]
  /\ recoveryFile' \in [Paths -> Starters \cup {Nobody}]
  /\ \A f \in Paths :
       \/ lockFile'[f] = lockFile[f] /\ refreshed'[f] = refreshed[f]
       \/ lockFile[f] = Nobody /\ lockFile'[f] = p /\ refreshed'[f]
       \/ lockFile'[f] = Nobody /\ lockFile[f] = p
       \/ lockFile'[f] = Nobody /\ at[p] = "remove" /\ path[p] = f
  /\ \A f \in Paths :
       \/ recoveryFile'[f] = recoveryFile[f]
       \/ recoveryFile[f] = Nobody /\ recoveryFile'[f] = p
       \/ recoveryFile[f] = p /\ recoveryFile'[f] = Nobody

\* Then the others keep what the invariant says of them.
LEMMA StepKeeps ==
  ASSUME RInv, NEW p \in Starters, NEW w \in Wheres, NEW f \in Paths,
         NEW j, NEW g, at[p] # "dead",
         Steps(p, w, f), Takes(p, j, g), Writes(p),
         Placed(p)', Named(p)', Handles(p)'
  PROVE  RInv'
<1> USE LockfileAssumption
<1>0. p \in Runtimes /\ p # Nobody /\ p # Former /\ p \notin Elders
  BY DEF Runtimes
<1>1. Typed'
  BY DEF RInv, Typed, Steps, Takes, Writes
<1>2. Fresh'
  <2> SUFFICES ASSUME NEW h \in Paths, lockFile'[h] # Nobody, at'[lockFile'[h]] \notin NotUp
               PROVE  refreshed'[h]
    BY DEF Fresh
  <2>1. CASE lockFile'[h] = lockFile[h] /\ refreshed'[h] = refreshed[h]
    <3>1. lockFile[h] = p => at[p] \notin NotUp
      BY <1>0 DEF RInv, Named, Has, Claiming, InSection, NotUp
    <3> QED
      BY <2>1, <3>1 DEF RInv, Typed, Fresh, Steps
  <2>2. CASE lockFile'[h] # lockFile[h] \/ refreshed'[h] # refreshed[h]
    BY <2>2 DEF Writes
  <2> QED
    BY <2>1, <2>2
<1>3. Others'
  BY <1>0 DEF RInv, Typed, Others, Steps, Writes, Runtimes, Paths, Handles
<1>4. ASSUME NEW q \in Starters, q # p
      PROVE  Placed(q)' /\ Named(q)' /\ Handles(q)'
  <2>1. at'[q] = at[q] /\ path'[q] = path[q] /\ judged'[q] = judged[q] /\ grave'[q] = grave[q]
    BY <1>4 DEF Steps, Takes, Runtimes
  <2>2. Placed(q)'
    BY <2>1 DEF RInv, Placed, Writes
  <2>3. Named(q)'
    <3> SUFFICES ASSUME at[q] # "dead", NEW h \in Paths
                 PROVE  /\ lockFile'[h] = q <=> Has(q, h)'
                        /\ recoveryFile'[h] = q <=> at[q] \in InSection /\ path[q] = h
      BY <2>1 DEF Named
    <3>1. Has(q, h)' <=> Has(q, h)
      BY <2>1 DEF Has, Writes
    <3>2. lockFile'[h] = q <=> lockFile[h] = q
      BY <1>0, <1>4 DEF RInv, Writes, Handles, Typed, Runtimes
    <3>3. recoveryFile'[h] = q <=> recoveryFile[h] = q
      BY <1>4 DEF RInv, Writes, Runtimes
    <3> QED
      BY <3>1, <3>2, <3>3 DEF RInv, Named
  <2>4. Handles(q)'
    <3>1. at[q] = "remove" => lockFile'[path[q]] = judged[q] /\ at'[judged[q]] = "dead"
      <4> SUFFICES ASSUME at[q] = "remove"
                   PROVE  lockFile'[path[q]] = judged[q] /\ at'[judged[q]] = "dead"
        OBVIOUS
      <4>1. path[q] \in Paths /\ recoveryFile[path[q]] = q
        BY DEF RInv, Typed, Named, InSection
      <4>2. ~(at[p] = "remove" /\ path[p] = path[q])
        BY <1>4, <4>1 DEF RInv, Named, InSection
      <4>3. lockFile[path[q]] = judged[q] /\ judged[q] \in Runtimes \ {p} /\ at[judged[q]] = "dead"
        BY DEF RInv, Typed, Handles
      <4>4. lockFile'[path[q]] = lockFile[path[q]]
        BY <1>0, <4>1, <4>2, <4>3 DEF Writes, LockfileAssumption
      <4> QED
        BY <4>3, <4>4 DEF Steps
    <3> QED
      BY <2>1, <3>1 DEF RInv, Handles
  <2> QED
    BY <2>2, <2>3, <2>4
<1> QED
  BY <1>1, <1>2, <1>3, <1>4 DEF RInv

\* Where each of the moves leads.
LEMMA GoesThere ==
  ASSUME RInv, NEW p \in Starters, NEW w \in Wheres, Goes(p, w), Stays(p)
  PROVE  Steps(p, w, path[p])
BY DEF RInv, Typed, Goes, Stays, Steps, Runtimes

\* A claim of a path starts with its first attempt.
LEMMA GoesClaiming ==
  ASSUME RInv, NEW p \in Starters, NEW f \in Paths, Claims(p, f)
  PROVE  Steps(p, "judge", f)
<1>1. "judge" \in Wheres /\ 1 \in 1..MaxAttempts
  BY LockfileAssumption DEF Wheres, Claiming
<1> QED
  BY <1>1 DEF RInv, Typed, Goes, Claims, Steps, Runtimes

\* A refusal at the mirror leads to giving the primary lock back.
LEMMA GoesAway ==
  ASSUME RInv, NEW p \in Starters, TurnedAway(p)
  PROVE  \/ path[p] = "primary" /\ Steps(p, "stopped", "primary")
         \/ path[p] = "legacy" /\ Steps(p, "withdraw", "primary")
<1>1. {"stopped", "withdraw"} \subseteq Wheres /\ {"primary", "legacy"} = Paths
  BY DEF Wheres, NotUp, Paths
<1>2. CASE path[p] = "primary"
  BY <1>1, <1>2, GoesThere DEF TurnedAway
<1>3. CASE path[p] = "legacy"
  BY <1>1, <1>3 DEF RInv, Typed, Goes, TurnedAway, Steps, Runtimes
<1> QED
  BY <1>1, <1>2, <1>3 DEF RInv, Typed

\* After the primary path comes the mirror, and after it the start.
LEMMA GoesOn ==
  ASSUME RInv, NEW p \in Starters, Claimed(p)
  PROVE  \/ path[p] = "primary" /\ Steps(p, "judge", "legacy")
         \/ path[p] = "legacy" /\ Steps(p, "running", "legacy")
<1>1. "running" \in Wheres /\ {"primary", "legacy"} = Paths
  BY DEF Wheres, Paths
<1>2. CASE path[p] = "primary"
  BY <1>1, <1>2, GoesClaiming DEF Claimed
<1>3. CASE path[p] = "legacy"
  BY <1>1, <1>3, GoesThere DEF Claimed
<1> QED
  BY <1>1, <1>2, <1>3 DEF RInv, Typed

\* The attempts are counted; after the last the starter is turned away.
LEMMA GoesAgain ==
  ASSUME RInv, NEW p \in Starters, NextAttempt(p)
  PROVE  \/ Steps(p, "judge", path[p])
         \/ path[p] = "primary" /\ Steps(p, "stopped", "primary")
         \/ path[p] = "legacy" /\ Steps(p, "withdraw", "primary")
<1>1. CASE attempt[p] < MaxAttempts
  <2>1. attempt[p] + 1 \in 1..MaxAttempts
    BY <1>1, LockfileAssumption DEF RInv, Typed
  <2>2. "judge" \in Wheres
    BY DEF Wheres, Claiming
  <2> QED
    BY <1>1, <2>1, <2>2 DEF RInv, Typed, Goes, NextAttempt, Steps, Runtimes
<1>2. CASE ~(attempt[p] < MaxAttempts)
  BY <1>2, GoesAway DEF NextAttempt
<1> QED
  BY <1>1, <1>2

\* The files as they were.
LEMMA WritesNothing ==
  ASSUME RInv, NEW p \in Starters, setup' = setup, UNCHANGED files
  PROVE  Writes(p)
BY DEF RInv, Typed, Writes, files

\* A lock that is no live owner's is a dead one's.
LEMMA StaleIsDead ==
  ASSUME RInv, NEW p \in Starters, NEW f \in Paths, lockFile[f] # Nobody, ~HolderIsLive(p, f)
  PROVE  at[lockFile[f]] = "dead"
<1> DEFINE o == lockFile[f]
<1>1. o \in Runtimes
  BY DEF RInv, Typed
<1>2. at[o] \in NotUp
  BY <1>1 DEF RInv, Fresh, HolderIsLive, Alive
<1>3. CASE o \in Starters
  BY <1>2, <1>3 DEF RInv, Named, Has, NotUp, Claiming, InSection
<1>4. CASE o \in Elders
  BY <1>2, <1>4 DEF RInv, Others, NotUp, Paths
<1> QED
  BY <1>1, <1>3, <1>4 DEF Runtimes, RInv, Others

\* A step that touches no file, and neither gets nor gives up a path by it.
LEMMA QuietStepKeeps ==
  ASSUME RInv, NEW p \in Starters, NEW w \in Wheres, NEW f \in Paths, NEW j, NEW g,
         at[p] # "dead", Steps(p, w, f), Takes(p, j, g), setup' = setup, UNCHANGED files,
         \A h \in Paths : Has(p, h)' <=> Has(p, h),
         \A h \in Paths : (w \in InSection /\ f = h) <=> (at[p] \in InSection /\ path[p] = h),
         Placed(p)', Handles(p)'
  PROVE  RInv'
<1>1. Named(p)'
  BY DEF RInv, Named, Steps, files
<1> QED
  BY <1>1, WritesNothing, StepKeeps

-----------------------------------------------------------------------------
(* The steps of a starter.                                                 *)

\* It has nothing yet, whether it goes on or not.
LEMMA LooksAtLegacyKeeps ==
  ASSUME RInv, NEW p \in Starters, LooksAtLegacy(p)
  PROVE  RInv'
<1> USE DEF Claiming, InSection, NotUp, Paths
<1>1. at[p] = "unborn" /\ Takes(p, judged[p], grave[p]) /\ setup' = setup /\ UNCHANGED files /\ path[p] \in Paths
  BY DEF Lock, RInv, Typed, Takes, LooksAtLegacy, Memory, ForgetsJudged
<1>2. path[p] = "primary" /\ \E w \in {"judge", "stopped"} : Steps(p, w, "primary")
  BY <1>1, GoesThere, GoesClaiming DEF RInv, Placed, LooksAtLegacy, Wheres
<1>3. Placed(p)' /\ Handles(p)'
  BY <1>1, <1>2 DEF RInv, Typed, Placed, Handles, Steps, Takes, Mirrorless
<1>4. \A h \in Paths : Has(p, h)' <=> Has(p, h)
  BY <1>1, <1>2 DEF RInv, Placed, Has, Steps
<1> QED
  BY <1>1, <1>2, <1>3, <1>4, QuietStepKeeps DEF Wheres

\* Turned away at the mirror, it still has the primary lock, to give back.
LEMMA FindsHolderKeeps ==
  ASSUME RInv, NEW p \in Starters, FindsHolder(p)
  PROVE  RInv'
<1> USE DEF Claiming, InSection, NotUp, Paths
<1>1. at[p] = "judge" /\ Takes(p, judged[p], grave[p]) /\ setup' = setup /\ UNCHANGED files /\ path[p] \in Paths
  BY DEF Lock, RInv, Typed, Takes, FindsHolder, Memory, ForgetsJudged
<1>2. PICK w \in {"stopped", "withdraw"} :
        Steps(p, w, "primary") /\ (w = "stopped" <=> path[p] = "primary")
  BY GoesAway DEF FindsHolder
<1>3. Placed(p)' /\ Handles(p)'
  BY <1>1, <1>2 DEF RInv, Typed, Placed, Handles, Steps, Takes, Mirrorless
<1>4. \A h \in Paths : Has(p, h)' <=> Has(p, h)
  BY <1>1, <1>2 DEF RInv, Placed, Has, Steps
<1> QED
  BY <1>1, <1>2, <1>3, <1>4, QuietStepKeeps DEF Wheres

\* It runs without a mirror where there can be none.
LEMMA SkipsMirrorKeeps ==
  ASSUME RInv, NEW p \in Starters, SkipsMirror(p)
  PROVE  RInv'
<1> USE DEF Claiming, InSection, NotUp, Paths
<1>1. at[p] = "judge" /\ Takes(p, judged[p], grave[p]) /\ setup' = setup /\ UNCHANGED files /\ path[p] \in Paths
  BY DEF Lock, RInv, Typed, Takes, SkipsMirror, Memory, ForgetsJudged
<1>2. Steps(p, "running", path[p]) /\ path[p] = "legacy" /\ ~setup.writable
  BY GoesThere DEF SkipsMirror, Mirrorless, Wheres
<1>3. Placed(p)' /\ Handles(p)'
  BY <1>1, <1>2 DEF RInv, Typed, Placed, Handles, Steps, Takes, Mirrorless
<1>4. \A h \in Paths : Has(p, h)' <=> Has(p, h)
  BY <1>1, <1>2 DEF RInv, Placed, Has, Steps
<1> QED
  BY <1>1, <1>2, <1>3, <1>4, QuietStepKeeps DEF Wheres

\* Where no claim is, it will try its own.
LEMMA FindsNoneKeeps ==
  ASSUME RInv, NEW p \in Starters, FindsNone(p)
  PROVE  RInv'
<1> USE DEF Claiming, InSection, NotUp, Paths
<1>1. at[p] = "judge" /\ Takes(p, judged[p], grave[p]) /\ setup' = setup /\ UNCHANGED files /\ path[p] \in Paths
  BY DEF Lock, RInv, Typed, Takes, FindsNone, Memory, ForgetsJudged
<1>2. Steps(p, "publish", path[p]) /\ ~Mirrorless(p)
  BY GoesThere DEF FindsNone, Wheres
<1>3. Placed(p)' /\ Handles(p)'
  BY <1>1, <1>2 DEF RInv, Typed, Placed, Handles, Steps, Takes, Mirrorless
<1>4. \A h \in Paths : Has(p, h)' <=> Has(p, h)
  BY <1>1, <1>2 DEF RInv, Placed, Has, Steps
<1> QED
  BY <1>1, <1>2, <1>3, <1>4, QuietStepKeeps DEF Wheres

\* The claim it remembers is somebody's.
LEMMA FindsStaleKeeps ==
  ASSUME RInv, NEW p \in Starters, FindsStale(p)
  PROVE  RInv'
<1> USE DEF Claiming, InSection, NotUp, Paths
<1>1. at[p] = "judge" /\ Takes(p, lockFile[path[p]], grave[p]) /\ setup' = setup /\ UNCHANGED files /\ path[p] \in Paths
  BY DEF Lock, RInv, Typed, Takes, FindsStale, Memory, ForgetsJudged
<1>2. Steps(p, "enter", path[p]) /\ ~Mirrorless(p) /\ lockFile[path[p]] # Nobody
  BY GoesThere DEF FindsStale, Lock, Wheres
<1>3. Placed(p)' /\ Handles(p)'
  BY <1>1, <1>2 DEF RInv, Typed, Placed, Handles, Steps, Takes, Mirrorless
<1>4. \A h \in Paths : Has(p, h)' <=> Has(p, h)
  BY <1>1, <1>2 DEF RInv, Placed, Has, Steps
<1> QED
  BY <1>1, <1>2, <1>3, <1>4, QuietStepKeeps DEF Wheres

\* Somebody else takes over.
LEMMA FindsRecoveryKeeps ==
  ASSUME RInv, NEW p \in Starters, FindsRecovery(p)
  PROVE  RInv'
<1> USE DEF Claiming, InSection, NotUp, Paths
<1>1. at[p] = "enter" /\ Takes(p, judged[p], grave[p]) /\ setup' = setup /\ UNCHANGED files /\ path[p] \in Paths
  BY DEF Lock, RInv, Typed, Takes, FindsRecovery, Memory, ForgetsJudged
<1>2. Steps(p, "wait", path[p])
  BY GoesThere DEF FindsRecovery, Wheres
<1>3. Placed(p)' /\ Handles(p)'
  BY <1>1, <1>2 DEF RInv, Typed, Placed, Handles, Steps, Takes, Mirrorless
<1>4. \A h \in Paths : Has(p, h)' <=> Has(p, h)
  BY <1>1, <1>2 DEF RInv, Placed, Has, Steps
<1> QED
  BY <1>1, <1>2, <1>3, <1>4, QuietStepKeeps DEF Wheres

\* It tries again, or was turned away.
LEMMA WaitEndsKeeps ==
  ASSUME RInv, NEW p \in Starters, WaitEnds(p)
  PROVE  RInv'
<1> USE DEF Claiming, InSection, NotUp, Paths
<1>1. at[p] = "wait" /\ Takes(p, Nobody, grave[p]) /\ setup' = setup /\ UNCHANGED files /\ path[p] \in Paths
  BY DEF Lock, RInv, Typed, Takes, WaitEnds, Memory, ForgetsJudged
<1>2. \/ Steps(p, "judge", path[p])
      \/ path[p] = "primary" /\ Steps(p, "stopped", "primary")
      \/ path[p] = "legacy" /\ Steps(p, "withdraw", "primary")
  BY GoesAgain DEF WaitEnds
<1>3. Placed(p)' /\ Handles(p)'
  BY <1>1, <1>2 DEF RInv, Typed, Placed, Handles, Steps, Takes, Mirrorless
<1>4. \A h \in Paths : Has(p, h)' <=> Has(p, h)
  BY <1>1, <1>2 DEF RInv, Placed, Has, Steps
<1> QED
  BY <1>1, <1>2, <1>3, <1>4, QuietStepKeeps DEF Wheres

\* Turned away.
LEMMA WaitTimesOutKeeps ==
  ASSUME RInv, NEW p \in Starters, WaitTimesOut(p)
  PROVE  RInv'
<1> USE DEF Claiming, InSection, NotUp, Paths
<1>1. at[p] = "wait" /\ Takes(p, Nobody, grave[p]) /\ setup' = setup /\ UNCHANGED files /\ path[p] \in Paths
  BY DEF Lock, RInv, Typed, Takes, WaitTimesOut, Memory, ForgetsJudged
<1>2. PICK w \in {"stopped", "withdraw"} :
        Steps(p, w, "primary") /\ (w = "stopped" <=> path[p] = "primary")
  BY GoesAway DEF WaitTimesOut
<1>3. Placed(p)' /\ Handles(p)'
  BY <1>1, <1>2 DEF RInv, Typed, Placed, Handles, Steps, Takes, Mirrorless
<1>4. \A h \in Paths : Has(p, h)' <=> Has(p, h)
  BY <1>1, <1>2 DEF RInv, Placed, Has, Steps
<1> QED
  BY <1>1, <1>2, <1>3, <1>4, QuietStepKeeps DEF Wheres

\* It goes on to remove the claim it judged only if its owner is dead.
LEMMA RejudgesKeeps ==
  ASSUME RInv, NEW p \in Starters, Rejudges(p)
  PROVE  RInv'
<1> USE DEF Claiming, InSection, NotUp, Paths
<1>1. at[p] = "rejudge" /\ Takes(p, judged[p], grave[p]) /\ setup' = setup /\ UNCHANGED files /\ path[p] \in Paths
  BY DEF Lock, RInv, Typed, Takes, Rejudges, Memory
<1>2. PICK w \in {"remove", "leave"} :
        /\ Steps(p, w, path[p])
        /\ w = "remove" => lockFile[path[p]] = judged[p] /\ ~HolderIsLive(p, path[p])
  BY GoesThere DEF Rejudges, Lock, Wheres
<1>3. Placed(p)'
  BY <1>1, <1>2 DEF RInv, Placed, Steps
<1>4. Handles(p)'
  <2>1. judged[p] \in Runtimes
    BY <1>1 DEF RInv, Typed, Handles
  <2>2. w = "remove" => at[judged[p]] = "dead"
    BY <1>1, <1>2, <2>1, StaleIsDead DEF RInv, Typed, Handles
  <2>3. w = "remove" => at'[judged[p]] = "dead"
    BY <1>1, <1>2, <2>1, <2>2 DEF Steps
  <2> QED
    BY <1>1, <1>2, <2>3 DEF RInv, Handles, Steps, Takes, files
<1>5. \A h \in Paths : Has(p, h)' <=> Has(p, h)
  BY <1>1, <1>2 DEF Has, Steps
<1> QED
  BY <1>1, <1>2, <1>3, <1>4, <1>5, QuietStepKeeps DEF Wheres

\* It gives back what it has, the primary lock first.
LEMMA StopsRuntimeKeeps ==
  ASSUME RInv, NEW p \in Starters, StopsRuntime(p)
  PROVE  RInv'
<1> USE DEF Claiming, InSection, NotUp, Paths
<1>1. at[p] = "running" /\ Takes(p, judged[p], grave[p]) /\ setup' = setup /\ UNCHANGED files /\ path[p] \in Paths
  BY DEF Lock, RInv, Typed, Takes, StopsRuntime, Memory, ForgetsJudged
<1>2. Steps(p, "release", "primary")
  BY DEF RInv, Typed, StopsRuntime, Goes, Steps, Runtimes, Wheres
<1>3. Placed(p)' /\ Handles(p)'
  BY <1>1, <1>2 DEF RInv, Typed, Placed, Handles, Steps, Takes, Mirrorless
<1>4. \A h \in Paths : Has(p, h)' <=> Has(p, h)
  BY <1>1, <1>2 DEF RInv, Placed, Has, Steps
<1> QED
  BY <1>1, <1>2, <1>3, <1>4, QuietStepKeeps DEF Wheres

-----------------------------------------------------------------------------
(* Those that write.                                                       *)

\* One that does not find the path free tries again; one that does has it.
LEMMA TriesClaimKeeps ==
  ASSUME RInv, NEW p \in Starters, TriesClaim(p)
  PROVE  RInv'
<1> USE DEF Claiming, InSection, NotUp, Paths
<1>1. at[p] = "publish" /\ Takes(p, judged[p], grave[p]) /\ path[p] \in Paths /\ setup' = setup
  BY DEF RInv, Typed, Takes, TriesClaim, Memory
<1>2. CASE lockFile[path[p]] = Nobody
  <2>1. PICK w \in {"judge", "running"} :
          Steps(p, w, "legacy") /\ (w = "judge" <=> path[p] = "primary")
    BY <1>2, GoesOn DEF TriesClaim, Lock
  <2>2. Writes(p)
    <3>1. UNCHANGED <<setup, recoveryFile>>
      BY DEF TriesClaim, Memory
    <3>2. /\ lockFile' = [lockFile EXCEPT ![path[p]] = p]
          /\ refreshed' = [refreshed EXCEPT ![path[p]] = TRUE]
      BY <1>2 DEF TriesClaim, Lock, Publishes, WritesLock
    <3> QED
      BY <1>1, <1>2, <3>1, <3>2 DEF RInv, Typed, Writes, Runtimes
  <2>3. Placed(p)' /\ Handles(p)'
    BY <2>1 DEF Placed, Handles, Steps
  <2>4. Named(p)'
    <3> SUFFICES ASSUME NEW h \in Paths
                 PROVE  /\ lockFile'[h] = p <=> Has(p, h)'
                        /\ recoveryFile'[h] # p
      BY <2>1 DEF Named, Steps
    <3>1. recoveryFile[h] # p /\ (lockFile[h] = p <=> path[p] = "legacy" /\ h = "primary")
      BY <1>1 DEF RInv, Named, Has
    <3>2. recoveryFile' = recoveryFile /\ (lockFile'[h] = p <=> lockFile[h] = p \/ h = path[p])
      BY <1>1, <1>2 DEF RInv, Typed, TriesClaim, Lock, Publishes, WritesLock
    <3>3. path[p] = "legacy" => setup.writable
      BY <1>1 DEF RInv, Placed
    <3>4. Has(p, h)' <=> h = "primary" \/ path[p] = "legacy"
      BY <1>1, <2>1, <3>3 DEF Has, Steps
    <3> QED
      BY <1>1, <3>1, <3>2, <3>4
  <2> QED
    BY <1>1, <2>1, <2>2, <2>3, <2>4, StepKeeps DEF Wheres
<1>3. CASE lockFile[path[p]] # Nobody
  <2>1. \/ Steps(p, "judge", path[p])
        \/ path[p] = "primary" /\ Steps(p, "stopped", "primary")
        \/ path[p] = "legacy" /\ Steps(p, "withdraw", "primary")
    BY <1>3, GoesAgain DEF TriesClaim, Lock
  <2>2. UNCHANGED files
    BY <1>3 DEF TriesClaim, Lock, files
  <2>3. Placed(p)' /\ Handles(p)'
    BY <2>1 DEF Placed, Handles, Steps
  <2>4. \A h \in Paths : Has(p, h)' <=> Has(p, h)
    BY <1>1, <2>1 DEF Has, Steps
  <2> QED
    BY <1>1, <2>1, <2>2, <2>3, <2>4, QuietStepKeeps DEF Wheres
<1> QED
  BY <1>2, <1>3

\* The recovery file lets one in.
LEMMA EntersRecoveryKeeps ==
  ASSUME RInv, NEW p \in Starters, EntersRecovery(p)
  PROVE  RInv'
<1> USE DEF Claiming, InSection, NotUp, Paths
<1>1. at[p] = "enter" /\ Takes(p, judged[p], grave[p]) /\ path[p] \in Paths /\ setup' = setup /\ lockFile' = lockFile
  BY DEF RInv, Typed, Takes, EntersRecovery, Memory
<1>2. Steps(p, "rejudge", path[p])
  BY GoesThere DEF EntersRecovery, Wheres
<1>3. Writes(p)
  BY DEF RInv, Typed, Writes, EntersRecovery, Recovery, Memory
<1>4. Placed(p)' /\ Handles(p)'
  BY <1>1, <1>2 DEF RInv, Placed, Handles, Steps, Takes
<1>5. Named(p)'
  <2> SUFFICES ASSUME NEW h \in Paths
               PROVE  /\ lockFile'[h] = p <=> Has(p, h)'
                      /\ recoveryFile'[h] = p <=> path[p] = h
    BY <1>2 DEF Named, Steps
  <2>1. recoveryFile[h] # p /\ (lockFile[h] = p <=> Has(p, h))
    BY <1>1 DEF RInv, Named
  <2>2. Has(p, h)' <=> Has(p, h)
    BY <1>1, <1>2 DEF Has, Steps
  <2> QED
    BY <1>1, <2>1, <2>2 DEF RInv, Typed, EntersRecovery
<1> QED
  BY <1>1, <1>2, <1>3, <1>4, <1>5, StepKeeps DEF Wheres

\* It lets the next one in.
LEMMA LeavesRecoveryKeeps ==
  ASSUME RInv, NEW p \in Starters, LeavesRecovery(p)
  PROVE  RInv'
<1> USE DEF Claiming, InSection, NotUp, Paths
<1>1. at[p] \in {"leave", "leave with it"} /\ Takes(p, Nobody, grave[p]) /\ path[p] \in Paths /\ setup' = setup /\ lockFile' = lockFile
  BY DEF RInv, Typed, Takes, LeavesRecovery, ForgetsJudged
<1>2. PICK w \in {"judge", "stopped", "withdraw", "running"}, f \in Paths :
        /\ Steps(p, w, f)
        /\ at[p] = "leave" =>
             \/ w = "judge" /\ f = path[p]
             \/ w = "stopped" /\ path[p] = "primary" /\ f = "primary"
             \/ w = "withdraw" /\ path[p] = "legacy" /\ f = "primary"
        /\ at[p] = "leave with it" =>
             \/ w = "judge" /\ path[p] = "primary" /\ f = "legacy"
             \/ w = "running" /\ path[p] = "legacy" /\ f = "legacy"
  BY <1>1, GoesAgain, GoesOn DEF LeavesRecovery
<1>3. \A h \in Paths : recoveryFile[h] = p <=> h = path[p]
  BY <1>1 DEF RInv, Named
<1>4. Writes(p)
  <2>1. UNCHANGED <<setup, lockFile, refreshed>>
    BY DEF LeavesRecovery
  <2>2. \A h \in Paths : recoveryFile'[h] = IF h = path[p] THEN Nobody ELSE recoveryFile[h]
    BY <1>1 DEF RInv, Typed, LeavesRecovery
  <2>3. recoveryFile' \in [Paths -> Starters \cup {Nobody}]
    BY <1>1 DEF RInv, Typed, LeavesRecovery
  <2> QED
    BY <1>3, <2>1, <2>2, <2>3 DEF RInv, Typed, Writes
<1>5. Placed(p)' /\ Handles(p)'
  BY <1>1, <1>2 DEF Placed, Handles, Steps
<1>6. Named(p)'
  <2> SUFFICES ASSUME NEW h \in Paths
               PROVE  /\ lockFile'[h] = p <=> Has(p, h)'
                      /\ recoveryFile'[h] # p
    BY <1>2 DEF Named, Steps
  <2>1. lockFile[h] = p <=> Has(p, h)
    BY <1>1 DEF RInv, Named
  <2>2. Has(p, h)' <=> Has(p, h)
    <3>1. path[p] = "legacy" => setup.writable
      BY <1>1 DEF RInv, Placed
    <3> QED
      BY <1>1, <1>2, <3>1 DEF Has, Steps
  <2>3. recoveryFile'[h] # p
    <3>1. recoveryFile'[h] = IF h = path[p] THEN Nobody ELSE recoveryFile[h]
      BY DEF RInv, Typed, LeavesRecovery
    <3> QED
      BY <1>3, <3>1, LockfileAssumption DEF Runtimes
  <2> QED
    BY <1>1, <2>1, <2>2, <2>3
<1> QED
  BY <1>1, <1>2, <1>4, <1>5, <1>6, StepKeeps DEF Wheres

\* removeLockIfUnchanged: what is renamed away is what was expected.
LEMMA BuriesKeeps ==
  ASSUME RInv, NEW p \in Starters, NEW next \in Wheres, NEW gone,
         Buries(p, next, gone), lockFile[path[p]] # Nobody,
         lockFile[path[p]] = p \/ at[p] = "remove"
  PROVE  /\ Writes(p) /\ Takes(p, judged[p], lockFile[path[p]])
         /\ Goes(p, next) /\ recoveryFile' = recoveryFile
         /\ \A h \in Paths : lockFile'[h] = IF h = path[p] THEN Nobody ELSE lockFile[h]
<1>1. /\ lockFile' = [lockFile EXCEPT ![path[p]] = Nobody]
      /\ grave' = [grave EXCEPT ![p] = lockFile[path[p]]]
      /\ Goes(p, next)
      /\ UNCHANGED <<setup, refreshed, recoveryFile, judged>>
  BY DEF Buries, Lock, WritesLock
<1>2. path[p] \in Paths /\ lockFile[path[p]] \in Runtimes \cup {Nobody}
  BY DEF RInv, Typed
<1>3. Takes(p, judged[p], lockFile[path[p]])
  BY <1>1, <1>2 DEF RInv, Typed, Takes
<1>4. \A h \in Paths : lockFile'[h] = IF h = path[p] THEN Nobody ELSE lockFile[h]
  BY <1>1, <1>2 DEF RInv, Typed
<1>5. Writes(p)
  BY <1>1, <1>2, <1>4 DEF RInv, Typed, Writes
<1> QED
  BY <1>1, <1>3, <1>4, <1>5

\* So the comparison never links another's claim back.
LEMMA ComparesKeeps ==
  ASSUME RInv, NEW p \in Starters, NEW expected, NEW removed \in Wheres, NEW kept,
         Compares(p, expected, removed, kept), grave[p] = expected
  PROVE  /\ Takes(p, judged[p], Nobody) /\ Goes(p, removed)
         /\ setup' = setup /\ UNCHANGED files
<1>1. /\ grave' = [grave EXCEPT ![p] = Nobody] /\ Goes(p, removed)
      /\ UNCHANGED <<setup, lockFile, refreshed, recoveryFile, judged>>
  BY DEF Compares
<1> QED
  BY <1>1 DEF RInv, Typed, Takes, files

\* What it renames away is the dead one's claim it judged.
LEMMA BuriesStaleKeeps ==
  ASSUME RInv, NEW p \in Starters, BuriesStale(p)
  PROVE  RInv'
<1> USE DEF Claiming, InSection, NotUp, Paths
<1>1. at[p] = "remove" /\ path[p] \in Paths
  BY DEF RInv, Typed, BuriesStale
<1>2. /\ lockFile[path[p]] = judged[p] /\ judged[p] # Nobody /\ at[judged[p]] = "dead"
  BY <1>1 DEF RInv, Handles
<1>3. /\ Writes(p) /\ Takes(p, judged[p], judged[p]) /\ recoveryFile' = recoveryFile
      /\ \A h \in Paths : lockFile'[h] = IF h = path[p] THEN Nobody ELSE lockFile[h]
      /\ Steps(p, "compare", path[p])
  <2>1. "compare" \in Wheres
    BY DEF Wheres
  <2> QED
    BY <1>1, <1>2, <2>1, BuriesKeeps, GoesThere DEF BuriesStale
<1>4. Placed(p)' /\ Handles(p)'
  BY <1>1, <1>2, <1>3 DEF RInv, Placed, Handles, Steps, Takes, Writes
<1>5. Named(p)'
  <2> SUFFICES ASSUME NEW h \in Paths
               PROVE  /\ lockFile'[h] = p <=> Has(p, h)'
                      /\ recoveryFile'[h] = p <=> path[p] = h
    BY <1>3 DEF Named, Steps
  <2>1. (lockFile[h] = p <=> Has(p, h)) /\ (recoveryFile[h] = p <=> path[p] = h)
    BY <1>1 DEF RInv, Named
  <2>2. Has(p, h)' <=> Has(p, h)
    BY <1>1, <1>3 DEF Has, Steps, Writes
  <2>3. lockFile'[h] = p <=> lockFile[h] = p
    BY <1>1, <1>2, <1>3, LockfileAssumption DEF Runtimes
  <2> QED
    BY <1>3, <2>1, <2>2, <2>3
<1> QED
  BY <1>1, <1>3, <1>4, <1>5, StepKeeps DEF Wheres

\* So it finds what it expected, and may claim the path.
LEMMA ComparesStaleKeeps ==
  ASSUME RInv, NEW p \in Starters, ComparesStale(p)
  PROVE  RInv'
<1> USE DEF Claiming, InSection, NotUp, Paths
<1>1. at[p] = "compare" /\ path[p] \in Paths /\ grave[p] = judged[p]
  BY DEF RInv, Typed, ComparesStale, Handles
<1>2. /\ Takes(p, judged[p], Nobody) /\ setup' = setup /\ UNCHANGED files
      /\ Steps(p, "reclaim", path[p])
  <2>1. "reclaim" \in Wheres
    BY DEF Wheres
  <2> QED
    BY <1>1, <2>1, ComparesKeeps, GoesThere DEF ComparesStale
<1>3. Placed(p)' /\ Handles(p)'
  BY <1>1, <1>2 DEF RInv, Placed, Handles, Steps
<1>4. \A h \in Paths : Has(p, h)' <=> Has(p, h)
  BY <1>1, <1>2 DEF Has, Steps
<1> QED
  BY <1>1, <1>2, <1>3, <1>4, QuietStepKeeps DEF Wheres

\* Another may have been faster; then it leaves and tries again.
LEMMA ReclaimsKeeps ==
  ASSUME RInv, NEW p \in Starters, Reclaims(p)
  PROVE  RInv'
<1> USE DEF Claiming, InSection, NotUp, Paths
<1>1. /\ at[p] = "reclaim" /\ path[p] \in Paths
      /\ Takes(p, judged[p], grave[p]) /\ setup' = setup
  BY DEF RInv, Typed, Reclaims, Takes, Memory
<1>2. CASE lockFile[path[p]] = Nobody
  <2>1. Steps(p, "leave with it", path[p])
    BY <1>2, GoesThere DEF Reclaims, Lock, Wheres
  <2>2. Writes(p)
    <3>1. /\ lockFile' = [lockFile EXCEPT ![path[p]] = p]
          /\ refreshed' = [refreshed EXCEPT ![path[p]] = TRUE]
          /\ recoveryFile' = recoveryFile
      BY <1>2 DEF Reclaims, Lock, Publishes, WritesLock
    <3> QED
      BY <1>1, <1>2, <3>1 DEF RInv, Typed, Writes, Runtimes
  <2>3. Placed(p)' /\ Handles(p)'
    BY <1>1, <2>1 DEF RInv, Placed, Handles, Steps
  <2>4. Named(p)'
    <3> SUFFICES ASSUME NEW h \in Paths
                 PROVE  /\ lockFile'[h] = p <=> Has(p, h)'
                        /\ recoveryFile'[h] = p <=> path[p] = h
      BY <2>1 DEF Named, Steps
    <3>1. (lockFile[h] = p <=> Has(p, h)) /\ (recoveryFile[h] = p <=> path[p] = h)
      BY <1>1 DEF RInv, Named
    <3>2. recoveryFile' = recoveryFile /\ (lockFile'[h] = p <=> lockFile[h] = p \/ h = path[p])
      BY <1>1, <1>2 DEF RInv, Typed, Reclaims, Lock, Publishes, WritesLock
    <3>3. Has(p, h)' <=> Has(p, h) \/ h = path[p]
      BY <1>1, <2>1 DEF Has, Steps
    <3> QED
      BY <3>1, <3>2, <3>3
  <2> QED
    BY <1>1, <2>1, <2>2, <2>3, <2>4, StepKeeps DEF Wheres
<1>3. CASE lockFile[path[p]] # Nobody
  <2>1. Steps(p, "leave", path[p]) /\ UNCHANGED files
    BY <1>3, GoesThere DEF Reclaims, Lock, Wheres, files
  <2>2. Placed(p)' /\ Handles(p)'
    BY <1>1, <2>1 DEF RInv, Placed, Handles, Steps
  <2>3. \A h \in Paths : Has(p, h)' <=> Has(p, h)
    BY <1>1, <2>1 DEF Has, Steps
  <2> QED
    BY <1>1, <2>1, <2>2, <2>3, QuietStepKeeps DEF Wheres
<1> QED
  BY <1>2, <1>3

\* A starter that gives a lock back has it.
LEMMA ReleasesLockKeeps ==
  ASSUME RInv, NEW p \in Starters, ReleasesLock(p)
  PROVE  RInv'
<1> USE DEF Claiming, InSection, NotUp, Paths
<1>1. at[p] = "release" /\ path[p] \in Paths
  BY DEF RInv, Typed, ReleasesLock
<1>2. /\ path[p] = "legacy" => setup.writable
      /\ \A h \in Paths : (lockFile[h] = p <=> Has(p, h)) /\ recoveryFile[h] # p
  BY <1>1 DEF RInv, Placed, Named
<1>3. lockFile[path[p]] = p /\ p # Nobody
  BY <1>1, <1>2, LockfileAssumption DEF Has, Runtimes
<1>4. /\ Writes(p) /\ Takes(p, judged[p], p) /\ recoveryFile' = recoveryFile
      /\ \A h \in Paths : lockFile'[h] = IF h = path[p] THEN Nobody ELSE lockFile[h]
      /\ Steps(p, "released", path[p])
  <2>1. "released" \in Wheres
    BY DEF Wheres
  <2>2. Stays(p)
    BY <1>3 DEF ReleasesLock, Stays, Lock
  <2> QED
    BY <1>3, <2>1, <2>2, BuriesKeeps, GoesThere DEF ReleasesLock
<1>5. Placed(p)' /\ Handles(p)'
  BY <1>4 DEF Placed, Handles, Steps, Takes
<1>6. Named(p)'
  <2>1. \A h \in Paths : Has(p, h)' <=> Has(p, h) /\ h # path[p]
    BY <1>1, <1>4 DEF Has, Steps, Writes
  <2> QED
    BY <1>2, <1>3, <1>4, <2>1 DEF Named, Steps
<1> QED
  BY <1>1, <1>4, <1>5, <1>6, StepKeeps DEF Wheres

\* After the primary lock comes the mirror, where there is one.
LEMMA LockReleasedKeeps ==
  ASSUME RInv, NEW p \in Starters, LockReleased(p)
  PROVE  RInv'
<1> USE DEF Claiming, InSection, NotUp, Paths
<1>1. at[p] = "released" /\ path[p] \in Paths /\ grave[p] = p
  BY DEF RInv, Typed, LockReleased, Handles
<1>2. Released(p) \in {"stopped", "release"} /\ {"stopped", "release"} \subseteq Wheres
  BY DEF Released, Wheres
<1>3. Takes(p, judged[p], Nobody) /\ setup' = setup /\ UNCHANGED files /\ Goes(p, Released(p))
  BY <1>1, <1>2, ComparesKeeps DEF LockReleased
<1>4. Steps(p, Released(p), "legacy")
  BY <1>2, <1>3 DEF RInv, Typed, LockReleased, Goes, Steps, Runtimes
<1>5. Placed(p)' /\ Handles(p)'
  BY <1>2, <1>3, <1>4 DEF Placed, Handles, Steps, Released
<1>6. \A h \in Paths : Has(p, h)' <=> Has(p, h)
  BY <1>1, <1>3, <1>4 DEF Has, Steps, Released
<1> QED
  BY <1>1, <1>2, <1>3, <1>4, <1>5, <1>6, QuietStepKeeps

\* A starter that withdraws gives back the primary lock, its only one.
LEMMA WithdrawsKeeps ==
  ASSUME RInv, NEW p \in Starters, Withdraws(p)
  PROVE  RInv'
<1> USE DEF Claiming, InSection, NotUp, Paths
<1>1. at[p] = "withdraw" /\ path[p] = "primary"
  BY DEF RInv, Placed, Withdraws
<1>2. \A h \in Paths : (lockFile[h] = p <=> Has(p, h)) /\ recoveryFile[h] # p
  BY <1>1 DEF RInv, Named
<1>3. lockFile[path[p]] = p /\ p # Nobody
  BY <1>1, <1>2, LockfileAssumption DEF Has, Runtimes
<1>4. /\ Writes(p) /\ Takes(p, judged[p], p) /\ recoveryFile' = recoveryFile
      /\ \A h \in Paths : lockFile'[h] = IF h = path[p] THEN Nobody ELSE lockFile[h]
      /\ Steps(p, "withdrawn", path[p])
  <2>1. "withdrawn" \in Wheres
    BY DEF Wheres
  <2> QED
    BY <1>3, <2>1, BuriesKeeps, GoesThere DEF Withdraws
<1>5. Placed(p)' /\ Handles(p)'
  BY <1>1, <1>4 DEF Placed, Handles, Steps, Takes
<1>6. Named(p)'
  <2>1. \A h \in Paths : ~Has(p, h)' /\ (Has(p, h) <=> h = path[p])
    BY <1>1, <1>4 DEF Has, Steps, Writes
  <2> QED
    BY <1>2, <1>3, <1>4, <2>1 DEF Named, Steps
<1> QED
  BY <1>1, <1>4, <1>5, <1>6, StepKeeps DEF Wheres

\* And is stopped with nothing left.
LEMMA WithdrawnKeeps ==
  ASSUME RInv, NEW p \in Starters, Withdrawn(p)
  PROVE  RInv'
<1> USE DEF Claiming, InSection, NotUp, Paths
<1>1. at[p] = "withdrawn" /\ path[p] = "primary" /\ grave[p] = p
  BY DEF RInv, Placed, Handles, Withdrawn
<1>2. Takes(p, judged[p], Nobody) /\ setup' = setup /\ UNCHANGED files /\ Steps(p, "stopped", path[p])
  <2>1. "stopped" \in Wheres
    BY DEF Wheres
  <2> QED
    BY <1>1, <2>1, ComparesKeeps, GoesThere DEF Withdrawn
<1>3. Placed(p)' /\ Handles(p)'
  BY <1>1, <1>2 DEF Placed, Handles, Steps
<1>4. \A h \in Paths : Has(p, h)' <=> Has(p, h)
  BY <1>1, <1>2 DEF Has, Steps
<1> QED
  BY <1>1, <1>2, <1>3, <1>4, QuietStepKeeps DEF Wheres

-----------------------------------------------------------------------------
(* The steps of the others.                                                *)

\* A death takes no file along, and frees the judgements of nobody.
LEMMA RuntimeDiesKeeps ==
  ASSUME RInv, NEW r \in Runtimes, RuntimeDies(r)
  PROVE  RInv'
<1>1. /\ at' \in [Runtimes -> Wheres] /\ at'[r] = "dead" /\ at[r] # "dead"
      /\ \A q \in Runtimes \ {r} : at'[q] = at[q]
  BY DEF RInv, Typed, RuntimeDies, Alive, Goes, NotUp, Wheres
<1>2. UNCHANGED <<setup, lockFile, refreshed, recoveryFile, path, attempt>>
  BY DEF RuntimeDies, files
<1>3. /\ judged' \in [Starters -> Runtimes \cup {Nobody}]
      /\ grave' \in [Starters -> Runtimes \cup {Nobody}]
      /\ \A q \in Starters \ {r} : judged'[q] = judged[q] /\ grave'[q] = grave[q]
  BY DEF RInv, Typed, RuntimeDies
<1>4. Typed'
  BY <1>1, <1>2, <1>3 DEF RInv, Typed
<1>5. Fresh'
  BY <1>1, <1>2 DEF RInv, Typed, Fresh, NotUp
<1>6. Others'
  BY <1>1, <1>2 DEF RInv, Others, Runtimes
<1>7. ASSUME NEW q \in Starters
      PROVE  Placed(q)' /\ Named(q)' /\ Handles(q)'
  <2>1. CASE q = r
    BY <1>1, <2>1 DEF Placed, Named, Handles, Claiming, InSection
  <2>2. CASE q # r
    <3>1. at'[q] = at[q] /\ path'[q] = path[q] /\ judged'[q] = judged[q] /\ grave'[q] = grave[q]
      BY <1>1, <1>2, <1>3, <2>2 DEF Runtimes
    <3>2. Placed(q)' /\ \A h \in Paths : Has(q, h)' <=> Has(q, h)
      BY <1>2, <3>1 DEF RInv, Placed, Has
    <3>3. Named(q)'
      BY <1>2, <3>1, <3>2 DEF RInv, Named
    <3>4. at[q] = "remove" => at'[judged[q]] = "dead"
      BY <1>1 DEF RInv, Typed, Handles
    <3>5. Handles(q)'
      BY <1>2, <3>1, <3>4 DEF RInv, Handles
    <3> QED
      BY <3>2, <3>3, <3>5
  <2> QED
    BY <2>1, <2>2
<1> QED
  BY <1>4, <1>5, <1>6, <1>7 DEF RInv

\* Only a lock that no live owner refreshes ages.
LEMMA LockAgesKeeps ==
  ASSUME RInv, NEW f \in Paths, LockAges(f)
  PROVE  RInv'
<1>1. UNCHANGED <<setup, lockFile, recoveryFile, at, path, attempt, judged, grave>>
  BY DEF LockAges
<1>2. Typed'
  BY <1>1 DEF RInv, Typed, LockAges
<1>3. Fresh'
  BY <1>1 DEF RInv, Typed, Fresh, LockAges, Alive
<1>4. Others'
  BY <1>1 DEF RInv, Others
<1>5. ASSUME NEW q \in Starters
      PROVE  Placed(q)' /\ Named(q)' /\ Handles(q)'
  <2>1. \A h \in Paths : Has(q, h)' <=> Has(q, h)
    BY <1>1 DEF Has
  <2>2. Named(q)'
    BY <1>1, <2>1 DEF RInv, Named
  <2> QED
    BY <1>1, <2>2 DEF RInv, Placed, Handles
<1> QED
  BY <1>2, <1>3, <1>4, <1>5 DEF RInv

\* A step of an older version, which changes the legacy lock to or from itself.
LEMMA ElderKeeps ==
  ASSUME RInv, NEW e \in Elders, NEW w \in {"running", "stopped"},
         at[e] \in {"unborn", "running"}, Goes(e, w),
         UNCHANGED <<setup, recoveryFile, path, attempt, judged, grave>>,
         lockFile' \in [Paths -> Runtimes \cup {Nobody}], refreshed' \in [Paths -> BOOLEAN],
         lockFile'["primary"] = lockFile["primary"], refreshed'["primary"] = refreshed["primary"],
         w = "running" => /\ lockFile["legacy"] = Nobody /\ lockFile'["legacy"] = e
                          /\ refreshed'["legacy"] /\ setup.elders /\ setup.writable,
         w = "stopped" => /\ lockFile["legacy"] = e /\ lockFile'["legacy"] = Nobody
                          /\ refreshed'["legacy"] = refreshed["legacy"]
  PROVE  RInv'
<1>1. e \in Runtimes \ Starters /\ e # Nobody
  BY LockfileAssumption DEF Runtimes
<1>2. at' \in [Runtimes -> Wheres] /\ at'[e] = w /\ \A q \in Runtimes \ {e} : at'[q] = at[q]
  BY <1>1 DEF RInv, Typed, Goes, Wheres, NotUp
<1>3. Typed'
  BY <1>2 DEF RInv, Typed
<1>4. Fresh'
  <2> SUFFICES ASSUME NEW h \in Paths, lockFile'[h] # Nobody, at'[lockFile'[h]] \notin NotUp
               PROVE  refreshed'[h]
    BY DEF Fresh
  <2>1. CASE h = "legacy" /\ w = "running"
    BY <2>1
  <2>2. CASE h = "primary" \/ w = "stopped"
    <3>1. lockFile'[h] = lockFile[h] /\ refreshed'[h] = refreshed[h] /\ lockFile[h] \in Runtimes
      BY <2>2 DEF RInv, Typed, Paths
    <3>2. lockFile[h] # e
      BY <1>2, <2>2, <3>1 DEF RInv, Others, NotUp, Paths
    <3> QED
      BY <1>2, <3>1, <3>2 DEF RInv, Fresh
  <2> QED
    BY <2>1, <2>2 DEF Paths
<1>5. Others'
  <2>1. e # Former /\ at'[Former] = "dead"
    BY <1>2 DEF RInv, Others, Runtimes
  <2>2. ASSUME NEW d \in Elders, at'[d] # "dead"
        PROVE  /\ at'[d] \in {"unborn", "running", "stopped"}
               /\ lockFile'["primary"] # d
               /\ lockFile'["legacy"] = d <=> at'[d] = "running"
               /\ at'[d] = "running" => setup.elders /\ setup.writable
    <3>1. CASE d = e
      BY <1>1, <1>2, <3>1 DEF RInv, Others
    <3>2. CASE d # e
      <4>1. at'[d] = at[d] /\ d # Nobody
        BY <1>2, <3>2, LockfileAssumption DEF Runtimes
      <4> QED
        BY <2>2, <3>2, <4>1 DEF RInv, Others
    <3> QED
      BY <3>1, <3>2
  <2> QED
    BY <2>1, <2>2 DEF Others
<1>6. ASSUME NEW q \in Starters
      PROVE  Placed(q)' /\ Named(q)' /\ Handles(q)'
  <2>1. at'[q] = at[q] /\ q # e /\ q # Nobody
    BY <1>1, <1>2, LockfileAssumption DEF Runtimes
  <2>2. Placed(q)' /\ \A h \in Paths : Has(q, h)' <=> Has(q, h)
    BY <2>1 DEF RInv, Placed, Has
  <2>3. \A h \in Paths : lockFile'[h] = q <=> lockFile[h] = q
    BY <2>1 DEF Paths
  <2>4. Named(q)'
    BY <2>1, <2>2, <2>3 DEF RInv, Named
  <2>5. at[q] = "remove" => lockFile'[path[q]] = lockFile[path[q]] /\ at'[judged[q]] = "dead"
    BY <1>1, <1>2 DEF RInv, Typed, Handles, Paths
  <2>6. Handles(q)'
    BY <2>1, <2>5 DEF RInv, Handles
  <2> QED
    BY <2>2, <2>4, <2>6
<1> QED
  BY <1>3, <1>4, <1>5, <1>6 DEF RInv

\* It takes a free path.
LEMMA ElderStartsKeeps ==
  ASSUME RInv, NEW e \in Elders, ElderStarts(e)
  PROVE  RInv'
<1>1. e \in Runtimes /\ at[e] = "unborn"
  BY DEF Runtimes, ElderStarts
<1>2. /\ lockFile' = [lockFile EXCEPT !["legacy"] = e]
      /\ refreshed' = [refreshed EXCEPT !["legacy"] = TRUE]
      /\ lockFile["legacy"] = Nobody /\ setup.elders /\ setup.writable
      /\ Goes(e, "running") /\ UNCHANGED <<setup, recoveryFile, path, attempt, judged, grave>>
  BY DEF ElderStarts
<1>3. /\ lockFile' \in [Paths -> Runtimes \cup {Nobody}] /\ refreshed' \in [Paths -> BOOLEAN]
      /\ lockFile'["primary"] = lockFile["primary"] /\ refreshed'["primary"] = refreshed["primary"]
      /\ lockFile'["legacy"] = e /\ refreshed'["legacy"]
  BY <1>1, <1>2 DEF RInv, Typed, Paths
<1> QED
  BY <1>1, <1>2, <1>3, ElderKeeps

\* It gives back what it has.
LEMMA ElderStopsKeeps ==
  ASSUME RInv, NEW e \in Elders, ElderStops(e)
  PROVE  RInv'
<1>1. e \in Runtimes /\ at[e] = "running" /\ lockFile["legacy"] = e
  BY DEF RInv, Others, Runtimes, ElderStops
<1>2. /\ lockFile' = [lockFile EXCEPT !["legacy"] = Nobody]
      /\ Goes(e, "stopped") /\ UNCHANGED <<setup, refreshed, recoveryFile, path, attempt, judged, grave>>
  BY <1>1 DEF ElderStops
<1>3. /\ lockFile' \in [Paths -> Runtimes \cup {Nobody}] /\ refreshed' \in [Paths -> BOOLEAN]
      /\ lockFile'["primary"] = lockFile["primary"] /\ lockFile'["legacy"] = Nobody
  BY <1>2 DEF RInv, Typed, Paths
<1> QED
  BY <1>1, <1>2, <1>3, ElderKeeps

-----------------------------------------------------------------------------
\* What a dead runtime left is all there is.
LEMMA RInvInit == RuntimeInit => RInv
<1> SUFFICES ASSUME RuntimeInit PROVE RInv
  OBVIOUS
<1>1. Typed
  <2>1. Former \in Runtimes /\ 1 \in 1..MaxAttempts
    BY LockfileAssumption DEF Runtimes
  <2>2. {"primary"} \subseteq Paths /\ {"dead", "unborn"} \subseteq Wheres
    BY DEF Paths, Wheres, NotUp
  <2> QED
    BY <2>1, <2>2 DEF RuntimeInit, Typed
<1>2. /\ \A r \in Runtimes : at[r] = IF r = Former THEN "dead" ELSE "unborn"
      /\ \A f \in Paths : lockFile[f] \in {Nobody, Former} /\ recoveryFile[f] = Nobody
      /\ \A p \in Starters : path[p] = "primary"
  BY DEF RuntimeInit
<1>3. Fresh
  BY <1>2 DEF Fresh, NotUp, Runtimes
<1>4. Others
  BY <1>2, LockfileAssumption DEF Others, Runtimes, Paths
<1>5. ASSUME NEW p \in Starters
      PROVE  Placed(p) /\ Named(p) /\ Handles(p)
  <2>1. at[p] = "unborn" /\ path[p] = "primary" /\ p # Nobody /\ p # Former
    BY <1>2, LockfileAssumption DEF Runtimes
  <2>2. Placed(p) /\ Handles(p)
    BY <2>1 DEF Placed, Handles, Claiming, InSection
  <2>3. Named(p)
    BY <1>2, <2>1 DEF Named, Has, Claiming, InSection
  <2> QED
    BY <2>2, <2>3
<1> QED
  BY <1>1, <1>3, <1>4, <1>5 DEF RInv

\* One step of whoever takes it.
LEMMA RInvNext == RInv /\ [RuntimeNext]_rvars => RInv'
<1> SUFFICES ASSUME RInv, [RuntimeNext]_rvars PROVE RInv'
  OBVIOUS
<1>1. ASSUME NEW p \in Starters,
             \/ LooksAtLegacy(p) \/ FindsHolder(p) \/ SkipsMirror(p) \/ FindsNone(p) \/ FindsStale(p)
             \/ TriesClaim(p) \/ EntersRecovery(p) \/ FindsRecovery(p) \/ WaitEnds(p) \/ WaitTimesOut(p)
      PROVE  RInv'
  BY <1>1, LooksAtLegacyKeeps, FindsHolderKeeps, SkipsMirrorKeeps, FindsNoneKeeps, FindsStaleKeeps,
     TriesClaimKeeps, EntersRecoveryKeeps, FindsRecoveryKeeps, WaitEndsKeeps, WaitTimesOutKeeps
<1>2. ASSUME NEW p \in Starters,
             \/ Rejudges(p) \/ BuriesStale(p) \/ ComparesStale(p) \/ Reclaims(p) \/ LeavesRecovery(p)
             \/ StopsRuntime(p) \/ ReleasesLock(p) \/ LockReleased(p) \/ Withdraws(p) \/ Withdrawn(p)
      PROVE  RInv'
  BY <1>2, RejudgesKeeps, BuriesStaleKeeps, ComparesStaleKeeps, ReclaimsKeeps, LeavesRecoveryKeeps,
     StopsRuntimeKeeps, ReleasesLockKeeps, LockReleasedKeeps, WithdrawsKeeps, WithdrawnKeeps
<1>3. CASE UNCHANGED rvars
  <2>1. Typed' /\ Fresh' /\ Others'
    BY <1>3 DEF RInv, Typed, Fresh, Others, rvars
  <2>2. ASSUME NEW q \in Starters
        PROVE  Placed(q)' /\ Named(q)' /\ Handles(q)'
    <3>1. \A h \in Paths : Has(q, h)' <=> Has(q, h)
      BY <1>3 DEF Has, rvars
    <3>2. Named(q)'
      BY <1>3, <3>1 DEF RInv, Named, rvars
    <3> QED
      BY <1>3, <3>2 DEF RInv, Placed, Handles, rvars
  <2> QED
    BY <2>1, <2>2 DEF RInv
<1> QED
  BY <1>1, <1>2, <1>3, RuntimeDiesKeeps, LockAgesKeeps, ElderStartsKeeps, ElderStopsKeeps DEF RuntimeNext

-----------------------------------------------------------------------------
(* What follows.                                                           *)

\* The files name runtimes and nobody else, and every claim that was judged or
\* renamed away was written by one (the records of runtime-lock.ts).
THEOREM RuntimeTyped == RuntimeSpec => []RuntimeTypeOK
<1>1. RInv => RuntimeTypeOK
  BY DEF RInv, Typed, RuntimeTypeOK
<1> QED
  BY <1>1, RInvInit, RInvNext, PTL DEF RuntimeSpec

\* Two runtimes never run at once, through any takeover of a stale lock by any
\* number of starters on any machines, with older versions among them or not.
THEOREM OneRuntimeEver == RuntimeSpec => []OneRuntime
<1>1. ASSUME RInv PROVE OneRuntime
  <2>1. \A p \in Running \cap Starters :
          lockFile["primary"] = p /\ (setup.writable => lockFile["legacy"] = p)
    BY <1>1 DEF RInv, Named, Has, Paths, Running
  <2>2. \A e \in Running \ Starters : e \in Elders /\ lockFile["legacy"] = e /\ setup.writable
    BY <1>1 DEF RInv, Others, Running, Runtimes
  <2>3. \A r, s \in Running : r = s
    BY <2>1, <2>2
  <2>4. Cardinality(Running) <= 1
    <3>1. CASE Running = {}
      BY <3>1, FS_EmptySet
    <3>2. CASE \E r \in Running : TRUE
      <4>1. PICK r \in Running : Running = {r}
        BY <2>3, <3>2
      <4>2. Cardinality({r}) = 1
        BY FS_Singleton
      <4> QED
        BY <4>1, <4>2
    <3> QED
      BY <3>1, <3>2
  <2> QED
    BY <2>1, <2>4 DEF OneRuntime
<1> QED
  BY <1>1, RInvInit, RInvNext, PTL DEF RuntimeSpec

\* Whoever was turned away or stopped is in no file, and the section in which a
\* stale lock is taken over is its own whom the recovery file names.
THEOREM NothingIsLeftBehind == RuntimeSpec => []NothingLeftBehind
<1>1. ASSUME RInv PROVE NothingLeftBehind
  <2>1. \A p \in Starters : at[p] = "stopped" =>
          \A f \in Paths : lockFile[f] # p /\ recoveryFile[f] # p
    <3> SUFFICES ASSUME NEW p \in Starters, at[p] = "stopped", NEW f \in Paths
                 PROVE  lockFile[f] # p /\ recoveryFile[f] # p
      OBVIOUS
    <3>1. ~Has(p, f) /\ at[p] \notin InSection
      BY DEF Has, Claiming, InSection
    <3> QED
      BY <1>1, <3>1 DEF RInv, Named
  <2>2. \A p \in Starters : InRecovery(p) => recoveryFile[path[p]] = p
    BY <1>1 DEF RInv, Typed, Named, InRecovery, InSection
  <2> QED
    BY <2>1, <2>2 DEF NothingLeftBehind
<1> QED
  BY <1>1, RInvInit, RInvNext, PTL DEF RuntimeSpec

==============================================================================
