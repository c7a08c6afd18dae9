----------------------------- MODULE Deployment -----------------------------
(* Deploying with a person's approval: the deploy trigger, the approval      *)
(* queue, the bridge between them and the executor (src/daemon/triggers/     *)
(* deploy-trigger.ts, deploy-approval-bridge.ts, security/approval-queue.ts, *)
(* deployment/deployment-executor.ts). The log and the queue are tables;     *)
(* everything else is memory that a crash forgets. Whether the heartbeat's   *)
(* own gates let a tick through to the trigger is left open here.            *)
EXTENDS CircuitBreaker

CONSTANTS MaxProposals, MaxChecks  \* bounds

ASSUME DeployAssumption == MaxProposals \in Nat \ {0} /\ MaxChecks \in Nat

VARIABLES log,       \* status of each row of deployment_log
          appr,      \* status of its approval request, "none" before it is asked
          late,      \* the pending requests past their deadline
          up,
          proposalPending, cooling,
          ready,     \* cachedReadiness: the check it came from, 0 for not ready
          checking,  \* the readiness check in flight, 0 for none
          nextCheck,
          deploying, \* activeProposalId, 0 for none
          step,      \* the script the executor awaits
          deployBreaker,
          conf,      \* which optional scripts are configured
          basis,     \* history: the readiness check a proposal was asked on
          ran        \* history: how often the deploy script of a proposal started

dvars == <<log, appr, late, up, proposalPending, cooling, ready, checking, nextCheck,
           deploying, step, deployBreaker, conf, basis, ran>>

Proposals == 1..MaxProposals
Ended == {"completed", "failed", "post_verify_failed", "rollback_completed", "rollback_failed"}

DeployInit ==
  /\ log = [p \in Proposals |-> "none"] /\ appr = [p \in Proposals |-> "none"]
  /\ late = {} /\ up = TRUE
  /\ proposalPending = FALSE /\ cooling = FALSE
  /\ ready = 0 /\ checking = 0 /\ nextCheck = 1
  /\ deploying = 0 /\ step = "idle" /\ deployBreaker = Closed
  /\ conf \in [verify : BOOLEAN, rollback : BOOLEAN]
  /\ basis = [p \in Proposals |-> 0] /\ ran = [p \in Proposals |-> 0]

---------------------------------------------------------------------------
(* Readiness: one check at a time, its tests take their time, and the result *)
(* replaces whatever the trigger knows by then.                              *)

CheckStarts ==
  /\ up /\ checking = 0 /\ nextCheck <= MaxChecks
  /\ checking' = nextCheck /\ nextCheck' = nextCheck + 1
  /\ UNCHANGED <<log, appr, late, up, proposalPending, cooling, ready, deploying, step,
                 deployBreaker, conf, basis, ran>>

CheckEnds(isReady) ==
  /\ checking # 0
  /\ ready' = IF isReady THEN checking ELSE 0
  /\ checking' = 0
  /\ UNCHANGED <<log, appr, late, up, proposalPending, cooling, nextCheck, deploying, step,
                 deployBreaker, conf, basis, ran>>

CheckThrows ==
  /\ checking # 0
  /\ checking' = 0
  /\ UNCHANGED <<log, appr, late, up, proposalPending, cooling, ready, nextCheck, deploying,
                 step, deployBreaker, conf, basis, ran>>

---------------------------------------------------------------------------
(* The tick of the heartbeat, up to the trigger and through it.              *)

Pending(p) == appr[p] = "pending"
Expired == [p \in Proposals |-> IF Pending(p) /\ p \in late THEN "expired" ELSE appr[p]]
StillPending == \E p \in Proposals : Expired[p] = "pending"

Tick(elapsed) ==
  /\ up
  /\ late' = {}
  /\ deployBreaker' = Asked(deployBreaker, elapsed)
  /\ UNCHANGED <<up, checking, nextCheck, deploying, step, conf, ran>>

\* expireStale() always runs. The heartbeat, the breaker, a deployment, an
\* open request, the cooldown or the readiness may stop the rest.
TickQuiet(elapsed) ==
  /\ Tick(elapsed)
  /\ appr' = Expired
  /\ UNCHANGED <<log, proposalPending, cooling, ready, basis>>

Reached(elapsed) == ~Blocks(deployBreaker, elapsed) /\ deploying = 0

\* The proposal that was pending expired, or its decision was lost.
TickSettles(elapsed) ==
  /\ Tick(elapsed) /\ Reached(elapsed)
  /\ proposalPending /\ ~StillPending
  /\ appr' = Expired
  /\ proposalPending' = FALSE /\ cooling' = TRUE /\ ready' = 0
  /\ UNCHANGED <<log, basis>>

\* onFired: the row, then the request; where that insert throws the trigger
\* does not know of the row it left.
TickProposes(elapsed, p, asked) ==
  /\ Tick(elapsed) /\ Reached(elapsed)
  /\ ~proposalPending /\ ~cooling /\ ready # 0
  /\ log[p] = "none" /\ \A q \in Proposals : q < p => log[q] # "none"
  /\ log' = [log EXCEPT ![p] = "proposed"]
  /\ appr' = IF asked THEN [Expired EXCEPT ![p] = "pending"] ELSE Expired
  /\ basis' = IF asked THEN [basis EXCEPT ![p] = ready] ELSE basis
  /\ proposalPending' = asked
  /\ UNCHANGED <<cooling, ready>>

CooldownEnds ==
  /\ cooling
  /\ cooling' = FALSE
  /\ UNCHANGED <<log, appr, late, up, proposalPending, ready, checking, nextCheck, deploying,
                 step, deployBreaker, conf, basis, ran>>

---------------------------------------------------------------------------
(* The decision. It lands only on a request that is pending and in time; the *)
(* bridge hears it in the same step.                                         *)

DeadlinePasses(p) ==
  /\ Pending(p) /\ p \notin late
  /\ late' = late \cup {p}
  /\ UNCHANGED <<log, appr, up, proposalPending, cooling, ready, checking, nextCheck, deploying,
                 step, deployBreaker, conf, basis, ran>>

DecideLate(p) ==
  /\ up /\ Pending(p) /\ p \in late
  /\ appr' = [appr EXCEPT ![p] = "expired"] /\ late' = late \ {p}
  /\ UNCHANGED <<log, up, proposalPending, cooling, ready, checking, nextCheck, deploying, step,
                 deployBreaker, conf, basis, ran>>

Decided(p, decision) ==
  /\ up /\ Pending(p) /\ p \notin late
  /\ appr' = [appr EXCEPT ![p] = decision]
  /\ proposalPending' = FALSE
  /\ UNCHANGED <<late, up, checking, nextCheck, conf, basis>>

Deny(p) ==
  /\ Decided(p, "denied")
  /\ cooling' = TRUE /\ ready' = 0
  /\ UNCHANGED <<log, deploying, step, deployBreaker, ran>>

\* execute() refuses while another deployment runs, or has no script it may
\* start: either way the approved proposal ends failed and the breaker hears it.
ApproveFails(p) ==
  /\ Decided(p, "approved")
  /\ log' = [log EXCEPT ![p] = "failed"]
  /\ deployBreaker' = Failed(deployBreaker) /\ ready' = 0
  /\ UNCHANGED <<cooling, deploying, step, ran>>

Approve(p) ==
  /\ Decided(p, "approved") /\ deploying = 0
  /\ log' = [log EXCEPT ![p] = "executing"]
  /\ deploying' = p /\ step' = "script"
  /\ ran' = [ran EXCEPT ![p] = @ + 1]
  /\ UNCHANGED <<cooling, ready, deployBreaker>>

---------------------------------------------------------------------------
(* The deployment, one awaited script after the other.                       *)

\* Mutant of Ends: the readiness that was deployed on is kept.
Ends_KeepsReadiness(status, success) ==
  /\ log' = [log EXCEPT ![deploying] = status]
  /\ deploying' = 0 /\ step' = "idle"
  /\ deployBreaker' = IF success THEN Succeeded(deployBreaker) ELSE Failed(deployBreaker)
  /\ cooling' = (cooling \/ success)
  /\ UNCHANGED ready

\* The row is written, the executor is free and the trigger hears the result.
Ends(status, success) ==
  /\ log' = [log EXCEPT ![deploying] = status]
  /\ deploying' = 0 /\ step' = "idle"
  /\ deployBreaker' = IF success THEN Succeeded(deployBreaker) ELSE Failed(deployBreaker)
  /\ cooling' = (cooling \/ success) /\ ready' = 0

\* Where no rollback is configured the run ends here; where it cannot be
\* started the failure of the rollback is what the row says.
FailsWith(status) ==
  \/ conf.rollback /\ step' = "rollback" /\ log' = [log EXCEPT ![deploying] = status]
       /\ UNCHANGED <<deploying, deployBreaker, cooling, ready>>
  \/ Ends(IF conf.rollback THEN "rollback_failed" ELSE status, FALSE)

Scripts == UNCHANGED <<appr, late, up, proposalPending, checking, nextCheck, conf, basis, ran>>

ScriptSucceeds ==
  /\ step = "script" /\ Scripts
  /\ IF conf.verify
     THEN step' = "verify" /\ UNCHANGED <<log, deploying, deployBreaker, cooling, ready>>
     ELSE Ends("completed", TRUE)

ScriptFails == step = "script" /\ Scripts /\ FailsWith("failed")

\* A verification that cannot be started has failed.
VerifyEnds(ok) ==
  /\ step = "verify" /\ Scripts
  /\ IF ok THEN Ends("completed", TRUE) ELSE FailsWith("post_verify_failed")

RollbackEnds(ok) ==
  /\ step = "rollback" /\ Scripts
  /\ Ends(IF ok THEN "rollback_completed" ELSE "rollback_failed", FALSE)

---------------------------------------------------------------------------
(* Crash and restart.                                                        *)

Forgets ==
  /\ up /\ up' = FALSE
  /\ proposalPending' = FALSE /\ cooling' = FALSE /\ ready' = 0 /\ checking' = 0
  /\ deploying' = 0 /\ step' = "idle" /\ deployBreaker' = Closed
  /\ UNCHANGED <<late, nextCheck, conf, basis, ran>>

DeployCrash == Forgets /\ UNCHANGED <<log, appr>>

\* The decision is written, the row of the log is not.
DecideCut(p) ==
  /\ Pending(p) /\ p \notin late
  /\ Forgets
  /\ appr' = [appr EXCEPT ![p] = "approved"]
  /\ UNCHANGED log

\* Mutant of DeployBoot: interrupted deployments are left as they are.
DeployBoot_LeavesExecuting ==
  /\ ~up /\ up' = TRUE
  /\ UNCHANGED <<log, appr, late, proposalPending, cooling, ready, checking, nextCheck, deploying,
                 step, deployBreaker, conf, basis, ran>>

\* endInterruptedDeployments
DeployBoot ==
  /\ ~up /\ up' = TRUE
  /\ log' = [p \in Proposals |-> IF log[p] = "executing" THEN "failed" ELSE log[p]]
  /\ UNCHANGED <<appr, late, proposalPending, cooling, ready, checking, nextCheck, deploying, step,
                 deployBreaker, conf, basis, ran>>

DeployNext ==
  \/ CheckStarts \/ CheckThrows \/ CooldownEnds
  \/ \E b \in BOOLEAN : CheckEnds(b) \/ TickQuiet(b) \/ TickSettles(b)
  \/ \E b \in BOOLEAN, p \in Proposals, asked \in BOOLEAN : TickProposes(b, p, asked)
  \/ \E p \in Proposals : DeadlinePasses(p) \/ DecideLate(p) \/ Deny(p) \/ ApproveFails(p) \/ Approve(p)
  \/ ScriptSucceeds \/ ScriptFails
  \/ \E ok \in BOOLEAN : VerifyEnds(ok) \/ RollbackEnds(ok)
  \/ DeployCrash \/ DeployBoot
  \/ \E p \in Proposals : DecideCut(p)

DeploySpec == DeployInit /\ [][DeployNext]_dvars

---------------------------------------------------------------------------
(* What it promises.                                                         *)

\* Types; a runtime that is down remembers nothing, and the executor is busy
\* exactly while it awaits a script.
DeployTypeOK ==
  /\ log \in [Proposals -> {"none", "proposed", "executing"} \cup Ended]
  /\ appr \in [Proposals -> {"none", "pending", "approved", "denied", "expired"}]
  /\ late \subseteq {p \in Proposals : Pending(p)}
  /\ deploying \in 0..MaxProposals /\ step \in {"idle", "script", "verify", "rollback"}
  /\ deploying = 0 <=> step = "idle"
  /\ {ready, checking} \subseteq 0..MaxChecks /\ nextCheck \in 1..MaxChecks + 1
  /\ deployBreaker \in Breaker /\ {up, proposalPending, cooling} \subseteq BOOLEAN
  /\ ~up => ~proposalPending /\ ~cooling /\ ready = 0 /\ checking = 0 /\ deploying = 0

\* A proposal's script starts at most once in its life, restarts included, and
\* only because a person approved it in time.
DeployedOnceApproved ==
  \A p \in Proposals : ran[p] <= 1 /\ (ran[p] = 1 => appr[p] = "approved")

\* The log says what the executor does: a row reads executing while its script
\* or its verification runs and at no other time, failed while it is being
\* rolled back, and completed only after the script ran.
LogTellsTheRun ==
  \A p \in Proposals :
    /\ up => (log[p] = "executing" <=> (deploying = p /\ step \in {"script", "verify"}))
    /\ deploying = p /\ step = "rollback" => log[p] \in {"failed", "post_verify_failed"}
    /\ log[p] = "completed" => ran[p] = 1

\* What is deployed was approved, runs once and is on record for what it is.
DeploymentOnRecord == DeployedOnceApproved /\ LogTellsTheRun

\* One readiness check never carries two requests: whatever settles a proposal
\* (a denial, an expiry, a deployment that succeeded or failed), the next one
\* is asked on a check of its own.
FreshBasis ==
  LET asked == {p \in Proposals : appr[p] # "none"}
  IN \A p, q \in asked : p # q => basis[p] # basis[q]

=============================================================================
