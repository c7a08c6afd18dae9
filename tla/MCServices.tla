------------------------------ MODULE MCServices ------------------------------
(* The services around the task executor, the keep-alive of its missions and   *)
(* a campaign, one instance of each. They share nothing that is modelled (the breaker's   *)
(* operators aside), so a behaviour lets one of them move, chosen at the      *)
(* start, and the others stand still: the states are those of the instances   *)
(* side by side, not their product.                                           *)
EXTENDS UnifiedBudget, Deployment, Heartbeat, SupervisorDispatch, LearningQueue,
        RuntimeLock, MissionKeepAlive, FallbackChain, Campaign

CONSTANTS m1, m2, m3, here1, here2, host, chat, daemon, r1, r2, cron, item, hook,
          s1, s2, elder, there, c1, c2

\* Two incarnations take the same process number one after the other; a third
\* process of the host judges them.
SlotDef == [m \in Managers |-> IF m = m3 THEN here2 ELSE here1]
HostDef == [s \in {here1, here2} |-> host]
SubDef == [s \in Sources |-> IF s = daemon THEN 1 ELSE 0]
SourceDef == [r \in Liabilities |-> IF r = r1 THEN chat ELSE daemon]
EstimateDef == [r \in Liabilities |-> IF r = r1 THEN 3 ELSE 1]

\* Two triggers in the run; hook is there for whoever adds a third.
KindDef == [t \in Triggers |->
  CASE t = cron -> "cron" [] t = item -> "checklist" [] OTHER -> "webhook"]

\* Two chains that meet, a loose node, and a cycle with a dependent.
DepsDef == [n \in Nodes |->
  CASE n = 3 -> {1} [] n = 4 -> {1, 2} [] n = 5 -> {3, 4} [] n = 7 -> {7} [] n = 8 -> {3, 7}
    [] OTHER -> {}]

\* One starter sits on another machine.
MachineDef == [r \in Runtimes |-> IF r = s2 THEN there ELSE host]

\* The first member has no record yet, the second is benched for hours.
Loaded == <<Sound, [status |-> "down", fails |-> DownThreshold, left |-> 3]>>

VARIABLE part
vars == <<part, bvars, dvars, hvars, svars, lvars, rvars, kvars, chainVars, campVars>>

Init ==
  /\ part \in {"wallet", "deployment", "heartbeat", "supervisor", "learning", "runtime", "mission",
              "chain", "single", "campaign"}
  /\ BudgetInit /\ DeployInit /\ HeartInit /\ SupInit /\ LearnInit /\ RuntimeInit
  /\ KeepAliveInit /\ CampInit /\ ChainInit /\ entry = Loaded
  /\ part # "deployment" => conf.verify /\ conf.rollback
  /\ part # "runtime" =>
       /\ setup.elders /\ setup.writable
       /\ lockFile = [f \in Paths |-> Nobody] /\ refreshed = [f \in Paths |-> FALSE]

\* Whose step it is, and what the others keep.
Wallet == part = "wallet"
WalletAlone == UNCHANGED <<part, dvars, hvars, svars, lvars, rvars, kvars, chainVars, campVars>>
Deploying == part = "deployment"
DeploymentAlone == UNCHANGED <<part, bvars, hvars, svars, lvars, rvars, kvars, chainVars, campVars>>
Beating == part = "heartbeat"
HeartAlone == UNCHANGED <<part, bvars, dvars, svars, lvars, rvars, kvars, chainVars, campVars>>
Dispatching == part = "supervisor"
SupervisorAlone == UNCHANGED <<part, bvars, dvars, hvars, lvars, rvars, kvars, chainVars, campVars>>
Learning == part = "learning"
LearningAlone == UNCHANGED <<part, bvars, dvars, hvars, svars, rvars, kvars, chainVars, campVars>>
Locking == part = "runtime"
LockAlone == UNCHANGED <<part, bvars, dvars, hvars, svars, lvars, kvars, chainVars, campVars>>
Continuing == part = "mission"
MissionAlone == UNCHANGED <<part, bvars, dvars, hvars, svars, lvars, rvars, chainVars, campVars>>

WalletNext ==
  \/ Wallet /\ \E m \in Managers : Start(m) /\ WalletAlone
  \/ Wallet /\ \E m \in Managers : Die(m) /\ WalletAlone
  \/ Wallet /\ \E m \in Managers : EndPass(m) /\ WalletAlone
  \/ Wallet /\ \E m \in Managers, lands \in BOOLEAN, old \in SUBSET owner : BeginPass(m, lands, old) /\ WalletAlone
  \/ Wallet /\ \E m \in Managers, r \in Liabilities, b \in BOOLEAN : Judge(m, r, b) /\ WalletAlone
  \/ Wallet /\ \E m \in Managers, r \in Liabilities, b \in BOOLEAN : Reserve(m, r, b) /\ WalletAlone
  \/ Wallet /\ \E m \in Managers, r \in Liabilities, b \in BOOLEAN : Release(m, r, b) /\ WalletAlone
  \/ Wallet /\ \E m \in Managers, r \in Liabilities : Resolve(m, r) /\ WalletAlone
  \/ Wallet /\ \E m \in Managers, r \in Liabilities, c \in Costs, b \in BOOLEAN : Charge(m, r, c, b) /\ WalletAlone
  \/ Wallet /\ \E m \in Managers, s \in Sources, c \in Costs, b \in BOOLEAN : ChargeUnreserved(m, s, c, b) /\ WalletAlone
  \/ Wallet /\ WindowPasses /\ WalletAlone

DeploymentNext ==
  \/ Deploying /\ CheckStarts /\ DeploymentAlone
  \/ Deploying /\ CheckThrows /\ DeploymentAlone
  \/ Deploying /\ CooldownEnds /\ DeploymentAlone
  \/ Deploying /\ \E b \in BOOLEAN : CheckEnds(b) /\ DeploymentAlone
  \/ Deploying /\ \E b \in BOOLEAN : TickQuiet(b) /\ DeploymentAlone
  \/ Deploying /\ \E b \in BOOLEAN : TickSettles(b) /\ DeploymentAlone
  \/ Deploying /\ \E b \in BOOLEAN, p \in Proposals, asked \in BOOLEAN : TickProposes(b, p, asked) /\ DeploymentAlone
  \/ Deploying /\ \E p \in Proposals : DeadlinePasses(p) /\ DeploymentAlone
  \/ Deploying /\ \E p \in Proposals : DecideLate(p) /\ DeploymentAlone
  \/ Deploying /\ \E p \in Proposals : Deny(p) /\ DeploymentAlone
  \/ Deploying /\ \E p \in Proposals : ApproveFails(p) /\ DeploymentAlone
  \/ Deploying /\ \E p \in Proposals : Approve(p) /\ DeploymentAlone
  \/ Deploying /\ ScriptSucceeds /\ DeploymentAlone
  \/ Deploying /\ ScriptFails /\ DeploymentAlone
  \/ Deploying /\ \E ok \in BOOLEAN : VerifyEnds(ok) /\ DeploymentAlone
  \/ Deploying /\ \E ok \in BOOLEAN : RollbackEnds(ok) /\ DeploymentAlone
  \/ Deploying /\ DeployCrash /\ DeploymentAlone
  \/ Deploying /\ DeployBoot /\ DeploymentAlone
  \/ Deploying /\ \E p \in Proposals : DecideCut(p) /\ DeploymentAlone

HeartbeatNext ==
  \/ Beating /\ \E t \in Triggers : Occurs(t) /\ HeartAlone
  \/ Beating /\ \E t \in Triggers, e \in BOOLEAN : EvaluationThrows(t, e) /\ HeartAlone
  \/ Beating /\ \E t \in Triggers, e \in BOOLEAN : Suppresses(t, e) /\ HeartAlone
  \/ Beating /\ \E t \in Triggers, e, b \in BOOLEAN : Refuses(t, e, b) /\ HeartAlone
  \/ Beating /\ \E t \in Triggers, e, b \in BOOLEAN : SubmitThrows(t, e, b) /\ HeartAlone
  \/ Beating /\ \E t \in Triggers, e, b \in BOOLEAN, k \in Tasks : Submits(t, e, b, k) /\ HeartAlone
  \/ Beating /\ \E t \in Triggers, e, b \in BOOLEAN, k \in Tasks : SubmitsFailed(t, e, b, k) /\ HeartAlone
  \/ Beating /\ \E k \in Tasks, s \in TaskStatus \ {"active"} : Settles(k, s) /\ HeartAlone
  \/ Beating /\ Stops /\ HeartAlone
  \/ Beating /\ Starts /\ HeartAlone
  \/ Beating /\ \E cut \in SUBSET Triggers : HeartCrash(cut) /\ HeartAlone
  \/ Beating /\ \E failed, blocked \in SUBSET Tasks : HeartBoot(failed, blocked) /\ HeartAlone

SupervisorNext ==
  \/ Dispatching /\ Returns /\ SupervisorAlone
  \/ Dispatching /\ DrainWave /\ SupervisorAlone
  \/ Dispatching /\ StartWave /\ SupervisorAlone
  \/ Dispatching /\ AllHome /\ SupervisorAlone
  \/ Dispatching /\ GraceOver /\ SupervisorAlone
  \/ Dispatching /\ Abort /\ SupervisorAlone
  \/ Dispatching /\ \E n \in Nodes : ComeTo(n) /\ SupervisorAlone
  \/ Dispatching /\ \E n \in Nodes : SlotTaken(n) /\ SupervisorAlone
  \/ Dispatching /\ \E n \in Nodes, r \in {"ok", "failed"} : WorkerEnds(n, r) /\ SupervisorAlone
  \/ Dispatching /\ \E n \in Nodes : WorkerThrows(n) /\ SupervisorAlone
  \/ Dispatching /\ \E n \in Nodes : BackoffEnds(n) /\ SupervisorAlone
  \/ Dispatching /\ \E n \in Nodes : TimesOut(n) /\ SupervisorAlone
  \/ Dispatching /\ \E n \in Nodes : StraySettles(n) /\ SupervisorAlone
  \/ Dispatching /\ \E n \in Nodes, kept, settles \in BOOLEAN : LateAnswer(n, kept, settles) /\ SupervisorAlone

LearningNext ==
  \/ Learning /\ ItemEnds /\ LearningAlone
  \/ Learning /\ RefuseObservation /\ LearningAlone
  \/ Learning /\ ShutdownBegins /\ LearningAlone
  \/ Learning /\ DeadlineStrikes /\ LearningAlone
  \/ Learning /\ ShutdownEnds /\ LearningAlone
  \/ Learning /\ \E c \in Kinds : RefuseDurable(c) /\ LearningAlone
  \/ Learning /\ \E c \in Kinds : Enqueue(c) /\ LearningAlone
  \/ Learning /\ \E n \in 1..MaxQueue + MaxDurable : EnqueueEvicting(n) /\ LearningAlone

RuntimeLockNext ==
  \/ Locking /\ \E p \in Starters : LooksAtLegacy(p) /\ LockAlone
  \/ Locking /\ \E p \in Starters : FindsHolder(p) /\ LockAlone
  \/ Locking /\ \E p \in Starters : SkipsMirror(p) /\ LockAlone
  \/ Locking /\ \E p \in Starters : FindsNone(p) /\ LockAlone
  \/ Locking /\ \E p \in Starters : FindsStale(p) /\ LockAlone
  \/ Locking /\ \E p \in Starters : TriesClaim(p) /\ LockAlone
  \/ Locking /\ \E p \in Starters : EntersRecovery(p) /\ LockAlone
  \/ Locking /\ \E p \in Starters : FindsRecovery(p) /\ LockAlone
  \/ Locking /\ \E p \in Starters : WaitEnds(p) /\ LockAlone
  \/ Locking /\ \E p \in Starters : WaitTimesOut(p) /\ LockAlone
  \/ Locking /\ \E p \in Starters : Rejudges(p) /\ LockAlone
  \/ Locking /\ \E p \in Starters : BuriesStale(p) /\ LockAlone
  \/ Locking /\ \E p \in Starters : ComparesStale(p) /\ LockAlone
  \/ Locking /\ \E p \in Starters : Reclaims(p) /\ LockAlone
  \/ Locking /\ \E p \in Starters : LeavesRecovery(p) /\ LockAlone
  \/ Locking /\ \E p \in Starters : StopsRuntime(p) /\ LockAlone
  \/ Locking /\ \E p \in Starters : ReleasesLock(p) /\ LockAlone
  \/ Locking /\ \E p \in Starters : LockReleased(p) /\ LockAlone
  \/ Locking /\ \E p \in Starters : Withdraws(p) /\ LockAlone
  \/ Locking /\ \E p \in Starters : Withdrawn(p) /\ LockAlone
  \/ Locking /\ \E r \in Runtimes : RuntimeDies(r) /\ LockAlone
  \/ Locking /\ \E f \in Paths : LockAges(f) /\ LockAlone
  \/ Locking /\ \E e \in Elders : ElderStarts(e) /\ LockAlone
  \/ Locking /\ \E e \in Elders : ElderStops(e) /\ LockAlone

MissionNext ==
  \/ Continuing /\ \E t \in Attempts : Completes(t) /\ MissionAlone
  \/ Continuing /\ \E t \in Attempts : Fails(t) /\ MissionAlone
  \/ Continuing /\ \E t \in Attempts : AsksPerson(t) /\ MissionAlone
  \/ Continuing /\ \E t \in Attempts : Cancel(t) /\ MissionAlone
  \/ Continuing /\ \E t \in Attempts : RetryTask(t) /\ MissionAlone
  \/ Continuing /\ \E t \in Attempts : ResumeTask(t) /\ MissionAlone
  \/ Continuing /\ \E t \in Attempts : RetryDue(t) /\ MissionAlone
  \/ Continuing /\ \E t \in Attempts : BudgetDue(t) /\ MissionAlone
  \/ Continuing /\ \E t \in Attempts : RearmDue(t) /\ MissionAlone
  \/ Continuing /\ \E t \in Attempts : ResumeDue(t) /\ MissionAlone
  \/ Continuing /\ Sweep /\ MissionAlone
  \/ Continuing /\ Crash /\ MissionAlone
  \/ Continuing /\ Exit /\ MissionAlone
  \/ Continuing /\ Boot /\ MissionAlone

Calling == part = "chain"
ChainAlone == UNCHANGED <<part, bvars, dvars, hvars, svars, lvars, rvars, kvars, campVars>>
ChainMoves ==
  \/ Calling /\ \E c \in Calls : CallStarts(c) /\ ChainAlone
  \/ Calling /\ \E c \in Calls : RecoveryWaitEnds(c) /\ ChainAlone
  \/ Calling /\ \E c \in Calls : AttemptAnswers(c) /\ ChainAlone
  \/ Calling /\ \E c \in Calls : AttemptEmpty(c) /\ ChainAlone
  \/ Calling /\ \E c \in Calls : AttemptSilent(c) /\ ChainAlone
  \/ Calling /\ \E c \in Calls, k \in FailKinds, d \in Delivered : AttemptFails(c, k, d) /\ ChainAlone
  \/ Calling /\ \E c \in Calls : PauseEnds(c) /\ ChainAlone
  \/ Calling /\ \E c \in Calls : CallCancelled(c) /\ ChainAlone
  \/ Calling /\ \E c \in Calls : CallerGivesUp(c) /\ ChainAlone
  \/ Calling /\ \E m \in Members, v \in FailKinds \cup {"ok"} : ProbeEnds(m, v) /\ ChainAlone
  \/ Calling /\ \E m \in Members : CoolsDown(m) /\ ChainAlone
  \/ Calling /\ ChainRestart /\ ChainAlone

\* The first member as a chain of its own: the registry is the process's, so the
\* second stays in it and nobody asks it.
Single == INSTANCE FallbackChain WITH ChainLength <- 1
CallingOne == part = "single"
SingleMoves ==
  \/ CallingOne /\ \E c \in Calls : Single!CallStarts(c) /\ ChainAlone
  \/ CallingOne /\ \E c \in Calls : Single!RecoveryWaitEnds(c) /\ ChainAlone
  \/ CallingOne /\ \E c \in Calls : Single!AttemptAnswers(c) /\ ChainAlone
  \/ CallingOne /\ \E c \in Calls : Single!AttemptEmpty(c) /\ ChainAlone
  \/ CallingOne /\ \E c \in Calls : Single!AttemptSilent(c) /\ ChainAlone
  \/ CallingOne /\ \E c \in Calls, k \in FailKinds, d \in Delivered : Single!AttemptFails(c, k, d) /\ ChainAlone
  \/ CallingOne /\ \E c \in Calls : Single!PauseEnds(c) /\ ChainAlone
  \/ CallingOne /\ \E c \in Calls : Single!CallCancelled(c) /\ ChainAlone
  \/ CallingOne /\ \E c \in Calls : Single!CallerGivesUp(c) /\ ChainAlone
  \/ CallingOne /\ \E m \in Single!Members, v \in FailKinds \cup {"ok"} : Single!ProbeEnds(m, v) /\ ChainAlone
  \/ CallingOne /\ \E m \in Single!Members : Single!CoolsDown(m) /\ ChainAlone
  \/ CallingOne /\ Single!ChainRestart /\ ChainAlone

Campaigning == part = "campaign"
CampaignAlone == UNCHANGED <<part, bvars, dvars, hvars, svars, lvars, rvars, kvars, chainVars>>
CampaignNext ==
  \/ Campaigning /\ \E t \in Work, s \in {"completed", "blocked"} : RowEnds(t, s) /\ CampaignAlone
  \/ Campaigning /\ \E t \in Work : RowContinues(t) /\ CampaignAlone
  \/ Campaigning /\ \E t \in Work : StopsRow(t) /\ CampaignAlone
  \/ Campaigning /\ CancelsCampaign /\ CampaignAlone
  \/ Campaigning /\ RevivesCampaign /\ CampaignAlone
  \/ Campaigning /\ HandlesSettle /\ CampaignAlone
  \/ Campaigning /\ HandlesStop /\ CampaignAlone
  \/ Campaigning /\ HandlesReconcile /\ CampaignAlone
  \/ Campaigning /\ \E a \in Workers : Bounces(a) /\ CampaignAlone
  \/ Campaigning /\ \E a \in Workers : TurnsOutFailed(a) /\ CampaignAlone
  \/ Campaigning /\ \E a \in Workers : Advances(a) /\ CampaignAlone
  \/ Campaigning /\ \E a \in Workers : LacksProofs(a) /\ CampaignAlone
  \/ Campaigning /\ \E a \in Workers : StopsShort(a) /\ CampaignAlone
  \/ Campaigning /\ \E a \in Workers : Delivers(a) /\ CampaignAlone
  \/ Campaigning /\ \E a \in Workers : Told(a) /\ CampaignAlone
  \/ Campaigning /\ \E a \in Workers : Narrowed(a) /\ CampaignAlone
  \/ Campaigning /\ \E s \in Sprints : GraceEnds(s) /\ CampaignAlone
  \/ Campaigning /\ \E g \in 0..MaxWishes : NextSprint(g) /\ CampaignAlone
  \/ Campaigning /\ \E n \in Appointments : AppointmentDue(n) /\ CampaignAlone
  \/ Campaigning /\ \E blocked \in SUBSET Work : CampRestarts(blocked) /\ CampaignAlone
  \/ Campaigning /\ BootSweeps /\ CampaignAlone

Next == WalletNext \/ DeploymentNext \/ HeartbeatNext \/ SupervisorNext \/ LearningNext
        \/ RuntimeLockNext \/ MissionNext \/ ChainMoves \/ SingleMoves \/ CampaignNext

Spec == Init /\ [][Next]_vars

---------------------------------------------------------------------------
\* The type invariants of the services, in one: each of the service that moves,
\* the others being as they began.
ServicesTyped ==
  /\ Wallet => BudgetTypeOK
  /\ Deploying => DeployTypeOK
  /\ Beating => HeartTypeOK
  /\ Dispatching => SupTypeOK
  /\ Learning => LearnTypeOK
  /\ Locking => RuntimeTypeOK
  /\ Continuing => KeepAliveTypeOK
  /\ Calling \/ CallingOne => ChainTypeOK
  /\ Campaigning => CampTypeOK

=============================================================================
