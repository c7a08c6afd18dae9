SPECIFICATION Spec
CONSTANTS
  m1 = m1  m2 = m2  m3 = m3
  here1 = here1  here2 = here2  host = host
  chat = chat  daemon = daemon
  r1 = r1  r2 = r2
  Managers = {m1, m2, m3}
  SlotOf <- SlotDef
  HostOf <- HostDef
  Liabilities = {r1, r2}
  Sources = {chat, daemon}
  SourceOf <- SourceDef
  Estimate <- EstimateDef
  Costs = {2}
  DailyLimit = 3
  SubLimit <- SubDef
  MaxSeq = 2
  MaxSpend = 2
  FailureThreshold = 2
  MaxProposals = 2
  MaxChecks = 3
  cron = cron  item = item  hook = hook
  Triggers = {cron, item}
  Kind <- KindDef
  MaxTasks = 2
  MaxOccurrences = 1
  Nodes = {1, 2, 3, 4, 5, 6, 7, 8}
  Deps <- DepsDef
  MaxParallel = 2
  MaxFailureBudget = 2
  MaxQueue = 2
  MaxDurable = 2
  DrainItems = 1
  MaxOffers = 4
  s1 = s1  s2 = s2  elder = elder  there = there
  Starters = {s1, s2}
  Elders = {elder}
  Former = Former
  MachineOf <- MachineDef
  Nobody = Nobody
  MaxAttempts = 2
  MaxRows = 3
  MaxRetries = 1
  MaxHands = 1
  MaxStops = 1
  c1 = c1  c2 = c2
  ChainLength = 2
  Calls = {c1, c2}
  DegradedThreshold = 1
  DownThreshold = 2
  Signalled = {c1}
  MaxFails = 2
  Ladder = 2
  MaxSprintTries = 1
  MaxSelfRevivals = 1
  MaxNarrowings = 1
  MaxWork = 3
  MaxWishes = 2
  MaxCampBoots = 1
  MaxAppointments = 2
  MaxTurns = 2
INVARIANTS
  ServicesTyped
  LiveOwnerKeepsLiability
  DeploymentOnRecord
  FreshBasis
  ExactlyOneTask
  StreakIsReal
  DispatchInOrder
  PlanAccounted
  CallAccounted
  SettledOnce
  OneRuntime
  NothingLeftBehind
  RetriesLimited
  Appointed
  OneSprint
  Attended
PROPERTIES
  ImplementsPromise
  EvidenceFirst
  HealthEarned
  StopHolds
CHECK_DEADLOCK FALSE
