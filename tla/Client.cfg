SPECIFICATION Spec
CONSTANTS
  InjectCount = 1
  MaxId = 4
  MaxSessions = 2
  MaxLog = 10
  MaxEvents = 3
  Results <- MCResults
  Size <- MCSize
  Readbacks = {4}
  SingleLimit = 5
  AggregateLimit = 6
  MaxFailures = 2
  MaxTurnSize = 3
  MaxCompactions = 3
  MaxAgents = 3
  TeamNames = {"t1", "t2"}
  Definitions <- MCDefinitions
  EnableFork = TRUE
  Coordinator = TRUE
  Calls <- MCCalls
  RuleFiles <- MCRuleFiles
  Hooks <- MCHooks
  MaxRules = 1
  MaxRuns = 2
  MaxNews = 1
  Pages = {p1, p2}
  MaxSends = 2
  MaxAsks = 1
  MaxReports = 1
  MaxBreaks = 1
  Procs = {w1, w2}
  NoProc = NoProc
  MaxTries = 2
  MaxMail = 2
  MaxBoard = 4
  Files = {f1}
  MaxTexts = 4
  MaxSnapshots = 2
  MaxVersions = 2
  Chosen = {"m"}
  Agents = {"a"}
  Mates = {"m"}
  MaxCommits = 2
CHECK_DEADLOCK FALSE
INVARIANTS
  FlushedIsResumed
  ResumedIsPaired
  NestingIsBounded
  RunIsInHand
  LockIsExplained
  MailLossNeedsMishap
  TaskLossIsExplained
PROPERTIES
  SentFormIsFrozen
  AlwaysIsRemembered
  CheckpointsKeepTheirBackups
  WorkLossIsExplained
