INIT Init
NEXT Next
CONSTANTS
  Cmds = {1, 2}
  MaxVersion = 2
  Templates <- MCTemplates
  NoTemplate = NoTemplate
  Networks = {1, 2}
  Starts <- MCStarts
  Contents <- MCContents
  Updaters = {u1, u2}
  LastRelease = 3
  Odd = {0, 3}
  GatedCmds = {"deploy", "link-key", "secrets", "simulate", "hash", "get", "list", "init", "build"}
  Lists <- MCLists
  NewRows <- MCNewRows
  Tenants <- MCTenants
  Queries <- MCQueries
  PageSize = 2
  DefaultLimit = 1
  MaxLimit = 2
  MaxRows = 4
  MaxChanges = 1
  Logs = {1, 2}
  MaxTip = 4
  MaxForks = 1
  Overlap = 2
  Behind = 1
  Burst = 1
  Wishes <- MCWishes
  SimFlags <- MCFlags
  SimSettings <- MCSettings
  LimitFiles <- MCLimitFiles
  TriggerLists <- MCTriggerLists
  Builders <- MCBuilders
  JobLists <- MCJobs
  MaxEdits = 1
INVARIANTS TypesOK ProjectsSound UpdatesSound ReadyToRun QueriesAnswer TriggersOnce SimulatesAsTold BuildsOwn
CHECK_DEADLOCK FALSE
