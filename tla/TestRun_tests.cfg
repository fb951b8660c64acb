\* Two tests without hooks: what bodies and deferred functions can do.
SPECIFICATION Spec
CONSTANTS
  Amount = 2
  HookCount <- NoHooks
  Levels = {1}
  LogLevel = 3
  Headless = FALSE
  NoLogs = FALSE
  DeferCallers = {"body"}
  MaxSteps <- Calls21
INVARIANTS
  TypeOK DefersUnwind DeferFailuresReported Accounting VerdictHasReason
  ExitCodeTruthful
PROPERTY KeepsPromise
