\* A deferred function that registers another one.
SPECIFICATION Spec
CONSTANTS
  Amount = 1
  HookCount <- NoHooks
  Levels = {}
  LogLevel = 3
  Headless = FALSE
  NoLogs = FALSE
  DeferCallers = {"body", "defer"}
  MaxSteps <- Calls1
INVARIANT EveryDeferRuns
