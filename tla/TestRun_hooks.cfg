\* Two tests with two hooks per event, and how every run ends.
SPECIFICATION FairSpec
CONSTANTS
  Amount = 2
  HookCount <- TwoHooks
  Levels = {1}
  LogLevel = 3
  Headless = FALSE
  NoLogs = FALSE
  DeferCallers = {"body", "defer"}
  MaxSteps <- Calls1
INVARIANTS OutputsApart RawLogFinal
PROPERTIES Termination InterruptHonoured
