\* A scenario that sets variables, released at the end of the run.
SPECIFICATION Settings
CONSTANTS
  Parts = {"options"}
  Names = {"m", "n"}
  Values = {"x", "y"}
  None = None
  Forms <- AllForms
  MaxGiven = 2
  MaxCalls = 2
  Tags = {"a", "b"}
  Files <- Scenarios
  Targets = {"t1", "t2"}
  Paths = {"p1", "p2"}
  MaxOptions = 1
  Text = {"a", "b"}
  SecretNames <- TwoNames
  Words <- FewWords
  Blanks <- NoneOrOne
  MaxLines = 1
  MaxNames = 1
  Procs = {"a", "b"}
  Faults = {"mkdir", "write", "kill", "delete", "heap"}
  MaxCommands = 3
INVARIANT ReleasedOnce
