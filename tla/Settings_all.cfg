\* The command line with its scenarios, the variables and the secrets; commands
\* of two terminals, at the same time or not, with every fault everywhere.
SPECIFICATION Settings
CONSTANTS
  Parts = {"options", "variables", "secrets", "project"}
  Names = {"m", "n"}
  Values = {"x", "y"}
  None = None
  Forms <- AllForms
  MaxGiven = 2
  MaxCalls = 2
  Tags = {"a", "b"}
  Files <- Scenarios
  Targets = {"t1", "t2"}
  Paths = {"p1", "p2"}
  MaxOptions = 3
  Text = {"a", "b"}
  SecretNames <- TwoNames
  Words <- FewWords
  Blanks <- NoneOrOne
  MaxLines = 3
  MaxNames = 1
  Procs = {"a", "b"}
  Faults = {"mkdir", "write", "kill", "delete", "heap"}
  MaxCommands = 3
INVARIANTS CliWins OptionsAlive GivenHonoured FileMeansItsPairs TargetsUnique
PROPERTIES ReadsStable ReportsTrue CommandsEnd
