\* Two handles, used one after the other or at the same time, and run calls
\* with and without a timeout.
SPECIFICATION FairSpec
CONSTANTS
  Amount = 2
  FdLimit = 10
  OwnFds = {1, 2}
  PipeSize = 1
  MaxOutput = 1
  MaxInput = 1
  Timed = {TRUE, FALSE}
  MaxCalls = 4
INVARIANTS PidOwned RunComplete StreamsOwn
PROPERTY TimedRunReturns
\* A read waits for ever on a process that waits for input.
CHECK_DEADLOCK FALSE
