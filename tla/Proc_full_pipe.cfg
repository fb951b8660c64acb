\* A process that writes more than a pipe holds.
SPECIFICATION FairSpec
CONSTANTS
  Amount = 1
  FdLimit = 16
  OwnFds = {1}
  PipeSize = 1
  MaxOutput = 2
  MaxInput = 0
  Timed = {FALSE}
  MaxCalls = 1
PROPERTY RunReturns
\* The run waits for ever.
CHECK_DEADLOCK FALSE
