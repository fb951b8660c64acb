\* The array, the queue, the keywords, the logs, the record and the terminal.
SPECIFICATION RunParts
CONSTANTS
  Parts = {"array", "queue", "keywords", "logs", "record", "terminal"}
  Elems = {"x", "y"}
  Unset = Unset
  ElemSize = 2
  SizeMax = 7
  InitCapacities = {0, 1}
  Names = {"a", "b"}
  Tags = {"t", "u"}
  FilterTags = {"t"}
  Orders <- SomeOrders
  Multitarget = TRUE
  SkipHooks = FALSE
  MaxCalls = 4
  KeywordRoom = 1
  MaxKeywordTests = 2
  MaxKeywordCalls = 5
  MaxDepth = 4
  Runs = {"r1", "r2"}
  Targets = {"t1", "t2"}
  Seconds = {1}
  Records <- RunRecords
  LateNames = {"u", "v"}
  MaxLate = 1
  Heights = {2, 5, 6}
  Columns = 4
  MaxShown = 2
  MaxLogs = 1
  MaxResizes = 1
INVARIANTS
  QueueIsSelection BodiesReleased CleanTreeExact LogsKept LatestHonest 
  ListingDrawn ScreenHonest
PROPERTY KeepsList
