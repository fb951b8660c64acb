\* The raw log of a project without targets.
SPECIFICATION RunParts
CONSTANTS
  Parts = {"record"}
  Elems = {"x"}
  Unset = Unset
  ElemSize = 1
  SizeMax = 1
  InitCapacities = {1}
  Names = {"a", "b"}
  Tags = {"t", "u"}
  FilterTags = {"t"}
  Orders <- SomeOrders
  Multitarget = TRUE
  SkipHooks = FALSE
  MaxCalls = 1
  KeywordRoom = 1
  MaxKeywordTests = 1
  MaxKeywordCalls = 1
  MaxDepth = 1
  Runs = {"r1"}
  Targets = {"t1"}
  Seconds = {1}
  Records <- RunRecords
  LateNames = {"u", "v"}
  MaxLate = 1
  Heights = {5}
  Columns = 4
  MaxShown = 1
  MaxLogs = 1
  MaxResizes = 1
INVARIANT HasRequiredKeys
