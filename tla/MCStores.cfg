SPECIFICATION StoresSpec
CONSTANTS
  Sid = {"s", "t"}
  Tid = {"u", "v"}
  Model = {"a", "b"}
  Title = {"x"}
  Untitled = Untitled
  Span = 1
  PageSizes = {1, 2}
  MaxTokens = 1
  MaxClock = 3
  Opener = {"router", "second", "reader"}
  Mcp = Mcp
  First = First
  Late = Late
  Caller = {First, Late, Mcp}
  Router = {First, Late}
  Query = {"q"}
  Page = {"u"}
  Ttl <- MCTtl
  MaxSize = 2
  MaxBytes = 2
  Batch = 1
  MaxHops = 1
  MaxTime = 2
  Parts = {"usage", "schema", "cache"}
SYMMETRY MCThreads
INVARIANTS
  StoresTypeOK
  StatisticsAgree
  TitlesAreKept
  AdoptionIsRecoverable
PROPERTIES
  FreshRowsSurvive
