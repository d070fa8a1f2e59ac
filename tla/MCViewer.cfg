SPECIFICATION Spec
CONSTANTS
  e = e
  o = o
  dev = dev
  l1 = l1
  Topics <- MCTopics
  TopicQueries <- MCTopics
  TopicOf <- MCTopicOf
  Polled <- MCTopics
  MaxChanges = 2
  MaxMounts = 2
  MaxPolls = 1
  PlainFields = {"model", "limit"}
  Vals = {1}
  InitialSettings <- MCInitialSettings
  MaxFieldEdits = 1
  MaxSaves = 2
  MaxForeign = 1
  Cases = {e, o}
  Edited = e
  Splits = {dev}
  LabelSets = {l1}
  InitialCases <- MCInitialCases
  MaxEdits = 2
  MaxDeletes = 1
  CaseSets = {1, 2}
  Matched = {e}
  InitialSets <- MCInitialSets
  MaxSetChanges = 1
  MaxTransfers = 1
  MaxFaults = 1
  MaxFailures = 1
  RpcCalls = {"scan", "scans"}
  Parts <- MCParts
  CallIds = {0, 1}
  PoolSize = 2
  Retries = 2
  MaxTaskFaults = 2
  Lists <- MCLists
  Terms <- MCTerms
  Quote = "q"
  Window = 2
  MaxSearches = 2
  MaxEvents = 3
  Scans = {"A", "B"}
  Results = {"r1"}
  Scanners = {"s1", "s2"}
  ResultTabs = {"Info"}
  OtherTabs = {"Metadata"}
  MaxClicks <- MCMaxClicks
  AllColumns <- MCColumns
  DefaultVisible <- MCDefaultVisible
  Size <- MCSize
  MinSize <- MCMinSize
  MaxSize <- MCMaxSize
  Widths = {0, 3}
  MaxColumnEvents = 5
  StringColumns = {"model"}
  NumberColumns = {"score"}
  FilterTexts <- MCFilterTexts
  NumberWords = {"1", "2"}
  MaxFilterEvents = 6
  LabelTexts <- MCLabelTexts
  suggestions <- MCSuggestions
  maxSuggestions = 2
  charactersBeforeSuggesting = 1
  MaxInputEvents = 6
  LineTexts <- MCLineTexts
  NumberIn <- MCNumberIn
  PathLike = {"/p"}
  ForeignValues <- MCForeignValues
  Rejected = {"bad", "worse"}
  PlainTexts = {"", "bad", "worse"}
  MaxFieldEvents = 3
  CitingTexts = {"t", "u"}
  Cited <- MCCited
  InInput = {"m1", "m2"}
  MaxMouseMoves = 8
INVARIANTS TypeOK PagesConverge  CallsGetTheirAnswers ControlsAgree AddressIsShown EventsInPlace OnScreenIsCurrent
PROPERTIES NoLostUpdate UntouchedKept GoesOnWhereLeft LayoutKept RangesFollowFocus
CHECK_DEADLOCK FALSE
