SPECIFICATION Spec
CONSTANTS
  IdOrder <- InOrder
  NoTask = 0
  Widths <- MCWidths
  Folds <- MCFolds
  Shapes <- MCShapes
  Terminators = {"."}
  Blanks = {" "}
  ChunkBudget = 5
  HeaderBytes = 1
  EllipsisBytes = 1
  BodyRoom = 2
  RrfK = 60
  TokenCount <- MCTokens
  CorpusPrefix <- MCCorpusPrefix
  QueryPrefix <- MCQueryPrefix
  MaxInputTokens = 6
  Nowhere = 0
  FieldCap = 2
  PollCap = 2
  StatusCap = 3
  ChunkSize = 1
  Chunks = 2
  Profile = "profile"
  NoOwner = "null"
INVARIANTS ViewsAreRight MappingsAreRight SearchIsRight NamesAreRight
CHECK_DEADLOCK FALSE
