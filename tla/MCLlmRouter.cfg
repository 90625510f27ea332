SPECIFICATION Spec
CONSTANTS
  d1 = d1
  d2 = d2
  d3 = d3
  A = A
  B = B
  C = C
  x = x
  y = y
  req = req
  None = none
  Dispatches = {d1, d2, d3}
  Scenarios <- MCScenarios
  Failing = {d3}
  Route <- MCRoutes
  Entries = {A, B, C}
  Texts = {x, y}
  HashRank <- MCRank
  Echoing = {B, C}
  Inodes = {1, 2, 3, 4, 5, 6}
INVARIANTS
  TypeOK
  CompletionsAreGenuine
  AnswersAreAccounted
  RetriesAreJustified
  AttemptsAreLedgered
  LostStoresArePublished
  ConsensusIsJustified
PROPERTIES
  DispatchesReturn
