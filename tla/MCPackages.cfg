CONSTANTS
  w1 = w1
  w2 = w2
  pa = pa
  pb = pb
  pc = pc
  W1 = W1
  W2 = W2
  A1 = A1
  A2 = A2
  B1 = B1
  C1 = C1
  C2 = C2
  a = a
  b = b
  c = c
  app = app
  Workspaces = {w1, w2}
  Places <- MCPlaces
  Trees <- MCTrees
  Names = {a, b, c, app}
  Needs <- MCNeeds
  MayHold <- MCMayHold
  RootName = app
  MaxBuilds = 3
  MaxEdits = 1
  None = None
SPECIFICATION Spec
INVARIANTS
  TypeOK
  EntriesAreWhole
  LocksAreInstalled
  LocksAreAcyclic

  
CHECK_DEADLOCK FALSE
