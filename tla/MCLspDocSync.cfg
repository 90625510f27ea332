\* Two documents, opened, changed, closed and opened again.
SPECIFICATION Spec
CONSTANTS
  a = a
  b = b
  Uris = {a, b}
  MaxTexts = 5
INVARIANTS
  TypeOK
  SkippedMeansSuperseded
  QuietServerIsCurrent
PROPERTIES
  LastTextIsPublished
