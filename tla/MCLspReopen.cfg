\* One document that is closed and opened again.
SPECIFICATION Spec
CONSTANTS
  a = a
  b = b
  Uris = {a}
  MaxTexts = 4
INVARIANTS
  StaleEntriesAreHarmless
