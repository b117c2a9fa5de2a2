SPECIFICATION Spec
CONSTANTS
  a = a
  b = b
  c = c
  r1 = r1
  r2 = r2
  Null = Null
  Keys = {a, b, c}
  Requests = {r1, r2}
  Batches <- SomeBatches
  MaxEvents = 2
INVARIANTS
  TypeOK
  NoDuplicates
  KnownIsSaved
PROPERTIES
  SavedStays
  AppendIsAnswered
