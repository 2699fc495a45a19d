SPECIFICATION Spec
CONSTANTS
  None = None
  Hang = Hang
  Bound = 5
  Borrowed <- AllSets
  Owned <- AllSets
  OwnedSought <- NoSets
  Pieces <- SomeRanges
  Inner <- SomeSets
INVARIANTS TypeOK SetInvariant QueriesAgree CoverExact
PROPERTIES YieldsInOrder YieldsExactly
