SPECIFICATION Spec
CONSTANTS
  None = None
  Hang = Hang
  Bound = 5
  Borrowed <- FewSets
  Owned <- NoSets
  OwnedSought <- FewSets
  Pieces <- SomeRanges
  Inner <- SomeSets
INVARIANT CallsReturn
