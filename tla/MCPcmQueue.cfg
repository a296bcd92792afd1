CONSTANTS
  Players = {"exact", "native", "preview"}
  Lengths = {0, 1, 3}
  Capacity = 2
  MaxRequest = 3
  MaxCounted = 3
SPECIFICATION FairSpec
INVARIANTS
  TypeOK
  StrictExact
  CompleteIsPlayed
  GapsCounted
PROPERTY PlaybackEnds
