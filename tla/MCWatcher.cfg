SPECIFICATION FairSpec
CONSTANTS
  Paths = {p1, p2}
  Broken = {}
  SameSecond = FALSE
  Clients = {c1}
  BufferSize = 1
  MaxTexts = 2
  MaxWatches = 2
  None = None
INVARIANTS
  WhatIsShownIsCurrent
  StreamsHaveNoGaps
PROPERTIES
  ChangesAreCompiled
