SPECIFICATION FairSpec
CONSTANTS
  Paths = {p1}
  Broken = {2}
  SameSecond = TRUE
  Clients = {}
  BufferSize = 1
  MaxTexts = 3
  MaxWatches = 1
  None = None
PROPERTIES
  ChangesAreCompiled
