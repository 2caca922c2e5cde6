SPECIFICATION Spec
CONSTANTS
  Namespaces = {codegen}
  Keys = {svc, latest}
  Values = {1, 2}
  TxIds = {x, y}
  Patterns = {{svc, latest}}
  Clients = {a, b}
  CodegenNs = codegen
  ServiceKey = svc
  LatestKey = latest
  MaxPuts = 2
  MaxOps = 2
  MaxUnits = 2
  None = None
SYMMETRY Symmetry
INVARIANTS
  HandlersSeeWholeCommits
  AcceptedPutsAreDecided
  AppliedOnce
