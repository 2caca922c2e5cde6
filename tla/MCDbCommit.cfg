SPECIFICATION TxSpec
CONSTANTS
  Namespaces = {n1}
  Keys = {k1, k2}
  Values = {1, 2, 3, 4}
  Threads = {a, b}
  MaxPuts = 4
  MaxOps = 2
INVARIANTS
  CommitsAreSerial
CHECK_DEADLOCK FALSE
