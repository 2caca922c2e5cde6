SPECIFICATION FairSpec
CONSTANTS
  Methods = {"GET", "POST"}
  Paths = {"app", "auth"}
  Star = "*"
  None = None
  Names <- MCNames
  Scopes <- MCScopes
  Threads = {a, b}
  Requests <- MCRequests
  PublicPaths = {"auth"}
  BodyMethods = {"POST"}
  Tokens = {"secret"}
  StartRules <- MCStartRules
  StartHooks <- MCStartHooks
  MaxRequests = 3
INVARIANTS
  ServedUnderAToken
  HooksNest
PROPERTIES
  ChargedByNarrowestRule
  EveryRequestIsAnswered
