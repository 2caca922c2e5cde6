SPECIFICATION Spec
CONSTANTS
  Topics = {t1}
  Subscribers = {s1, s2}
  Publishers = {}
  Configs <- MCConfigs
  DefaultConfig <- UnorderedOneRetry
  MaxPublish = 1
  None = None
INVARIANTS
  DeliveredIsInFlight
