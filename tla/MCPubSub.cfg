SPECIFICATION Spec
CONSTANTS
  Topics = {t1}
  Subscribers = {s1, s2}
  Publishers = {c1}
  Configs <- MCConfigs
  DefaultConfig <- UnorderedOneRetry
  MaxPublish = 2
  None = None
INVARIANTS
  InFlightIsDelivered
  NoDoubleDelivery
  DeadLettersAreFiled
  FanOutNotUnderstated
PROPERTIES
  LostOnlyIfDelivered
  OrderedDelivery
  QueuesImplementSubscriptions
