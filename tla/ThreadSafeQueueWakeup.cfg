SPECIFICATION FairSpec
CONSTANTS
  Producers = {p1}
  Consumers = {c1}
  Values = {v1}
  NoValue = NoValue
  NoThread = NoThread
  MaxLen = 1
PROPERTY NoLostWakeup
