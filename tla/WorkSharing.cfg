SPECIFICATION SharingSpec
CONSTANTS
  Owner = Owner
  Thieves = {t1, t2}
  NoTask = NoTask
  InitialCapacity = 2
  MaxTasks = 4
  Main = Main
  NumThread = 2
  Values = {1, 2, 3}
  MaxSubmitted = 2
  MinPerThreads = {1, 2}
  MaxMore = 1
  MaxLength = 6
  Hardware = {0, 1, 3}
  Null = Null
INVARIANTS
  NoOverwrite
  RunOnce
  SubmitterWaits
  ResultRight
PROPERTIES
  Linearizable
  EveryJobEnds
