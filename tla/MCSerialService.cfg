SPECIFICATION SerialSpec
CONSTANTS
  Events <- MCEvents
  CareEvent = "occupational_injury"
  FuneralEvents <- MCEvents
  Items <- MCItems
  BaseItems <- MCBaseItems
  ProgramStatus <- MCProgramStatus
  Fields <- MCFields
  Registered <- MCFields
  UsedBy <- MCUsedBy
  AskOrder <- MCAskOrder
  Values <- MCValues
  NoValue = NoValue
  Legal <- MCLegal
  Jurisdiction = "insurance"
  LocalOf <- MCLocalOf
  RelevantWhen <- MCRelevantWhen
  MaxEventRetries = 0
  MaxLoopIterations = 2
  MaxConfirmed = 1
  MaxExtras = 0
  TurnBound = 1
  NoSession = NoSession
  SessionTTL = 1
  LastTick = 1
  Sessions = {s1, s2}
  Calls = {c1}
  Watched = s1
PROPERTY StoreImplementsWorkflow
CHECK_DEADLOCK FALSE
