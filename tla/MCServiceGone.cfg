SPECIFICATION Spec
CONSTANTS
  Events <- MCEvents
  CareEvent = "occupational_injury"
  FuneralEvents <- MCEvents
  Items <- MCItems
  BaseItems <- MCBaseItems
  ProgramStatus <- MCProgramStatus
  Fields <- MCFields
  Registered <- MCFields
  UsedBy <- MCUsedBy
  AskOrder <- MCAskOrder
  Values <- MCValues
  NoValue = NoValue
  Legal <- MCLegal
  Jurisdiction = "insurance"
  LocalOf <- MCLocalOf
  RelevantWhen <- MCRelevantWhen
  MaxEventRetries = 0
  MaxLoopIterations = 3
  MaxConfirmed = 1
  MaxExtras = 0
  TurnBound = 2
  NoSession = NoSession
  SessionTTL = 1
  LastTick = 1
  Sessions = {s1}
  Calls = {c1, c2}
PROPERTY GoneStaysGone
CHECK_DEADLOCK FALSE
