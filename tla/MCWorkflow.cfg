SPECIFICATION Spec
CONSTANTS
  Events <- MCEvents
  CareEvent = "occupational_injury"
  FuneralEvents <- MCFuneralEvents
  Items <- MCItems
  BaseItems <- MCBaseItems
  ProgramStatus <- MCProgramStatus
  Fields <- MCFields
  Registered <- MCRegistered
  UsedBy <- MCUsedBy
  AskOrder <- MCAskOrder
  Values <- MCValues
  NoValue = NoValue
  Legal <- MCLegal
  Jurisdiction = "jurisdiction"
  LocalOf <- MCLocalOf
  RelevantWhen <- MCRelevantWhen
  MaxEventRetries = 2
  MaxLoopIterations = 6
  MaxConfirmed = 5
  MaxExtras = 3
  TurnBound = 8
INVARIANTS
  TypeOK
  SessionRests
  FinishedMeansSettled
  LimitDowngrades
  NoConclusionWithoutEvidence
  ListMatchesAnswers
  RetryExit
  PrivacyGateHolds
  QuestionWhileMissing
PROPERTIES
  ReviewIffNeeded
  ItemLifecycle
  EndedIsFinal
  AnswersAreKept
CHECK_DEADLOCK FALSE
