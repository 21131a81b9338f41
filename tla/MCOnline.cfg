SPECIFICATION Spec
CONSTANTS
  MaxSent = 6
  MaxLost = 2

  Tabs = {one, two}
  Items = {"pension", "grant"}
  LifeEvents = {"bereavement", "unemployment"}
  FlowSteps = 2

  Threads = {t1, t2, t3}
  NoThread = NoThread
  Gap = 2
  MaxCalls = 3
  LastTick = 7

  Programs <- MCPrograms
  Values <- MCValues
  Unknown = Unknown
  NoRule = NoRule
INVARIANTS
  TypeOK
  AnswersGoWhereAsked
  DescribedOnce
  LockedWhileAwaiting
  PageIsCurrent
  SlotsAreSpaced
  ScoreWithinCap
PROPERTIES
  CallEnds
  ProgressKept
  VerdictIsStable
  AskingEnds
