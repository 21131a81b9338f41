SPECIFICATION Spec
CONSTANTS
  Sources = {"egov", "taipei"}
  Enabled = {"egov", "taipei"}
  Verified = {"egov"}
  Urls = {"index", "child", "abroad"}
  GovUrls = {"index", "child"}
  LandsOn <- MCLandsOn
  Bodies = {"page", "styled", "moved"}
  Texts = {"t1", "t2"}
  TextOf <- MCTextOf
  Jobs <- MCJobs
  None = None
  Workers = {w1, w2}
  MaxRuns = 3

  Oids = {"tax", "labor", "post"}
  Details = {"d1", "d2"}
  Feeds <- MCFeeds
  Importers = {p1, p2}
  Blank = Blank
  Invalid = Invalid
  Nothing = Nothing
  MaxImports = 4

  Programs = {"green", "joint", "fee"}
  KeyFields = {"purpose", "form"}
  Unknown <- MCUnknown
  PageOf <- MCPageOf
  HasAgency = {"green", "fee"}
  HasExcerpt = {"green", "joint"}
  RuleNames = {"deadline_days"}
  NoRow = NoRow
  LastTick = 3

  SourceIds = {"fund", "city", "tax", "labour"}
  Events = {"death", "birth", "moving"}
  Related <- MCRelated
  Crawled <- MCCrawled
  Frequency <- MCFrequency
  Never = Never
  Threads = {r1, r2}
  LastHalfDay = 3
  MaxQueued = 4
INVARIANTS
  TypeOK
  HealthMatchesRuns
  ProvenanceIsComplete
  StoredPageMatches
  RunsAreClosed
  ActiveIsLatestFeed
  CountsAddUp
  VerifiedMeansReviewed
  DueIsQueued
PROPERTIES
  HistoryIsKept
  ReviewHistoryIsKept
SYMMETRY ProcessSymmetry
