SPECIFICATION FairSpec
CONSTANTS
  GLC_RACP_DATABASE_SIZE = 5
  MaxTime = 1
  Operations = {"REPORT_RECS", "DELETE_RECS", "REPORT_NBR_OF_RECS", "OTHER"}
  Samples <- MixedSamples
  MaxRecords = 6
  MaxRequests = 2
  Toggled = {"racp"}
  MaxDisruptions = 1
  Liberties = {}
INVARIANTS
  TypeOK
  CountFollowsRing
  ReportsWhatIsDue
  ResponsesAreAsked
  BusyMeansSending
PROPERTIES
  ImplementsStore
  RequestsAnswered
CHECK_DEADLOCK FALSE
