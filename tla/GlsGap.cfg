SPECIFICATION Spec
CONSTANTS
  GLC_RACP_DATABASE_SIZE = 5
  MaxTime = 1
  Operations = {"REPORT_RECS", "DELETE_RECS", "REPORT_NBR_OF_RECS", "OTHER"}
  Samples <- MixedSamples
  MaxRecords = 6
  MaxRequests = 2
  Toggled = {"racp"}
  MaxDisruptions = 0
  Liberties = {"gap"}
INVARIANTS
  ReportsWhatIsDue
CHECK_DEADLOCK FALSE
