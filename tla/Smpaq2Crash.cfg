SPECIFICATION FairCrashSpec
CONSTANTS
  N = 2
  SNELES = 2
  QueryItem = 2
  Masks = {1, 6}
  Word = 8
  Payload <- MCPayload
  MayCrash = {"client", "server"}
INVARIANTS ReportsOnlyAfterShares ReportsSomeShares NeverWarned
PROPERTY SurvivorEnds
CHECK_DEADLOCK FALSE
