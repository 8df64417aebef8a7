CONSTANTS
  Domains <- MCDomains
  MaxDepth = 10
  None = None
  MaxLabels = 10
  Absent = Absent
  Main = "d0"
  Scenarios <- MCScenarios
SPECIFICATION FairSpec
INVARIANTS NothingOverlooked ScoredWhereRedirectsLead NearestRecord NothingMissed SpfCardAgrees DmarcCardAgrees BimiCardAgrees
PROPERTY AnalysisEnds
CHECK_DEADLOCK FALSE
