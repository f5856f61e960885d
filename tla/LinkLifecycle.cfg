SPECIFICATION FairSpec
CHECK_DEADLOCK FALSE
CONSTANTS
  Names = {"a", "b"}
  Ends <- MCEnds
  Calls <- MCCalls
  MaxResumes = 1
INVARIANTS ReachesPartner SessionSurvives NothingLeftBehind
PROPERTIES ExchangesComplete
