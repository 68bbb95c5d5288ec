SPECIFICATION FairSpec
CONSTANTS
  Cases <- MCCases
INVARIANTS
  VerdictComplete
  AlternateApplied
  StopTimeBinds
PROPERTIES
  EventuallyDone
