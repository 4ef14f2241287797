SPECIFICATION Spec
CONSTANTS
  Null = Null
  Torn = Torn
  Stray = Stray
  Contents <- MCContents
  Base = "base"
  Eligible <- MCEligible
  Green <- MCGreen
  Oracles <- MCOracles
  Meets <- MCMeets
  Forged <- MCForged
  Editable <- MCEditable
  MaxEdits = 3
  MaxFaults = 1
INVARIANTS ImprovedIsReal BlockedNeverJudged
PROPERTY TrialSpec
CONSTRAINT Affordable
CHECK_DEADLOCK FALSE
