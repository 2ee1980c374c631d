\* Two setups, one after the other, the first of which may be killed.
SPECIFICATION SetupSpec
CONSTANTS
  r1 = r1  r2 = r2  r3 = r3  r4 = r4
  Run = {r1, r2}
  AppRun = {r1, r2}
  TestRun = {}
  UserCount = 2
  Overlap = FALSE
  Faults = TRUE
  NoRun = NoRun  NoFile = NoFile  Incomplete = Incomplete  NoSubject = NoSubject
  GivenKey = {}
  Key <- Keys
  Subject <- Subjects
  Hour = 4
  Second = 2
  MaxTime = 0
  MaxIssued = 0
  Method = {}
  Path = {}
INVARIANTS SetupIsIdempotent
CHECK_DEADLOCK FALSE
