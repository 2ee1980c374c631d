\* Overlapping setups of all kinds, any of which may be killed at any step.
SPECIFICATION FairSetupSpec
CONSTANTS
  r1 = r1  r2 = r2  r3 = r3  r4 = r4
  Run = {r1, r2, r3, r4}
  AppRun = {r1, r2}
  TestRun = {r2, r3}
  UserCount = 2
  Overlap = TRUE
  Faults = TRUE
  NoRun = NoRun  NoFile = NoFile  Incomplete = Incomplete  NoSubject = NoSubject
  GivenKey = {given}
  Key <- Keys
  Subject <- Subjects
  Hour = 4
  Second = 2
  MaxTime = 0
  MaxIssued = 0
  Method = {}
  Path = {}
INVARIANTS SetupInv SetupTypeOK OkMeansMigrated DirtyIsGuarded TestFilesAgree
PROPERTIES EverySetupEnds
CHECK_DEADLOCK FALSE
