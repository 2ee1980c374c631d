\* Setups one after the other, with and without faults, and servers that are
\* started and stopped between their steps; tokens and requests over time.
SPECIFICATION Spec
CONSTANTS
  r1 = r1  r2 = r2  r3 = r3  r4 = r4  anna = anna  OldKey = OldKey
  Run = {r1, r2}
  AppRun = {r1, r2}
  TestRun = {r2}
  UserCount = 1
  Overlap = FALSE
  Faults = TRUE
  NoRun = NoRun  NoFile = NoFile  Incomplete = Incomplete  NoSubject = NoSubject
  GivenKey = {given}
  Key <- Keys
  Subject <- Subjects
  Customer = {anna}
  OldToken <- AnOldToken
  Hour = 4
  Second = 2
  MaxTime = 5
  MaxIssued = 1
  Method = {"GET", "POST", "HEAD"}
  Path <- Paths
INVARIANTS DeploymentInv DeploymentTypeOK RerunsSucceed KeyPairMatches CallsAreAuthentic TokensOutliveRestarts
PROPERTIES KeysKept
CHECK_DEADLOCK FALSE
