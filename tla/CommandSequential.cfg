\* One request at a time, on two devices, of which one may be named twice; calls to the
\* gateway may fail.
SPECIFICATION FairSpec
CONSTANTS
  ops = ops
  lead = lead
  d1 = d1
  d2 = d2
  ls = ls
  rm = rm
  NoTask = NoTask
  NoExec = NoExec
  NoPolicy = NoPolicy
  Handlers = {h1}
  Users = {ops, lead}
  Devices = {d1, d2}
  Payloads = {ls, rm}
  Contents <- AllLists
  SystemRisk <- MCRisk
  ActiveSets <- SomeActive
  PolicyTables <- StrictOnly
  EmergencyHolders = {}
  BypassHolders = {lead}
  SuperAdmins = {}
  ApprovalTTL = 0
  MaxNow = 1
  MaxRequests = 5
  MayCrash = FALSE
  MayFail = FALSE
  MayTimeOut = TRUE
  MayLose = FALSE
INVARIANTS
  WithdrawnNeverRuns
  NeverRunsTwice
  SummaryCorrect
PROPERTIES
  Concluded
