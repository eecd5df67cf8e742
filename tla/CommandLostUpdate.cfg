\* Two devices answer an automatic command at once; nothing fails.
SPECIFICATION FairSpec
CONSTANTS
  ops = ops
  lead = lead
  d1 = d1
  d2 = d2
  ls = ls
  rm = rm
  NoTask = NoTask
  NoExec = NoExec
  NoPolicy = NoPolicy
  Handlers = {h1, h2}
  Users = {ops, lead}
  Devices = {d1, d2}
  Payloads = {ls, rm}
  Contents <- BothDevices
  SystemRisk <- MCRisk
  ActiveSets <- AllActive
  PolicyTables <- StrictOnly
  EmergencyHolders = {}
  BypassHolders = {ops}
  SuperAdmins = {}
  ApprovalTTL = 0
  MaxNow = 0
  MaxRequests = 1
  MayCrash = FALSE
  MayFail = FALSE
  MayTimeOut = FALSE
  MayLose = FALSE
\* When the only request is done and answered nothing is left to do.
CHECK_DEADLOCK FALSE
PROPERTIES
  Concluded
