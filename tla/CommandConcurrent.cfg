\* Two requests interleave on one device; calls fail, the service restarts and
\* messages are lost.
SPECIFICATION Spec
CONSTANTS
  ops = ops
  lead = lead
  d1 = d1
  d2 = d2
  ls = ls
  rm = rm
  NoTask = NoTask
  NoExec = NoExec
  NoPolicy = NoPolicy
  Handlers = {h1, h2}
  Users = {ops, lead}
  Devices = {d1}
  Payloads = {ls, rm}
  Contents <- OneDevice
  SystemRisk <- MCRisk
  ActiveSets <- AllActive
  PolicyTables <- BothTables
  EmergencyHolders = {ops}
  BypassHolders = {}
  SuperAdmins = {lead}
  ApprovalTTL = 0
  MaxNow = 0
  MaxRequests = 3
  MayCrash = TRUE
  MayFail = TRUE
  MayTimeOut = FALSE
  MayLose = TRUE
\* A deleted task leaves nothing to do.
CHECK_DEADLOCK FALSE
SYMMETRY Slots
INVARIANTS
  TypeOK
  AuthorisedRuns
