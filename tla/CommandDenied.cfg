\* An approval and a denial of the same task, handled at once; nothing fails.
SPECIFICATION Spec
CONSTANTS
  ops = ops
  lead = lead
  d1 = d1
  d2 = d2
  ls = ls
  rm = rm
  NoTask = NoTask
  NoExec = NoExec
  NoPolicy = NoPolicy
  Handlers = {h1, h2}
  Users = {ops, lead}
  Devices = {d1}
  Payloads = {ls, rm}
  Contents <- OneDevice
  SystemRisk <- MCRisk
  ActiveSets <- AllActive
  PolicyTables <- StrictOnly
  EmergencyHolders = {}
  BypassHolders = {}
  SuperAdmins = {}
  ApprovalTTL = 0
  MaxNow = 0
  MaxRequests = 3
  MayCrash = FALSE
  MayFail = FALSE
  MayTimeOut = FALSE
  MayLose = FALSE
\* A deleted task leaves nothing to do.
CHECK_DEADLOCK FALSE
SYMMETRY Slots
INVARIANTS
  DeniedNeverRuns
