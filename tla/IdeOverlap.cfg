\* One login, two requests at once.
SPECIFICATION LiveSpec
CONSTANTS
  Logins = {f1}
  Slots = {s1, s2}
  MaxPairs = 1
  NoLogin = NoLogin
INVARIANTS TokensNeedApproval
PROPERTIES LoginEnds
\* Nobody need log in or sync again.
CHECK_DEADLOCK FALSE
