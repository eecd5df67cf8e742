\* Two logins, requests one after the other, three pairs of tokens.
SPECIFICATION Spec
CONSTANTS
  Logins = {f1, f2}
  Slots = {s1}
  MaxPairs = 3
  NoLogin = NoLogin
SYMMETRY Symmetry
INVARIANTS
  TypeOK
  TokensOnce
  DecisionStands
  OneTimeRefresh
  RevokedStaysRevoked
  ClientKeepsItsRow
  PollsInTurn
\* Nobody need log in or sync again.
CHECK_DEADLOCK FALSE
