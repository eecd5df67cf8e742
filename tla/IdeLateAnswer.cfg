\* A second login while a poll of the first is under way.
SPECIFICATION Spec
CONSTANTS
  Logins = {f1, f2}
  Slots = {s1}
  MaxPairs = 1
  NoLogin = NoLogin
INVARIANTS PollsUntilAnswered
\* Nobody need log in or sync again.
CHECK_DEADLOCK FALSE
