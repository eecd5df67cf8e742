\* One device comes back to an instance that nobody stops.
SPECIFICATION Spec
CONSTANTS
  d1 = d1
  Pong = Pong
  Nobody = Nobody
  Instances = {g1}
  Devices = {d1}
  MaxConns = 3
  Events = {m1}
  Target <- MCTarget
  Capacity = 1
  WithRedis = FALSE
  MayLose = FALSE
  MayCrash = FALSE
  MayTimeOut = FALSE
  MayPing = FALSE
\* When the connections are used up and the events handled nothing is left to do.
CHECK_DEADLOCK FALSE
PROPERTIES
  OwnReaderEnds
