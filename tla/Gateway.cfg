\* Two instances with Redis; the device drops its connections and sends pings.
SPECIFICATION Spec
CONSTANTS
  d1 = d1
  Pong = Pong
  Nobody = Nobody
  Instances = {g1, g2}
  Devices = {d1}
  MaxConns = 3
  Events = {m1}
  Target <- MCTarget
  Capacity = 1
  WithRedis = TRUE
  MayLose = TRUE
  MayCrash = TRUE
  MayTimeOut = TRUE
  MayPing = TRUE
\* When the connections are used up and the events handled nothing is left to do.
CHECK_DEADLOCK FALSE
SYMMETRY Processes
INVARIANTS
  TypeOK
  RegisteredIsOpen
  NoZombies
  OncePerInstance
