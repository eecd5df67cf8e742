--------------------------- MODULE SessionGateway ---------------------------
(***************************************************************************)
(* The session gateway: instances that each keep a registry of connected   *)
(* devices, a reader and a writer goroutine per connection, and a bounded  *)
(* channel between whoever sends to a device and its writer.  platform-api *)
(* posts events to any instance; an instance that cannot deliver publishes *)
(* the event on Redis, where every instance is subscribed.                 *)
(*                                                                         *)
(* The registry is guarded by a mutex, the channels are not: a sender      *)
(* looks its connection up, releases the lock and sends.  One action is    *)
(* one critical section or one operation on a channel or socket.  A send   *)
(* on a closed channel, and a second close of one, panic: gin recovers the *)
(* panic of an HTTP handler, any other ends the process.                   *)
(***************************************************************************)
EXTENDS Integers, Sequences

CONSTANTS
  Instances,   \* gateway processes
  Devices,
  MaxConns,    \* bound: how many connections are ever made
  Events,      \* events platform-api ever posts, each once
  Target,      \* the device each event is for
  Capacity,    \* capacity of SendCh, 64 in the code
  WithRedis,   \* was Redis there when the instances started?
  MayLose,     \* may pub/sub lose a message on the way to a subscriber?
  MayCrash,    \* may an instance be stopped and restarted?
  MayTimeOut,  \* may a write to a socket time out?
  MayPing,     \* do devices send heartbeat.ping?
  Pong,        \* the answer to a device's heartbeat.ping
  Nobody

Conns == 1 .. MaxConns
NoConn == 0

ASSUME TargetAssumption == Target \in [Events -> Devices]
ASSUME BoundsAssumption == MaxConns \in Nat /\ Capacity \in Nat \ {0}
ASSUME FlagsAssumption  == {WithRedis, MayLose, MayCrash, MayTimeOut, MayPing} \subseteq BOOLEAN
ASSUME PongAssumption   == Pong \notin Events
ASSUME NobodyAssumption == Nobody \notin Instances \cup Devices

VARIABLES
  alive,      \* the instances whose process runs
  registry,   \* SessionManager.connections of each instance
  dialled,    \* connections are numbered in the order they are made
  home,       \* the instance a connection was made to
  owner,      \* the device that made it
  reader,     \* where its goroutine readPump is
  writer,     \* does its goroutine writePump run?
  sock,       \* is the gateway's end of its socket open?
  open,       \* is its SendCh there and not closed?
  chan,       \* what is in its SendCh
  agent,      \* the connection each device holds on its side
  request,    \* where the HTTP request of each event is
  via,        \* the instance that handles it
  holds,      \* the connection its handler looked up
  bus,        \* pub/sub messages on their way to each instance
  subHolds,   \* the connection a subscriber looked up for the head of its bus
  received    \* history: the events each device got, and from which instance

connVars == <<dialled, home, owner, reader, writer, sock, open, chan>>
httpVars == <<request, via, holds>>
subVars  == <<bus, subHolds>>
vars     == <<alive, registry, connVars, agent, httpVars, subVars, received>>

\* "upgraded" is the handler of a new connection before it registers it; "leaving" a
\* reader that has left the registry and not yet closed its channel.
ReaderStates == {"none", "upgraded", "reading", "leaving", "gone"}

RequestStates == {"waiting", "sending", "publishing",
                  "delivered", "forwarded", "refused", "failed"}

Init ==
  /\ alive = Instances
  /\ registry = [g \in Instances |-> [d \in Devices |-> NoConn]]
  /\ dialled = 0
  /\ home = [c \in Conns |-> Nobody]
  /\ owner = [c \in Conns |-> Nobody]
  /\ reader = [c \in Conns |-> "none"]
  /\ writer = [c \in Conns |-> FALSE]
  /\ sock = [c \in Conns |-> FALSE]
  /\ open = [c \in Conns |-> FALSE]
  /\ chan = [c \in Conns |-> <<>>]
  /\ agent = [d \in Devices |-> NoConn]
  /\ request = [m \in Events |-> "waiting"]
  /\ via = [m \in Events |-> Nobody]
  /\ holds = [m \in Events |-> NoConn]
  /\ bus = [g \in Instances |-> <<>>]
  /\ subHolds = [g \in Instances |-> NoConn]
  /\ received = [d \in Devices |-> <<>>]

-----------------------------------------------------------------------------
(* The end of a process *)

\* The process of instance g ends, and with it its registry, goroutines and channels.
\* A request it was handling gets no answer, pub/sub keeps nothing for it.
Down(g) ==
  LET here == {c \in Conns : home[c] = g}
      cut(f, value) == [c \in Conns |-> IF c \in here THEN value ELSE f[c]]
  IN  /\ alive' = alive \ {g}
      /\ registry' = [registry EXCEPT ![g] = [d \in Devices |-> NoConn]]
      /\ reader' = cut(reader, "gone")
      /\ writer' = cut(writer, FALSE)
      /\ sock' = cut(sock, FALSE)
      /\ open' = cut(open, FALSE)
      /\ chan' = cut(chan, <<>>)
      /\ request' = [m \in Events |-> IF via[m] = g THEN "failed" ELSE request[m]]
      /\ via' = [m \in Events |-> IF via[m] = g THEN Nobody ELSE via[m]]
      /\ holds' = [m \in Events |-> IF via[m] = g THEN NoConn ELSE holds[m]]
      /\ bus' = [bus EXCEPT ![g] = <<>>]
      /\ subHolds' = [subHolds EXCEPT ![g] = NoConn]
      /\ UNCHANGED <<dialled, home, owner, agent, received>>

Stop(g) ==
  /\ MayCrash
  /\ g \in alive
  /\ Down(g)

Restart(g) ==
  /\ g \notin alive
  /\ alive' = alive \cup {g}
  /\ UNCHANGED <<registry, connVars, agent, httpVars, subVars, received>>

-----------------------------------------------------------------------------
(* Connections *)

\* connectLoop of the agent: without a connection it dials, and the balancer picks an
\* instance that runs.
Dial(d, g) ==
  LET c == dialled + 1
  IN  /\ agent[d] = NoConn
      /\ g \in alive
      /\ c \in Conns
      /\ dialled' = c
      /\ home' = [home EXCEPT ![c] = g]
      /\ owner' = [owner EXCEPT ![c] = d]
      /\ reader' = [reader EXCEPT ![c] = "upgraded"]
      /\ sock' = [sock EXCEPT ![c] = TRUE]
      /\ open' = [open EXCEPT ![c] = TRUE]
      /\ agent' = [agent EXCEPT ![d] = c]
      /\ UNCHANGED <<alive, registry, writer, chan, httpVars, subVars, received>>

\* The agent loses its connection: its network breaks or it restarts.
AgentDrops(d) ==
  /\ agent[d] # NoConn
  /\ agent' = [agent EXCEPT ![d] = NoConn]
  /\ UNCHANGED <<alive, registry, connVars, httpVars, subVars, received>>

\* Mutant: the agent does not watch its connection.
AgentNoticesNever(d) ==
  /\ agent[d] # NoConn
  /\ ~sock[agent[d]]
  /\ UNCHANGED vars

\* The agent sees that the gateway has closed the connection.
AgentNotices(d) ==
  /\ agent[d] # NoConn
  /\ ~sock[agent[d]]
  /\ AgentDrops(d)

\* HandleAgentConnection's critical section: the connection the device had before is
\* closed, channel and socket, and the new one takes its place and is served.  The old
\* channel is open at this point (RegisteredIsOpen), so this close does not panic.
Register(c) ==
  LET g   == home[c]
      old == registry[g][owner[c]]
  IN  /\ reader[c] = "upgraded"
      /\ registry' = [registry EXCEPT ![g][owner[c]] = c]
      /\ open' = [x \in Conns |-> open[x] /\ x # old]
      /\ sock' = [x \in Conns |-> sock[x] /\ x # old]
      /\ reader' = [reader EXCEPT ![c] = "reading"]
      /\ writer' = [writer EXCEPT ![c] = TRUE]
      /\ UNCHANGED <<alive, dialled, home, owner, chan, agent, httpVars, subVars, received>>

\* Mutant: neither ping nor read deadline.
PeerGoneNever(c) == FALSE

\* The device is no longer at the other end of c: pings fail, the read deadline passes.
PeerGone(c) == agent[owner[c]] # c

\* writePump: the next message goes out, and arrives if the device is still there.
WriterWrites(c) ==
  /\ writer[c]
  /\ chan[c] # <<>>
  /\ sock[c]
  /\ chan' = [chan EXCEPT ![c] = Tail(@)]
  /\ received' = IF PeerGone(c) \/ Head(chan[c]) = Pong THEN received
                 ELSE [received EXCEPT ![owner[c]] = Append(@, [event |-> Head(chan[c]),
                                                                from |-> home[c]])]
  /\ UNCHANGED <<alive, registry, dialled, home, owner, reader, writer, sock, open, agent,
                 httpVars, subVars>>

\* Mutant: writePump ends without closing the connection.
WriterEndsOnly(c) ==
  /\ writer' = [writer EXCEPT ![c] = FALSE]
  /\ UNCHANGED <<alive, registry, dialled, home, owner, reader, sock, open, chan, agent,
                 httpVars, subVars, received>>

\* writePump returns, and its deferred function closes the socket.
WriterEnds(c) ==
  /\ writer' = [writer EXCEPT ![c] = FALSE]
  /\ sock' = [sock EXCEPT ![c] = FALSE]
  /\ UNCHANGED <<alive, registry, dialled, home, owner, reader, open, chan, agent,
                 httpVars, subVars, received>>

\* A write fails, or the channel is closed and read to its end.
WriterStops(c) ==
  /\ writer[c]
  /\ ~sock[c] \/ PeerGone(c) \/ (~open[c] /\ chan[c] = <<>>)
  /\ WriterEnds(c)

WriteTimesOut(c) ==
  /\ MayTimeOut
  /\ writer[c]
  /\ WriterEnds(c)

\* Mutant: the reader leaves whatever connection its device has.
ReaderLeavesAny(c) ==
  /\ reader[c] = "reading"
  /\ ~sock[c] \/ PeerGone(c)
  /\ reader' = [reader EXCEPT ![c] = "leaving"]
  /\ registry' = [registry EXCEPT ![home[c]][owner[c]] = NoConn]
  /\ UNCHANGED <<alive, dialled, home, owner, writer, sock, open, chan, agent,
                 httpVars, subVars, received>>

\* Mutant: the reader does not unregister its connection.
ReaderLeavesEntry(c) ==
  /\ reader[c] = "reading"
  /\ ~sock[c] \/ PeerGone(c)
  /\ reader' = [reader EXCEPT ![c] = "leaving"]
  /\ UNCHANGED <<alive, registry, dialled, home, owner, writer, sock, open, chan, agent,
                 httpVars, subVars, received>>

\* A read fails: the deferred function of readPump takes the lock and unregisters the
\* connection, if it is still the one its device has.
ReaderLeaves(c) ==
  /\ reader[c] = "reading"
  /\ ~sock[c] \/ PeerGone(c)
  /\ reader' = [reader EXCEPT ![c] = "leaving"]
  /\ registry' = [registry EXCEPT ![home[c]][owner[c]] = IF @ = c THEN NoConn ELSE @]
  /\ UNCHANGED <<alive, dialled, home, owner, writer, sock, open, chan, agent,
                 httpVars, subVars, received>>

\* It then closes the channel, without the lock: a panic if Register has done so.
ReaderCloses(c) ==
  /\ reader[c] = "leaving"
  /\ \/ /\ ~open[c]
        /\ Down(home[c])
     \/ /\ open[c]
        /\ reader' = [reader EXCEPT ![c] = "gone"]
        /\ open' = [open EXCEPT ![c] = FALSE]
        /\ sock' = [sock EXCEPT ![c] = FALSE]
        /\ UNCHANGED <<alive, registry, dialled, home, owner, writer, chan, agent,
                       httpVars, subVars, received>>

-----------------------------------------------------------------------------
(* Sending: HTTP handlers and subscribers *)

\* Mutant: one more message than the channel has room for.
RoomForOneMore(c) == Len(chan[c]) <= Capacity

Room(c) == Len(chan[c]) < Capacity

\* The handler of m goes on, on instance g with connection c.
Goto(m, state, g, c) ==
  /\ request' = [request EXCEPT ![m] = state]
  /\ via' = [via EXCEPT ![m] = g]
  /\ holds' = [holds EXCEPT ![m] = c]

Answer(m, state) == Goto(m, state, Nobody, NoConn)

Enqueue(c, m) == chan' = [chan EXCEPT ![c] = Append(@, m)]

\* What HandleDeviceEvent does with an event it could not put in a channel.
Fallback(m, g) ==
  IF WithRedis THEN Goto(m, "publishing", g, NoConn) ELSE Answer(m, "refused")

\* HandleDeviceEvent on instance g looks the device up.
Receive(m, g) ==
  LET c == registry[g][Target[m]]
  IN  /\ request[m] = "waiting"
      /\ g \in alive
      /\ IF c = NoConn
         THEN Fallback(m, g)
         ELSE Goto(m, "sending", g, c)
      /\ UNCHANGED <<alive, registry, connVars, agent, subVars, received>>

\* Mutant: the event is published after it was delivered, too.
SendTwice(m) ==
  LET c == holds[m]
  IN  /\ request[m] = "sending"
      /\ IF open[c] /\ Room(c) THEN Enqueue(c, m) ELSE UNCHANGED chan
      /\ Fallback(m, via[m])
      /\ UNCHANGED <<alive, registry, dialled, home, owner, reader, writer, sock, open,
                     agent, subVars, received>>

\* It sends on the channel it looked up, which may be closed by now.
Send(m) ==
  LET c == holds[m]
  IN  /\ request[m] = "sending"
      /\ \/ /\ ~open[c]
            /\ Answer(m, "failed")
            /\ UNCHANGED chan
         \/ /\ open[c] /\ Room(c)
            /\ Enqueue(c, m)
            /\ Answer(m, "delivered")
         \/ /\ open[c] /\ ~Room(c)
            /\ Fallback(m, via[m])
            /\ UNCHANGED chan
      /\ UNCHANGED <<alive, registry, dialled, home, owner, reader, writer, sock, open,
                     agent, subVars, received>>

\* PublishSessionEvent: every subscriber gets the event, or loses it; an error of Redis
\* is logged and the request answered all the same.
Publish(m) ==
  /\ request[m] = "publishing"
  /\ \E subs \in SUBSET alive :
       /\ MayLose \/ subs = alive
       /\ bus' = [g \in Instances |-> IF g \in subs THEN Append(bus[g], m) ELSE bus[g]]
  /\ Answer(m, "forwarded")
  /\ UNCHANGED <<alive, registry, connVars, agent, subHolds, received>>

\* subscribeLoop takes the next message and looks its device up, here.
SubTakes(g) ==
  LET c == registry[g][Target[Head(bus[g])]]
  IN  /\ bus[g] # <<>>
      /\ subHolds[g] = NoConn
      /\ IF c = NoConn
         THEN bus' = [bus EXCEPT ![g] = Tail(@)] /\ UNCHANGED subHolds
         ELSE subHolds' = [subHolds EXCEPT ![g] = c] /\ UNCHANGED bus
      /\ UNCHANGED <<alive, registry, connVars, agent, httpVars, received>>

\* It sends: a closed channel ends the process, a full one drops the message.
SubSends(g) ==
  LET c == subHolds[g]
  IN  /\ c # NoConn
      /\ \/ /\ ~open[c]
            /\ Down(g)
         \/ /\ open[c]
            /\ IF Room(c) THEN Enqueue(c, Head(bus[g])) ELSE UNCHANGED chan
            /\ bus' = [bus EXCEPT ![g] = Tail(@)]
            /\ subHolds' = [subHolds EXCEPT ![g] = NoConn]
            /\ UNCHANGED <<alive, registry, dialled, home, owner, reader, writer, sock, open,
                           agent, httpVars, received>>

\* handleAgentEvent, still in the reader's goroutine, answers a ping on the connection's
\* own channel: it drops the answer when the channel is full, and a channel that
\* Register has closed ends the process.
AnswerPing(c) ==
  /\ MayPing
  /\ reader[c] = "reading"
  /\ \/ /\ ~open[c]
        /\ Down(home[c])
     \/ /\ open[c] /\ Room(c)
        /\ Enqueue(c, Pong)
        /\ UNCHANGED <<alive, registry, dialled, home, owner, reader, writer, sock, open,
                       agent, httpVars, subVars, received>>

-----------------------------------------------------------------------------
(* Specification *)

DialSome(d) == \E g \in Instances : Dial(d, g)

Serve(c) ==
  \/ Register(c)
  \/ WriterWrites(c)
  \/ WriterStops(c)
  \/ ReaderLeaves(c)
  \/ ReaderCloses(c)

Subscribe(g) == SubTakes(g) \/ SubSends(g)

Next ==
  \/ \E d \in Devices : DialSome(d) \/ AgentDrops(d) \/ AgentNotices(d)
  \/ \E c \in Conns : Serve(c) \/ WriteTimesOut(c) \/ AnswerPing(c)
  \/ \E m \in Events : (\E g \in Instances : Receive(m, g)) \/ Send(m) \/ Publish(m)
  \/ \E g \in Instances : Subscribe(g) \/ Stop(g) \/ Restart(g)

Spec == Init /\ [][Next]_vars

\* Goroutines run on, agents keep dialling, and the Deployment of deploy/k8s starts a
\* process that ends again.
FairSpec ==
  /\ Spec
  /\ \A d \in Devices : WF_vars(DialSome(d)) /\ WF_vars(AgentNotices(d))
  /\ \A c \in Conns :
       /\ WF_vars(Register(c))
       /\ WF_vars(WriterWrites(c)) /\ WF_vars(WriterStops(c))
       /\ WF_vars(ReaderLeaves(c)) /\ WF_vars(ReaderCloses(c))
  /\ \A m \in Events : WF_vars(Send(m)) /\ WF_vars(Publish(m))
  /\ \A g \in Instances : WF_vars(Subscribe(g)) /\ WF_vars(Restart(g))

-----------------------------------------------------------------------------
(* Properties *)

\* Registries, channels and requests have the types of the code, and no channel holds
\* more than its capacity.
TypeOK ==
  /\ alive \subseteq Instances
  /\ registry \in [Instances -> [Devices -> Conns \cup {NoConn}]]
  /\ dialled \in 0 .. MaxConns
  /\ home \in [Conns -> Instances \cup {Nobody}]
  /\ owner \in [Conns -> Devices \cup {Nobody}]
  /\ reader \in [Conns -> ReaderStates]
  /\ writer \in [Conns -> BOOLEAN]
  /\ sock \in [Conns -> BOOLEAN]
  /\ open \in [Conns -> BOOLEAN]
  /\ chan \in [Conns -> Seq(Events \cup {Pong})]
  /\ \A c \in Conns : Len(chan[c]) <= Capacity
  /\ agent \in [Devices -> Conns \cup {NoConn}]
  /\ request \in [Events -> RequestStates]
  /\ via \in [Events -> Instances \cup {Nobody}]
  /\ holds \in [Events -> Conns \cup {NoConn}]
  /\ bus \in [Instances -> Seq(Events)]
  /\ subHolds \in [Instances -> Conns \cup {NoConn}]
  /\ received \in [Devices -> Seq([event: Events, from: Instances])]

\* Whoever holds the lock may send to any registered connection, or close it: its
\* channel is open.  Readers close theirs only after they have unregistered.
RegisteredIsOpen ==
  \A g \in Instances, d \in Devices :
    LET c == registry[g][d]
    IN  c # NoConn => open[c] /\ reader[c] = "reading" /\ home[c] = g /\ owner[c] = d

\* No agent sits on a connection that the gateway has forgotten: a connection that is
\* being read and whose socket is open is the one registered for its device.
NoZombies ==
  \A c \in Conns : reader[c] = "reading" /\ sock[c] => registry[home[c]][owner[c]] = c

\* An event reaches a device at most once through each instance, whether it is put in
\* the channel by the handler or by the subscriber of the same process.
OncePerInstance ==
  \A d \in Devices :
    \A i, j \in DOMAIN received[d] : received[d][i] = received[d][j] => i = j

Registered(d) == \E g \in Instances : registry[g][d] # NoConn /\ registry[g][d] = agent[d]

\* Whatever breaks, a device that keeps dialling is registered again with the
\* connection it holds, as long as the bound leaves it connections to make.
ReachableAgain == \A d \in Devices : []<>(Registered(d) \/ dialled = MaxConns)

\* What is in a channel is written, or the channel's connection is given up: a writer
\* that dies takes its connection along.
QueueDrains == \A c \in Conns : (chan[c] # <<>> /\ open[c]) ~> (chan[c] = <<>> \/ ~open[c])

Current(c) == reader[c] # "none" /\ registry[home[c]][owner[c]] = c

\* A connection that its device has left does not stay registered.
StaleIsForgotten ==
  \A c \in Conns : (Current(c) /\ agent[owner[c]] # c) ~> ~Current(c)

\* A connection ends by its own reader: while no instance is stopped, none is cut off
\* because a device came back.
OwnReaderEnds ==
  [][\A c \in Conns : reader[c] = "reading" => reader'[c] \in {"reading", "leaving"}]_vars

=============================================================================
