------------------------- MODULE SessionGatewayProofs -------------------------
(***************************************************************************)
(* Type correctness of SessionGateway, the two invariants of its registry, *)
(* and that an event reaches a device at most once through each instance,  *)
(* for any number of instances, devices, connections and events.  The      *)
(* inductive invariant adds what a connection's goroutines know of it, and *)
(* for the last where the copies of an event may be.                       *)
(***************************************************************************)
EXTENDS SessionGateway, TLAPS, SequenceTheorems

\* A connection in use was dialled; one that waits to be registered has its channel.
ConnOK(c) ==
  /\ reader[c] = "none" <=> c > dialled
  /\ reader[c] = "none" <=> home[c] = Nobody
  /\ reader[c] # "none" => owner[c] \in Devices
  /\ writer[c] => reader[c] # "none"
  /\ reader[c] = "upgraded" => open[c]

EntryOK(g, d) ==
  registry[g][d] # NoConn =>
    /\ open[registry[g][d]]
    /\ reader[registry[g][d]] = "reading"
    /\ home[registry[g][d]] = g
    /\ owner[registry[g][d]] = d

NotZombie(c) == reader[c] = "reading" /\ sock[c] => registry[home[c]][owner[c]] = c

\* A handler that is about to send holds a connection.
RequestOK(m) == request[m] = "sending" => holds[m] # NoConn

SubscriberOK(g) == subHolds[g] # NoConn => bus[g] # <<>>

Inv ==
  /\ TypeOK
  /\ \A c \in Conns : ConnOK(c) /\ NotZombie(c)
  /\ \A g \in Instances, d \in Devices : EntryOK(g, d)
  /\ \A m \in Events : RequestOK(m)
  /\ \A g \in Instances : SubscriberOK(g)

USE TargetAssumption, BoundsAssumption, NobodyAssumption, PongAssumption DEF Conns, NoConn

LEMMA InitInv == Init => Inv
<1> SUFFICES ASSUME Init PROVE Inv
  OBVIOUS
<1>1. TypeOK
  BY DEF Init, TypeOK, ReaderStates, RequestStates
<1> QED
  BY <1>1 DEF Init, Inv, ConnOK, NotZombie, EntryOK, RequestOK, SubscriberOK

-----------------------------------------------------------------------------
(* The end of a process *)

\* Whatever ends the process of an instance, what is left behind is consistent: its
\* registry is empty and its connections are cut off.
LEMMA DownInv ==
  ASSUME Inv, NEW g \in Instances, Down(g)
  PROVE  Inv'
<1> USE DEF Down
<1>1. TypeOK'
  <2>1. <<>> \in Seq(Events \cup {Pong}) /\ <<>> \in Seq(Events) /\ Len(<<>>) = 0
    BY EmptySeq
  <2>2. /\ alive' \subseteq Instances
        /\ dialled' \in 0 .. MaxConns
        /\ home' \in [Conns -> Instances \cup {Nobody}]
        /\ owner' \in [Conns -> Devices \cup {Nobody}]
        /\ agent' \in [Devices -> Conns \cup {NoConn}]
        /\ received' \in [Devices -> Seq([event: Events, from: Instances])]
    BY DEF Inv, TypeOK
  <2>3. registry' \in [Instances -> [Devices -> Conns \cup {NoConn}]]
    BY DEF Inv, TypeOK
  <2>4. reader' \in [Conns -> ReaderStates]
    BY DEF Inv, TypeOK, ReaderStates
  <2>5. /\ writer' \in [Conns -> BOOLEAN]
        /\ sock' \in [Conns -> BOOLEAN]
        /\ open' \in [Conns -> BOOLEAN]
    BY DEF Inv, TypeOK
  <2>6. /\ chan' \in [Conns -> Seq(Events \cup {Pong})]
        /\ \A c \in Conns : Len(chan'[c]) <= Capacity
    BY <2>1 DEF Inv, TypeOK
  <2>7. /\ request' \in [Events -> RequestStates]
        /\ via' \in [Events -> Instances \cup {Nobody}]
        /\ holds' \in [Events -> Conns \cup {NoConn}]
    BY DEF Inv, TypeOK, RequestStates
  <2>8. /\ bus' \in [Instances -> Seq(Events)]
        /\ subHolds' \in [Instances -> Conns \cup {NoConn}]
    BY <2>1 DEF Inv, TypeOK
  <2> QED
    BY <2>2, <2>3, <2>4, <2>5, <2>6, <2>7, <2>8 DEF TypeOK
<1>2. ASSUME NEW c \in Conns PROVE ConnOK(c)'
  BY DEF Inv, TypeOK, ConnOK
<1>3. ASSUME NEW c \in Conns PROVE NotZombie(c)'
  BY DEF Inv, TypeOK, ConnOK, NotZombie
<1>4. ASSUME NEW h \in Instances, NEW d \in Devices PROVE EntryOK(h, d)'
  <2>1. CASE h = g
    BY <2>1 DEF Inv, TypeOK, EntryOK
  <2>2. CASE h # g
    BY <2>2 DEF Inv, TypeOK, EntryOK
  <2> QED  BY <2>1, <2>2
<1>5. ASSUME NEW m \in Events PROVE RequestOK(m)'
  BY DEF Inv, TypeOK, RequestOK
<1>6. ASSUME NEW h \in Instances PROVE SubscriberOK(h)'
  BY DEF Inv, TypeOK, SubscriberOK
<1> QED  BY <1>1, <1>2, <1>3, <1>4, <1>5, <1>6 DEF Inv

-----------------------------------------------------------------------------
(* Connections *)

LEMMA RestartInv ==
  ASSUME Inv, NEW g \in Instances, Restart(g)
  PROVE  Inv'
<1>1. TypeOK'
  BY DEF Inv, TypeOK, Restart, connVars, httpVars, subVars
<1> QED
  BY <1>1 DEF Inv, ConnOK, NotZombie, EntryOK, RequestOK, SubscriberOK,
              Restart, connVars, httpVars, subVars

\* A new connection takes a number no other has, so nothing refers to it.
LEMMA DialInv ==
  ASSUME Inv, NEW d \in Devices, NEW g \in Instances, Dial(d, g)
  PROVE  Inv'
<1> DEFINE n == dialled + 1
<1>1. n \in Conns /\ reader[n] = "none"
  BY DEF Inv, TypeOK, ConnOK, Dial
<1>2. TypeOK'
  <2>1. /\ dialled' \in 0 .. MaxConns
        /\ home' \in [Conns -> Instances \cup {Nobody}]
        /\ owner' \in [Conns -> Devices \cup {Nobody}]
        /\ agent' \in [Devices -> Conns \cup {NoConn}]
    BY <1>1 DEF Inv, TypeOK, Dial
  <2>2. /\ reader' \in [Conns -> ReaderStates]
        /\ sock' \in [Conns -> BOOLEAN]
        /\ open' \in [Conns -> BOOLEAN]
    BY <1>1 DEF Inv, TypeOK, ReaderStates, Dial
  <2> QED
    BY <2>1, <2>2 DEF Inv, TypeOK, Dial, httpVars, subVars
<1>3. ASSUME NEW c \in Conns PROVE ConnOK(c)'
  BY <1>1 DEF Inv, TypeOK, ConnOK, Dial
<1>4. ASSUME NEW c \in Conns PROVE NotZombie(c)'
  BY <1>1 DEF Inv, TypeOK, NotZombie, Dial
<1>5. ASSUME NEW h \in Instances, NEW e \in Devices PROVE EntryOK(h, e)'
  BY <1>1 DEF Inv, TypeOK, EntryOK, Dial
<1> QED
  BY <1>2, <1>3, <1>4, <1>5
     DEF Inv, RequestOK, SubscriberOK, Dial, httpVars, subVars

LEMMA AgentInv ==
  ASSUME Inv, NEW d \in Devices, AgentDrops(d)
  PROVE  Inv'
<1>1. TypeOK'
  BY DEF Inv, TypeOK, AgentDrops, connVars, httpVars, subVars
<1> QED
  BY <1>1 DEF Inv, ConnOK, NotZombie, EntryOK, RequestOK, SubscriberOK,
              AgentDrops, connVars, httpVars, subVars

\* The connection that is replaced is not the one that registers, and whoever was
\* registered before is closed: no second one is read with its socket open.
LEMMA RegisterInv ==
  ASSUME Inv, NEW c \in Conns, Register(c)
  PROVE  Inv'
<1> DEFINE g == home[c]
           d == owner[c]
           old == registry[g][d]
<1>1. g \in Instances /\ d \in Devices /\ open[c]
  BY DEF Inv, TypeOK, ConnOK, Register
<1>2. old # c
  BY <1>1 DEF Inv, EntryOK, Register
<1>3. registry' = [registry EXCEPT ![g][d] = c]
  BY DEF Register
<1>4. TypeOK'
  <2>1. registry' \in [Instances -> [Devices -> Conns \cup {NoConn}]]
    BY <1>1, <1>3 DEF Inv, TypeOK
  <2>2. reader' \in [Conns -> ReaderStates]
    BY DEF Inv, TypeOK, Register, ReaderStates
  <2>3. /\ open' \in [Conns -> BOOLEAN]
        /\ sock' \in [Conns -> BOOLEAN]
        /\ writer' \in [Conns -> BOOLEAN]
    BY DEF Inv, TypeOK, Register
  <2> QED
    BY <2>1, <2>2, <2>3 DEF Inv, TypeOK, Register, httpVars, subVars
<1>5. ASSUME NEW x \in Conns PROVE ConnOK(x)'
  <2>1. EntryOK(g, d)
    BY <1>1 DEF Inv
  <2>2. x = old => reader[x] = "reading"
    BY <2>1 DEF EntryOK
  <2> QED
    BY <1>2, <2>2 DEF Inv, TypeOK, ConnOK, Register
<1>6. ASSUME NEW x \in Conns PROVE NotZombie(x)'
  <2>1. CASE x = c
    BY <1>1, <1>3, <2>1 DEF Inv, TypeOK, NotZombie, Register
  <2>2. CASE x # c /\ reader'[x] = "reading" /\ sock'[x]
    <3>1. reader[x] = "reading" /\ sock[x] /\ x # old
      BY <2>2 DEF Inv, TypeOK, Register
    <3>2. registry[home[x]][owner[x]] = x
      BY <3>1 DEF Inv, NotZombie
    <3>3. home[x] \in Instances /\ owner[x] \in Devices
      BY <3>1 DEF Inv, TypeOK, ConnOK
    <3>4. registry'[home[x]][owner[x]] = x
      BY <1>1, <1>3, <2>2, <3>1, <3>2, <3>3 DEF Inv, TypeOK
    <3> QED
      BY <3>4 DEF NotZombie, Register
  <2> QED  BY <2>1, <2>2 DEF NotZombie
<1>7. ASSUME NEW h \in Instances, NEW e \in Devices PROVE EntryOK(h, e)'
  <2>1. CASE h = g /\ e = d
    BY <1>1, <1>2, <1>3, <2>1 DEF Inv, TypeOK, EntryOK, Register
  <2>2. CASE ~(h = g /\ e = d)
    <3>1. registry'[h][e] = registry[h][e]
      BY <1>1, <1>3, <2>2 DEF Inv, TypeOK
    <3>2. registry[h][e] # NoConn => registry[h][e] # old /\ registry[h][e] # c
      BY <1>1, <2>2 DEF Inv, EntryOK, Register
    <3> QED
      BY <3>1, <3>2 DEF Inv, TypeOK, EntryOK, Register
  <2> QED  BY <2>1, <2>2
<1> QED
  BY <1>4, <1>5, <1>6, <1>7 DEF Inv, RequestOK, SubscriberOK, Register, httpVars, subVars

LEMMA WriterWritesInv ==
  ASSUME Inv, NEW c \in Conns, WriterWrites(c)
  PROVE  Inv'
<1>1. chan[c] \in Seq(Events \cup {Pong}) /\ chan[c] # <<>> /\ Len(chan[c]) <= Capacity
  BY DEF Inv, TypeOK, WriterWrites
<1>2. /\ Head(chan[c]) \in Events \cup {Pong}
      /\ Tail(chan[c]) \in Seq(Events \cup {Pong})
      /\ Len(Tail(chan[c])) <= Capacity
  BY <1>1, HeadTailProperties
<1>3. home[c] \in Instances /\ owner[c] \in Devices
  BY DEF Inv, TypeOK, ConnOK, WriterWrites
<1>4. received' \in [Devices -> Seq([event: Events, from: Instances])]
  <2>1. CASE PeerGone(c) \/ Head(chan[c]) = Pong
    BY <2>1 DEF Inv, TypeOK, WriterWrites
  <2>2. CASE ~(PeerGone(c) \/ Head(chan[c]) = Pong)
    <3> DEFINE e == [event |-> Head(chan[c]), from |-> home[c]]
    <3>1. e \in [event: Events, from: Instances]
      BY <1>2, <1>3, <2>2
    <3>2. Append(received[owner[c]], e) \in Seq([event: Events, from: Instances])
      BY <1>3, <3>1, AppendProperties DEF Inv, TypeOK
    <3>3. received' = [received EXCEPT ![owner[c]] = Append(@, e)]
      BY <2>2 DEF WriterWrites
    <3> QED
      BY <3>2, <3>3 DEF Inv, TypeOK
  <2> QED  BY <2>1, <2>2
<1>5. /\ chan' \in [Conns -> Seq(Events \cup {Pong})]
      /\ \A x \in Conns : Len(chan'[x]) <= Capacity
  BY <1>2 DEF Inv, TypeOK, WriterWrites
<1>6. TypeOK'
  BY <1>4, <1>5 DEF Inv, TypeOK, WriterWrites, httpVars, subVars
<1> QED
  BY <1>6 DEF Inv, ConnOK, NotZombie, EntryOK, RequestOK, SubscriberOK,
              WriterWrites, httpVars, subVars

\* The end of a writer takes its socket along and leaves the registry alone.
LEMMA WriterEndsInv ==
  ASSUME Inv, NEW c \in Conns, WriterEnds(c)
  PROVE  Inv'
<1>1. TypeOK'
  BY DEF Inv, TypeOK, WriterEnds, httpVars, subVars
<1>2. ASSUME NEW x \in Conns PROVE ConnOK(x)' /\ NotZombie(x)'
  BY DEF Inv, TypeOK, ConnOK, NotZombie, WriterEnds
<1> QED
  BY <1>1, <1>2 DEF Inv, EntryOK, RequestOK, SubscriberOK, WriterEnds, httpVars, subVars

\* A reader that leaves takes its own entry out, and no other.
LEMMA ReaderLeavesInv ==
  ASSUME Inv, NEW c \in Conns, ReaderLeaves(c)
  PROVE  Inv'
<1> DEFINE g == home[c]
           d == owner[c]
<1>1. g \in Instances /\ d \in Devices /\ reader[c] = "reading"
  BY DEF Inv, TypeOK, ConnOK, ReaderLeaves
<1>2. registry' \in [Instances -> [Devices -> Conns \cup {NoConn}]]
  BY <1>1 DEF Inv, TypeOK, ReaderLeaves
<1>3. TypeOK'
  <2>1. reader' \in [Conns -> ReaderStates]
    BY DEF Inv, TypeOK, ReaderLeaves, ReaderStates
  <2> QED
    BY <1>2, <2>1 DEF Inv, TypeOK, ReaderLeaves, httpVars, subVars
<1>4. ASSUME NEW x \in Conns PROVE ConnOK(x)'
  BY <1>1 DEF Inv, TypeOK, ConnOK, ReaderLeaves
<1>5. ASSUME NEW h \in Instances, NEW e \in Devices
      PROVE  registry'[h][e] = IF h = g /\ e = d /\ registry[h][e] = c THEN NoConn
                               ELSE registry[h][e]
  BY <1>1 DEF Inv, TypeOK, ReaderLeaves
<1>6. ASSUME NEW x \in Conns PROVE NotZombie(x)'
  <2>1. CASE reader'[x] = "reading" /\ sock'[x]
    <3>1. x # c /\ reader[x] = "reading" /\ sock[x]
      BY <2>1 DEF Inv, TypeOK, ReaderLeaves
    <3>2. registry[home[x]][owner[x]] = x
      BY <3>1 DEF Inv, NotZombie
    <3>3. home[x] \in Instances /\ owner[x] \in Devices
      BY <3>1 DEF Inv, TypeOK, ConnOK
    <3> QED
      BY <1>5, <3>1, <3>2, <3>3 DEF NotZombie, ReaderLeaves
  <2> QED  BY <2>1 DEF NotZombie
<1>7. ASSUME NEW h \in Instances, NEW e \in Devices PROVE EntryOK(h, e)'
  <2>1. CASE registry'[h][e] # NoConn
    <3>1. registry'[h][e] = registry[h][e]
      BY <1>5, <2>1
    <3>2. EntryOK(h, e)
      BY DEF Inv
    <3>3. registry[h][e] # c
      BY <1>5, <2>1, <3>2 DEF EntryOK
    <3>4. registry[h][e] \in Conns
      BY <2>1, <3>1 DEF Inv, TypeOK
    <3>5. reader'[registry[h][e]] = reader[registry[h][e]]
      BY <3>3, <3>4 DEF Inv, TypeOK, ReaderLeaves
    <3> QED
      BY <2>1, <3>1, <3>2, <3>5 DEF EntryOK, ReaderLeaves
  <2> QED  BY <2>1 DEF EntryOK
<1> QED
  BY <1>3, <1>4, <1>6, <1>7 DEF Inv, RequestOK, SubscriberOK, ReaderLeaves, httpVars, subVars

\* The reader that closes its channel is no longer registered; one that finds the
\* channel closed ends the process.
LEMMA ReaderClosesInv ==
  ASSUME Inv, NEW c \in Conns, ReaderCloses(c)
  PROVE  Inv'
<1>1. CASE ~open[c]
  <2>1. home[c] \in Instances
    BY DEF Inv, TypeOK, ConnOK, ReaderCloses
  <2>2. Down(home[c])
    BY <1>1 DEF ReaderCloses
  <2> QED  BY <2>1, <2>2, DownInv
<1>2. CASE open[c]
  <2>0. /\ reader[c] = "leaving"
        /\ reader' = [reader EXCEPT ![c] = "gone"]
        /\ open' = [open EXCEPT ![c] = FALSE]
        /\ sock' = [sock EXCEPT ![c] = FALSE]
        /\ UNCHANGED <<alive, registry, dialled, home, owner, writer, chan, agent,
                       httpVars, subVars, received>>
    BY <1>2 DEF ReaderCloses
  <2>1. TypeOK'
    <3>1. reader' \in [Conns -> ReaderStates]
      BY <2>0 DEF Inv, TypeOK, ReaderStates
    <3> QED
      BY <2>0, <3>1 DEF Inv, TypeOK, httpVars, subVars
  <2>2. ASSUME NEW x \in Conns PROVE ConnOK(x)' /\ NotZombie(x)'
    BY <2>0 DEF Inv, TypeOK, ConnOK, NotZombie
  <2>3. ASSUME NEW h \in Instances, NEW e \in Devices PROVE EntryOK(h, e)'
    <3>1. EntryOK(h, e)
      BY DEF Inv
    <3>2. registry[h][e] # NoConn => registry[h][e] # c
      BY <2>0, <3>1 DEF EntryOK
    <3> QED
      BY <2>0, <3>1, <3>2 DEF Inv, TypeOK, EntryOK
  <2> QED
    BY <2>0, <2>1, <2>2, <2>3 DEF Inv, RequestOK, SubscriberOK, httpVars, subVars
<1> QED  BY <1>1, <1>2

-----------------------------------------------------------------------------
(* Sending *)

ChanType ==
  /\ chan \in [Conns -> Seq(Events \cup {Pong})]
  /\ \A c \in Conns : Len(chan[c]) <= Capacity

HttpType ==
  /\ request \in [Events -> RequestStates]
  /\ via \in [Events -> Instances \cup {Nobody}]
  /\ holds \in [Events -> Conns \cup {NoConn}]

BusType ==
  /\ bus \in [Instances -> Seq(Events)]
  /\ subHolds \in [Instances -> Conns \cup {NoConn}]

\* A message goes only where there is room for it.
LEMMA EnqueueType ==
  ASSUME ChanType, NEW c \in Conns, NEW m \in Events \cup {Pong}, Room(c), Enqueue(c, m)
  PROVE  ChanType'
<1>1. chan[c] \in Seq(Events \cup {Pong}) /\ Len(chan[c]) \in Nat
  BY LenProperties DEF ChanType
<1>2. /\ Append(chan[c], m) \in Seq(Events \cup {Pong})
      /\ Len(Append(chan[c], m)) = Len(chan[c]) + 1
  BY <1>1, AppendProperties
<1>3. Len(Append(chan[c], m)) <= Capacity
  BY <1>1, <1>2 DEF Room
<1> QED
  BY <1>2, <1>3 DEF ChanType, Enqueue

\* A step that touches neither connections nor registries only has to keep the types of
\* what it changes, and what its handlers and subscribers know.
LEMMA SendingInv ==
  ASSUME Inv, ChanType', HttpType', BusType',
         \A m \in Events : RequestOK(m)',
         \A g \in Instances : SubscriberOK(g)',
         UNCHANGED <<alive, registry, dialled, home, owner, reader, writer, sock, open,
                     agent, received>>
  PROVE  Inv'
<1>1. TypeOK'
  BY DEF Inv, TypeOK, ChanType, HttpType, BusType
<1> QED
  BY <1>1 DEF Inv, ConnOK, NotZombie, EntryOK

\* Wherever a handler goes, it keeps the types, and knows its connection if it sends.
LEMMA GotoInv ==
  ASSUME HttpType, \A m \in Events : RequestOK(m),
         NEW m \in Events, NEW state \in RequestStates, NEW g \in Instances \cup {Nobody},
         NEW c \in Conns \cup {NoConn}, state = "sending" => c # NoConn,
         Goto(m, state, g, c)
  PROVE  HttpType' /\ \A n \in Events : RequestOK(n)'
  BY DEF HttpType, RequestOK, Goto

LEMMA ReceiveInv ==
  ASSUME Inv, NEW m \in Events, NEW g \in Instances, Receive(m, g)
  PROVE  Inv'
<1> DEFINE c == registry[g][Target[m]]
<1>1. c \in Conns \cup {NoConn}
  BY DEF Inv, TypeOK
<1>2. HttpType /\ \A n \in Events : RequestOK(n)
  BY DEF Inv, TypeOK, HttpType
<1>3. {"sending", "publishing", "refused"} \subseteq RequestStates
  BY DEF RequestStates
<1>4. HttpType' /\ \A n \in Events : RequestOK(n)'
  <2>1. CASE c # NoConn
    <3>1. Goto(m, "sending", g, c)
      BY <2>1 DEF Receive
    <3> QED  BY <1>1, <1>2, <1>3, <2>1, <3>1, GotoInv
  <2>2. CASE c = NoConn /\ WithRedis
    <3>1. Goto(m, "publishing", g, NoConn)
      BY <2>2 DEF Receive, Fallback
    <3> QED  BY <1>2, <1>3, <3>1, GotoInv
  <2>3. CASE c = NoConn /\ ~WithRedis
    <3>1. Goto(m, "refused", Nobody, NoConn)
      BY <2>3 DEF Receive, Fallback, Answer
    <3> QED  BY <1>2, <1>3, <3>1, GotoInv
  <2> QED  BY <2>1, <2>2, <2>3
<1>5. ChanType' /\ BusType' /\ \A h \in Instances : SubscriberOK(h)'
  BY DEF Inv, TypeOK, ChanType, BusType, SubscriberOK, Receive, connVars, subVars
<1> QED
  BY <1>4, <1>5, SendingInv DEF Receive, connVars

LEMMA SendInv ==
  ASSUME Inv, NEW m \in Events, Send(m)
  PROVE  Inv'
<1> DEFINE c == holds[m]
<1>1. c \in Conns /\ via[m] \in Instances \cup {Nobody}
  BY DEF Inv, TypeOK, RequestOK, Send
<1>2. ChanType /\ HttpType /\ \A n \in Events : RequestOK(n)
  BY DEF Inv, TypeOK, ChanType, HttpType
<1>3. {"publishing", "delivered", "refused", "failed"} \subseteq RequestStates
  BY DEF RequestStates
<1>4. ChanType' /\ HttpType' /\ \A n \in Events : RequestOK(n)'
  <2>1. CASE ~open[c] /\ Answer(m, "failed") /\ UNCHANGED chan
    <3>1. Goto(m, "failed", Nobody, NoConn)
      BY <2>1 DEF Answer
    <3>2. HttpType' /\ \A n \in Events : RequestOK(n)'
      BY <1>2, <1>3, <3>1, GotoInv
    <3> QED  BY <1>2, <2>1, <3>2 DEF ChanType
  <2>2. CASE open[c] /\ Room(c) /\ Enqueue(c, m) /\ Answer(m, "delivered")
    <3>1. Goto(m, "delivered", Nobody, NoConn)
      BY <2>2 DEF Answer
    <3>2. HttpType' /\ \A n \in Events : RequestOK(n)'
      BY <1>2, <1>3, <3>1, GotoInv
    <3> QED  BY <1>1, <1>2, <2>2, <3>2, EnqueueType
  <2>3. CASE open[c] /\ ~Room(c) /\ Fallback(m, via[m]) /\ UNCHANGED chan
    <3>1. Goto(m, "publishing", via[m], NoConn) \/ Goto(m, "refused", Nobody, NoConn)
      BY <2>3 DEF Fallback, Answer
    <3>2. HttpType' /\ \A n \in Events : RequestOK(n)'
      BY <1>1, <1>2, <1>3, <3>1, GotoInv
    <3> QED  BY <1>2, <2>3, <3>2 DEF ChanType
  <2> QED  BY <2>1, <2>2, <2>3 DEF Send
<1>5. BusType' /\ \A h \in Instances : SubscriberOK(h)'
  BY DEF Inv, TypeOK, BusType, SubscriberOK, Send, subVars
<1> QED
  BY <1>4, <1>5, SendingInv DEF Send

LEMMA PublishInv ==
  ASSUME Inv, NEW m \in Events, Publish(m)
  PROVE  Inv'
<1>1. HttpType' /\ \A n \in Events : RequestOK(n)'
  <2>1. HttpType /\ \A n \in Events : RequestOK(n)
    BY DEF Inv, TypeOK, HttpType
  <2>2. Goto(m, "forwarded", Nobody, NoConn)
    BY DEF Publish, Answer
  <2> QED  BY <2>1, <2>2, GotoInv DEF RequestStates
<1>2. PICK subs \in SUBSET alive :
        bus' = [g \in Instances |-> IF g \in subs THEN Append(bus[g], m) ELSE bus[g]]
  BY DEF Publish
<1>3. ASSUME NEW g \in Instances
      PROVE  Append(bus[g], m) \in Seq(Events) /\ Append(bus[g], m) # <<>>
  <2>1. bus[g] \in Seq(Events)
    BY DEF Inv, TypeOK
  <2> QED  BY <2>1, AppendProperties
<1>4. BusType' /\ \A g \in Instances : SubscriberOK(g)'
  BY <1>2, <1>3 DEF Inv, TypeOK, BusType, SubscriberOK, Publish
<1>5. ChanType'
  BY DEF Inv, TypeOK, ChanType, Publish, connVars
<1> QED
  BY <1>1, <1>4, <1>5, SendingInv DEF Publish, connVars

LEMMA SubTakesInv ==
  ASSUME Inv, NEW g \in Instances, SubTakes(g)
  PROVE  Inv'
<1> DEFINE c == registry[g][Target[Head(bus[g])]]
<1>1. bus[g] \in Seq(Events) /\ bus[g] # <<>>
  BY DEF Inv, TypeOK, SubTakes
<1>2. Tail(bus[g]) \in Seq(Events) /\ Head(bus[g]) \in Events
  BY <1>1, HeadTailProperties
<1>3. c \in Conns \cup {NoConn}
  BY <1>2 DEF Inv, TypeOK
<1>4. BusType' /\ \A h \in Instances : SubscriberOK(h)'
  <2>1. CASE c = NoConn
    <3>1. bus' = [bus EXCEPT ![g] = Tail(@)] /\ subHolds' = subHolds /\ subHolds[g] = NoConn
      BY <2>1 DEF SubTakes
    <3> QED
      BY <1>2, <3>1 DEF Inv, TypeOK, BusType, SubscriberOK
  <2>2. CASE c # NoConn
    <3>1. subHolds' = [subHolds EXCEPT ![g] = c] /\ bus' = bus
      BY <2>2 DEF SubTakes
    <3> QED
      BY <1>1, <1>3, <3>1 DEF Inv, TypeOK, BusType, SubscriberOK
  <2> QED  BY <2>1, <2>2
<1>5. ChanType' /\ HttpType' /\ \A n \in Events : RequestOK(n)'
  BY DEF Inv, TypeOK, ChanType, HttpType, RequestOK, SubTakes, connVars, httpVars
<1> QED
  BY <1>4, <1>5, SendingInv DEF SubTakes, connVars

LEMMA SubSendsInv ==
  ASSUME Inv, NEW g \in Instances, SubSends(g)
  PROVE  Inv'
<1> DEFINE c == subHolds[g]
<1>1. c \in Conns /\ bus[g] \in Seq(Events) /\ bus[g] # <<>>
  BY DEF Inv, TypeOK, SubscriberOK, SubSends
<1>2. Tail(bus[g]) \in Seq(Events) /\ Head(bus[g]) \in Events
  BY <1>1, HeadTailProperties
<1>3. CASE ~open[c]
  <2>1. Down(g)
    BY <1>3 DEF SubSends
  <2> QED  BY <2>1, DownInv
<1>4. CASE open[c]
  <2>1. /\ IF Room(c) THEN Enqueue(c, Head(bus[g])) ELSE UNCHANGED chan
        /\ bus' = [bus EXCEPT ![g] = Tail(@)]
        /\ subHolds' = [subHolds EXCEPT ![g] = NoConn]
        /\ UNCHANGED <<alive, registry, dialled, home, owner, reader, writer, sock, open,
                       agent, httpVars, received>>
    BY <1>4 DEF SubSends
  <2>2. ChanType
    BY DEF Inv, TypeOK, ChanType
  <2>3. ChanType'
    <3>1. CASE Room(c)
      BY <1>1, <1>2, <2>1, <2>2, <3>1, EnqueueType
    <3>2. CASE ~Room(c)
      BY <2>1, <2>2, <3>2 DEF ChanType
    <3> QED  BY <3>1, <3>2
  <2>4. BusType' /\ \A h \in Instances : SubscriberOK(h)'
    BY <1>2, <2>1 DEF Inv, TypeOK, BusType, SubscriberOK
  <2>5. HttpType' /\ \A n \in Events : RequestOK(n)'
    BY <2>1 DEF Inv, TypeOK, HttpType, RequestOK, httpVars
  <2> QED
    BY <2>1, <2>3, <2>4, <2>5, SendingInv
<1> QED  BY <1>3, <1>4

LEMMA AnswerPingInv ==
  ASSUME Inv, NEW c \in Conns, AnswerPing(c)
  PROVE  Inv'
<1>1. CASE ~open[c]
  <2>1. home[c] \in Instances
    BY DEF Inv, TypeOK, ConnOK, AnswerPing
  <2>2. Down(home[c])
    BY <1>1 DEF AnswerPing
  <2> QED  BY <2>1, <2>2, DownInv
<1>2. CASE open[c]
  <2>1. /\ Room(c)
        /\ Enqueue(c, Pong)
        /\ UNCHANGED <<alive, registry, dialled, home, owner, reader, writer, sock, open,
                       agent, httpVars, subVars, received>>
    BY <1>2 DEF AnswerPing
  <2>2. ChanType
    BY DEF Inv, TypeOK, ChanType
  <2>3. ChanType'
    BY <2>1, <2>2, EnqueueType
  <2>4. /\ HttpType' /\ \A n \in Events : RequestOK(n)'
        /\ BusType' /\ \A h \in Instances : SubscriberOK(h)'
    BY <2>1 DEF Inv, TypeOK, HttpType, RequestOK, BusType, SubscriberOK, httpVars, subVars
  <2> QED
    BY <2>1, <2>3, <2>4, SendingInv
<1> QED  BY <1>1, <1>2

-----------------------------------------------------------------------------
(* Theorems *)

LEMMA NextInv == Inv /\ [Next]_vars => Inv'
<1> SUFFICES ASSUME Inv, [Next]_vars PROVE Inv'
  OBVIOUS
<1>1. ASSUME NEW d \in Devices, DialSome(d) PROVE Inv'
  BY <1>1, DialInv DEF DialSome
<1>2. ASSUME NEW d \in Devices, AgentDrops(d) \/ AgentNotices(d) PROVE Inv'
  BY <1>2, AgentInv DEF AgentNotices
<1>3. ASSUME NEW c \in Conns, Register(c) PROVE Inv'
  BY <1>3, RegisterInv
<1>4. ASSUME NEW c \in Conns, WriterWrites(c) PROVE Inv'
  BY <1>4, WriterWritesInv
<1>5. ASSUME NEW c \in Conns, WriterStops(c) \/ WriteTimesOut(c) PROVE Inv'
  BY <1>5, WriterEndsInv DEF WriterStops, WriteTimesOut
<1>6. ASSUME NEW c \in Conns, ReaderLeaves(c) PROVE Inv'
  BY <1>6, ReaderLeavesInv
<1>7. ASSUME NEW c \in Conns, ReaderCloses(c) PROVE Inv'
  BY <1>7, ReaderClosesInv
<1>8. ASSUME NEW c \in Conns, AnswerPing(c) PROVE Inv'
  BY <1>8, AnswerPingInv
<1>9. ASSUME NEW m \in Events, NEW g \in Instances, Receive(m, g) PROVE Inv'
  BY <1>9, ReceiveInv
<1>10. ASSUME NEW m \in Events, Send(m) PROVE Inv'
  BY <1>10, SendInv
<1>11. ASSUME NEW m \in Events, Publish(m) PROVE Inv'
  BY <1>11, PublishInv
<1>12. ASSUME NEW g \in Instances, Subscribe(g) PROVE Inv'
  BY <1>12, SubTakesInv, SubSendsInv DEF Subscribe
<1>13. ASSUME NEW g \in Instances, Stop(g) PROVE Inv'
  BY <1>13, DownInv DEF Stop
<1>14. ASSUME NEW g \in Instances, Restart(g) PROVE Inv'
  BY <1>14, RestartInv
<1>15. CASE UNCHANGED vars
  <2>1. TypeOK'
    BY <1>15 DEF Inv, TypeOK, vars, connVars, httpVars, subVars
  <2> QED
    BY <1>15, <2>1 DEF Inv, ConnOK, NotZombie, EntryOK, RequestOK, SubscriberOK,
                       vars, connVars, httpVars, subVars
<1> QED
  BY <1>1, <1>2, <1>3, <1>4, <1>5, <1>6, <1>7, <1>8, <1>9, <1>10, <1>11, <1>12,
     <1>13, <1>14, <1>15 DEF Next, Serve

LEMMA InvHolds == Spec => []Inv
<1> QED  BY InitInv, NextInv, PTL DEF Spec

\* Registries, channels and requests keep their types, and no channel ever holds more
\* than its capacity.
THEOREM GatewayTypeCorrect == Spec => []TypeOK
<1>1. Inv => TypeOK
  BY DEF Inv
<1> QED  BY <1>1, InvHolds, PTL

\* Every registered connection has an open channel and a reader: HandleAgentConnection
\* can close the one it replaces without a panic.
THEOREM RegistryIsOpen == Spec => []RegisteredIsOpen
<1>1. Inv => RegisteredIsOpen
  BY DEF Inv, EntryOK, RegisteredIsOpen
<1> QED  BY <1>1, InvHolds, PTL

\* No connection with an open socket is read without being registered: an agent is
\* never left on a connection that the gateway has forgotten.
THEOREM NoForgottenConnection == Spec => []NoZombies
<1>1. Inv => NoZombies
  BY DEF Inv, NotZombie, NoZombies
<1> QED  BY <1>1, InvHolds, PTL

-----------------------------------------------------------------------------
(* An event reaches a device once through each instance: wherever the copies *)
(* of an event are, on an instance's bus, in a channel of one of its         *)
(* connections or at a device that got it from there, there is one of them   *)

In(x, s) == \E i \in 1 .. Len(s) : s[i] = x

Once(x, s) == \A i, j \in 1 .. Len(s) : s[i] = x /\ s[j] = x => i = j

LEMMA InAppend ==
  ASSUME NEW S, NEW s \in Seq(S), NEW e \in S, NEW x
  PROVE  /\ In(x, Append(s, e)) <=> In(x, s) \/ x = e
         /\ Once(x, s) /\ (In(x, s) => x # e) => Once(x, Append(s, e))
<1>1. /\ Len(Append(s, e)) = Len(s) + 1 /\ Len(s) \in Nat
      /\ \A i \in 1 .. Len(s) : Append(s, e)[i] = s[i]
      /\ Append(s, e)[Len(s) + 1] = e
  BY AppendProperties, LenProperties
<1>2. \A i \in 1 .. Len(s) + 1 : i \in 1 .. Len(s) \/ i = Len(s) + 1
  BY <1>1
<1>3. 1 .. Len(s) \subseteq 1 .. Len(s) + 1 /\ Len(s) + 1 \in 1 .. Len(s) + 1
  BY <1>1
<1>4. In(x, Append(s, e)) <=> In(x, s) \/ x = e
  BY <1>1, <1>2, <1>3 DEF In
<1>5. ASSUME Once(x, s), In(x, s) => x # e PROVE Once(x, Append(s, e))
  <2> SUFFICES ASSUME NEW i \in 1 .. Len(s) + 1, NEW j \in 1 .. Len(s) + 1,
                      Append(s, e)[i] = x, Append(s, e)[j] = x
               PROVE  i = j
    BY <1>1 DEF Once
  <2>1. CASE i \in 1 .. Len(s) /\ j \in 1 .. Len(s)
    BY <1>1, <1>5, <2>1 DEF Once
  <2>2. CASE ~(i \in 1 .. Len(s) /\ j \in 1 .. Len(s))
    BY <1>1, <1>2, <1>5, <2>2 DEF In
  <2> QED  BY <2>1, <2>2
<1> QED  BY <1>4, <1>5

LEMMA AppendOther ==
  ASSUME NEW S, NEW s \in Seq(S), NEW e \in S, NEW x, x # e
  PROVE  /\ In(x, Append(s, e)) => In(x, s)
         /\ Once(x, s) => Once(x, Append(s, e))
  BY InAppend

LEMMA AppendNew ==
  ASSUME NEW S, NEW s \in Seq(S), NEW e \in S, ~In(e, s)
  PROVE  Once(e, Append(s, e))
<1>1. Once(e, s)
  BY DEF In, Once
<1> QED  BY <1>1, InAppend

LEMMA InTail ==
  ASSUME NEW S, NEW s \in Seq(S), s # <<>>, NEW x
  PROVE  /\ In(x, Tail(s)) => In(x, s)
         /\ Head(s) \in S /\ In(Head(s), s)
         /\ Once(x, s) => Once(x, Tail(s)) /\ (Head(s) = x => ~In(x, Tail(s)))
<1>1. /\ Len(s) \in Nat /\ Len(s) > 0 /\ Len(Tail(s)) = Len(s) - 1
      /\ \A i \in 1 .. Len(Tail(s)) : Tail(s)[i] = s[i + 1]
      /\ Head(s) = s[1] /\ Head(s) \in S
  BY HeadTailProperties, LenProperties, EmptySeq
<1>2. \A i \in 1 .. Len(Tail(s)) : i + 1 \in 1 .. Len(s) /\ i + 1 # 1
  BY <1>1
<1>3. 1 \in 1 .. Len(s)
  BY <1>1
<1>4. (In(x, Tail(s)) => In(x, s)) /\ In(Head(s), s)
  BY <1>1, <1>2, <1>3 DEF In
<1>5. ASSUME Once(x, s) PROVE Once(x, Tail(s))
  <2> SUFFICES ASSUME NEW i \in 1 .. Len(Tail(s)), NEW j \in 1 .. Len(Tail(s)),
                      Tail(s)[i] = x, Tail(s)[j] = x
               PROVE  i = j
    BY DEF Once
  <2>1. i + 1 = j + 1
    BY <1>1, <1>2, <1>5 DEF Once
  <2> QED  BY <1>1, <2>1
<1>6. ASSUME Once(x, s), Head(s) = x PROVE ~In(x, Tail(s))
  BY <1>1, <1>2, <1>3, <1>6 DEF Once, In
<1> QED  BY <1>1, <1>4, <1>5, <1>6

LEMMA InEmpty == \A x : ~In(x, <<>>) /\ Once(x, <<>>)
  BY EmptySeq DEF In, Once

-----------------------------------------------------------------------------
(* Where the copies of an event are *)

Unsent == {"waiting", "sending", "publishing"}

Record(m, g) == [event |-> m, from |-> g]

Got(m, d, g) == In(Record(m, g), received[d])

\* On instance g there is at most one copy of m, and m is at most once at a device from there.
OneCopy(m, g) ==
  /\ Once(m, bus[g])
  /\ \A c \in Conns : home[c] = g /\ In(m, chan[c]) =>
       /\ Once(m, chan[c]) /\ ~In(m, bus[g])
       /\ \A x \in Conns \ {c} : home[x] = g => ~In(m, chan[x])
  /\ \A d \in Devices : Once(Record(m, g), received[d])
  /\ \A d \in Devices : Got(m, d, g) =>
       ~In(m, bus[g]) /\ \A c \in Conns : home[c] = g => ~In(m, chan[c])

\* An event that its handler has still to send or to publish is nowhere.
NoCopy(m) ==
  /\ \A g \in Instances : ~In(m, bus[g])
  /\ \A c \in Conns : ~In(m, chan[c])
  /\ \A d \in Devices, g \in Instances : ~Got(m, d, g)

OnceInv ==
  /\ \A m \in Events, g \in Instances : OneCopy(m, g)
  /\ \A m \in Events : request[m] \in Unsent => NoCopy(m)
  /\ \A c \in Conns : reader[c] = "none" => chan[c] = <<>> /\ ~open[c]
  /\ \A g \in Instances : subHolds[g] # NoConn => home[subHolds[g]] = g

LEMMA InitOnce == Init => OnceInv
<1> SUFFICES ASSUME Init PROVE OnceInv
  OBVIOUS
<1>1. /\ \A g \in Instances : bus[g] = <<>> /\ subHolds[g] = NoConn
      /\ \A c \in Conns : chan[c] = <<>> /\ open[c] = FALSE
      /\ \A d \in Devices : received[d] = <<>>
  BY DEF Init
<1> QED  BY <1>1, InEmpty DEF OnceInv, OneCopy, NoCopy, Got

\* What a step leaves as it is, or takes away, for one event on one instance.
LEMMA CopyStays ==
  ASSUME NEW m \in Events, NEW g \in Instances, OneCopy(m, g),
         In(m, bus'[g]) => In(m, bus[g]),
         Once(m, bus[g]) => Once(m, bus'[g]),
         \A c \in Conns :
           In(m, chan'[c]) =>
             /\ In(m, chan[c]) /\ home'[c] = home[c]
             /\ Once(m, chan[c]) => Once(m, chan'[c]),
         \A d \in Devices :
           /\ In(Record(m, g), received'[d]) => In(Record(m, g), received[d])
           /\ Once(Record(m, g), received[d]) => Once(Record(m, g), received'[d])
  PROVE  OneCopy(m, g)'
<1>1. Once(m, bus'[g])
  BY DEF OneCopy
<1>2. \A c \in Conns : home'[c] = g /\ In(m, chan'[c]) => home[c] = g /\ In(m, chan[c])
  OBVIOUS
<1>3. ASSUME NEW c \in Conns, home'[c] = g, In(m, chan'[c])
      PROVE  /\ Once(m, chan'[c]) /\ ~In(m, bus'[g])
             /\ \A x \in Conns \ {c} : home'[x] = g => ~In(m, chan'[x])
  BY <1>2, <1>3 DEF OneCopy
<1>4. \A d \in Devices : /\ Once(Record(m, g), received'[d])
                         /\ In(Record(m, g), received'[d]) =>
                              /\ ~In(m, bus'[g])
                              /\ \A c \in Conns : home'[c] = g => ~In(m, chan'[c])
  BY <1>2 DEF OneCopy, Got
<1> QED  BY <1>1, <1>3, <1>4 DEF OneCopy, Got, Record

\* A step that makes no copy: copies may be lost, connections made and instances end.
LEMMA NoNewCopy ==
  ASSUME OnceInv,
         \A m \in Events, g \in Instances :
           (In(m, bus'[g]) => In(m, bus[g])) /\ (Once(m, bus[g]) => Once(m, bus'[g])),
         \A m \in Events, c \in Conns :
           In(m, chan'[c]) =>
             /\ In(m, chan[c]) /\ home'[c] = home[c]
             /\ Once(m, chan[c]) => Once(m, chan'[c]),
         received' = received,
         \A m \in Events : request'[m] \in Unsent => request[m] \in Unsent,
         \A c \in Conns : reader'[c] = "none" => chan'[c] = <<>> /\ ~open'[c],
         \A g \in Instances : subHolds'[g] # NoConn => home'[subHolds'[g]] = g
  PROVE  OnceInv'
<1>1. ASSUME NEW m \in Events, NEW g \in Instances PROVE OneCopy(m, g)'
  BY CopyStays DEF OnceInv
<1>2. ASSUME NEW m \in Events, request'[m] \in Unsent PROVE NoCopy(m)'
  BY <1>2 DEF OnceInv, NoCopy, Got, Record
<1> QED  BY <1>1, <1>2 DEF OnceInv

LEMMA SameCopies ==
  ASSUME OnceInv, UNCHANGED <<bus, chan, received, home>>,
         \A m \in Events : request'[m] \in Unsent => request[m] \in Unsent,
         \A c \in Conns : reader'[c] = "none" => reader[c] = "none" /\ (open'[c] => open[c]),
         \A g \in Instances : subHolds'[g] # NoConn => home[subHolds'[g]] = g
  PROVE  OnceInv'
  BY NoNewCopy DEF OnceInv

LEMMA DownOnce ==
  ASSUME Inv, OnceInv, NEW g \in Instances, Down(g)
  PROVE  OnceInv'
<1> USE DEF Down
<1>1. /\ \A h \in Instances : bus'[h] = bus[h] \/ bus'[h] = <<>>
      /\ \A c \in Conns : chan'[c] = chan[c] \/ chan'[c] = <<>>
      /\ received' = received /\ home' = home
  BY DEF Inv, TypeOK
<1>2. \A m \in Events : request'[m] \in Unsent => request[m] \in Unsent
  BY DEF Unsent, Inv, TypeOK
<1>3. \A c \in Conns : reader'[c] = "none" => chan'[c] = <<>> /\ ~open'[c]
  BY DEF OnceInv
<1>4. \A h \in Instances : subHolds'[h] # NoConn => home'[subHolds'[h]] = h
  BY DEF OnceInv, Inv, TypeOK
<1> HIDE DEF Down
<1> QED  BY <1>1, <1>2, <1>3, <1>4, InEmpty, NoNewCopy

LEMMA DialOnce ==
  ASSUME Inv, OnceInv, NEW d \in Devices, NEW g \in Instances, Dial(d, g)
  PROVE  OnceInv'
<1> DEFINE n == dialled + 1
<1>1. n \in Conns /\ reader[n] = "none" /\ home[n] = Nobody /\ chan[n] = <<>>
  BY DEF Dial, Inv, TypeOK, ConnOK, OnceInv
<1>2. /\ \A c \in Conns \ {n} : home'[c] = home[c] /\ reader'[c] = reader[c] /\ open'[c] = open[c]
      /\ UNCHANGED <<bus, chan, received, request, subHolds>>
      /\ reader'[n] = "upgraded"
  BY <1>1 DEF Dial, Inv, TypeOK, httpVars, subVars
<1> HIDE DEF n
<1>3. \A c \in Conns : reader'[c] = "none" => chan'[c] = <<>> /\ ~open'[c]
  BY <1>1, <1>2 DEF OnceInv
<1>4. ASSUME NEW h \in Instances, subHolds'[h] # NoConn PROVE home'[subHolds'[h]] = h
  <2>1. subHolds[h] \in Conns /\ home[subHolds[h]] = h
    BY <1>2, <1>4 DEF OnceInv, Inv, TypeOK
  <2>2. subHolds[h] # n
    BY <1>1, <2>1
  <2> QED  BY <1>2, <2>1, <2>2
<1> QED  BY <1>1, <1>2, <1>3, <1>4, InEmpty, NoNewCopy

LEMMA RegisterOnce ==
  ASSUME Inv, OnceInv, NEW c \in Conns, Register(c)
  PROVE  OnceInv'
<1>1. \A x \in Conns : reader'[x] = "none" => reader[x] = "none" /\ (open'[x] => open[x])
  BY DEF Register, Inv, TypeOK
<1> QED  BY <1>1, SameCopies DEF Register, httpVars, subVars, OnceInv

LEMMA ReaderOnce ==
  ASSUME Inv, OnceInv, NEW c \in Conns, ReaderLeaves(c) \/ ReaderCloses(c)
  PROVE  OnceInv'
<1>1. CASE reader[c] = "leaving" /\ Down(home[c])
  <2>1. home[c] \in Instances
    BY <1>1 DEF Inv, TypeOK, ConnOK
  <2> QED  BY <1>1, <2>1, DownOnce
<1>2. CASE ~(reader[c] = "leaving" /\ Down(home[c]))
  <2>1. /\ \A x \in Conns : reader'[x] = "none" => reader[x] = "none" /\ (open'[x] => open[x])
        /\ UNCHANGED <<home, chan, httpVars, subVars, received>>
    BY <1>2 DEF ReaderLeaves, ReaderCloses, Inv, TypeOK
  <2> QED  BY <2>1, SameCopies DEF httpVars, subVars, OnceInv
<1> QED  BY <1>1, <1>2

LEMMA ReceiveOnce ==
  ASSUME Inv, OnceInv, NEW m \in Events, NEW g \in Instances, Receive(m, g)
  PROVE  OnceInv'
<1>1. \A n \in Events : request'[n] \in Unsent => request[n] \in Unsent
  BY DEF Receive, Fallback, Answer, Goto, Unsent, Inv, TypeOK
<1>2. UNCHANGED <<bus, chan, received, home, reader, open, subHolds>>
  BY DEF Receive, connVars, subVars
<1> QED  BY <1>1, <1>2, SameCopies DEF OnceInv

\* The answer to a ping is no event.
LEMMA AnswerPingOnce ==
  ASSUME Inv, OnceInv, NEW c \in Conns, AnswerPing(c)
  PROVE  OnceInv'
<1>1. CASE Down(home[c])
  <2>1. home[c] \in Instances
    BY DEF AnswerPing, Inv, TypeOK, ConnOK
  <2> QED  BY <1>1, <2>1, DownOnce
<1>2. CASE ~Down(home[c])
  <2>1. /\ chan' = [chan EXCEPT ![c] = Append(@, Pong)] /\ reader[c] = "reading"
        /\ UNCHANGED <<home, reader, open, httpVars, subVars, received>>
    BY <1>2 DEF AnswerPing, Enqueue
  <2>2. /\ chan'[c] = Append(chan[c], Pong) /\ chan[c] \in Seq(Events \cup {Pong})
        /\ \A x \in Conns \ {c} : chan'[x] = chan[x]
    BY <2>1 DEF Inv, TypeOK
  <2>3. \A m \in Events : /\ In(m, chan'[c]) => In(m, chan[c])
                          /\ Once(m, chan[c]) => Once(m, chan'[c])
    BY <2>2, InAppend
  <2> QED  BY <2>1, <2>2, <2>3, NoNewCopy DEF httpVars, subVars, OnceInv
<1> QED  BY <1>1, <1>2

LEMMA SubTakesOnce ==
  ASSUME Inv, OnceInv, NEW g \in Instances, SubTakes(g)
  PROVE  OnceInv'
<1> DEFINE c == registry[g][Target[Head(bus[g])]]
<1>1. /\ bus[g] # <<>> /\ bus[g] \in Seq(Events)
      /\ UNCHANGED <<home, chan, reader, open, request, received>>
  BY DEF SubTakes, Inv, TypeOK, connVars, httpVars
<1>2. Head(bus[g]) \in Events
  BY <1>1, InTail
<1>3. CASE c = NoConn
  <2>1. bus' = [bus EXCEPT ![g] = Tail(@)] /\ UNCHANGED subHolds
    BY <1>3 DEF SubTakes
  <2>2. /\ bus'[g] = Tail(bus[g]) /\ \A h \in Instances \ {g} : bus'[h] = bus[h]
    BY <2>1 DEF Inv, TypeOK
  <2>3. \A m \in Events : /\ In(m, bus'[g]) => In(m, bus[g])
                          /\ Once(m, bus[g]) => Once(m, bus'[g])
    BY <1>1, <2>2, InTail
  <2> QED  BY <1>1, <2>1, <2>2, <2>3, NoNewCopy DEF OnceInv
<1>4. CASE c # NoConn
  <2>1. subHolds' = [subHolds EXCEPT ![g] = c] /\ UNCHANGED bus
    BY <1>4 DEF SubTakes
  <2>2. home[c] = g
    BY <1>2, <1>4 DEF Inv, EntryOK
  <2>3. \A h \in Instances : subHolds'[h] # NoConn => home[subHolds'[h]] = h
    BY <2>1, <2>2 DEF OnceInv, Inv, TypeOK
  <2> QED  BY <1>1, <2>1, <2>3, SameCopies
<1> QED  BY <1>3, <1>4

\* The handler puts the event in a channel: until now it was nowhere.
LEMMA SendOnce ==
  ASSUME Inv, OnceInv, NEW m \in Events, Send(m)
  PROVE  OnceInv'
<1> DEFINE c == holds[m]
<1>1. /\ request[m] = "sending" /\ c \in Conns
      /\ UNCHANGED <<home, reader, open, bus, subHolds, received>>
  BY DEF Send, subVars, Inv, TypeOK, RequestOK
<1>2. \A n \in Events \ {m} : request'[n] = request[n]
  BY DEF Send, Fallback, Answer, Goto, Inv, TypeOK
<1>3. CASE UNCHANGED chan
  <2>1. \A n \in Events : request'[n] \in Unsent => request[n] \in Unsent
    BY <1>1, <1>2 DEF Unsent
  <2> QED  BY <1>1, <1>3, <2>1, SameCopies DEF OnceInv
<1>4. CASE open[c] /\ Enqueue(c, m) /\ Answer(m, "delivered")
  <2>1. /\ chan'[c] = Append(chan[c], m) /\ chan[c] \in Seq(Events \cup {Pong})
        /\ \A x \in Conns \ {c} : chan'[x] = chan[x]
    BY <1>1, <1>4 DEF Enqueue, Inv, TypeOK
  <2>2. request'[m] \notin Unsent
    BY <1>4 DEF Answer, Goto, Unsent, Inv, TypeOK
  <2>3. NoCopy(m)
    BY <1>1 DEF OnceInv, Unsent
  <2> HIDE DEF c
  <2>4. ASSUME NEW n \in Events \ {m}, NEW g \in Instances PROVE OneCopy(n, g)'
    <3>1. \A x \in Conns : /\ In(n, chan'[x]) => In(n, chan[x])
                           /\ Once(n, chan[x]) => Once(n, chan'[x])
      <4>1. ASSUME NEW x \in Conns
            PROVE  /\ In(n, chan'[x]) => In(n, chan[x])
                   /\ Once(n, chan[x]) => Once(n, chan'[x])
        <5>1. CASE x = c
          <6>1. chan'[x] = Append(chan[x], m) /\ chan[x] \in Seq(Events \cup {Pong})
            BY <2>1, <5>1
          <6>2. m \in Events \cup {Pong} /\ n # m
            OBVIOUS
          <6> QED  BY <6>1, <6>2, AppendOther
        <5>2. CASE x # c
          BY <2>1, <5>2
        <5> QED  BY <5>1, <5>2
      <4> QED  BY <4>1
    <3> QED  BY <1>1, <3>1, CopyStays DEF OnceInv
  <2>5. ASSUME NEW g \in Instances PROVE OneCopy(m, g)'
    <3>1. ~In(m, chan[c]) /\ m \in Events \cup {Pong}
      BY <1>1, <2>3 DEF NoCopy
    <3>2. Once(m, chan'[c])
      BY <2>1, <3>1, AppendNew
    <3>3. \A x \in Conns : In(m, chan'[x]) => x = c
      BY <2>1, <2>3 DEF NoCopy
    <3>4. OneCopy(m, g) /\ ~In(m, bus'[g]) /\ \A d \in Devices : ~Got(m, d, g)
      BY <1>1, <2>3 DEF NoCopy, OnceInv
    <3> QED  BY <1>1, <3>2, <3>3, <3>4 DEF OneCopy, Got, Record
  <2>6. ASSUME NEW n \in Events, request'[n] \in Unsent PROVE NoCopy(n)'
    <3>1. n # m /\ NoCopy(n)
      BY <1>2, <2>2, <2>6 DEF OnceInv
    <3>2. ~In(n, chan'[c])
      BY <1>1, <2>1, <3>1, InAppend DEF NoCopy
    <3> QED  BY <1>1, <2>1, <3>1, <3>2 DEF NoCopy, Got, Record
  <2>7. \A x \in Conns : reader'[x] = "none" => chan'[x] = <<>> /\ ~open'[x]
    BY <1>1, <1>4, <2>1 DEF OnceInv, c
  <2> QED  BY <1>1, <2>4, <2>5, <2>6, <2>7 DEF OnceInv
<1> QED  BY <1>3, <1>4 DEF Send

\* The handler publishes it: every instance gets one copy, or none.
LEMMA PublishOnce ==
  ASSUME Inv, OnceInv, NEW m \in Events, Publish(m)
  PROVE  OnceInv'
<1>1. /\ request[m] = "publishing"
      /\ UNCHANGED <<home, reader, open, chan, subHolds, received>>
  BY DEF Publish, connVars
<1>2. /\ request'[m] \notin Unsent /\ \A n \in Events \ {m} : request'[n] = request[n]
  BY DEF Publish, Answer, Goto, Unsent, Inv, TypeOK
<1>3. NoCopy(m)
  BY <1>1 DEF OnceInv, Unsent
<1>4. ASSUME NEW g \in Instances
      PROVE  /\ bus[g] \in Seq(Events)
             /\ bus'[g] = bus[g] \/ bus'[g] = Append(bus[g], m)
  BY DEF Publish, Inv, TypeOK
<1>5. ASSUME NEW n \in Events \ {m}, NEW g \in Instances
      PROVE  /\ In(n, bus'[g]) => In(n, bus[g])
             /\ Once(n, bus[g]) => Once(n, bus'[g])
  <2>1. CASE bus'[g] = bus[g]
    BY <2>1
  <2>2. CASE bus'[g] = Append(bus[g], m)
    <3>1. bus[g] \in Seq(Events) /\ n # m
      BY <1>4
    <3> QED  BY <2>2, <3>1, AppendOther
  <2> QED  BY <1>4, <2>1, <2>2
<1>6. ASSUME NEW n \in Events \ {m}, NEW g \in Instances PROVE OneCopy(n, g)'
  BY <1>1, <1>5, CopyStays DEF OnceInv
<1>7. ASSUME NEW g \in Instances PROVE OneCopy(m, g)'
  <2>1. ~In(m, bus[g]) /\ Once(m, bus[g])
    BY <1>3 DEF NoCopy, OnceInv, OneCopy
  <2>2. Once(m, bus'[g])
    <3>1. bus[g] \in Seq(Events)
      BY <1>4
    <3>2. Once(m, Append(bus[g], m))
      BY <2>1, <3>1, AppendNew
    <3> QED  BY <1>4, <2>1, <3>2
  <2>3. /\ \A c \in Conns : ~In(m, chan'[c])
        /\ \A d \in Devices : ~In(Record(m, g), received'[d])
    BY <1>1, <1>3 DEF NoCopy, Got
  <2>4. \A d \in Devices : Once(Record(m, g), received'[d])
    BY <1>1 DEF OnceInv, OneCopy
  <2> QED  BY <2>2, <2>3, <2>4 DEF OneCopy, Got, Record
<1>8. ASSUME NEW n \in Events, request'[n] \in Unsent PROVE NoCopy(n)'
  <2>1. n # m /\ NoCopy(n)
    BY <1>2, <1>8 DEF OnceInv
  <2> QED  BY <1>1, <1>5, <2>1 DEF NoCopy, Got, Record
<1> QED  BY <1>1, <1>6, <1>7, <1>8 DEF OnceInv

\* The subscriber moves an event from its bus to a channel of its instance, or drops it.
LEMMA SubSendsOnce ==
  ASSUME Inv, OnceInv, NEW g \in Instances, SubSends(g)
  PROVE  OnceInv'
<1> DEFINE c == subHolds[g]
<1>1. CASE Down(g)
  BY <1>1, DownOnce
<1>2. CASE ~Down(g)
  <2>1. /\ open[c]
        /\ IF Room(c) THEN Enqueue(c, Head(bus[g])) ELSE UNCHANGED chan
        /\ bus' = [bus EXCEPT ![g] = Tail(@)]
        /\ subHolds' = [subHolds EXCEPT ![g] = NoConn]
        /\ UNCHANGED <<home, reader, open, request, received>>
    BY <1>2 DEF SubSends, httpVars
  <2>2. /\ c \in Conns /\ home[c] = g /\ bus[g] # <<>> /\ bus[g] \in Seq(Events)
        /\ chan[c] \in Seq(Events \cup {Pong})
    BY DEF SubSends, OnceInv, Inv, TypeOK, SubscriberOK
  <2>3. PICK e \in Events : e = Head(bus[g]) /\ In(e, bus[g])
    BY <2>2, InTail
  <2>4. /\ bus'[g] = Tail(bus[g])
        /\ \A h \in Instances \ {g} : bus'[h] = bus[h]
    BY <2>1 DEF Inv, TypeOK
  <2>5. /\ chan'[c] = chan[c] \/ chan'[c] = Append(chan[c], e)
        /\ \A x \in Conns \ {c} : chan'[x] = chan[x]
    BY <2>1, <2>2, <2>3 DEF Enqueue, Inv, TypeOK
  <2> HIDE DEF c
  <2>6. \A m \in Events, h \in Instances :
          /\ In(m, bus'[h]) => In(m, bus[h])
          /\ Once(m, bus[h]) => Once(m, bus'[h])
    <3>1. ASSUME NEW m \in Events
          PROVE  /\ In(m, Tail(bus[g])) => In(m, bus[g])
                 /\ Once(m, bus[g]) => Once(m, Tail(bus[g]))
      BY <2>2, InTail
    <3> QED  BY <2>4, <3>1
  <2>7. ASSUME NEW m \in Events \ {e}, NEW x \in Conns
        PROVE  /\ In(m, chan'[x]) => In(m, chan[x])
               /\ Once(m, chan[x]) => Once(m, chan'[x])
    <3>1. CASE x = c /\ chan'[c] = Append(chan[c], e)
      <4>1. e \in Events \cup {Pong} /\ m # e
        BY <2>3
      <4>2. /\ In(m, Append(chan[c], e)) => In(m, chan[c])
            /\ Once(m, chan[c]) => Once(m, Append(chan[c], e))
        BY <2>2, <4>1, AppendOther
      <4> QED  BY <3>1, <4>2
    <3>2. CASE ~(x = c /\ chan'[c] = Append(chan[c], e))
      BY <2>5, <3>2
    <3> QED  BY <3>1, <3>2
  <2>8. ASSUME NEW m \in Events \ {e}, NEW h \in Instances PROVE OneCopy(m, h)'
    <3>1. OneCopy(m, h)
      BY DEF OnceInv
    <3>2. \A x \in Conns : In(m, chan'[x]) =>
            /\ In(m, chan[x]) /\ home'[x] = home[x]
            /\ Once(m, chan[x]) => Once(m, chan'[x])
      BY <2>1, <2>7
    <3> QED  BY <2>1, <2>6, <3>1, <3>2, CopyStays
  <2>9. OneCopy(e, g)
    BY <2>3 DEF OnceInv
  <2>10. /\ \A x \in Conns : home[x] = g => ~In(e, chan[x])
         /\ \A d \in Devices : ~Got(e, d, g)
    BY <2>3, <2>9 DEF OneCopy
  <2>11. OneCopy(e, g)'
    <3>1. ~In(e, bus'[g]) /\ Once(e, bus'[g])
      <4>1. Once(e, bus[g])
        BY <2>9 DEF OneCopy
      <4>2. Once(e, Tail(bus[g])) /\ ~In(e, Tail(bus[g]))
        BY <2>2, <4>1, <2>3, InTail
      <4> QED  BY <2>4, <4>2
    <3>2. Once(e, chan'[c])
      <4>1. ~In(e, chan[c]) /\ e \in Events \cup {Pong}
        BY <2>2, <2>3, <2>10
      <4>2. Once(e, Append(chan[c], e)) /\ Once(e, chan[c])
        BY <2>2, <4>1, AppendNew DEF In, Once
      <4> QED  BY <2>5, <4>2
    <3>3. \A x \in Conns : home'[x] = g /\ In(e, chan'[x]) => x = c
      BY <2>1, <2>5, <2>10
    <3>4. \A d \in Devices : Once(Record(e, g), received'[d]) /\ ~In(Record(e, g), received'[d])
      BY <2>1, <2>9, <2>10 DEF OneCopy, Got
    <3> QED  BY <3>1, <3>2, <3>3, <3>4 DEF OneCopy, Got, Record
  <2>12. ASSUME NEW h \in Instances \ {g} PROVE OneCopy(e, h)'
    <3>1. \A x \in Conns : home'[x] = h => home[x] = h /\ chan'[x] = chan[x]
      BY <2>1, <2>2, <2>5
    <3>2. bus'[h] = bus[h] /\ received' = received /\ home' = home /\ OneCopy(e, h)
      BY <2>1, <2>3, <2>4 DEF OnceInv
    <3> QED  BY <3>1, <3>2 DEF OneCopy, Got, Record
  <2>13. ASSUME NEW m \in Events, request'[m] \in Unsent PROVE NoCopy(m)'
    <3>1. NoCopy(m)
      BY <2>1, <2>13 DEF OnceInv
    <3>2. m # e
      BY <2>3, <3>1 DEF NoCopy
    <3>3. \A x \in Conns : ~In(m, chan'[x])
      BY <2>7, <3>1, <3>2 DEF NoCopy
    <3>4. \A h \in Instances : ~In(m, bus'[h])
      BY <2>6, <3>1 DEF NoCopy
    <3> QED  BY <2>1, <3>1, <3>3, <3>4 DEF NoCopy, Got, Record
  <2>14. \A x \in Conns : reader'[x] = "none" => chan'[x] = <<>> /\ ~open'[x]
    BY <2>1, <2>5 DEF OnceInv
  <2>15. \A h \in Instances : subHolds'[h] # NoConn => home'[subHolds'[h]] = h
    BY <2>1 DEF OnceInv, Inv, TypeOK
  <2> QED  BY <2>8, <2>11, <2>12, <2>13, <2>14, <2>15 DEF OnceInv
<1> QED  BY <1>1, <1>2

\* The writer moves an event from its channel to the device, or it is lost.
LEMMA WriterWritesOnce ==
  ASSUME Inv, OnceInv, NEW c \in Conns, WriterWrites(c)
  PROVE  OnceInv'
<1>1. /\ chan[c] # <<>> /\ chan' = [chan EXCEPT ![c] = Tail(@)]
      /\ UNCHANGED <<home, reader, open, request, bus, subHolds>>
      /\ chan[c] \in Seq(Events \cup {Pong})
  BY DEF WriterWrites, httpVars, subVars, Inv, TypeOK
<1>2. /\ chan'[c] = Tail(chan[c])
      /\ \A x \in Conns \ {c} : chan'[x] = chan[x]
  BY <1>1 DEF Inv, TypeOK
<1>3. PICK e \in Events \cup {Pong} : e = Head(chan[c]) /\ In(e, chan[c])
  BY <1>1, InTail
<1>4. PICK g \in Instances, d \in Devices : g = home[c] /\ d = owner[c] /\ reader[c] # "none"
  BY <1>1 DEF WriterWrites, Inv, TypeOK, ConnOK
<1>5. ASSUME NEW m \in Events, NEW x \in Conns
      PROVE  /\ In(m, chan'[x]) => In(m, chan[x])
             /\ Once(m, chan[x]) => Once(m, chan'[x])
  <2>1. /\ In(m, Tail(chan[c])) => In(m, chan[c])
        /\ Once(m, chan[c]) => Once(m, Tail(chan[c]))
    BY <1>1, InTail
  <2> QED  BY <1>2, <2>1
<1>6. CASE UNCHANGED received
  <2>1. \A x \in Conns : reader'[x] = "none" => chan'[x] = <<>> /\ ~open'[x]
    BY <1>1, <1>2, <1>4 DEF OnceInv
  <2> QED  BY <1>1, <1>5, <1>6, <2>1, NoNewCopy DEF OnceInv
<1>7. CASE e # Pong /\ received' = [received EXCEPT ![d] = Append(@, Record(e, g))]
  <2> DEFINE Rec == [event : Events, from : Instances]
  <2>1. /\ received'[d] = Append(received[d], Record(e, g))
        /\ \A x \in Devices \ {d} : received'[x] = received[x]
        /\ received[d] \in Seq(Rec)
    BY <1>4, <1>7 DEF Inv, TypeOK
  <2>2. e \in Events /\ Record(e, g) \in Rec
    BY <1>3, <1>4, <1>7 DEF Record
  <2> HIDE DEF Rec
  <2>3. ASSUME NEW m \in Events, NEW h \in Instances, m # e \/ h # g, NEW x \in Devices
        PROVE  /\ In(Record(m, h), received'[x]) => In(Record(m, h), received[x])
               /\ Once(Record(m, h), received[x]) => Once(Record(m, h), received'[x])
    <3>1. Record(m, h) # Record(e, g)
      BY <2>3 DEF Record
    <3>2. CASE x = d
      <4>1. /\ In(Record(m, h), Append(received[d], Record(e, g))) => In(Record(m, h), received[d])
            /\ Once(Record(m, h), received[d])
                 => Once(Record(m, h), Append(received[d], Record(e, g)))
        BY <2>1, <2>2, <3>1, AppendOther
      <4> QED  BY <2>1, <3>2, <4>1
    <3>3. CASE x # d
      BY <2>1, <3>3
    <3> QED  BY <3>2, <3>3
  <2>4. ASSUME NEW m \in Events, NEW h \in Instances, m # e \/ h # g PROVE OneCopy(m, h)'
    <3>1. OneCopy(m, h)
      BY DEF OnceInv
    <3>2. \A x \in Devices :
            /\ In(Record(m, h), received'[x]) => In(Record(m, h), received[x])
            /\ Once(Record(m, h), received[x]) => Once(Record(m, h), received'[x])
      BY <2>3, <2>4
    <3> QED  BY <1>1, <1>5, <3>1, <3>2, CopyStays
  <2>5. OneCopy(e, g) /\ home[c] = g
    BY <1>4, <2>2 DEF OnceInv
  <2>6. /\ Once(e, chan[c]) /\ ~In(e, bus[g])
        /\ \A x \in Conns \ {c} : home[x] = g => ~In(e, chan[x])
        /\ \A x \in Devices : ~Got(e, x, g)
    BY <1>3, <2>5 DEF OneCopy
  <2>7. ~In(e, chan'[c])
    <3>1. ~In(e, Tail(chan[c]))
      BY <1>1, <2>6, <1>3, InTail
    <3> QED  BY <1>2, <3>1
  <2>8. \A x \in Conns : home'[x] = g => ~In(e, chan'[x])
    BY <1>1, <1>2, <2>6, <2>7
  <2>9. \A x \in Devices : Once(Record(e, g), received'[x])
    <3>1. Once(Record(e, g), Append(received[d], Record(e, g)))
      BY <1>4, <2>1, <2>2, <2>6, AppendNew DEF Got
    <3>2. \A x \in Devices : Once(Record(e, g), received[x])
      BY <2>5 DEF OneCopy
    <3> QED  BY <2>1, <3>1, <3>2
  <2>10. OneCopy(e, g)'
    <3>1. ~In(e, bus'[g]) /\ Once(e, bus'[g])
      BY <1>1, <2>5, <2>6 DEF OneCopy
    <3> QED  BY <2>8, <2>9, <3>1 DEF OneCopy, Got, Record
  <2>11. ASSUME NEW m \in Events, request'[m] \in Unsent PROVE NoCopy(m)'
    <3>1. NoCopy(m)
      BY <1>1, <2>11 DEF OnceInv
    <3>2. m # e
      BY <1>3, <3>1 DEF NoCopy
    <3>3. \A x \in Devices, h \in Instances : ~In(Record(m, h), received'[x])
      BY <2>3, <3>1, <3>2 DEF NoCopy, Got
    <3> QED  BY <1>1, <1>5, <3>1, <3>3 DEF NoCopy, Got, Record
  <2>12. \A x \in Conns : reader'[x] = "none" => chan'[x] = <<>> /\ ~open'[x]
    BY <1>1, <1>2, <1>4 DEF OnceInv
  <2>13. \A h \in Instances : subHolds'[h] # NoConn => home'[subHolds'[h]] = h
    BY <1>1 DEF OnceInv
  <2>14. \A m \in Events, h \in Instances : OneCopy(m, h)'
    BY <2>4, <2>10
  <2> QED  BY <2>11, <2>12, <2>13, <2>14 DEF OnceInv
<1> QED  BY <1>3, <1>4, <1>6, <1>7 DEF WriterWrites, Record

\* Every step keeps it: the actions that touch no event leave all copies where they are.
LEMMA NextOnce == Inv /\ OnceInv /\ [Next]_vars => OnceInv'
<1> SUFFICES ASSUME Inv, OnceInv, [Next]_vars PROVE OnceInv'
  OBVIOUS
<1>1. ASSUME UNCHANGED <<bus, chan, received, home, request, reader, open, subHolds>>
      PROVE  OnceInv'
  BY <1>1, SameCopies DEF OnceInv
<1>2. ASSUME NEW d \in Devices, DialSome(d) PROVE OnceInv'
  BY <1>2, DialOnce DEF DialSome
<1>3. ASSUME NEW d \in Devices, AgentDrops(d) \/ AgentNotices(d) PROVE OnceInv'
  BY <1>1, <1>3 DEF AgentDrops, AgentNotices, connVars, httpVars, subVars
<1>4. ASSUME NEW c \in Conns, Serve(c) PROVE OnceInv'
  <2>1. CASE WriterStops(c)
    BY <1>1, <2>1 DEF WriterStops, WriterEnds, httpVars, subVars
  <2> QED
    BY <1>4, <2>1, RegisterOnce, WriterWritesOnce, ReaderOnce DEF Serve
<1>5. ASSUME NEW c \in Conns, WriteTimesOut(c) PROVE OnceInv'
  BY <1>1, <1>5 DEF WriteTimesOut, WriterEnds, httpVars, subVars
<1>6. ASSUME NEW c \in Conns, AnswerPing(c) PROVE OnceInv'
  BY <1>6, AnswerPingOnce
<1>7. ASSUME NEW m \in Events, (\E g \in Instances : Receive(m, g)) \/ Send(m) \/ Publish(m)
      PROVE  OnceInv'
  BY <1>7, ReceiveOnce, SendOnce, PublishOnce
<1>8. ASSUME NEW g \in Instances, Subscribe(g) \/ Stop(g) PROVE OnceInv'
  BY <1>8, SubTakesOnce, SubSendsOnce, DownOnce DEF Subscribe, Stop
<1>9. ASSUME NEW g \in Instances, Restart(g) PROVE OnceInv'
  BY <1>1, <1>9 DEF Restart, connVars, httpVars, subVars
<1>10. CASE UNCHANGED vars
  BY <1>1, <1>10 DEF vars, connVars, httpVars, subVars
<1> QED
  BY <1>2, <1>3, <1>4, <1>5, <1>6, <1>7, <1>8, <1>9, <1>10 DEF Next

\* OncePerInstance follows: an entry of a device's history is the record of an event.
LEMMA OnceInvImplies == Inv /\ OnceInv => OncePerInstance
<1> SUFFICES ASSUME Inv, OnceInv, NEW d \in Devices,
                    NEW i \in DOMAIN received[d], NEW j \in DOMAIN received[d],
                    received[d][i] = received[d][j]
             PROVE  i = j
  BY DEF OncePerInstance
<1>1. received[d] \in Seq([event : Events, from : Instances])
  BY DEF Inv, TypeOK
<1>2. DOMAIN received[d] = 1 .. Len(received[d]) /\ received[d][i] \in [event : Events, from : Instances]
  BY <1>1, LenProperties, ElementOfSeq
<1>3. PICK m \in Events, g \in Instances : received[d][i] = Record(m, g)
  BY <1>2 DEF Record
<1>4. Once(Record(m, g), received[d])
  BY DEF OnceInv, OneCopy
<1> QED  BY <1>2, <1>3, <1>4 DEF Once

\* Through one instance, a device gets an event once, whatever is lost, stopped or made
\* anew: the handler and the subscriber of a process never both put it in a channel.
THEOREM DeliveredOncePerInstance == Spec => []OncePerInstance
<1>1. Init => Inv /\ OnceInv
  BY InitInv, InitOnce
<1>2. Inv /\ OnceInv /\ [Next]_vars => Inv' /\ OnceInv'
  BY NextInv, NextOnce
<1>3. Inv /\ OnceInv => OncePerInstance
  BY OnceInvImplies
<1> QED  BY <1>1, <1>2, <1>3, PTL DEF Spec

=============================================================================
