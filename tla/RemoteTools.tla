----------------------------- MODULE RemoteTools -----------------------------
(***************************************************************************)
(* The agent's end of the session: the loop that keeps a connection to     *)
(* session-gateway, a reader and a writer per connection, the tools the    *)
(* gateway asks for, and the approvals they wait for in the policy engine, *)
(* which users give through the local API.                                 *)
(*                                                                         *)
(* A tool is run by the goroutine that reads the connection: while it      *)
(* waits for its approval nothing else is read.  The send channel belongs  *)
(* to the client, not to a connection, so the writer of a lost connection  *)
(* goes on taking from it until a write or a ping of its own fails.        *)
(***************************************************************************)
EXTENDS Naturals, Sequences

CONSTANTS
  Tools,         \* tool.started events the gateway may send
  ReadOnly,      \* those whose tool only reads
  Deciders,      \* slots for requests to the local API that resolve an approval
  MaxLinks,      \* bound: connections that are made
  SendCapacity,  \* room of sendCh, 256 in the code
  Idle           \* a reader that reads, a writer that holds nothing, a free slot

ASSUME ToolConstants ==
  /\ ReadOnly \subseteq Tools
  /\ Idle \notin Tools
  /\ MaxLinks \in Nat \ {0}
  /\ SendCapacity \in Nat \ {0}

VARIABLES
  dialler,   \* connectLoop: "dials" or "waits" for an error of the last connection
  links,     \* how many connections were made
  link,      \* per connection: "unused", "up" or "down"
  reader,    \* per connection: "off", Idle, the tool it is busy with, or "gone"
  writer,    \* per connection: "off", Idle, the result it is writing, or "gone"
  sendCh,    \* results on their way to a writer
  tool,      \* per event: "unsent", "waits", "runs", "over"
  pending,   \* pendingApprovals of the policy engine
  answers,   \* ResultCh of each request, a channel of one
  decider,   \* per slot: the request it found pending with the answer it brings, or Idle
  first,     \* history: the first answer each request got
  ran        \* history: tools that were executed

toolVars == <<dialler, links, link, reader, writer, sendCh, tool, pending, answers,
              decider, first, ran>>

Links == 1 .. MaxLinks

ToolTypeOK ==
  /\ dialler \in {"dials", "waits"}
  /\ links \in 0 .. MaxLinks
  /\ link \in [Links -> {"unused", "up", "down"}]
  /\ reader \in [Links -> Tools \cup {Idle, "off", "gone"}]
  /\ writer \in [Links -> Tools \cup {Idle, "off", "gone"}]
  /\ sendCh \in Seq(Tools) /\ Len(sendCh) <= SendCapacity
  /\ tool \in [Tools -> {"unsent", "waits", "runs", "over"}]
  /\ pending \subseteq Tools
  /\ answers \in [Tools -> Seq(BOOLEAN)] /\ \A t \in Tools : Len(answers[t]) <= 1
  /\ decider \in [Deciders -> (Tools \X BOOLEAN) \cup {Idle}]
  /\ first \in [Tools -> {"none", "yes", "no"}]
  /\ ran \subseteq Tools

ToolInit ==
  /\ dialler = "dials"
  /\ links = 0
  /\ link = [l \in Links |-> "unused"]
  /\ reader = [l \in Links |-> "off"]
  /\ writer = [l \in Links |-> "off"]
  /\ sendCh = <<>>
  /\ tool = [t \in Tools |-> "unsent"]
  /\ pending = {}
  /\ answers = [t \in Tools |-> <<>>]
  /\ decider = [d \in Deciders |-> Idle]
  /\ first = [t \in Tools |-> "none"]
  /\ ran = {}

-----------------------------------------------------------------------------
\* The connection.

Connect ==
  /\ dialler = "dials"
  /\ links < MaxLinks
  /\ links' = links + 1
  /\ dialler' = "waits"
  /\ link' = [link EXCEPT ![links + 1] = "up"]
  /\ reader' = [reader EXCEPT ![links + 1] = Idle]
  /\ writer' = [writer EXCEPT ![links + 1] = Idle]
  /\ UNCHANGED <<sendCh, tool, pending, answers, decider, first, ran>>

\* The network, the gateway or the read deadline of 90 s ends a connection.
Breaks(l) ==
  /\ link[l] = "up"
  /\ link' = [link EXCEPT ![l] = "down"]
  /\ UNCHANGED <<dialler, links, reader, writer, sendCh, tool, pending, answers, decider,
                 first, ran>>

\* A pump that ends has put an error in errChan, which has room for both.
Signalled == links > 0 /\ (reader[links] = "gone" \/ writer[links] = "gone")

Reconnect ==
  /\ dialler = "waits"
  /\ Signalled
  /\ link' = [link EXCEPT ![links] = "down"]
  /\ dialler' = "dials"
  /\ UNCHANGED <<links, reader, writer, sendCh, tool, pending, answers, decider, first, ran>>

ReadFails(l) ==
  /\ reader[l] = Idle
  /\ link[l] = "down"
  /\ reader' = [reader EXCEPT ![l] = "gone"]
  /\ UNCHANGED <<dialler, links, link, writer, sendCh, tool, pending, answers, decider, first,
                 ran>>

WriterTakes(l) ==
  /\ writer[l] = Idle
  /\ sendCh # <<>>
  /\ writer' = [writer EXCEPT ![l] = Head(sendCh)]
  /\ sendCh' = Tail(sendCh)
  /\ UNCHANGED <<dialler, links, link, reader, tool, pending, answers, decider, first, ran>>

WriterWrites(l) ==
  /\ writer[l] \in Tools
  /\ writer' = [writer EXCEPT ![l] = IF link[l] = "up" THEN Idle ELSE "gone"]
  /\ UNCHANGED <<dialler, links, link, reader, sendCh, tool, pending, answers, decider, first,
                 ran>>

\* A slip: a ping is written to the current connection, whose writer then ends.
PingFailsOnlyNow(l) ==
  /\ l = links
  /\ writer[l] = Idle
  /\ link[l] = "down"
  /\ writer' = [writer EXCEPT ![l] = "gone"]
  /\ UNCHANGED <<dialler, links, link, reader, sendCh, tool, pending, answers, decider, first,
                 ran>>

PingFails(l) ==
  /\ writer[l] = Idle
  /\ link[l] = "down"
  /\ writer' = [writer EXCEPT ![l] = "gone"]
  /\ UNCHANGED <<dialler, links, link, reader, sendCh, tool, pending, answers, decider, first,
                 ran>>

-----------------------------------------------------------------------------
\* Tools.

\* handleToolStarted up to the wait in Engine.Check: a tool that only reads runs at once.
ToolStarted(l, t) ==
  /\ reader[l] = Idle
  /\ link[l] = "up"
  /\ tool[t] = "unsent"
  /\ reader' = [reader EXCEPT ![l] = t]
  /\ tool' = [tool EXCEPT ![t] = IF t \in ReadOnly THEN "runs" ELSE "waits"]
  /\ pending' = IF t \in ReadOnly THEN pending ELSE pending \cup {t}
  /\ UNCHANGED <<dialler, links, link, writer, sendCh, answers, decider, first, ran>>

\* sendToolResult drops the result when sendCh is full; the reader reads on.
SendToolResult(t) ==
  /\ sendCh' = IF Len(sendCh) < SendCapacity THEN Append(sendCh, t) ELSE sendCh
  /\ reader' = [l \in Links |-> IF reader[l] = t THEN Idle ELSE reader[l]]

\* A slip: a wait that has no deadline once somebody has looked at it.
CheckExpiresUnseen(t) ==
  /\ tool[t] = "waits"
  /\ first[t] = "none"
  /\ \A d \in Deciders : decider[d] = Idle
  /\ tool' = [tool EXCEPT ![t] = "over"]
  /\ pending' = pending \ {t}
  /\ SendToolResult(t)
  /\ UNCHANGED <<dialler, links, link, writer, answers, decider, first, ran>>

\* The request has waited its five minutes, or its context has: both are "denied".
CheckExpires(t) ==
  /\ tool[t] = "waits"
  /\ tool' = [tool EXCEPT ![t] = "over"]
  /\ pending' = pending \ {t}
  /\ SendToolResult(t)
  /\ UNCHANGED <<dialler, links, link, writer, answers, decider, first, ran>>

CheckDenied(t) ==
  /\ tool[t] = "waits"
  /\ answers[t] = <<FALSE>>
  /\ answers' = [answers EXCEPT ![t] = <<>>]
  /\ tool' = [tool EXCEPT ![t] = "over"]
  /\ pending' = pending \ {t}
  /\ SendToolResult(t)
  /\ UNCHANGED <<dialler, links, link, writer, decider, first, ran>>

CheckApproved(t) ==
  /\ tool[t] = "waits"
  /\ answers[t] = <<TRUE>>
  /\ answers' = [answers EXCEPT ![t] = <<>>]
  /\ tool' = [tool EXCEPT ![t] = "runs"]
  /\ pending' = pending \ {t}
  /\ UNCHANGED <<dialler, links, link, reader, writer, sendCh, decider, first, ran>>

Execute(t) ==
  /\ tool[t] = "runs"
  /\ tool' = [tool EXCEPT ![t] = "over"]
  /\ ran' = ran \cup {t}
  /\ SendToolResult(t)
  /\ UNCHANGED <<dialler, links, link, writer, pending, answers, decider, first>>

\* Engine.Resolve looks the request up under the lock ...
Resolve(d, t, yes) ==
  /\ decider[d] = Idle
  /\ t \in pending
  /\ decider' = [decider EXCEPT ![d] = <<t, yes>>]
  /\ UNCHANGED <<dialler, links, link, reader, writer, sendCh, tool, pending, answers, first,
                 ran>>

\* A slip: a channel that keeps the latest answer.
SendAnswerOver(d) ==
  /\ decider[d] # Idle
  /\ LET t == decider[d][1] IN
       /\ answers' = [answers EXCEPT ![t] = <<decider[d][2]>>]
       /\ first' = [first EXCEPT ![t] =
                      IF @ # "none" THEN @ ELSE IF decider[d][2] THEN "yes" ELSE "no"]
  /\ decider' = [decider EXCEPT ![d] = Idle]
  /\ UNCHANGED <<dialler, links, link, reader, writer, sendCh, tool, pending, ran>>

\* ... and sends its answer without it; the handler is blocked while the channel is full.
SendAnswer(d) ==
  /\ decider[d] # Idle
  /\ LET t == decider[d][1] IN
       /\ answers[t] = <<>>
       /\ answers' = [answers EXCEPT ![t] = <<decider[d][2]>>]
       /\ first' = [first EXCEPT ![t] =
                      IF @ # "none" THEN @ ELSE IF decider[d][2] THEN "yes" ELSE "no"]
  /\ decider' = [decider EXCEPT ![d] = Idle]
  /\ UNCHANGED <<dialler, links, link, reader, writer, sendCh, tool, pending, ran>>

ToolNext ==
  \/ Connect
  \/ Reconnect
  \/ \E l \in Links :
       \/ Breaks(l)
       \/ ReadFails(l)
       \/ WriterTakes(l)
       \/ WriterWrites(l)
       \/ PingFails(l)
       \/ \E t \in Tools : ToolStarted(l, t)
  \/ \E t \in Tools : CheckExpires(t) \/ CheckDenied(t) \/ CheckApproved(t) \/ Execute(t)
  \/ \E d \in Deciders :
       \/ \E t \in Tools, yes \in BOOLEAN : Resolve(d, t, yes)
       \/ SendAnswer(d)

ToolSpec == ToolInit /\ [][ToolNext]_toolVars

\* The dialler dials for ever, a lost connection fails at the next read and the next ping,
\* writes end, waits end at their deadline, and a tool ends within its timeout.
ToolFairness ==
  /\ WF_toolVars(Connect) /\ WF_toolVars(Reconnect)
  /\ \A l \in Links : /\ WF_toolVars(ReadFails(l))
                      /\ WF_toolVars(WriterWrites(l))
                      /\ WF_toolVars(PingFails(l) \/ WriterTakes(l))
  /\ \A t \in Tools : WF_toolVars(CheckExpires(t)) /\ WF_toolVars(Execute(t))
  /\ \A d \in Deciders : WF_toolVars(SendAnswer(d))

ToolFairSpec == ToolSpec /\ ToolFairness

-----------------------------------------------------------------------------

\* However many users answer at once, and whatever becomes of the connection, a tool that
\* changes something runs only if the first answer to its request was yes
\* (policy/engine.go:310: the channel holds one answer and nobody overwrites it).
FirstAnswerDecides == \A t \in ran \ ReadOnly : first[t] = "yes"

\* The writer of a lost connection ends, so that results go to the new one from then on
\* (ws_client.go:236: only its ping tells it, when there is nothing to write).
StaleWritersEnd == \A l \in Links : link[l] = "down" ~> writer[l] = "gone"

\* Whoever fails to answer, a reader that is busy with a tool reads on
\* (ws_client.go:413: the wait happens in the reader itself).
ReadersReturn == \A l \in Links, t \in Tools : reader[l] = t ~> reader[l] # t

=============================================================================
