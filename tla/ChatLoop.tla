------------------------------ MODULE ChatLoop ------------------------------
(***************************************************************************)
(* The chats of an agent's local API: each request runs a loop that asks   *)
(* the language model, executes the tool calls it answers with, and asks   *)
(* again.  A call that may change the device waits for the user, who       *)
(* approves or declines it with a request of its own, lets all further     *)
(* calls of the chat pass, or cancels the chat.                            *)
(*                                                                         *)
(* A chat lives on when its client is gone; only the timeout of its        *)
(* context, ten minutes, or a request to cancel it ends that context.      *)
(***************************************************************************)
EXTENDS Naturals, FiniteSets

CONSTANTS
  Chats,          \* requests to /chat
  MaxIterations,  \* rounds of the loop
  MaxCalls        \* bound of the model: tool calls in one answer of the model

ASSUME ChatConstants == MaxIterations \in Nat \ {0} /\ MaxCalls \in Nat \ {0}

VARIABLES
  chat,       \* per chat: what its loop does, rounds begun, calls of the round to come
  live,       \* chats whose context has not ended
  auto,       \* chatAutoApprove
  answer,     \* per chat, the channel of chatApprovals: "none" if there is none, "empty", or the
              \* answer in it
  autoEver,   \* history: chats whose calls the user once let pass
  agreed,     \* history, per chat: the first answer accepted for the call at hand, or "none"
  grant       \* per chat: why the call at hand may run: "none", "read", "auto", "user"

chatVars == <<chat, live, auto, answer, autoEver, agreed, grant>>

ChatTypeOK ==
  /\ chat \in [Chats -> [at : {"none", "asks", "calls", "waits", "runs", "sums_up", "ended"},
                         rounds : 0 .. MaxIterations, calls : 0 .. MaxCalls]]
  /\ live \subseteq Chats
  /\ auto \subseteq Chats
  /\ answer \in [Chats -> {"none", "empty", "yes", "no"}]
  /\ autoEver \subseteq Chats
  /\ agreed \in [Chats -> {"none", "yes", "no"}]
  /\ grant \in [Chats -> {"none", "read", "auto", "user"}]

ChatInit ==
  /\ chat = [c \in Chats |-> [at |-> "none", rounds |-> 0, calls |-> 0]]
  /\ live = {}
  /\ auto = {}
  /\ answer = [c \in Chats |-> "none"]
  /\ autoEver = {}
  /\ agreed = [c \in Chats |-> "none"]
  /\ grant = [c \in Chats |-> "none"]

ChatAt(c, place) == chat[c].at = place
GoesTo(c, place) == chat' = [chat EXCEPT ![c].at = place]

-----------------------------------------------------------------------------
\* The request of the chat and its loop.

StartChat(c) ==
  /\ ChatAt(c, "none")
  /\ GoesTo(c, "asks")
  /\ live' = live \cup {c}
  /\ UNCHANGED <<auto, answer, autoEver, agreed, grant>>

\* The handler returns; its deferred calls take the chat out of the maps.
EndChat(c) ==
  /\ GoesTo(c, "ended")
  /\ live' = live \ {c}
  /\ auto' = auto \ {c}
  /\ UNCHANGED <<answer, autoEver, agreed, grant>>

\* No tool calls in the answer, an error, or a context that has ended.
ModelEnds(c) ==
  /\ ChatAt(c, "asks")
  /\ EndChat(c)

\* A slip: the rounds are not counted.
ModelCallsForEver(c) ==
  /\ ChatAt(c, "asks")
  /\ c \in live
  /\ \E n \in 1 .. MaxCalls : chat' = [chat EXCEPT ![c].at = "calls", ![c].calls = n]
  /\ UNCHANGED <<live, auto, answer, autoEver, agreed, grant>>

\* A round begins: the model answers with tool calls.
ModelCalls(c) ==
  /\ ChatAt(c, "asks")
  /\ c \in live
  /\ chat[c].rounds < MaxIterations
  /\ \E n \in 1 .. MaxCalls :
       chat' = [chat EXCEPT ![c] = [at |-> "calls", rounds |-> @.rounds + 1, calls |-> n]]
  /\ UNCHANGED <<live, auto, answer, autoEver, agreed, grant>>

\* After the last round the model is asked once more, without tools.
SumUp(c) ==
  /\ ChatAt(c, "asks")
  /\ chat[c].rounds = MaxIterations
  /\ GoesTo(c, "sums_up")
  /\ UNCHANGED <<live, auto, answer, autoEver, agreed, grant>>

SummaryEnds(c) ==
  /\ ChatAt(c, "sums_up")
  /\ EndChat(c)

RoundEnds(c) ==
  /\ ChatAt(c, "calls")
  /\ chat[c].calls = 0
  /\ GoesTo(c, "asks")
  /\ UNCHANGED <<live, auto, answer, autoEver, agreed, grant>>

CallsAreDropped(c) ==
  /\ ChatAt(c, "calls")
  /\ chat[c].calls > 0
  /\ c \notin live
  /\ EndChat(c)

\* The next call; the context is looked at before it.
NextCall(c, place, reason) ==
  /\ ChatAt(c, "calls")
  /\ chat[c].calls > 0
  /\ c \in live
  /\ chat' = [chat EXCEPT ![c].at = place, ![c].calls = @ - 1]
  /\ grant' = [grant EXCEPT ![c] = reason]
  /\ agreed' = [agreed EXCEPT ![c] = "none"]
  /\ UNCHANGED <<live, auto, autoEver>>

\* No such tool: the model is told so.
UnknownTool(c) == NextCall(c, "calls", "none") /\ UNCHANGED answer

\* A tool that only reads, or whose own check finds this use harmless.
ReadCall(c) == NextCall(c, "runs", "read") /\ UNCHANGED answer

\* A slip: the switch of another chat will do.
AnyAutoApproved(c) == auto # {}

AutoApproved(c) == c \in auto

AutoCall(c) ==
  /\ AutoApproved(c)
  /\ NextCall(c, "runs", "auto")
  /\ UNCHANGED answer

AskApproval(c) ==
  /\ ~AutoApproved(c)
  /\ NextCall(c, "waits", "none")
  /\ answer' = [answer EXCEPT ![c] = "empty"]

\* The select of the handler; the channel leaves the map.
TakeAnswer(c) ==
  /\ ChatAt(c, "waits")
  /\ answer[c] \in {"yes", "no"}
  /\ GoesTo(c, IF answer[c] = "yes" THEN "runs" ELSE "calls")
  /\ grant' = [grant EXCEPT ![c] = IF answer[c] = "yes" THEN "user" ELSE "none"]
  /\ answer' = [answer EXCEPT ![c] = "none"]
  /\ UNCHANGED <<live, auto, autoEver, agreed>>

\* A slip: who does not answer agrees.
QuestionLapsesIntoYes(c) ==
  /\ ChatAt(c, "waits")
  /\ GoesTo(c, "runs")
  /\ grant' = [grant EXCEPT ![c] = "user"]
  /\ answer' = [answer EXCEPT ![c] = "none"]
  /\ UNCHANGED <<live, auto, autoEver, agreed>>

\* Five minutes have passed or the context has ended; an answer that came meanwhile is lost.
QuestionLapses(c) ==
  /\ ChatAt(c, "waits")
  /\ GoesTo(c, "calls")
  /\ answer' = [answer EXCEPT ![c] = "none"]
  /\ UNCHANGED <<live, auto, autoEver, agreed, grant>>

\* The tool returns, with a result or an error for the model.
ToolReturns(c) ==
  /\ ChatAt(c, "runs")
  /\ GoesTo(c, "calls")
  /\ grant' = [grant EXCEPT ![c] = "none"]
  /\ UNCHANGED <<live, auto, answer, autoEver, agreed>>

-----------------------------------------------------------------------------
\* The other requests, and time.

\* Refused if there is no such approval, or it has its answer.
ChatApprove(c, said) ==
  /\ answer[c] = "empty"
  /\ answer' = [answer EXCEPT ![c] = said]
  /\ agreed' = [agreed EXCEPT ![c] = said]
  /\ UNCHANGED <<chat, live, auto, autoEver, grant>>

\* Whether the chat is running, has ended or never was is not asked.
ChatAutoApprove(c, enabled) ==
  /\ (c \in auto) # enabled
  /\ auto' = IF enabled THEN auto \cup {c} ELSE auto \ {c}
  /\ autoEver' = IF enabled THEN autoEver \cup {c} ELSE autoEver
  /\ UNCHANGED <<chat, live, answer, agreed, grant>>

\* chat/cancel, or the ten minutes.
ContextIsOver(c) ==
  /\ c \in live
  /\ live' = live \ {c}
  /\ UNCHANGED <<chat, auto, answer, autoEver, agreed, grant>>

LoopSteps(c) ==
  \/ ModelEnds(c) \/ ModelCalls(c) \/ SumUp(c) \/ SummaryEnds(c)
  \/ RoundEnds(c) \/ CallsAreDropped(c)
  \/ UnknownTool(c) \/ ReadCall(c) \/ AutoCall(c) \/ AskApproval(c)
  \/ TakeAnswer(c) \/ QuestionLapses(c) \/ ToolReturns(c)

ChatNext ==
  \E c \in Chats :
    \/ StartChat(c) \/ LoopSteps(c)
    \/ \E said \in {"yes", "no"} : ChatApprove(c, said)
    \/ \E enabled \in BOOLEAN : ChatAutoApprove(c, enabled)
    \/ ContextIsOver(c)

ChatSpec == ChatInit /\ [][ChatNext]_chatVars

\* The loop runs on: model and tools return, the timer of an approval fires.
ChatFairness == \A c \in Chats : WF_chatVars(LoopSteps(c))

ChatFairSpec == ChatSpec /\ ChatFairness

-----------------------------------------------------------------------------

\* A call that may change the device runs only if this user said yes to this very call, and said
\* that first, or has let the calls of this chat pass: whatever answers come late, twice or for
\* other chats, and whatever ends in between (server.go:447-478, loop.go:214-240).
ChangesWereAllowed ==
  \A c \in Chats : chat[c].at = "runs" =>
    \/ grant[c] = "read"
    \/ grant[c] = "user" /\ agreed[c] = "yes"
    \/ grant[c] = "auto" /\ c \in autoEver

\* A chat ends, whether or not anyone answers its questions (loop.go:103, server.go:471-477).
ChatsEnd == \A c \in Chats : chat[c].at = "asks" ~> chat[c].at = "ended"

=============================================================================
