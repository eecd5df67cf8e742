------------------------------ MODULE DesktopChat ------------------------------
(***************************************************************************)
(* A chat with agent-core as the desktop keeps it: the window knows whether *)
(* it is busy, the main process has one request and one session id that it *)
(* takes for those of the chat on the screen.  Cancelling frees the window  *)
(* at once and cuts, two seconds later, whichever request is active then.   *)
(***************************************************************************)
EXTENDS Naturals

CONSTANT MaxChatSends \* bound of the model: chats sent

ASSUME DesktopChatConstants == MaxChatSends \in Nat

VARIABLES
  chatSends,         \* chats sent so far; they are numbered in that order
  dChat,         \* per chat: whether the promise of send-chat is settled
  stream,        \* per chat: its HTTP request
  busy,          \* isChatBusy of the window
  activeRequest, \* activeChatRequest, 0 for null
  activeSession, \* activeChatSessionId, as the number of its chat
  cancelling,    \* chatCancelling
  telling,       \* cancels that await the answer of agent-core
  cutsDue,       \* timers of cancels that have not fired
  autoApproves   \* chats in which agent-core was told to ask no more

desktopChatVars == <<chatSends, dChat, stream, busy, activeRequest, activeSession, cancelling, telling,
                     cutsDue, autoApproves>>

Sends == 1 .. MaxChatSends

DesktopChatTypeOK ==
  /\ chatSends \in 0 .. MaxChatSends
  /\ dChat \in [Sends -> {"unsent", "waiting", "settled"}]
  /\ stream \in [Sends -> {"none", "opening", "open", "cut", "closed"}]
  /\ {busy, cancelling} \subseteq BOOLEAN
  /\ {activeRequest, activeSession} \subseteq 0 .. MaxChatSends
  /\ {telling, cutsDue} \subseteq 0 .. MaxChatSends
  /\ autoApproves \subseteq Sends

DesktopChatInit ==
  /\ chatSends = 0
  /\ dChat = [c \in Sends |-> "unsent"]
  /\ stream = [c \in Sends |-> "none"]
  /\ busy = FALSE /\ cancelling = FALSE
  /\ activeRequest = 0 /\ activeSession = 0
  /\ telling = 0 /\ cutsDue = 0
  /\ autoApproves = {}

-----------------------------------------------------------------------------

SendChatRequest ==
  /\ ~busy /\ chatSends < MaxChatSends
  /\ chatSends' = chatSends + 1 /\ busy' = TRUE
  /\ cancelling' = FALSE
  /\ dChat' = [dChat EXCEPT ![chatSends + 1] = "waiting"]
  /\ stream' = [stream EXCEPT ![chatSends + 1] = "opening"]
  /\ activeRequest' = chatSends + 1
  /\ UNCHANGED <<activeSession, telling, cutsDue, autoApproves>>

\* The first event of the stream names the session.
SessionEvent(c) ==
  /\ stream[c] = "opening"
  /\ stream' = [stream EXCEPT ![c] = "open"]
  /\ activeSession' = c
  /\ UNCHANGED <<chatSends, dChat, busy, activeRequest, cancelling, telling, cutsDue, autoApproves>>

\* A slip: the session is kept when the chat is over.
SafeResolveRequest(c) ==
  IF dChat[c] = "waiting"
  THEN /\ dChat' = [dChat EXCEPT ![c] = "settled"]
       /\ activeRequest' = 0
       /\ busy' = FALSE /\ UNCHANGED activeSession
  ELSE UNCHANGED <<dChat, activeRequest, activeSession, busy>>

\* safeResolve: the first outcome settles the promise and clears what is active, whose ever it is;
\* the window is free again.
SafeResolve(c) ==
  IF dChat[c] = "waiting"
  THEN /\ dChat' = [dChat EXCEPT ![c] = "settled"]
       /\ activeRequest' = 0 /\ activeSession' = 0
       /\ busy' = FALSE
  ELSE UNCHANGED <<dChat, activeRequest, activeSession, busy>>

\* The last event, the end of the stream, an error of the request or its timeout.  After a cut it
\* depends on how far the answer was whether anything is heard of the request.
StreamEnds(c) ==
  /\ stream[c] \in {"opening", "open", "cut"}
  /\ stream' = [stream EXCEPT ![c] = "closed"]
  /\ SafeResolve(c)
  /\ UNCHANGED <<chatSends, cancelling, telling, cutsDue, autoApproves>>

CancelChatRequest ==
  /\ busy
  /\ busy' = FALSE /\ cancelling' = TRUE
  /\ IF activeSession # 0 THEN telling' = telling + 1 /\ UNCHANGED cutsDue
     ELSE cutsDue' = cutsDue + 1 /\ UNCHANGED telling
  /\ UNCHANGED <<chatSends, dChat, stream, activeRequest, activeSession, autoApproves>>

\* agent-core answered the cancel, or did not within three seconds.
CancelTold ==
  /\ telling > 0
  /\ telling' = telling - 1 /\ cutsDue' = cutsDue + 1
  /\ UNCHANGED <<chatSends, dChat, stream, busy, activeRequest, activeSession, cancelling, autoApproves>>

CutFires ==
  /\ cutsDue > 0
  /\ cutsDue' = cutsDue - 1
  /\ stream' = IF activeRequest = 0 \/ stream[activeRequest] = "closed" THEN stream
               ELSE [stream EXCEPT ![activeRequest] = "cut"]
  /\ activeRequest' = 0 /\ activeSession' = 0
  /\ UNCHANGED <<chatSends, dChat, busy, cancelling, telling, autoApproves>>

AutoApproveAsked(enabled) ==
  /\ activeSession # 0
  /\ autoApproves' = IF enabled THEN autoApproves \cup {activeSession}
                     ELSE autoApproves \ {activeSession}
  /\ UNCHANGED <<chatSends, dChat, stream, busy, activeRequest, activeSession, cancelling, telling, cutsDue>>

DesktopChatNext ==
  \/ SendChatRequest
  \/ \E c \in Sends : SessionEvent(c) \/ StreamEnds(c)
  \/ CancelChatRequest
  \/ CancelTold
  \/ CutFires
  \/ \E enabled \in BOOLEAN : AutoApproveAsked(enabled)

-----------------------------------------------------------------------------

\* The session that is cancelled, or told to ask no more, is one whose stream is open and whose
\* answer the window still waits for, however chats and cancels overlap (main.ts send-chat).
SessionIsLive ==
  activeSession # 0 => dChat[activeSession] = "waiting" /\ stream[activeSession] = "open"
=============================================================================
