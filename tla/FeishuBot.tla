------------------------------ MODULE FeishuBot ------------------------------
(***************************************************************************)
(* The Feishu bot of platform-api: chats are bound to devices, a message   *)
(* in a bound chat starts a session on its device, and what happens in the *)
(* session is told to a chat.  The bindings are kept in memory, under a    *)
(* lock, and written through to Redis without one.  Requests are handled   *)
(* side by side.                                                           *)
(***************************************************************************)
EXTENDS Naturals, FiniteSets

CONSTANTS
  BotChats,       \* chats the bot is in
  BotDevices,  \* devices that exist
  BotRequests,    \* requests handled at once
  ChatSessions, \* sessions that may be created
  MaxMessages  \* bound of the model: messages people send

None == "none"

\* Ids are never the empty string that the code tests for.
ASSUME BotIds == None \notin BotChats \cup BotDevices \cup ChatSessions

VARIABLES
  hasRedis,       \* whether platform-api was started with Redis
  bindings,       \* ChatBridge.bindings: the device of a chat, and the last session asked there
  sessions,       \* ChatBridge.sessions: the chat of a session
  storedBindings, \* the keys enx:feishu:bind:*
  storedSessions, \* the keys enx:feishu:sess:*
  serving,        \* what each request is doing
  created,        \* sessions created, with the chat that asked and its device
  messages,           \* messages sent so far
  ordered,        \* history: the device the last command of a chat bound it to
  clean           \* history: chats whose requests never overlapped nor missed Redis

botVars == <<hasRedis, bindings, sessions, storedBindings, storedSessions, serving, created,
             messages, ordered, clean>>

bridgeMemory == <<bindings, sessions>>
bridgeKeys == <<storedBindings, storedSessions>>
botHistory == <<messages, ordered, clean>>

Unbound == [device |-> None, session |-> None]
NotAsked == [at |-> "idle", kind |-> None, chat |-> None, device |-> None, session |-> None,
             found |-> Unbound, to |-> None, known |-> FALSE]

BotTypeOK ==
  /\ bindings \in [BotChats -> [device : BotDevices \cup {None},
                                session : ChatSessions \cup {None}]]
  /\ sessions \in [ChatSessions -> BotChats \cup {None}]
  /\ storedBindings \in [BotChats -> BotDevices \cup {None}]
  /\ storedSessions \in [ChatSessions -> BotChats \cup {None}]
  /\ created \in [ChatSessions -> [chat : BotChats, device : BotDevices] \cup {Unbound}]
  /\ \A r \in BotRequests : serving[r].at \in {"idle", "lookup", "fill", "found", "store", "remove",
                                            "track", "keep", "ask", "route", "push"}

NewChatBridge ==
  /\ bindings = [c \in BotChats |-> Unbound]
  /\ sessions = [s \in ChatSessions |-> None]

BotInit ==
  /\ hasRedis \in BOOLEAN
  /\ NewChatBridge
  /\ storedBindings = [c \in BotChats |-> None]
  /\ storedSessions = [s \in ChatSessions |-> None]
  /\ serving = [r \in BotRequests |-> NotAsked]
  /\ created = [s \in ChatSessions |-> Unbound]
  /\ messages = 0
  /\ ordered = [c \in BotChats |-> None]
  /\ clean = [c \in BotChats |-> TRUE]

-----------------------------------------------------------------------------
(* A request goes through the lock, and through Redis, one step at a time  *)

Becomes(r, now) == serving' = [serving EXCEPT ![r] = now]
Served(r) == Becomes(r, NotAsked)
Reaches(r, place) == Becomes(r, [serving[r] EXCEPT !.at = place])

\* A call of Redis may fail; the bot goes on, and what its chat is bound to is then in doubt.
Misses(r) == clean' = [clean EXCEPT ![serving[r].chat] = FALSE]

\* /bind, /unbind or a plain message; each begins with GetBinding, whose first look is into memory.
HandleMessage(r, chat, kind, device) ==
  /\ serving[r].at = "idle" /\ messages < MaxMessages /\ messages' = messages + 1
  /\ kind \in {"bind", "unbind", "talk"}
  /\ device \in BotDevices \/ (kind # "bind" /\ device = None)
  /\ clean' = [clean EXCEPT ![chat] = @ /\ \A q \in BotRequests : serving[q].chat # chat]
  /\ LET seen == bindings[chat]
         asks == [NotAsked EXCEPT !.kind = kind, !.chat = chat, !.device = device, !.found = seen]
     IN Becomes(r, [asks EXCEPT !.at = IF seen = Unbound /\ hasRedis THEN "lookup" ELSE "found"])
  /\ UNCHANGED <<hasRedis, bridgeMemory, bridgeKeys, created, ordered>>

\* GetBinding reads Redis; a chat without a key is unbound.
GetBinding(r) ==
  /\ serving[r].at = "lookup"
  /\ \/ /\ Reaches(r, "found") /\ Misses(r)
     \/ /\ LET device == storedBindings[serving[r].chat]
           IN Becomes(r, [serving[r] EXCEPT !.at = IF device = None THEN "found" ELSE "fill",
                                         !.found = [device |-> device, session |-> None]])
        /\ UNCHANGED clean
  /\ UNCHANGED <<hasRedis, bridgeMemory, bridgeKeys, created, messages, ordered>>

\* It takes the lock again, and puts what it read into memory whatever is there by now.
FillBinding(r) ==
  /\ serving[r].at = "fill"
  /\ bindings' = [bindings EXCEPT ![serving[r].chat] = serving[r].found]
  /\ Reaches(r, "found")
  /\ UNCHANGED <<hasRedis, sessions, bridgeKeys, created, botHistory>>

\* The command, or the talk, has nothing to do: bound to that device already, or not bound.
NothingToDo(r) ==
  /\ serving[r].at = "found"
  /\ IF serving[r].kind = "bind" THEN serving[r].found.device = serving[r].device
                                 ELSE serving[r].found.device = None
  /\ Served(r)
  /\ UNCHANGED <<hasRedis, bridgeMemory, bridgeKeys, created, botHistory>>

Orders(r, device) == ordered' = [ordered EXCEPT ![serving[r].chat] = device]

\* Bind puts the new binding into memory, without a session.
BindChat(r) ==
  /\ serving[r].at = "found" /\ serving[r].kind = "bind"
  /\ serving[r].found.device # serving[r].device
  /\ bindings' = [bindings EXCEPT ![serving[r].chat] =
                                   [device |-> serving[r].device, session |-> None]]
  /\ Orders(r, serving[r].device)
  /\ IF hasRedis THEN Reaches(r, "store") ELSE Served(r)
  /\ UNCHANGED <<hasRedis, sessions, bridgeKeys, created, messages, clean>>

\* A slip: only a chat that has no key gets one.
BindStoreOnce(r) ==
  /\ serving[r].at = "store"
  /\ storedBindings' = [storedBindings EXCEPT ![serving[r].chat] =
                                               IF @ = None THEN serving[r].device ELSE @]
  /\ Served(r)
  /\ UNCHANGED <<hasRedis, bindings, sessions, storedSessions, created, botHistory>>

BindStore(r) ==
  /\ serving[r].at = "store"
  /\ \/ /\ storedBindings' = [storedBindings EXCEPT ![serving[r].chat] = serving[r].device]
        /\ UNCHANGED clean
     \/ Misses(r) /\ UNCHANGED storedBindings
  /\ Served(r)
  /\ UNCHANGED <<hasRedis, bindings, sessions, storedSessions, created, messages, ordered>>

\* Unbind forgets the binding and the session last asked under it.
UnbindChat(r) ==
  /\ serving[r].at = "found" /\ serving[r].kind = "unbind" /\ serving[r].found.device # None
  /\ LET bound == bindings[serving[r].chat]
     IN sessions' = [s \in ChatSessions |-> IF s = bound.session THEN None ELSE sessions[s]]
  /\ bindings' = [bindings EXCEPT ![serving[r].chat] = Unbound]
  /\ Orders(r, None)
  /\ IF hasRedis THEN Reaches(r, "remove") ELSE Served(r)
  /\ UNCHANGED <<hasRedis, bridgeKeys, created, messages, clean>>

\* A slip: the key stays.
UnbindStoreKept(r) ==
  /\ serving[r].at = "remove"
  /\ Served(r)
  /\ UNCHANGED <<hasRedis, bridgeMemory, bridgeKeys, created, botHistory>>

\* An error of Del is dropped; the chat is then bound again by its next message.
UnbindStore(r) ==
  /\ serving[r].at = "remove"
  /\ \/ storedBindings' = [storedBindings EXCEPT ![serving[r].chat] = None] /\ UNCHANGED clean
     \/ Misses(r) /\ UNCHANGED storedBindings
  /\ Served(r)
  /\ UNCHANGED <<hasRedis, bindings, sessions, storedSessions, created, messages, ordered>>

-----------------------------------------------------------------------------
(* Sessions                                                                *)

\* handleConversation: a session is created for the device that was found; the agent may answer
\* before the bot remembers which chat asked.  CreateSession may refuse.
HandleConversation(r) ==
  /\ serving[r].at = "found" /\ serving[r].kind = "talk" /\ serving[r].found.device # None
  /\ \/ Served(r) /\ UNCHANGED created
     \/ \E s \in ChatSessions :
          /\ created[s] = Unbound
          /\ created' = [created EXCEPT ![s] = [chat |-> serving[r].chat,
                                                device |-> serving[r].found.device]]
          /\ Becomes(r, [serving[r] EXCEPT !.at = "track", !.session = s])
  /\ UNCHANGED <<hasRedis, bridgeMemory, bridgeKeys, botHistory>>

\* A binding that was made or unmade meanwhile gets, or lacks, the session.
TrackSession(r) ==
  /\ serving[r].at = "track"
  /\ sessions' = [sessions EXCEPT ![serving[r].session] = serving[r].chat]
  /\ bindings' = [bindings EXCEPT ![serving[r].chat].session =
                    IF bindings[serving[r].chat] = Unbound THEN None ELSE serving[r].session]
  /\ IF hasRedis THEN Reaches(r, "keep") ELSE Served(r)
  /\ UNCHANGED <<hasRedis, bridgeKeys, created, botHistory>>

TrackStore(r) ==
  /\ serving[r].at = "keep"
  /\ storedSessions' \in {storedSessions,
                          [storedSessions EXCEPT ![serving[r].session] = serving[r].chat]}
  /\ Served(r)
  /\ UNCHANGED <<hasRedis, bridgeMemory, storedBindings, created, botHistory>>

\* The key of a session lives two hours; so may the session.
SessionKeyExpires(s) ==
  /\ storedSessions[s] # None
  /\ storedSessions' = [storedSessions EXCEPT ![s] = None]
  /\ UNCHANGED <<hasRedis, bridgeMemory, storedBindings, serving, created, botHistory>>

-----------------------------------------------------------------------------
(* Events                                                                  *)

\* A slip: the device of the event is looked up first.
HandleEventPushByDevice(r, s) ==
  /\ serving[r].at = "idle" /\ created[s] # Unbound
  /\ Becomes(r, [NotAsked EXCEPT !.kind = "event", !.session = s, !.known = sessions[s] # None,
                                 !.at = "route"])
  /\ UNCHANGED <<hasRedis, bridgeMemory, bridgeKeys, created, botHistory>>

\* HandleEventPush answers and routes the event in a goroutine of its own: ChatForSession looks into
\* memory.
HandleEventPush(r, s) ==
  /\ serving[r].at = "idle" /\ created[s] # Unbound
  /\ Becomes(r, [NotAsked EXCEPT !.kind = "event", !.session = s, !.known = sessions[s] # None,
                          !.to = sessions[s],
                          !.at = IF sessions[s] # None THEN "push" ELSE
                                 IF hasRedis THEN "ask" ELSE "route"])
  /\ UNCHANGED <<hasRedis, bridgeMemory, bridgeKeys, created, botHistory>>

\* ... then into Redis, and remembers what it finds.
ChatForSession(r) ==
  /\ serving[r].at = "ask"
  /\ \/ Reaches(r, "route") /\ UNCHANGED sessions
     \/ /\ storedSessions[serving[r].session] # None
        /\ sessions' = [sessions EXCEPT ![serving[r].session] =
                                         storedSessions[serving[r].session]]
        /\ Becomes(r, [serving[r] EXCEPT !.at = "push", !.known = TRUE,
                                      !.to = storedSessions[serving[r].session]])
  /\ UNCHANGED <<hasRedis, bindings, bridgeKeys, created, botHistory>>

\* Any chat in memory that is bound to the device of the session; else the event is dropped.
ChatForDevice(r) ==
  /\ serving[r].at = "route"
  /\ LET bound == {c \in BotChats : bindings[c].device = created[serving[r].session].device}
     IN \/ bound = {} /\ Served(r)
        \/ \E c \in bound : Becomes(r, [serving[r] EXCEPT !.at = "push", !.to = c])
  /\ UNCHANGED <<hasRedis, bridgeMemory, bridgeKeys, created, botHistory>>

\* The message reaches the chat, or is lost: its context ends with the request that began it.
PushToChat(r) ==
  /\ serving[r].at = "push"
  /\ Served(r)
  /\ UNCHANGED <<hasRedis, bridgeMemory, bridgeKeys, created, botHistory>>

-----------------------------------------------------------------------------
\* platform-api is started again: memory is empty, and what was under way is over.
Restart ==
  /\ bindings' = [c \in BotChats |-> Unbound]
  /\ sessions' = [s \in ChatSessions |-> None]
  /\ serving' = [r \in BotRequests |-> NotAsked]
  /\ clean' = [c \in BotChats |-> clean[c] /\ \A r \in BotRequests : serving[r].chat # c]
  /\ ordered' = IF hasRedis THEN ordered ELSE [c \in BotChats |-> None]
  /\ UNCHANGED <<hasRedis, bridgeKeys, created, messages>>

BotNext ==
  \/ \E r \in BotRequests :
       \/ \E c \in BotChats, k \in {"bind", "unbind", "talk"}, d \in BotDevices \cup {None} :
            HandleMessage(r, c, k, d)
       \/ GetBinding(r) \/ FillBinding(r) \/ NothingToDo(r)
       \/ BindChat(r) \/ BindStore(r) \/ UnbindChat(r) \/ UnbindStore(r)
       \/ HandleConversation(r) \/ TrackSession(r) \/ TrackStore(r)
       \/ \E s \in ChatSessions : HandleEventPush(r, s)
       \/ ChatForSession(r) \/ ChatForDevice(r) \/ PushToChat(r)
  \/ \E s \in ChatSessions : SessionKeyExpires(s)
  \/ Restart

-----------------------------------------------------------------------------
\* A chat whose requests never overlapped nor missed Redis asks the device it was last bound to, and
\* one that was unbound asks none, before and after a restart (chat_bridge.go Bind, Unbind,
\* GetBinding).
ChatAsksItsDevice ==
  \A c \in BotChats :
    clean[c] /\ (\A r \in BotRequests : serving[r].chat # c)
      => ordered[c] = IF bindings[c] # Unbound THEN bindings[c].device ELSE storedBindings[c]

\* What happens in a session is told to the chat that asked, unless the bot does not know yet, or no
\* more, which that is; then it is told to a chat that is bound to the device (event_sink.go
\* HandleEvent).
AskerIsTold ==
  \A r \in BotRequests : serving[r].at = "push" /\ serving[r].known
                        => serving[r].to = created[serving[r].session].chat

=============================================================================
