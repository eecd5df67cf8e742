----------------------------- MODULE ModelRouting -----------------------------
(***************************************************************************)
(* The language models behind a chat of the agent: which providers the     *)
(* start of the agent registers, in which order a round tries them, and    *)
(* what each of them is sent of a conversation whose earlier rounds other  *)
(* providers answered.  What a message says is left out; what remains is   *)
(* whether it has a text, which tools it calls and which call it answers.  *)
(***************************************************************************)
EXTENDS Naturals, Sequences, FiniteSets

CONSTANTS
  KeysSet,      \* providers whose API key the environment may hold
  RemoteKinds,  \* kinds of provider the platform may configure
  MaxRounds,    \* rounds of the loop that calls tools
  MaxToolCalls  \* bound of the model: calls in one answer

ASSUME RouteConstants == MaxRounds \in Nat /\ MaxToolCalls \in Nat

VARIABLES
  providers,    \* Router.providers, in the order of their registration
  primary,      \* Router.primary
  conversation, \* fullMessages of the loop
  routeAt,      \* what is going on
  toTry,        \* providers the round has still to try
  sentMessages, \* the messages sent to Head(toTry), in the form it is sent them
  toRun,        \* calls of the last answer whose tools have still to run
  routeRounds   \* rounds begun

routeVars == <<providers, primary, conversation, routeAt, toTry, sentMessages, toRun, routeRounds>>

\* A provider: its kind, whether the platform configured it, and whether it has a key.
Configured(kind) == [kind |-> kind, remote |-> FALSE, key |-> TRUE]
FromPlatform(kind, key) == [kind |-> kind, remote |-> TRUE, key |-> key]
InOrderOfCode == <<"openai", "openrouter", "deepseek", "anthropic", "gemini">>
Named(p) == <<p.kind, p.remote>>

RouteTypeOK ==
  /\ routeAt \in {"boot", "idle", "asking", "trying", "sent", "tools", "over"}
  /\ routeRounds \in 0 .. MaxRounds + 1
  /\ \A m \in {conversation[i] : i \in DOMAIN conversation} :
       m.role \in {"system", "user", "assistant", "tool"} /\ m.text \in BOOLEAN

RouteInit ==
  /\ providers = <<>> /\ primary = <<>>
  /\ conversation = <<>> /\ routeAt = "boot"
  /\ toTry = <<>> /\ sentMessages = <<>> /\ toRun = <<>>
  /\ routeRounds = 0

-----------------------------------------------------------------------------
(* Providers and their order                                               *)

\* Ollama is registered always and last.  The first to be registered is the primary, unless the
\* environment names another, which need not exist.
InitLLMRouter ==
  /\ routeAt = "boot" /\ routeAt' = "idle"
  /\ \E keys \in SUBSET KeysSet, remote \in RemoteKinds \cup {"none"}, key \in BOOLEAN :
       LET fromEnv == SelectSeq(InOrderOfCode, LAMBDA k : k \in keys)
           platform == IF remote = "none" THEN <<>> ELSE <<FromPlatform(remote, key)>>
       IN providers' = platform \o [i \in DOMAIN fromEnv |-> Configured(fromEnv[i])]
                          \o <<Configured("ollama")>>
  /\ primary' \in {Named(providers'[1]), <<"ollama", FALSE>>, <<"unknown", FALSE>>}
  /\ UNCHANGED <<conversation, toTry, sentMessages, toRun, routeRounds>>

\* The primary, then the others as they were registered; nothing sets fallbacks.
BuildProviderOrder ==
  SelectSeq(providers, LAMBDA p : Named(p) = primary)
    \o SelectSeq(providers, LAMBDA p : Named(p) # primary)

-----------------------------------------------------------------------------
(* What a provider is sent of the conversation                             *)

IsCall(m) == m.calls # <<>>
IsAnswer(m) == m.role = "tool"
Message(role) == [role |-> role, text |-> TRUE, calls |-> <<>>, to |-> <<>>]
AssistantCalls(text, calls) == [role |-> "assistant", text |-> text, calls |-> calls, to |-> <<>>]
ToolResult(call) == [role |-> "tool", text |-> TRUE, calls |-> <<>>, to |-> call]

\* What a provider knows a call by.
Reference(call, by) == IF by = "name" THEN <<call.name>> ELSE call.id

\* A message in the form a provider is sent it: the calls in it, and the call it answers.
CallsOf(m, by) == [i \in DOMAIN m.calls |-> Reference(m.calls[i], by)]
AnswersOf(m, by) == IF IsAnswer(m) THEN <<Reference(m.to, by)>> ELSE <<>>
SentAs(role, m, by) ==
  [role |-> role, text |-> m.text, calls |-> CallsOf(m, by), answers |-> AnswersOf(m, by)]

\* The messages at some of their places, in their order.
MessagesAt(msgs, places) ==
  LET upTo[n \in 0 .. Len(msgs)] ==
        IF n = 0 THEN <<>>
        ELSE IF n \in places THEN Append(upTo[n - 1], msgs[n]) ELSE upTo[n - 1]
  IN upTo[Len(msgs)]

\* OpenAI and those that speak like it: the text of an assistant that calls tools may be null.
ConvertMessagesToOpenAI(msgs) == [i \in DOMAIN msgs |-> SentAs(msgs[i].role, msgs[i], "id")]

\* Ollama leaves out a text that is empty.
ConvertMessagesToOllama(msgs) == ConvertMessagesToOpenAI(msgs)

\* Anthropic takes the system prompt apart and has the answers of tools from the user.
RouterMessagesToAnthropic(msgs) ==
  LET kept == MessagesAt(msgs, {i \in DOMAIN msgs : msgs[i].role # "system"}) IN
  [i \in DOMAIN kept |->
     SentAs(IF kept[i].role = "assistant" THEN "assistant" ELSE "user", kept[i], "id")]

\* Gemini is sent the messages at these places.
GeminiMessages(msgs, places) ==
  LET kept == MessagesAt(msgs, places) IN
  [i \in DOMAIN kept |->
     SentAs(IF kept[i].role = "assistant" THEN "model" ELSE "user", kept[i], "name")]

\* A slip: an assistant that says nothing is left out, whatever it calls.
ConvertMessagesToGeminiSilent(msgs) ==
  GeminiMessages(msgs, {i \in DOMAIN msgs : /\ msgs[i].role # "system"
                                            /\ msgs[i].role = "assistant" => msgs[i].text})

\* Gemini knows calls by the names of their functions.  An assistant that neither says nor calls
\* anything is left out.
ConvertMessagesToGemini(msgs) ==
  GeminiMessages(msgs, {i \in DOMAIN msgs :
                          /\ msgs[i].role # "system"
                          /\ msgs[i].role = "assistant" => msgs[i].text \/ IsCall(msgs[i])})

\* An answer to a call without a name cannot be sent to Gemini, nor can nothing at all.
Convertible(p) ==
  p.kind = "gemini" => \A i \in DOMAIN conversation :
                         IsAnswer(conversation[i]) => conversation[i].to.name # ""

Converted(p) ==
  CASE p.kind = "anthropic" -> RouterMessagesToAnthropic(conversation)
    [] p.kind = "gemini" -> ConvertMessagesToGemini(conversation)
    [] p.kind = "ollama" -> ConvertMessagesToOllama(conversation)
    [] OTHER -> ConvertMessagesToOpenAI(conversation)

-----------------------------------------------------------------------------
(* A round                                                                 *)

StartConversation ==
  /\ routeAt = "idle" /\ routeAt' = "asking"
  /\ conversation' \in {<<Message("system"), Message("user")>>,
                        <<Message("system"), Message("user"), Message("assistant"), Message("user")>>}
  /\ UNCHANGED <<providers, primary, toTry, sentMessages, toRun, routeRounds>>

\* A chat with an image: no provider that is registered supports vision.
CompleteMultimodal ==
  /\ routeAt = "idle" /\ routeAt' = "over"
  /\ UNCHANGED <<providers, primary, conversation, toTry, sentMessages, toRun, routeRounds>>

\* After the last round the model is told to sum up.
AskModel ==
  /\ routeAt = "asking" /\ routeAt' = "trying"
  /\ routeRounds' = routeRounds + 1
  /\ conversation' = IF routeRounds < MaxRounds THEN conversation
                     ELSE Append(conversation, Message("user"))
  /\ toTry' = BuildProviderOrder
  /\ UNCHANGED <<providers, primary, sentMessages, toRun>>

\* The provider has no key, does not answer a ping, cannot be sent the conversation or does not
\* answer as it should.
ProviderFails ==
  /\ routeAt \in {"trying", "sent"} /\ toTry # <<>>
  /\ routeAt' = "trying" /\ toTry' = Tail(toTry) /\ sentMessages' = <<>>
  /\ UNCHANGED <<providers, primary, conversation, toRun, routeRounds>>

SendRequest ==
  /\ routeAt = "trying" /\ toTry # <<>>
  /\ Head(toTry).key /\ Convertible(Head(toTry))
  /\ routeAt' = "sent" /\ sentMessages' = Converted(Head(toTry))
  /\ UNCHANGED <<providers, primary, conversation, toTry, toRun, routeRounds>>

AllProvidersFailed ==
  /\ routeAt = "trying" /\ toTry = <<>>
  /\ routeAt' = "over"
  /\ UNCHANGED <<providers, primary, conversation, toTry, sentMessages, toRun, routeRounds>>

\* Which answers a provider takes for answers, by whether they have a text and by the number of calls:
\* one with neither is an error, and the next provider is tried.
Replies == [text : BOOLEAN, calls : 0 .. MaxToolCalls]
NotEmpty == {a \in Replies : a.text \/ a.calls > 0}
OpenAIComplete == NotEmpty
OpenRouterComplete == NotEmpty
DeepSeekComplete == NotEmpty
AnthropicComplete == NotEmpty
GeminiComplete == NotEmpty
OllamaComplete == Replies

Completes(p) ==
  CASE p.kind = "openai" -> OpenAIComplete
    [] p.kind = "openrouter" -> OpenRouterComplete
    [] p.kind = "deepseek" -> DeepSeekComplete
    [] p.kind = "anthropic" -> AnthropicComplete
    [] p.kind = "gemini" -> GeminiComplete
    [] OTHER -> OllamaComplete

\* A slip: the calls of an answer are not numbered.
CallIdConstant(kind, i) == IF kind = "gemini" THEN <<"gemini-call", 0>> ELSE <<"id", routeRounds, i>>

\* Gemini's calls have no ids and are numbered anew in every answer; the others bring their own.
CallId(kind, i) == IF kind = "gemini" THEN <<"gemini-call", i>> ELSE <<"id", routeRounds, i>>

\* Tools are called: the assistant's message is added, with or without a text.  A name may be empty.
ProviderCalls ==
  /\ routeAt = "sent" /\ routeRounds <= MaxRounds
  /\ \E a \in Completes(Head(toTry)) : \E names \in [1 .. a.calls -> {"tool", ""}] :
       /\ a.calls > 0
       /\ toRun' = [i \in 1 .. a.calls |-> [id |-> CallId(Head(toTry).kind, i), name |-> names[i]]]
       /\ conversation' = Append(conversation, AssistantCalls(a.text, toRun'))
  /\ routeAt' = "tools" /\ toTry' = <<>> /\ sentMessages' = <<>>
  /\ UNCHANGED <<providers, primary, routeRounds>>

\* An answer without calls, or to the request to sum up, is the end.
ProviderAnswers ==
  /\ routeAt = "sent"
  /\ \E a \in Completes(Head(toTry)) : a.calls = 0 \/ routeRounds = MaxRounds + 1
  /\ routeAt' = "over" /\ toTry' = <<>> /\ sentMessages' = <<>>
  /\ UNCHANGED <<providers, primary, conversation, toRun, routeRounds>>

\* The result of a tool, or of a refusal, answers the call it was made for.
ToolAnswers ==
  /\ routeAt = "tools" /\ toRun # <<>>
  /\ conversation' = Append(conversation, ToolResult(Head(toRun)))
  /\ toRun' = Tail(toRun)
  /\ UNCHANGED <<providers, primary, routeAt, toTry, sentMessages, routeRounds>>

RoundIsOver ==
  /\ routeAt = "tools" /\ toRun = <<>>
  /\ routeAt' = "asking"
  /\ UNCHANGED <<providers, primary, conversation, toTry, sentMessages, toRun, routeRounds>>

\* The loop looks at its context before a round and before each call.
ChatContextEnds ==
  /\ routeAt \in {"asking", "tools"}
  /\ routeAt' = "over"
  /\ UNCHANGED <<providers, primary, conversation, toTry, sentMessages, toRun, routeRounds>>

RouteNext ==
  \/ InitLLMRouter
  \/ StartConversation
  \/ CompleteMultimodal
  \/ AskModel
  \/ ProviderFails
  \/ SendRequest
  \/ AllProvidersFailed
  \/ ProviderCalls
  \/ ProviderAnswers
  \/ ToolAnswers
  \/ RoundIsOver
  \/ ChatContextEnds

-----------------------------------------------------------------------------

\* Whichever provider a conversation comes to, in whatever form, every message that calls tools is
\* followed at once by the answers to its calls, one each and in their order, no answer is to
\* anything else, calls known by ids have different ids, and nothing that was called is left out
\* (llm/providers, agent/loop.go Run).
RequestsArePaired ==
  routeAt = "sent" =>
    LET n == Len(sentMessages)
        CallsAt(i) == sentMessages[i].calls
        Answered(i, k) == i + k <= n /\ sentMessages[i + k].answers = <<CallsAt(i)[k]>>
    IN /\ \A i \in 1 .. n : \A k \in DOMAIN CallsAt(i) : Answered(i, k)
       /\ \A j \in 1 .. n : sentMessages[j].answers # <<>> =>
            \E i \in 1 .. j - 1 : j - i \in DOMAIN CallsAt(i) /\ Answered(i, j - i)
       /\ Head(toTry).kind # "gemini" =>
            \A i \in 1 .. n : \A k, l \in DOMAIN CallsAt(i) :
              CallsAt(i)[k] = CallsAt(i)[l] => k = l
       /\ Cardinality({i \in 1 .. n : CallsAt(i) # <<>>})
            = Cardinality({i \in DOMAIN conversation : IsCall(conversation[i])})
=============================================================================
