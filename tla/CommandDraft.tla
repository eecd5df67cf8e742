----------------------------- MODULE CommandDraft -----------------------------
(***************************************************************************)
(* The draft of a command from a sentence: the console names a device and  *)
(* says what it wants, platform-api asks the tenant's language model and   *)
(* looks in what comes back for one line that can be run.  Models answer   *)
(* in many shapes, so a text is a sequence of pieces: JSON objects, some   *)
(* of them cut short, words, and explanations (80 characters or more with  *)
(* a phrase such as "the user request" in them).                           *)
(***************************************************************************)
EXTENDS Naturals, SequencesExt

CONSTANTS
  Platforms,   \* what devices report as their platform
  MaxChoices,  \* bound of the model: choices in an answer
  MaxPieces    \* bound of the model: pieces in a text

\* What a JSON object has under a key, and the objects a text may hold; one that is cut short breaks
\* off in its command.
CommandValues == {"absent", "line", "prose", "number"}
Objects == [kind : {"object"}, command : CommandValues, cmd : {"absent", "line"},
            risk : {"absent", "given"}]
Pieces == Objects \cup [kind : {"cut"}, command : {"line", "prose"}]
            \cup [kind : {"words", "explanation"}]
Texts == [fenced : BOOLEAN, pieces : UNION {[1..n -> Pieces] : n \in 1..MaxPieces}]

\* Where a choice may say something; a reasoning model thinks in a field of its own.
Contents == {"none", "said", "parts"}
ChoiceShapes == [message : Contents, delta : Contents, text : {"none", "said"}, thought : BOOLEAN]
DraftAnswers == UNION {[1..n -> ChoiceShapes] : n \in 0..MaxChoices}

VARIABLES
  target,    \* the device the command is for, and what the model is told of it
  posting,   \* the call to the model: posts made, whether JSON is asked for
  draft      \* where the request is, and what it answers

draftVars == <<target, posting, draft>>

NoTarget == [platform |-> "none", os |-> "none"]
NotPosted == [posts |-> 0, format |-> FALSE]
NoDraft == [at |-> "idle", from |-> "none", text |-> [fenced |-> FALSE, pieces |-> <<>>],
            command |-> "absent", risk |-> "absent"]
\* The tenant's model profiles, in the order they are listed.
ProfileLists == UNION {[1..n -> {"usable", "inactive", "no key"}] : n \in 0..2}

DraftTypeOK ==
  /\ target \in [platform : Platforms \cup {"none"}, os : Platforms \cup {"windows", "none"}]
  /\ posting \in [posts : 0..2, format : BOOLEAN]
  /\ draft.at \in {"idle", "asked", "posted", "said", "drafted", "refused"}
  /\ draft.command \in CommandValues \cup {"raw"}
  /\ draft.risk \in {"absent", "given", "evaluated"}

DraftInit ==
  /\ target = NoTarget /\ posting = NotPosted /\ draft = NoDraft

-----------------------------------------------------------------------------
(* What the model is told                                                  *)

\* NormalizeSnapshot: windows is assumed of what says nothing.
NormalizeSnapshot(platform) == IF platform \in {"", "win32"} THEN "windows" ELSE platform

\* A slip: the platform is taken as it was reported.
NLTargetAsReported(platform) == platform

\* NLTargetFromDevice; without a device the prompt is for PowerShell.
NLTargetFromDevice(platform) == NormalizeSnapshot(platform)
DefaultTarget == "windows"

\* nlSyntaxRulesForTarget: the shell the prompt has the command written for.
SyntaxRules(os) == IF os = "windows" THEN "powershell" ELSE "sh"

\* shell_exec on the device: what it runs a command with.
ShellOf(platform) == IF platform \in {"windows", "win32"} THEN "powershell" ELSE "sh"

-----------------------------------------------------------------------------
(* The request                                                             *)

Refuse == draft' = [draft EXCEPT !.at = "refused"]

\* A device that is not there, or another tenant's, is refused; so is a tenant without a model.
GenerateCommand ==
  /\ draft.at = "idle"
  /\ \/ target' = [platform |-> "none", os |-> DefaultTarget]
     \/ \E p \in Platforms : target' = [platform |-> p, os |-> NLTargetFromDevice(p)]
  /\ draft' = [draft EXCEPT !.at = "asked"]
  /\ UNCHANGED posting

DeviceNotFound ==
  /\ draft.at = "idle" /\ Refuse
  /\ UNCHANGED <<target, posting>>

\* The first profile that is active and has an address and a key.
PickModel(profiles) ==
  /\ draft.at = "asked"
  /\ IF \E i \in DOMAIN profiles : profiles[i] = "usable"
     THEN /\ posting' = [posts |-> 1, format |-> TRUE]
          /\ draft' = [draft EXCEPT !.at = "posted"]
     ELSE Refuse /\ UNCHANGED posting
  /\ UNCHANGED target

\* A slip: asked again in the same words.
PostRefusedSame ==
  /\ draft.at = "posted"
  /\ IF posting.format
     THEN posting' = [posting EXCEPT !.posts = @ + 1] /\ UNCHANGED draft
     ELSE Refuse /\ UNCHANGED posting
  /\ UNCHANGED target

\* HTTP 400: not every provider knows response_format, so it is asked once more without.
PostRefused ==
  /\ draft.at = "posted"
  /\ IF posting.format
     THEN posting' = [posts |-> posting.posts + 1, format |-> FALSE] /\ UNCHANGED draft
     ELSE Refuse /\ UNCHANGED posting
  /\ UNCHANGED target

\* The provider cannot be reached, takes too long, answers with another error or in no JSON.
PostFails ==
  /\ draft.at = "posted" /\ Refuse
  /\ UNCHANGED <<target, posting>>

\* decodeAssistantContent: a string is read; an array of typed parts always comes out empty, each
\* part being an object that neither a string nor an array can be read from.
Decoded(content) == content = "said"

\* A slip: what a model that said nothing thought is taken for what it said.
TextFromChoiceOrThought(c) ==
  CASE Decoded(c.message) -> "message"
    [] ~Decoded(c.message) /\ c.thought -> "thought"
    [] OTHER -> "none"

\* What a choice says, in the order the fields are looked at; what it thought is not looked at.
TextFromChoice(c) ==
  CASE Decoded(c.message) -> "message"
    [] ~Decoded(c.message) /\ Decoded(c.delta) -> "delta"
    [] ~Decoded(c.message) /\ ~Decoded(c.delta) /\ c.text = "said" -> "text"
    [] OTHER -> "none"

\* The choices are walked alike whether the answer has the shape expected or an odd one; the first
\* that says something is taken.
ExtractAssistantText(answer) ==
  LET says == {i \in DOMAIN answer : TextFromChoice(answer[i]) # "none"}
  IN IF says = {} THEN "none"
     ELSE TextFromChoice(answer[CHOOSE i \in says : \A j \in says : i <= j])

CallLLM(answer) ==
  /\ draft.at = "posted"
  /\ LET from == ExtractAssistantText(answer)
     IN IF from = "none" THEN Refuse
        ELSE draft' = [draft EXCEPT !.at = "said", !.from = from]
  /\ UNCHANGED <<target, posting>>

-----------------------------------------------------------------------------
(* The line in the text                                                    *)

IsObject(piece) == piece.kind = "object"
NoObject == [kind |-> "none", command |-> "absent", cmd |-> "absent", risk |-> "absent"]

\* The first object, unless one that is cut short comes before it and swallows it.
FirstJSONObject(t) ==
  LET i == SelectInSeq(t.pieces, LAMBDA p : p.kind \in {"object", "cut"})
  IN IF i # 0 /\ IsObject(t.pieces[i]) THEN t.pieces[i] ELSE NoObject

\* The last object with a "command".
ObjectContainingCommandKey(t) ==
  LET i == SelectLastInSeq(t.pieces, LAMBDA p : IsObject(p) /\ p.command # "absent")
  IN IF i # 0 THEN t.pieces[i] ELSE NoObject

\* The text is one object, or one inside a fence.
WholeObject(t) ==
  IF Len(t.pieces) = 1 /\ IsObject(t.pieces[1]) THEN t.pieces[1] ELSE NoObject

\* A number under "command" makes it unreadable, though what else it says is kept.
Readable(o) == o # NoObject /\ o.command # "number"

\* What a person reads as an explanation, and a text that a brace begins.
Explains(piece) ==
  \/ piece.kind = "explanation"
  \/ piece.kind \in {"object", "cut"} /\ piece.command = "prose"
BegunByBrace(t) == ~t.fenced /\ t.pieces[1].kind \in {"object", "cut"}

\* A slip: what a text begins with decides.
LooksLikeExplanationAtStart(t) == ~BegunByBrace(t) /\ Explains(t.pieces[1])

\* Long, with a phrase of an explanation, and not begun by a brace.
LooksLikeExplanation(t) ==
  ~BegunByBrace(t) /\ \E i \in DOMAIN t.pieces : Explains(t.pieces[i])

\* The object the answer is read from: the whole, else the first, else the last with a command.
Tried(t) == <<WholeObject(t), FirstJSONObject(t), ObjectContainingCommandKey(t)>>
Parsed(t) ==
  LET found == SelectInSeq(Tried(t), Readable)
  IN IF found = 0 THEN NoObject ELSE Tried(t)[found]

\* The risk it gives; one without takes that of an object tried before it.
ParsedRisk(t) ==
  IF \E i \in 1..SelectInSeq(Tried(t), Readable) : Tried(t)[i].risk = "given"
  THEN "given" ELSE "absent"

\* A command that is missing is looked for under other keys.
GenericCommand(o) == IF o.command = "absent" /\ o.cmd = "line" THEN "line" ELSE o.command

\* Prose in the command: another object may have a line.
InsteadOfProse(t) ==
  LET alt == ObjectContainingCommandKey(t)
  IN IF alt.command = "line" THEN alt ELSE NoObject

Drafted(t, command, risk) ==
  draft' = [draft EXCEPT !.at = "drafted", !.text = t, !.command = command,
                         !.risk = IF risk = "absent" THEN "evaluated" ELSE risk]

\* A slip: what stands under "command" is not looked at.
GenerateAnything(t) ==
  /\ draft.at = "said"
  /\ LET o == Parsed(t)
     IN CASE o # NoObject -> Drafted(t, GenericCommand(o), ParsedRisk(t))
          [] o = NoObject /\ LooksLikeExplanation(t) -> Refuse
          [] OTHER -> Drafted(t, "raw", "absent")
  /\ UNCHANGED <<target, posting>>

\* Nothing readable: an explanation is refused, any other text is the command as it stands.
Generate(t) ==
  /\ draft.at = "said"
  /\ LET o == Parsed(t)
         command == GenericCommand(o)
     IN CASE o = NoObject /\ LooksLikeExplanation(t) -> Refuse
          [] o = NoObject /\ ~LooksLikeExplanation(t) -> Drafted(t, "raw", "absent")
          [] o # NoObject /\ command = "prose" ->
               IF InsteadOfProse(t) = NoObject THEN Refuse
               ELSE Drafted(t, "line", InsteadOfProse(t).risk)
          [] o # NoObject /\ command = "absent" -> Refuse
          [] OTHER -> Drafted(t, command, ParsedRisk(t))
  /\ UNCHANGED <<target, posting>>

DraftNext ==
  \/ GenerateCommand \/ DeviceNotFound
  \/ \E ps \in ProfileLists : PickModel(ps)
  \/ PostRefused \/ PostFails
  \/ \E a \in DraftAnswers : CallLLM(a)
  \/ \E t \in Texts : Generate(t)

-----------------------------------------------------------------------------
\* What is drafted comes from what the model said and not from what it thought, and it has a risk:
\* a line is one that an object of the text has, and the line of the only object there is found; the
\* text as it stands is drafted where nothing can be read, but no explanation, unless a brace begins
\* it: an answer cut short in an explanation is drafted whole (nl_generator.go Generate, callLLM,
\* responseLooksLikeExplanationNotJSON).
DraftIsTheLine ==
  draft.at = "drafted" =>
    /\ draft.from # "thought" /\ draft.risk # "absent"
    /\ draft.command \in {"line", "raw"}
    /\ draft.command = "line" => \E i \in DOMAIN draft.text.pieces :
         IsObject(draft.text.pieces[i])
         /\ "line" \in {draft.text.pieces[i].command, draft.text.pieces[i].cmd}
    /\ \A i \in DOMAIN draft.text.pieces :
         /\ IsObject(draft.text.pieces[i]) /\ draft.text.pieces[i].command = "line"
         /\ \A j \in DOMAIN draft.text.pieces \ {i} : ~IsObject(draft.text.pieces[j])
         => draft.command = "line"
    /\ draft.command = "raw" /\ (\E i \in DOMAIN draft.text.pieces : Explains(draft.text.pieces[i]))
         => BegunByBrace(draft.text)

\* A model is asked at most twice, the second time in words that any provider knows, and in the
\* syntax of the shell that the device named runs commands with (nl_generator.go callLLM,
\* nl_target.go, agentprompt.go).
AskedInWordsUnderstood ==
  /\ posting.posts = 2 => ~posting.format
  /\ target.platform \notin {"none", ""} =>
       SyntaxRules(target.os) = ShellOf(target.platform)

=============================================================================
