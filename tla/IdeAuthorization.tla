-------------------------- MODULE IdeAuthorization --------------------------
(***************************************************************************)
(* Signing an IDE in: the extension asks platform-api for a code, polls    *)
(* for tokens while its user decides in the browser, and later exchanges   *)
(* the refresh token of its pair for a new pair each time the access token *)
(* has lapsed.                                                             *)
(*                                                                         *)
(* A request is a slot: the activity of the extension or the console that  *)
(* made the call and the handler that serves it, which reads a row, works  *)
(* on its copy and writes the whole copy back, one action per database     *)
(* call.  GORM's Save inserts the row again when it is no longer there.    *)
(* Tokens are made in pairs and numbered as they are made; a row of        *)
(* ide_client_tokens has the number of the first pair it stored.           *)
(***************************************************************************)
EXTENDS Integers, FiniteSets

CONSTANTS
  Logins,     \* the device codes ever asked for, one for each login
  Slots,      \* requests that may be under way at once
  MaxPairs,   \* bound: pairs of tokens ever made; the random source fails after that
  NoLogin

ASSUME NoLoginAssumption == NoLogin \notin Logins
ASSUME BoundAssumption   == MaxPairs \in Nat

Pairs == 1 .. MaxPairs
None == 0

VARIABLES
  code,       \* the row of device_auth_codes of each login
  lapsed,     \* the codes whose 15 minutes are over
  row,        \* the pair each row of ide_client_tokens stores, None if there is no row
  made,       \* how many pairs have been made
  stale,      \* pairs up to this one have an access token that has lapsed
  dead,       \* pairs up to this one have a refresh token that has lapsed
  call,       \* what each slot is doing
  current,    \* the login the extension runs, its loginSeq
  timer,      \* its polling interval: "off", "prompt" before it is set, "on"
  held,       \* the pair in the extension's secrets, None before the first
  owner,      \* history: the login that made each row
  home,       \* history: the row each pair was made for
  decisions,  \* history: what was decided of each login
  answered,   \* history: the logins whose extension had a final answer
  spent,      \* history: how often a refresh token was taken, counted up to 2
  revoked,    \* history: the rows whose revocation was done
  trouble     \* history: did calls overlap, did one fail?

dbVars      == <<code, row>>
clockVars   == <<lapsed, stale, dead>>
clientVars  == <<current, timer, held>>
historyVars == <<owner, home, decisions, answered, spent, revoked>>
vars == <<dbVars, clockVars, clientVars, historyVars, made, call, trouble>>

CodeStates == {"new", "pending", "authorized", "denied", "expired", "gone"}
Decided    == {"authorized", "denied"}
Ops        == {"none", "poll", "authorized", "denied", "refresh", "validate", "revoke"}
Steps      == {"idle", "read", "save", "expire", "delete", "answer"}
Answers    == {"none", "pending", "over", "tokens", "ok", "error"}

Calls == [op : Ops, pc : Steps, login : Logins \cup {NoLogin},
          row : 0 .. MaxPairs, old : 0 .. MaxPairs, new : 0 .. MaxPairs,
          answer : Answers]

Free == [op |-> "none", pc |-> "idle", login |-> NoLogin,
         row |-> None, old |-> None, new |-> None, answer |-> "none"]

Busy(s) == call[s].pc # "idle"

Init ==
  /\ code = [f \in Logins |-> "new"]
  /\ lapsed = {}
  /\ row = [i \in Pairs |-> None]
  /\ made = 0 /\ stale = 0 /\ dead = 0
  /\ call = [s \in Slots |-> Free]
  /\ current = NoLogin /\ timer = "off" /\ held = None
  /\ owner = [i \in Pairs |-> NoLogin]
  /\ home = [p \in Pairs |-> None]
  /\ decisions = [f \in Logins |-> {}]
  /\ answered = {} /\ revoked = {} /\ trouble = {}
  /\ spent = [p \in Pairs |-> 0]

-----------------------------------------------------------------------------
(* Requests: how they start, move on, fail and end. *)

Overlap(others) ==
  trouble' = IF \E s \in others : Busy(s) THEN trouble \cup {"overlap"} ELSE trouble

Start(s, request) ==
  /\ call[s] = Free
  /\ call' = [call EXCEPT ![s] = request]
  /\ Overlap(Slots \ {s})

At(s, op, pc) == call[s].op = op /\ call[s].pc = pc

Move(s, pc) == call' = [call EXCEPT ![s].pc = pc]

Reply(s, answer) == call' = [call EXCEPT ![s].pc = "answer", ![s].answer = answer]

\* Mutant: one pair too many.
MakePairAlways(s, i) ==
  /\ made' = made + 1
  /\ call' = [call EXCEPT ![s].pc = "save", ![s].row = i, ![s].new = made + 1]

\* randomURLToken twice: a pair nobody has seen, or an error of the random source.
MakePair(s, i) ==
  IF made < MaxPairs
  THEN /\ made' = made + 1
       /\ call' = [call EXCEPT ![s].pc = "save", ![s].row = i, ![s].new = made + 1]
  ELSE made' = made /\ Reply(s, "error")

\* A database call or the process fails, or the answer gets lost on its way.  A caller
\* that gives up cancels its handler: the service works under the request's context.
Fail(s) ==
  /\ Busy(s)
  /\ Reply(s, "error")
  /\ trouble' = trouble \cup {"failure"}
  /\ UNCHANGED <<dbVars, clockVars, clientVars, historyVars, made>>

\* Errors the service throws away: "_ = s.repo...".
IgnoredError(s) ==
  /\ \/ At(s, "validate", "save") /\ Reply(s, "ok")
     \/ call[s].op \in Decided /\ call[s].pc = "expire" /\ Move(s, "delete")
     \/ call[s].op \in Decided \cup {"refresh"} /\ call[s].pc = "delete" /\ Reply(s, "error")
     \/ At(s, "poll", "delete") /\ call[s].new = None /\ Reply(s, "over")
  /\ trouble' = trouble \cup {"failure"}
  /\ UNCHANGED <<dbVars, clockVars, clientVars, historyVars, made>>

-----------------------------------------------------------------------------
(* The extension's login. *)

\* login up to the prompt: the timer of an earlier login is cleared, and a code asked
\* for.  The user code is fresh; the request may fail, which ends the login.
Login(f) ==
  /\ code[f] = "new"
  /\ current' = f
  /\ \/ code' = [code EXCEPT ![f] = "pending"] /\ timer' = "prompt" /\ answered' = answered
     \/ code' = [code EXCEPT ![f] = "gone"] /\ timer' = "off" /\ answered' = answered \cup {f}
  /\ Overlap(Slots)
  /\ UNCHANGED <<clockVars, row, held, owner, home, decisions, spent, revoked, made, call>>

\* The user has closed the prompt: setInterval.
StartPolling ==
  /\ timer = "prompt"
  /\ timer' = "on"
  /\ UNCHANGED <<dbVars, clockVars, current, held, historyVars, made, call, trouble>>

\* The interval fires whether or not the last tick has had its answer.
Tick(s) ==
  /\ timer = "on"
  /\ Start(s, [Free EXCEPT !.op = "poll", !.pc = "read", !.login = current])
  /\ UNCHANGED <<dbVars, clockVars, clientVars, historyVars, made>>

\* deactivate: disposeDeviceAuth.
Deactivate ==
  /\ current # NoLogin
  /\ current' = NoLogin /\ timer' = "off"
  /\ UNCHANGED <<dbVars, clockVars, held, historyVars, made, call, trouble>>

\* Whoever's answer it is, it is the interval of the current login that gets cleared.
ClearTimer == timer' = IF timer = "on" THEN "off" ELSE timer

\* Mutant: an error is taken for a hiccup, and the extension polls on.
PollAnsweredRetries(s) ==
  LET c == call[s] IN
  /\ At(s, "poll", "answer")
  /\ IF c.answer \in {"pending", "error"} THEN UNCHANGED <<timer, answered>>
     ELSE ClearTimer /\ answered' = answered \cup {c.login}
  /\ held' = IF c.answer = "tokens" /\ c.login = current THEN c.new ELSE held
  /\ call' = [call EXCEPT ![s] = Free]
  /\ UNCHANGED <<dbVars, clockVars, current, owner, home, decisions, spent, revoked, made, trouble>>

\* Mutant: the interval is cleared at the first answer, whatever it is.
PollAnsweredOnce(s) ==
  LET c == call[s] IN
  /\ At(s, "poll", "answer")
  /\ ClearTimer
  /\ answered' = IF c.answer = "pending" THEN answered ELSE answered \cup {c.login}
  /\ held' = IF c.answer = "tokens" /\ c.login = current THEN c.new ELSE held
  /\ call' = [call EXCEPT ![s] = Free]
  /\ UNCHANGED <<dbVars, clockVars, current, owner, home, decisions, spent, revoked, made, trouble>>

PollAnswered(s) ==
  LET c == call[s] IN
  /\ At(s, "poll", "answer")
  /\ IF c.answer = "pending" THEN UNCHANGED <<timer, answered>>
     ELSE ClearTimer /\ answered' = answered \cup {c.login}
  /\ held' = IF c.answer = "tokens" /\ c.login = current THEN c.new ELSE held
  /\ call' = [call EXCEPT ![s] = Free]
  /\ UNCHANGED <<dbVars, clockVars, current, owner, home, decisions, spent, revoked, made, trouble>>

-----------------------------------------------------------------------------
(* PollForTokens. *)

\* Mutant: tokens are made for a code nobody has decided.
PollReadsEager(s) ==
  LET f == call[s].login IN
  /\ At(s, "poll", "read")
  /\ \/ code[f] = "gone" /\ Reply(s, "error") /\ made' = made
     \/ /\ code[f] \in {"denied", "expired"} \/ (f \in lapsed /\ code[f] # "gone")
        /\ Move(s, "delete") /\ made' = made
     \/ code[f] \in {"pending", "authorized"} /\ f \notin lapsed /\ MakePair(s, made + 1)
  /\ UNCHANGED <<dbVars, clockVars, clientVars, historyVars, trouble>>

\* Mutant: a pending code is pending also when its time is over.
PollReadsTimeless(s) ==
  LET f == call[s].login IN
  /\ At(s, "poll", "read")
  /\ \/ code[f] = "gone" /\ Reply(s, "error") /\ made' = made
     \/ code[f] = "pending" /\ Reply(s, "pending") /\ made' = made
     \/ code[f] \in {"denied", "expired"} /\ Move(s, "delete") /\ made' = made
     \/ code[f] = "authorized" /\ MakePair(s, made + 1)
  /\ UNCHANGED <<dbVars, clockVars, clientVars, historyVars, trouble>>

PollReads(s) ==
  LET f == call[s].login IN
  /\ At(s, "poll", "read")
  /\ \/ code[f] = "gone" /\ Reply(s, "error") /\ made' = made
     \/ code[f] = "pending" /\ f \notin lapsed /\ Reply(s, "pending") /\ made' = made
     \/ /\ code[f] \in {"denied", "expired"} \/ (f \in lapsed /\ code[f] # "gone")
        /\ Move(s, "delete") /\ made' = made
     \/ code[f] = "authorized" /\ f \notin lapsed /\ MakePair(s, made + 1)
  /\ UNCHANGED <<dbVars, clockVars, clientVars, historyVars, trouble>>

PollCreates(s) ==
  LET c == call[s] IN
  /\ At(s, "poll", "save")
  /\ row'   = [row EXCEPT ![c.row] = c.new]
  /\ owner' = [owner EXCEPT ![c.row] = c.login]
  /\ home'  = [home EXCEPT ![c.new] = c.row]
  /\ Move(s, "delete")
  /\ UNCHANGED <<code, clockVars, clientVars, decisions, answered, spent, revoked, made, trouble>>

PollDeletes(s) ==
  /\ At(s, "poll", "delete")
  /\ code' = [code EXCEPT ![call[s].login] = "gone"]
  /\ Reply(s, IF call[s].new = None THEN "over" ELSE "tokens")
  /\ UNCHANGED <<row, clockVars, clientVars, historyVars, made, trouble>>

-----------------------------------------------------------------------------
(* ConfirmUserCode; op is the decision. *)

Confirm(s, f, decision) ==
  /\ code[f] # "new"
  /\ Start(s, [Free EXCEPT !.op = decision, !.pc = "read", !.login = f])
  /\ UNCHANGED <<dbVars, clockVars, clientVars, historyVars, made>>

\* Mutant: a code that has been decided may be decided again.
ConfirmReadsAgain(s) ==
  LET f == call[s].login IN
  /\ call[s].op \in Decided /\ call[s].pc = "read"
  /\ \/ code[f] = "gone" /\ Reply(s, "error")
     \/ code[f] # "gone" /\ f \in lapsed /\ Move(s, "expire")
     \/ code[f] # "gone" /\ f \notin lapsed /\ Move(s, "save")
  /\ UNCHANGED <<dbVars, clockVars, clientVars, historyVars, made, trouble>>

ConfirmReads(s) ==
  LET f == call[s].login IN
  /\ call[s].op \in Decided /\ call[s].pc = "read"
  /\ \/ code[f] = "gone" /\ Reply(s, "error")
     \/ code[f] # "gone" /\ f \in lapsed /\ Move(s, "expire")
     \/ code[f] \notin {"gone", "pending"} /\ f \notin lapsed /\ Reply(s, "error")
     \/ code[f] = "pending" /\ f \notin lapsed /\ Move(s, "save")
  /\ UNCHANGED <<dbVars, clockVars, clientVars, historyVars, made, trouble>>

ConfirmSaves(s) ==
  LET c == call[s] IN
  /\ c.op \in Decided /\ c.pc = "save"
  /\ code' = [code EXCEPT ![c.login] = c.op]
  /\ decisions' = [decisions EXCEPT ![c.login] = @ \cup {c.op}]
  /\ Reply(s, "ok")
  /\ UNCHANGED <<row, clockVars, clientVars, owner, home, answered, spent, revoked, made, trouble>>

ConfirmExpires(s) ==
  /\ call[s].op \in Decided /\ call[s].pc = "expire"
  /\ code' = [code EXCEPT ![call[s].login] = "expired"]
  /\ Move(s, "delete")
  /\ UNCHANGED <<row, clockVars, clientVars, historyVars, made, trouble>>

ConfirmDeletes(s) ==
  /\ call[s].op \in Decided /\ call[s].pc = "delete"
  /\ code' = [code EXCEPT ![call[s].login] = "gone"]
  /\ Reply(s, "error")
  /\ UNCHANGED <<row, clockVars, clientVars, historyVars, made, trouble>>

-----------------------------------------------------------------------------
(* The extension's sync: getValidAccessToken, then the manifest behind the IdeAuth
   middleware.  The three secrets are read at once and written at once. *)

Sync(s) ==
  /\ held # None
  /\ Start(s, [Free EXCEPT !.op = IF held > stale THEN "validate" ELSE "refresh",
                           !.pc = "read", !.old = held])
  /\ UNCHANGED <<dbVars, clockVars, clientVars, historyVars, made>>

RowsOf(p) == {i \in Pairs : row[i] = p}

\* Mutant: the row is found by the identifier the pair was made for, there or not.
RefreshReadsById(s) ==
  LET p == call[s].old IN
  /\ At(s, "refresh", "read")
  /\ IF p <= dead
     THEN made' = made /\ call' = [call EXCEPT ![s].pc = "delete", ![s].row = home[p]]
     ELSE MakePair(s, home[p])
  /\ UNCHANGED <<dbVars, clockVars, clientVars, historyVars, trouble>>

RefreshReads(s) ==
  LET p == call[s].old IN
  /\ At(s, "refresh", "read")
  /\ \/ RowsOf(p) = {} /\ Reply(s, "error") /\ made' = made
     \/ \E i \in RowsOf(p) :
          \/ p <= dead /\ made' = made
             /\ call' = [call EXCEPT ![s].pc = "delete", ![s].row = i]
          \/ p > dead /\ MakePair(s, i)
  /\ UNCHANGED <<dbVars, clockVars, clientVars, historyVars, trouble>>

RefreshDeletes(s) ==
  /\ At(s, "refresh", "delete")
  /\ row' = [row EXCEPT ![call[s].row] = None]
  /\ Reply(s, "error")
  /\ UNCHANGED <<code, clockVars, clientVars, historyVars, made, trouble>>

\* Mutant: the new hashes are not stored.
RefreshSavesNothing(s) ==
  LET c == call[s] IN
  /\ At(s, "refresh", "save")
  /\ home'  = [home EXCEPT ![c.new] = c.row]
  /\ spent' = [spent EXCEPT ![c.old] = IF @ < 2 THEN @ + 1 ELSE @]
  /\ Reply(s, "tokens")
  /\ UNCHANGED <<dbVars, clockVars, clientVars, owner, decisions, answered, revoked, made, trouble>>

RefreshSaves(s) ==
  LET c == call[s] IN
  /\ At(s, "refresh", "save")
  /\ row'   = [row EXCEPT ![c.row] = c.new]
  /\ home'  = [home EXCEPT ![c.new] = c.row]
  /\ spent' = [spent EXCEPT ![c.old] = IF @ < 2 THEN @ + 1 ELSE @]
  /\ Reply(s, "tokens")
  /\ UNCHANGED <<code, clockVars, clientVars, owner, decisions, answered, revoked, made, trouble>>

\* Mutant: the new access token is used and the new pair not stored.
RefreshAnsweredUnsaved(s) ==
  /\ At(s, "refresh", "answer")
  /\ held' = held
  /\ call' = [call EXCEPT ![s] =
       IF call[s].answer = "tokens"
       THEN [Free EXCEPT !.op = "validate", !.pc = "read", !.old = call[s].new] ELSE Free]
  /\ UNCHANGED <<dbVars, clockVars, current, timer, historyVars, made, trouble>>

\* The new pair is stored, and the manifest asked for with its access token.
RefreshAnswered(s) ==
  /\ At(s, "refresh", "answer")
  /\ IF call[s].answer = "tokens"
     THEN /\ held' = call[s].new
          /\ call' = [call EXCEPT ![s] = [Free EXCEPT !.op = "validate", !.pc = "read",
                                                      !.old = call[s].new]]
     ELSE held' = held /\ call' = [call EXCEPT ![s] = Free]
  /\ UNCHANGED <<dbVars, clockVars, current, timer, historyVars, made, trouble>>

ValidateReads(s) ==
  LET p == call[s].old IN
  /\ At(s, "validate", "read")
  /\ \/ (RowsOf(p) = {} \/ p <= stale) /\ Reply(s, "error")
     \/ p > stale /\ \E i \in RowsOf(p) : call' = [call EXCEPT ![s].pc = "save", ![s].row = i]
  /\ UNCHANGED <<dbVars, clockVars, clientVars, historyVars, made, trouble>>

\* Only LastUsedAt is new, and the whole row is written.
ValidateSaves(s) ==
  /\ At(s, "validate", "save")
  /\ row' = [row EXCEPT ![call[s].row] = call[s].old]
  /\ Reply(s, "ok")
  /\ UNCHANGED <<code, clockVars, clientVars, historyVars, made, trouble>>

-----------------------------------------------------------------------------
(* RevokeIdeToken, by an administrator of the tenant the row belongs to. *)

Revoke(s, i) ==
  /\ owner[i] # NoLogin
  /\ Start(s, [Free EXCEPT !.op = "revoke", !.pc = "read", !.row = i])
  /\ UNCHANGED <<dbVars, clockVars, clientVars, historyVars, made>>

RevokeReads(s) ==
  /\ At(s, "revoke", "read")
  /\ IF row[call[s].row] = None THEN Reply(s, "error") ELSE Move(s, "delete")
  /\ UNCHANGED <<dbVars, clockVars, clientVars, historyVars, made, trouble>>

RevokeDeletes(s) ==
  LET i == call[s].row IN
  /\ At(s, "revoke", "delete")
  /\ row' = [row EXCEPT ![i] = None]
  /\ revoked' = revoked \cup {i}
  /\ Reply(s, "ok")
  /\ UNCHANGED <<code, clockVars, clientVars, owner, home, decisions, answered, spent, made, trouble>>

\* The caller of a confirmation, a revocation or a validated request has its answer.
Answered(s) ==
  /\ call[s].op \in Decided \cup {"validate", "revoke"} /\ call[s].pc = "answer"
  /\ call' = [call EXCEPT ![s] = Free]
  /\ UNCHANGED <<dbVars, clockVars, clientVars, historyVars, made, trouble>>

-----------------------------------------------------------------------------
(* Time. *)

CodeLapses(f) ==
  /\ code[f] # "new" /\ f \notin lapsed
  /\ lapsed' = lapsed \cup {f}
  /\ UNCHANGED <<dbVars, clientVars, historyVars, stale, dead, made, call, trouble>>

AccessLapses ==
  /\ stale < made
  /\ stale' = stale + 1
  /\ UNCHANGED <<dbVars, clientVars, historyVars, lapsed, dead, made, call, trouble>>

RefreshLapses ==
  /\ dead < stale
  /\ dead' = dead + 1
  /\ UNCHANGED <<dbVars, clientVars, historyVars, lapsed, stale, made, call, trouble>>

-----------------------------------------------------------------------------
HandlerStep(s) ==
  \/ PollReads(s) \/ PollCreates(s) \/ PollDeletes(s)
  \/ ConfirmReads(s) \/ ConfirmSaves(s) \/ ConfirmExpires(s) \/ ConfirmDeletes(s)
  \/ RefreshReads(s) \/ RefreshDeletes(s) \/ RefreshSaves(s)
  \/ ValidateReads(s) \/ ValidateSaves(s)
  \/ RevokeReads(s) \/ RevokeDeletes(s)

AnswerStep(s) == PollAnswered(s) \/ RefreshAnswered(s) \/ Answered(s)

Next ==
  \/ \E f \in Logins : Login(f) \/ CodeLapses(f)
  \/ StartPolling \/ Deactivate \/ AccessLapses \/ RefreshLapses
  \/ \E s \in Slots :
       \/ Tick(s) \/ Sync(s) \/ HandlerStep(s) \/ AnswerStep(s)
       \/ Fail(s) \/ IgnoredError(s)
       \/ \E f \in Logins, decision \in Decided : Confirm(s, f, decision)
       \/ \E i \in Pairs : Revoke(s, i)

Spec == Init /\ [][Next]_vars

(* Handlers and callbacks run to their end, clocks go on, and an interval that is set
   fires.  A tick waits for a free slot only because Slots is finite, so it is treated
   strongly; nothing makes a user log in, decide, sync or revoke. *)
Fairness ==
  /\ \A s \in Slots : WF_vars(HandlerStep(s)) /\ WF_vars(AnswerStep(s))
  /\ SF_vars(\E s \in Slots : Tick(s))
  /\ \A f \in Logins : WF_vars(CodeLapses(f))

LiveSpec == Spec /\ Fairness

-----------------------------------------------------------------------------
(* Properties. *)

\* No two calls were ever under way together, nor was a login started during one.
InTurn == "overlap" \notin trouble

\* Every variable has its type, and lapsed pairs are among those made.
TypeOK ==
  /\ code \in [Logins -> CodeStates] /\ lapsed \subseteq Logins
  /\ row \in [Pairs -> 0 .. MaxPairs]
  /\ made \in 0 .. MaxPairs /\ stale \in 0 .. made /\ dead \in 0 .. stale
  /\ call \in [Slots -> Calls]
  /\ current \in Logins \cup {NoLogin} /\ timer \in {"off", "prompt", "on"}
  /\ held \in 0 .. MaxPairs
  /\ owner \in [Pairs -> Logins \cup {NoLogin}] /\ home \in [Pairs -> 0 .. MaxPairs]
  /\ decisions \in [Logins -> SUBSET Decided]
  /\ answered \subseteq Logins /\ revoked \subseteq Pairs
  /\ spent \in [Pairs -> 0 .. 2]
  /\ trouble \subseteq {"overlap", "failure"}

\* Whatever overlaps and whatever fails, a client row, and the pair an extension holds, go
\* back to a login its user approved: copies written back late never move a pair to
\* another row (PollForTokens, RefreshTokens, ValidateIdeAccessToken).
TokensNeedApproval ==
  /\ \A i \in Pairs : row[i] # None =>
       home[row[i]] = i /\ owner[i] # NoLogin /\ "authorized" \in decisions[owner[i]]
  /\ held # None => home[held] # None /\ "authorized" \in decisions[owner[home[held]]]

\* Tokens are returned once, then the session is removed: one login makes one client row,
\* even when the code could not be deleted after the row was made, because the extension
\* stops at the first error.  Two overlapping polls make two.
TokensOnce == InTurn => \A i, j \in Pairs : owner[i] = owner[j] /\ owner[i] # NoLogin => i = j

\* A code is decided once: what the user answered first stands, through lost answers,
\* retries and lapsing.  Two overlapping confirmations may each be told "ok".
DecisionStands == InTurn => \A f \in Logins : decisions[f] # Decided

\* A refresh token is taken at most once, also when the answer that carried its successor
\* was lost and the extension tries it again.
OneTimeRefresh == InTurn => \A p \in Pairs : spent[p] <= 1

\* A row that was revoked stays away: no later refresh or request writes it back.
RevokedStaysRevoked == InTurn => \A i \in revoked : row[i] = None

\* Without failures the extension and the server agree once all calls have returned: the
\* pair in the secrets is the one its row stores, unless the row was revoked or outlived.
ClientKeepsItsRow ==
  trouble = {} /\ held # None /\ (\A s \in Slots : ~Busy(s)) =>
    LET i == home[held] IN
    row[i] = held \/ (row[i] = None /\ (i \in revoked \/ held <= dead))

\* As long as the login that runs has had no final answer the extension goes on polling.
PollsUntilAnswered ==
  current # NoLogin /\ current \notin answered => timer # "off"

\* ... which holds as long as calls do not overlap.
PollsInTurn == InTurn => PollsUntilAnswered

\* No login polls for ever: it gets its tokens, a refusal or an error, at the latest when
\* its code has lapsed.
LoginEnds == \A f \in Logins :
  (current = f /\ timer = "on") ~> (current # f \/ timer # "on")
=============================================================================
