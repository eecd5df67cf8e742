------------------------------ MODULE Accounts ------------------------------
(***************************************************************************)
(* A person's account in the console: its row, the tokens of its session   *)
(* and its API token.  A call reads a row and writes the whole of its copy *)
(* back later; calls run side by side.                                     *)
(***************************************************************************)
EXTENDS Naturals

CONSTANTS
  Callers,   \* calls under way at once
  Passwords,
  MaxAccountCalls \* bound of the model: calls that change an account

VARIABLES
  user,           \* the row of the account; "gone" is a row whose deleted_at is set
  apiToken,       \* the row of its API token
  apiLapsed,      \* expires_at of the API token is over
  consoleSession, \* the access and the refresh token the person holds
  doing,          \* what each call holds
  calls,          \* calls begun
  lastUser,       \* history: the row as successful calls said it should be
  lastApi,        \* history: the same of the API token
  apart           \* history: no two calls overlapped so far

accountsVars == <<user, apiToken, apiLapsed, consoleSession, doing, calls,
                  lastUser, lastApi, apart>>
accountRows == <<user, apiToken>>
lasts == <<lastUser, lastApi>>

NoAccount == [row |-> "none", password |-> "unset", status |-> "active"]
NoCall == [op |-> "none", row |-> NoAccount, api |-> "none"]
Live == user.row = "live"

AccountsTypeOK ==
  /\ user \in [row : {"none", "live", "gone"}, password : Passwords \cup {"unset"},
               status : {"active", "disabled"}]
  /\ apiToken \in {"none", "live", "revoked"} /\ apiLapsed \in BOOLEAN
  /\ consoleSession \in [access : {"none", "valid", "over"}, refresh : {"none", "valid", "over"}]
  /\ \A c \in Callers : doing[c].op \in {"none", "create", "login", "change", "edit",
                                        "remove", "refresh", "use", "revoke"}

AccountsInit ==
  /\ user = NoAccount /\ lastUser = NoAccount
  /\ apiToken = "none" /\ lastApi = "none" /\ apiLapsed = FALSE
  /\ consoleSession = [access |-> "none", refresh |-> "none"]
  /\ doing = [c \in Callers |-> NoCall] /\ calls = 0
  /\ apart = TRUE

-----------------------------------------------------------------------------
(* Calls; one that is refused when it reads changes nothing                *)

StartsCall(c, op, row, api) ==
  /\ doing[c].op = "none" /\ calls < MaxAccountCalls
  /\ calls' = calls + 1
  /\ doing' = [doing EXCEPT ![c] = [op |-> op, row |-> row, api |-> api]]
  /\ apart' = (apart /\ \A d \in Callers : doing[d].op = "none")
  /\ UNCHANGED <<accountRows, apiLapsed, consoleSession, lasts>>

Writes(c, op) == /\ doing[c].op = op
                 /\ doing' = [doing EXCEPT ![c] = NoCall]
                 /\ UNCHANGED <<apiLapsed, calls, apart>>

\* A call that fails at the database has changed nothing.
AccountCallFails(c) ==
  /\ doing[c].op \notin {"none", "login", "use"}
  /\ Writes(c, doing[c].op)
  /\ UNCHANGED <<accountRows, consoleSession, lasts>>

\* Save writes every column User has; deleted_at is none of them.
SaveUser(c) == user' = [doing[c].row EXCEPT !.row = user.row]

\* The e-mail is free if no live row has it; the unique key counts the deleted rows too.
CreateUser(c) == ~Live /\ \E p \in Passwords \cup {"unset"} :
     StartsCall(c, "create", [NoAccount EXCEPT !.row = "live", !.password = p], "none")
UserCreated(c) ==
  /\ user.row = "none" /\ Writes(c, "create")
  /\ user' = doing[c].row /\ lastUser' = doing[c].row
  /\ UNCHANGED <<apiToken, consoleSession, lastApi>>

\* Login reads by e-mail and compares the password.
Login(c, password) == /\ Live /\ user.password = password
                      /\ StartsCall(c, "login", user, "none")
\* A slip: the account is saved as a new one would be.
LoggedInActive(c) ==
  /\ Writes(c, "login")
  /\ user' = [doing[c].row EXCEPT !.row = user.row, !.status = "active"]
  /\ consoleSession' = [access |-> "valid", refresh |-> "valid"]
  /\ UNCHANGED <<apiToken, lasts>>

\* Tokens are issued, and the copy is saved with the time; an error of the save is dropped.
LoggedIn(c) ==
  /\ Writes(c, "login")
  /\ SaveUser(c) \/ UNCHANGED user
  /\ consoleSession' = [access |-> "valid", refresh |-> "valid"]
  /\ UNCHANGED <<apiToken, lasts>>

\* A slip: what the refresh token says of the person is believed.
RefreshBlind(c) == consoleSession.refresh = "valid" /\ StartsCall(c, "refresh", user, "none")

RefreshAccessToken(c) == /\ consoleSession.refresh = "valid" /\ Live
                         /\ StartsCall(c, "refresh", user, "none")
Refreshed(c) ==
  /\ Writes(c, "refresh")
  /\ consoleSession' = [access |-> "valid", refresh |-> "valid"]
  /\ UNCHANGED <<accountRows, lasts>>

\* JWTAuth looks at the token only.
SignedIn == consoleSession.access = "valid"

\* ChangePassword compares the current password first.
ChangePassword(c, current, new) ==
  /\ SignedIn /\ Live /\ user.password = current
  /\ StartsCall(c, "change", [user EXCEPT !.password = new], "none")
PasswordChanged(c) ==
  /\ Writes(c, "change")
  /\ SaveUser(c)
  /\ lastUser' = [lastUser EXCEPT !.password = doing[c].row.password]
  /\ UNCHANGED <<apiToken, consoleSession, lastApi>>

\* An administrator sets the status, or a password; an empty one closes the account to Login.
UpdateUser(c) ==
  /\ Live
  /\ \/ \E s \in {"active", "disabled"} : StartsCall(c, "edit", [user EXCEPT !.status = s], "none")
     \/ \E p \in Passwords \cup {"unset"} :
          StartsCall(c, "edit", [user EXCEPT !.password = p], "none")
UserUpdated(c) ==
  /\ Writes(c, "edit")
  /\ SaveUser(c)
  /\ lastUser' = [doing[c].row EXCEPT !.row = lastUser.row]
  /\ UNCHANGED <<apiToken, consoleSession, lastApi>>

DeleteUser(c) == Live /\ StartsCall(c, "remove", user, "none")
UserDeleted(c) ==
  /\ Writes(c, "remove")
  /\ user' = [user EXCEPT !.row = "gone"] /\ lastUser' = [lastUser EXCEPT !.row = "gone"]
  /\ UNCHANGED <<apiToken, consoleSession, lastApi>>

-----------------------------------------------------------------------------
(* API token                                                               *)

CreateApiToken ==
  /\ SignedIn /\ apiToken = "none"
  /\ apiToken' = "live" /\ lastApi' = "live"
  /\ UNCHANGED <<user, apiLapsed, consoleSession, doing, calls, lastUser, apart>>

\* Validate admits a token that is neither revoked nor over, then saves the copy with the time.
ValidateApiToken(c) == apiToken = "live" /\ ~apiLapsed /\ StartsCall(c, "use", NoAccount, apiToken)
ApiTokenUsed(c) ==
  /\ Writes(c, "use")
  /\ apiToken' \in {apiToken, doing[c].api}
  /\ UNCHANGED <<user, consoleSession, lasts>>

RevokeApiToken(c) == apiToken # "none" /\ StartsCall(c, "revoke", NoAccount, "revoked")
ApiTokenRevoked(c) ==
  /\ Writes(c, "revoke")
  /\ apiToken' = doing[c].api /\ lastApi' = "revoked"
  /\ UNCHANGED <<user, consoleSession, lastUser>>

-----------------------------------------------------------------------------
\* Time passes: one hour for the access token, a week for the other.
TokensLapse ==
  /\ \/ /\ consoleSession.access = "valid"
        /\ consoleSession' = [consoleSession EXCEPT !.access = "over"]
        /\ UNCHANGED apiLapsed
     \/ /\ consoleSession.access = "over" /\ consoleSession.refresh = "valid"
        /\ consoleSession' = [consoleSession EXCEPT !.refresh = "over"]
        /\ UNCHANGED apiLapsed
     \/ apiToken # "none" /\ ~apiLapsed /\ apiLapsed' = TRUE /\ UNCHANGED consoleSession
  /\ UNCHANGED <<accountRows, doing, calls, lasts, apart>>

AccountsNext ==
  \/ \E c \in Callers :
       \/ AccountCallFails(c)
       \/ CreateUser(c) \/ UserCreated(c)
       \/ \E p \in Passwords : Login(c, p)
       \/ LoggedIn(c) \/ RefreshAccessToken(c) \/ Refreshed(c)
       \/ \E p, q \in Passwords : ChangePassword(c, p, q)
       \/ PasswordChanged(c) \/ UpdateUser(c) \/ UserUpdated(c) \/ DeleteUser(c) \/ UserDeleted(c)
       \/ ValidateApiToken(c) \/ ApiTokenUsed(c) \/ RevokeApiToken(c) \/ ApiTokenRevoked(c)
  \/ CreateApiToken \/ TokensLapse

-----------------------------------------------------------------------------
\* After calls that did not overlap an account, and its API token, are as the last of them to change
\* it said: what logging in or using the token writes back alters neither (auth_service.go Login,
\* api_token/service.go Validate).
RowsAreAsLastSet ==
  apart /\ (\A c \in Callers : doing[c].op = "none") => user = lastUser /\ apiToken = lastApi

\* Once an account is deleted and its access token over, nothing but a call that had read it
\* before gives the person another token (auth_service.go RefreshAccessToken).
DeletedIsShutOut ==
  [][user.row = "gone" /\ consoleSession.access = "over" /\ consoleSession'.access = "valid"
       => \E c \in Callers : doing[c].op \in {"login", "refresh"} /\ doing[c].row.row = "live"
     ]_accountsVars

=============================================================================
