------------------------------ MODULE Watchlist ------------------------------
(***************************************************************************)
(* The watchlist of an agent: items in the local store, each to be checked *)
(* with a tool.  They come from the built-in rules, from the governance    *)
(* rules the agent pulls from platform-api, and from the user, who         *)
(* confirms, changes and deletes items through the local API.              *)
(*                                                                         *)
(* A check is started by a timer that the registration of an item arms.    *)
(* It would arm the next one if the scheduler were running: bootstrap      *)
(* never starts it, so every registration brings one check.  The timer     *)
(* keeps the context of its registration: an item registered by a request  *)
(* to the local API loses its context as soon as the request is answered,  *)
(* seconds before its timer fires.                                         *)
(***************************************************************************)
EXTENDS Naturals, FiniteSets

CONSTANTS
  Builtin,    \* the built-in rules
  Platform,   \* governance rules of the platform
  User,       \* items of the user
  MaxChecks,  \* bound of the model: checks of one item under way at once
  NoEdit, NoAnswer

Watched == Builtin \cup Platform \cup User

ASSUME WatchConstants ==
  /\ Builtin \cap Platform = {} /\ Builtin \cap User = {} /\ Platform \cap User = {}
  /\ MaxChecks \in Nat \ {0}

VARIABLES
  core,     \* "down", "offline" (the platform was not reachable at boot), "syncing"
  item,     \* per item its row: "absent", "on", "off"
  timer,    \* per item: "none", "armed", or "dead", armed with a context that has ended
  checks,   \* per item: checks under way
  rules,    \* per rule, at the platform: "on", "off", "gone"
  fetched,  \* the rules the sync has received and not yet applied
  edit      \* the item a PUT of the local API has read and will save

watchVars == <<core, item, timer, checks, rules, fetched, edit>>

WatchTypeOK ==
  /\ core \in {"down", "offline", "syncing"}
  /\ item \in [Watched -> {"absent", "on", "off"}]
  /\ timer \in [Watched -> {"none", "armed", "dead"}]
  /\ checks \in [Watched -> 0 .. MaxChecks]
  /\ rules \in [Platform -> {"on", "off", "gone"}]
  /\ fetched \in [Platform -> {"on", "off", "gone"}] \cup {NoAnswer}
  /\ edit \in [of : Watched, row : {"on", "off"}] \cup {NoEdit}

WatchInit ==
  /\ core = "down"
  /\ item = [i \in Watched |-> "absent"]
  /\ timer = [i \in Watched |-> "none"]
  /\ checks = [i \in Watched |-> 0]
  /\ rules = [r \in Platform |-> "on"]
  /\ fetched = NoAnswer
  /\ edit = NoEdit

\* f with the value v for all of S.
Put(f, S, v) == [i \in DOMAIN f |-> IF i \in S THEN v ELSE f[i]]

-----------------------------------------------------------------------------
\* Registration.

\* A slip: an item that is in the store is taken to be scheduled.
ArmedIfNew(S, ctx) == Put(timer, {i \in S : item[i] = "absent"}, ctx)

\* scheduleItem: a timer instead of the one there is.
Armed(S, ctx) == Put(timer, S, ctx)

\* The row is replaced.
Register(S, ctx) ==
  /\ item' = Put(item, S, "on")
  /\ timer' = Armed(S, ctx)

\* Boot: the built-in rules are registered, the sync starts if the platform was reachable.
BootAgent ==
  /\ core = "down"
  /\ core' \in {"offline", "syncing"}
  /\ Register(Builtin, "armed")
  /\ UNCHANGED <<checks, rules, fetched, edit>>

StopAgent ==
  /\ core # "down"
  /\ core' = "down"
  /\ timer' = Put(timer, Watched, "none")
  /\ checks' = Put(checks, Watched, 0)
  /\ fetched' = NoAnswer
  /\ edit' = NoEdit
  /\ UNCHANGED <<item, rules>>

-----------------------------------------------------------------------------
\* The sync with the platform; a pull that fails changes nothing.

SetRule(r, state) ==
  /\ rules[r] # state
  /\ rules' = [rules EXCEPT ![r] = state]
  /\ UNCHANGED <<core, item, timer, checks, fetched, edit>>

FetchRules ==
  /\ core = "syncing"
  /\ fetched = NoAnswer
  /\ fetched' = rules
  /\ UNCHANGED <<core, item, timer, checks, rules, edit>>

\* A slip: a rule that is switched off is still wanted.
DesiredListed(answer) == {r \in Platform : answer[r] # "gone"}

Desired(answer) == {r \in Platform : answer[r] = "on"}

\* Rules that are on are registered, items whose rule is not are deleted.
ApplyRules ==
  /\ fetched # NoAnswer
  /\ LET stale == {r \in Platform : item[r] # "absent"} \ Desired(fetched) IN
     /\ item' = Put(Put(item, Desired(fetched), "on"), stale, "absent")
     /\ timer' = Put(Armed(Desired(fetched), "armed"), stale, "none")
  /\ fetched' = NoAnswer
  /\ UNCHANGED <<core, checks, rules, edit>>

-----------------------------------------------------------------------------
\* The local API.

ConfirmItem(i) ==
  /\ core # "down"
  /\ item[i] = "absent"
  /\ Register({i}, "dead")
  /\ UNCHANGED <<core, checks, rules, fetched, edit>>

ReadForUpdate(i, row) ==
  /\ core # "down"
  /\ edit = NoEdit
  /\ item[i] # "absent"
  /\ edit' = [of |-> i, row |-> row]
  /\ UNCHANGED <<core, item, timer, checks, rules, fetched>>

\* The row is replaced, or inserted again if it was deleted meanwhile.  Only an item that is
\* enabled is scheduled anew; the timer of one that is disabled goes on.
UpdateItem ==
  /\ edit # NoEdit
  /\ item' = [item EXCEPT ![edit.of] = edit.row]
  /\ timer' = IF edit.row = "on" THEN [timer EXCEPT ![edit.of] = "dead"] ELSE timer
  /\ edit' = NoEdit
  /\ UNCHANGED <<core, checks, rules, fetched>>

Unregister(i) ==
  /\ core # "down"
  /\ item[i] # "absent"
  /\ item' = [item EXCEPT ![i] = "absent"]
  /\ timer' = [timer EXCEPT ![i] = "none"]
  /\ UNCHANGED <<core, checks, rules, fetched, edit>>

-----------------------------------------------------------------------------
\* The timers and the checks.

\* The item is checked as it was registered, disabled or deleted meanwhile or not.
TimerFires(i) ==
  /\ timer[i] = "armed"
  /\ checks[i] < MaxChecks
  /\ timer' = [timer EXCEPT ![i] = "none"]
  /\ checks' = [checks EXCEPT ![i] = @ + 1]
  /\ UNCHANGED <<core, item, rules, fetched, edit>>

DeadTimerFires(i) ==
  /\ timer[i] = "dead"
  /\ timer' = [timer EXCEPT ![i] = "none"]
  /\ UNCHANGED <<core, item, checks, rules, fetched, edit>>

\* The result is noted in the row, if there is one; scheduleNext finds the scheduler not
\* running and returns.
CheckEnds(i) ==
  /\ checks[i] > 0
  /\ checks' = [checks EXCEPT ![i] = @ - 1]
  /\ UNCHANGED <<core, item, timer, rules, fetched, edit>>

WatchNext ==
  \/ BootAgent \/ StopAgent
  \/ \E r \in Platform, state \in {"on", "off", "gone"} : SetRule(r, state)
  \/ FetchRules \/ ApplyRules
  \/ \E i \in User : ConfirmItem(i)
  \/ \E i \in Watched, row \in {"on", "off"} : ReadForUpdate(i, row)
  \/ UpdateItem
  \/ \E i \in Watched : Unregister(i) \/ TimerFires(i) \/ DeadTimerFires(i) \/ CheckEnds(i)

WatchSpec == WatchInit /\ [][WatchNext]_watchVars

\* The ticker of the sync, the timers and the timeout of a check; the agent is booted.
WatchFairness ==
  /\ WF_watchVars(BootAgent)
  /\ WF_watchVars(FetchRules)
  /\ WF_watchVars(ApplyRules)
  /\ WF_watchVars(UpdateItem)
  /\ \A i \in Watched : WF_watchVars(TimerFires(i)) /\ WF_watchVars(CheckEnds(i))

WatchFairSpec == WatchSpec /\ WatchFairness

-----------------------------------------------------------------------------

\* An agent that reaches its platform checks a rule that is on again and again, though nothing
\* but the next sync arms its timer again (platform_sync.go:196-229), once its user has stopped
\* to change and delete its item.
RulesAreChecked ==
  \A r \in Platform :
    <>[](core = "syncing" /\ rules[r] = "on" /\ item[r] = "on" /\ edit = NoEdit)
      => []<>(checks[r] > 0)

\* A rule that is switched off or removed at the platform leaves the agent for good, also when a
\* user's update has brought its item back (platform_sync.go:221-228).
RulesAreForgotten ==
  \A r \in Platform :
    <>[](core = "syncing" /\ rules[r] # "on" /\ edit = NoEdit) => <>[](item[r] = "absent")

=============================================================================
