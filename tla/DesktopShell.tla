----------------------------- MODULE DesktopShell -----------------------------
(***************************************************************************)
(* The main process of agent-desktop as the keeper of agent-core: one      *)
(* event loop in which a spawn that is awaited, the timers of restarts and *)
(* of the retries after an update, the exit events of earlier processes    *)
(* and the answers of the health poll take turns.  Processes are numbered  *)
(* in the order they are created; 0 stands for null.                       *)
(***************************************************************************)
EXTENDS Naturals

CONSTANTS
  MaxStarts,   \* bound of the model: processes created
  MaxRequests, \* bound of the model: restarts and updates asked for
  Delays       \* length of the list of delays of a retry chain

ASSUME ShellConstants == MaxStarts \in Nat /\ MaxRequests \in Nat /\ Delays \in Nat

VARIABLES
  forced,      \* win32: taskkill /f ends a process at once; elsewhere SIGTERM asks it to end
  process,     \* per number: where the process is
  keptProcess, \* agentCoreProcess
  spawning,    \* spawnLock: the process startAgentCoreChild created, and the chain that awaits it
  throttled,   \* lastSpawnTime is less than MIN_SPAWN_INTERVAL_MS ago
  spawnsDue,   \* calls of spawnAgentCore to come: at the start, and by timers of restarts
  wishes,      \* restarts and updates asked for
  chains,      \* retry chains after an update: the delays used so far, or Over
  retryTimer,  \* postUpdateRetryTimer # null
  retryActive, \* postUpdateRetryActive
  retryLate,   \* POST_UPDATE_RETRY_CEILING_MS have passed since the cycle started
  hint,        \* postApplyEnxAgentPath is set
  pointer,     \* core_install_path.json exists
  shown,       \* currentStatus
  probe,       \* the answer the health request in flight will bring, if one is
  early,       \* a request sent soon after a spawn has been answered
  quitting     \* isQuitting

shellVars == <<forced, process, keptProcess, spawning, throttled, spawnsDue, wishes, chains,
               retryTimer, retryActive, retryLate, hint, pointer, shown, probe, early, quitting>>

spawnVars == <<process, spawning, throttled, pointer>>
retryVars == <<chains, retryTimer, retryActive, retryLate>>
statusVars == <<shown, probe, early>>

Processes == 1 .. MaxStarts
Chains == 1 .. MaxRequests
Over == Delays + 1
Binaries == {"installed", "configured", "found"}
NotSpawning == [process |-> 0, chain |-> 0]

ShellTypeOK ==
  /\ process \in [Processes -> {"none", "starting", "up", "ending", "exited", "gone"}]
  /\ keptProcess \in 0 .. MaxStarts
  /\ spawning \in [process : 0 .. MaxStarts, chain : 0 .. MaxRequests]
  /\ spawnsDue \in 0 .. MaxRequests + 1 /\ wishes \in 0 .. MaxRequests
  /\ chains \in [Chains -> 1 .. Over]
  /\ \A b \in {forced, throttled, retryTimer, retryActive, retryLate, hint, pointer, early,
             quitting} : b \in BOOLEAN
  /\ shown \in {"connecting", "online", "offline"}
  /\ probe \in {"none", "ok", "failed"}

ShellInit ==
  /\ forced \in BOOLEAN
  /\ process = [p \in Processes |-> "none"]
  /\ keptProcess = 0 /\ spawning = NotSpawning /\ throttled = FALSE
  /\ spawnsDue \in 0 .. 1 /\ wishes = 0
  /\ chains = [k \in Chains |-> Over]
  /\ retryTimer = FALSE /\ retryActive = FALSE /\ retryLate = FALSE
  /\ hint = FALSE /\ pointer \in BOOLEAN
  /\ shown = "connecting" /\ probe = "none" /\ early = FALSE /\ quitting = FALSE

-----------------------------------------------------------------------------
(* Starting and stopping a process                                         *)

\* What the next process is started from: the file the last update named, in memory or in the
\* pointer file, else the path of the settings, else what the search finds; each if it is usable.
BinaryFor(usable) ==
  IF (hint \/ pointer) /\ "installed" \in usable THEN {"installed"}
  ELSE IF "configured" \in usable THEN {"configured"}
  ELSE usable \cap {"found"}

\* A pointer to a file that is not usable is removed.
PointerAfter(usable) == pointer /\ "installed" \in usable

\* A slip: the lock is not looked at.
SpawnRefusedUnlocked(recent) == keptProcess # 0 \/ recent

\* spawnAgentCore returns at once while a process is there or being spawned, or soon after a spawn.
SpawnRefused(recent) == keptProcess # 0 \/ spawning # NotSpawning \/ recent

\* spawnAgentCore up to the call it awaits.
SpawnAgentCore(chain, recent) ==
  IF SpawnRefused(recent)
  THEN throttled' = recent /\ UNCHANGED <<process, spawning, pointer>>
  ELSE \E usable \in SUBSET Binaries :
         /\ throttled' = TRUE
         /\ pointer' = PointerAfter(usable)
         /\ IF BinaryFor(usable) = {}
            THEN UNCHANGED <<process, spawning>>
            ELSE \E p \in Processes :
                   /\ process[p] = "none" /\ \A q \in 1 .. p - 1 : process[q] # "none"
                   /\ process' = [process EXCEPT ![p] = "starting"]
                   /\ spawning' = [process |-> p, chain |-> chain]

\* stopAgentCore.
Stopped ==
  IF keptProcess = 0 \/ process[keptProcess] # "up" THEN process
  ELSE [process EXCEPT ![keptProcess] = IF forced THEN "exited" ELSE "ending"]

\* tryNext of a retry chain that has used n delays.
TryNext(k, n, child, late) ==
  IF child # 0 \/ n = Delays \/ late
  THEN /\ chains' = [chains EXCEPT ![k] = Over]
       /\ retryTimer' = FALSE /\ retryActive' = FALSE
  ELSE /\ chains' = [chains EXCEPT ![k] = n + 1]
       /\ retryTimer' = TRUE /\ retryActive' = TRUE

\* scheduleSpawnsAfterCoreUpdate, called when no process is kept.
ScheduleSpawnsAfterCoreUpdate(k) ==
  /\ retryLate' = (retryActive /\ retryLate)
  /\ IF retryActive /\ retryLate
     THEN retryTimer' = FALSE /\ retryActive' = FALSE /\ UNCHANGED chains
     ELSE TryNext(k, 0, 0, FALSE)

\* startAgentCoreChild answers: with a process that runs, or with none.
SpawnEnds(works) ==
  /\ ~quitting
  /\ spawning # NotSpawning
  /\ process' = [process EXCEPT ![spawning.process] = IF works THEN "up" ELSE "gone"]
  /\ keptProcess' = IF works THEN spawning.process ELSE keptProcess
  /\ hint' = (hint /\ ~works)
  /\ spawning' = NotSpawning
  /\ IF spawning.chain = 0 THEN UNCHANGED retryVars
     ELSE /\ TryNext(spawning.chain, chains[spawning.chain], keptProcess', retryLate)
          /\ UNCHANGED retryLate
  /\ UNCHANGED <<forced, throttled, spawnsDue, wishes, pointer, statusVars, quitting>>

\* The end of a process is noticed before the next timer of seconds fires.
TimersMayFire == ~quitting /\ \A p \in Processes : process[p] # "exited"

\* The call at the start of the program, or the timer of a restart.
SpawnFires ==
  /\ TimersMayFire
  /\ spawnsDue > 0
  /\ spawnsDue' = spawnsDue - 1
  /\ SpawnAgentCore(0, throttled)
  /\ UNCHANGED <<forced, keptProcess, wishes, retryVars, hint, statusVars, quitting>>

\* A delay of a retry chain ends.
RetryFires(k) ==
  /\ TimersMayFire
  /\ chains[k] # Over /\ spawning.chain # k
  /\ IF keptProcess # 0
     THEN TryNext(k, chains[k], keptProcess, retryLate) /\ UNCHANGED spawnVars
     ELSE /\ SpawnAgentCore(k, FALSE)
          /\ IF spawning' # spawning THEN UNCHANGED <<chains, retryTimer, retryActive>>
             ELSE TryNext(k, chains[k], 0, retryLate)
  /\ UNCHANGED <<forced, keptProcess, spawnsDue, wishes, retryLate, hint, statusVars, quitting>>

ThrottleEnds ==
  /\ ~quitting /\ throttled
  /\ throttled' = FALSE
  /\ UNCHANGED <<forced, process, keptProcess, spawning, spawnsDue, wishes, retryVars, hint,
                 pointer, statusVars, quitting>>

CeilingPasses ==
  /\ ~quitting /\ retryActive /\ ~retryLate
  /\ retryLate' = TRUE
  /\ UNCHANGED <<forced, spawnVars, keptProcess, spawnsDue, wishes, chains, retryTimer,
                 retryActive, hint, statusVars, quitting>>

-----------------------------------------------------------------------------
(* The life of a process, and what is shown of it                          *)

\* agent-core crashes, or ends as it was asked to.
CoreEnds(p) ==
  /\ process[p] \in {"up", "ending"}
  /\ process' = [process EXCEPT ![p] = "exited"]
  /\ UNCHANGED <<forced, keptProcess, spawning, throttled, spawnsDue, wishes, retryVars, hint,
                 pointer, statusVars, quitting>>

\* The handler of 'exit' forgets the process that is kept, whichever process ended.
ExitNoticed(p) ==
  /\ ~quitting
  /\ process[p] = "exited"
  /\ process' = [process EXCEPT ![p] = "gone"]
  /\ keptProcess' = 0
  /\ shown' = "offline"
  /\ IF retryActive /\ ~retryTimer
     THEN /\ \E k \in Chains : chains[k] = Over /\ ScheduleSpawnsAfterCoreUpdate(k)
          /\ throttled' = FALSE
     ELSE UNCHANGED <<retryVars, throttled>>
  /\ UNCHANGED <<forced, spawning, spawnsDue, wishes, hint, pointer, probe, early, quitting>>

\* The health poll: whatever process listens on the port answers.
ProbeSent ==
  /\ ~quitting /\ probe = "none"
  /\ probe' = IF \E p \in Processes : process[p] = "up" THEN "ok" ELSE "failed"
  /\ UNCHANGED <<forced, spawnVars, keptProcess, spawnsDue, wishes, retryVars, hint, shown, early,
                 quitting>>

\* A slip: a poll that fails changes nothing.
ProbeAnsweredOnline ==
  /\ ~quitting /\ probe # "none"
  /\ shown' = IF probe = "ok" THEN "online" ELSE shown
  /\ probe' = "none"
  /\ UNCHANGED <<forced, spawnVars, keptProcess, spawnsDue, wishes, retryVars, hint, early,
                 quitting>>

ProbeAnswered ==
  /\ ~quitting /\ probe # "none"
  /\ shown' = IF probe = "ok" THEN "online" ELSE "offline"
  /\ probe' = "none"
  /\ UNCHANGED <<forced, spawnVars, keptProcess, spawnsDue, wishes, retryVars, hint, early,
                 quitting>>

\* The requests sent seconds after a spawn only ever turn the status to online.
EarlyProbeSent ==
  /\ ~quitting /\ ~early
  /\ keptProcess # 0 /\ process[keptProcess] = "up" /\ shown # "online"
  /\ early' = TRUE
  /\ UNCHANGED <<forced, spawnVars, keptProcess, spawnsDue, wishes, retryVars, hint, shown, probe,
                 quitting>>

EarlyProbeAnswered ==
  /\ ~quitting /\ early
  /\ early' = FALSE /\ shown' = "online"
  /\ UNCHANGED <<forced, spawnVars, keptProcess, spawnsDue, wishes, retryVars, hint, probe,
                 quitting>>

-----------------------------------------------------------------------------
(* What the user asks for                                                  *)

RestartAgentCore ==
  /\ ~quitting /\ wishes < MaxRequests
  /\ wishes' = wishes + 1
  /\ process' = Stopped /\ keptProcess' = 0
  /\ throttled' = FALSE
  /\ spawnsDue' = spawnsDue + 1
  /\ UNCHANGED <<forced, spawning, retryVars, hint, pointer, statusVars, quitting>>

\* agent-core answered that the update is in place; the pointer file may fail to be written.
AgentUpdateApplied ==
  /\ ~quitting /\ wishes < MaxRequests
  /\ \E p \in Processes : process[p] = "up"
  /\ wishes' = wishes + 1
  /\ hint' = TRUE /\ pointer' \in {TRUE, pointer}
  /\ process' = Stopped /\ keptProcess' = 0
  /\ ScheduleSpawnsAfterCoreUpdate(wishes + 1)
  /\ UNCHANGED <<forced, spawning, throttled, spawnsDue, statusVars, quitting>>

Quit ==
  /\ ~quitting
  /\ quitting' = TRUE
  /\ process' = Stopped /\ keptProcess' = 0
  /\ UNCHANGED <<forced, spawning, throttled, spawnsDue, wishes, retryVars, hint, pointer,
                 statusVars>>

ShellNext ==
  \/ \E works \in BOOLEAN : SpawnEnds(works)
  \/ SpawnFires
  \/ \E k \in Chains : RetryFires(k)
  \/ ThrottleEnds
  \/ CeilingPasses
  \/ \E p \in Processes : CoreEnds(p) \/ ExitNoticed(p)
  \/ ProbeSent
  \/ ProbeAnswered
  \/ EarlyProbeSent
  \/ EarlyProbeAnswered
  \/ RestartAgentCore
  \/ AgentUpdateApplied
  \/ Quit

-----------------------------------------------------------------------------

\* Where a kill is forced there is one agent-core at a time, the shell keeps the one that runs, and
\* quitting, unless a spawn was under way, leaves none behind (main.ts spawnAgentCore,
\* stopAgentCore, before-quit).
OneAgent ==
  forced =>
    /\ \A p, q \in Processes : {process[p], process[q]} \subseteq {"starting", "up"} => p = q
    /\ \A p \in Processes : process[p] = "up" => p = keptProcess /\ ~quitting

\* An agent that stays up is shown as online in the end, one that stays away as offline
\* (main.ts startHealthPolling, the handler of exit).
StatusFollows ==
  /\ <>[](~quitting /\ \E p \in Processes : process[p] = "up") => []<>(shown = "online")
  /\ <>[](~quitting /\ \A p \in Processes : process[p] # "up") => <>[](shown = "offline")

=============================================================================
