---------------------------- MODULE AgentRuntime ----------------------------
(***************************************************************************)
(* agent-core from start to exit: the steps of the bootstrap, the runtime  *)
(* that repeats background tasks, the local API, and the shut-down.  The   *)
(* governance baseline shows what they share: the periodic task and every  *)
(* request for the status compare the system with the latest baseline in   *)
(* the local store, and replace it by what they have just seen.            *)
(***************************************************************************)
EXTENDS Naturals

CONSTANTS
  MaxDrifts,  \* bound of the model: changes of the names watched, plus the value of the variable
  NoBaseline  \* no baseline

ASSUME RuntimeConstants == MaxDrifts \in Nat /\ NoBaseline \notin [names : Nat, proxy : Nat]

VARIABLES
  bootStep,   \* of the process
  storeIs,    \* the local store: "none" could not be opened, "open", "closed"
  hasToken,   \* there is a device token
  platformUp, \* decided while booting, and never again
  tasks,      \* tasks registered with the runtime and not started
  taskIs,     \* per task that was started: "waits" for its ticker or "runs"; else "ended"
  watched,    \* what a baseline captures and is compared
  baseline,   \* the latest saved, and the first
  detector,   \* per caller of DetectDrift: it has read a baseline, or has found a drift to write down
  drifts,     \* rows of governance_drifts, up to 1
  driftLost   \* history: a difference was not written down, or nobody looked for it because the
              \* baseline could not be read

runtimeVars == <<bootStep, storeIs, hasToken, platformUp, tasks, taskIs, watched, baseline,
                 detector, drifts, driftLost>>

\* "activation" is activation_heartbeat or activation_status_poll.
RuntimeTasks ==
  {"governance_baseline", "heartbeat", "activation", "store_vacuum", "self_update_check"}
DetectCallers == {"task", "status"}       \* RunBaselineCheck and GetStatus
\* The names of the host and its interfaces, and a variable of the environment, 0 when it is not
\* set.  (The addresses of the interfaces are captured and never compared.)
Snapshots == [names : 0 .. MaxDrifts, proxy : 0 .. MaxDrifts]
NotDetecting == [at |-> "idle"]
DriftFound == [at |-> "finds"]
Captures(c) == detector[c].at = "captures"
Finds(c) == detector[c] = DriftFound

\* A variable that the baseline does not have may be set without being noticed.
Differs(saved, current) ==
  saved.names # current.names \/ (saved.proxy # 0 /\ saved.proxy # current.proxy)

RuntimeTypeOK ==
  /\ bootStep \in {"down", "store", "identity", "config", "api", "register", "start", "updater",
                   "up", "stopping", "draining"}
  /\ storeIs \in {"none", "open", "closed"}
  /\ hasToken \in BOOLEAN /\ platformUp \in BOOLEAN /\ driftLost \in BOOLEAN
  /\ tasks \subseteq RuntimeTasks
  /\ taskIs \in [RuntimeTasks -> {"ended", "waits", "runs"}]
  /\ watched \in Snapshots
  /\ baseline \in [first : Snapshots \cup {NoBaseline}, latest : Snapshots \cup {NoBaseline}]
  /\ \A c \in DetectCallers :
       detector[c] \in {NotDetecting, DriftFound}
         \cup [at : {"captures"}, saw : Snapshots \cup {NoBaseline}]
  /\ drifts \in 0 .. 1

RuntimeInit ==
  /\ bootStep = "down"
  /\ storeIs = "closed"
  /\ hasToken = FALSE /\ platformUp = FALSE
  /\ tasks = {}
  /\ taskIs = [t \in RuntimeTasks |-> "ended"]
  /\ watched = [names |-> 0, proxy |-> 0]
  /\ baseline = [first |-> NoBaseline, latest |-> NoBaseline]
  /\ detector = [c \in DetectCallers |-> NotDetecting]
  /\ drifts = 0 /\ driftLost = FALSE

processVars == <<bootStep, storeIs, hasToken, platformUp, tasks, taskIs>>
driftVars == <<watched, baseline, detector, drifts, driftLost>>

-----------------------------------------------------------------------------
(* Bootstrapper.Run                                                        *)

BootGoes(from, to) == bootStep = from /\ bootStep' = to

\* A process gets its environment when it is launched, and sets no variable itself.
LaunchProcess ==
  /\ BootGoes("down", "store")
  /\ tasks' = {}
  /\ \E v \in 0 .. MaxDrifts - watched.names : watched' = [watched EXCEPT !.proxy = v]
  /\ UNCHANGED <<storeIs, hasToken, platformUp, taskIs, baseline, detector, drifts, driftLost>>

OpenLocalStore ==
  /\ BootGoes("store", "identity")
  /\ storeIs' \in {"open", "none"}
  /\ UNCHANGED <<hasToken, platformUp, tasks, taskIs, driftVars>>

\* An identity on disk, an enrolment, none without a token (which counts as reachable), or one
\* that failed.
CheckIdentity ==
  /\ BootGoes("identity", "config")
  /\ \/ hasToken' \in BOOLEAN /\ platformUp' = TRUE
     \/ hasToken' = FALSE /\ platformUp' = FALSE
  /\ UNCHANGED <<storeIs, tasks, taskIs, driftVars>>

Connected == hasToken /\ platformUp

PullRemoteConfig ==
  /\ BootGoes("config", "api")
  /\ platformUp' \in IF Connected THEN BOOLEAN ELSE {platformUp}
  /\ UNCHANGED <<storeIs, hasToken, tasks, taskIs, driftVars>>

StartLocalAPI ==
  /\ BootGoes("api", "register")
  /\ UNCHANGED <<storeIs, hasToken, platformUp, tasks, taskIs, driftVars>>

\* Whether there is an activation task depends on the activation, of another module.
RegisterTasks ==
  /\ BootGoes("register", "start")
  /\ \E activation \in SUBSET {"activation"} :
       tasks' = {"governance_baseline"} \cup (IF Connected THEN {"heartbeat"} ELSE {})
                  \cup activation \cup (IF storeIs = "open" THEN {"store_vacuum"} ELSE {})
  /\ UNCHANGED <<storeIs, hasToken, platformUp, taskIs, driftVars>>

\* Start runs each of the tasks registered so far at once.
StartRuntimeTasks ==
  /\ BootGoes("start", "updater")
  /\ taskIs' = [t \in RuntimeTasks |-> IF t \in tasks THEN "runs" ELSE "ended"]
  /\ tasks' = {}
  /\ UNCHANGED <<storeIs, hasToken, platformUp, driftVars>>

\* A task registered now is never started.  The model looks at token and platform no more.
RegisterUpdateCheck ==
  /\ BootGoes("updater", "up")
  /\ tasks' = tasks \cup (IF Connected THEN {"self_update_check"} ELSE {})
  /\ hasToken' = FALSE /\ platformUp' = FALSE
  /\ UNCHANGED <<storeIs, taskIs, driftVars>>

-----------------------------------------------------------------------------
(* The runtime                                                             *)

ShuttingDown == bootStep \in {"stopping", "draining"}

TaskTicks(t) ==
  /\ taskIs[t] = "waits"
  /\ taskIs' = [taskIs EXCEPT ![t] = IF ShuttingDown THEN "ended" ELSE "runs"]
  /\ UNCHANGED <<bootStep, storeIs, hasToken, platformUp, tasks, driftVars>>

TaskReturns(t) ==
  /\ taskIs[t] = "runs"
  /\ t = "governance_baseline" => detector["task"] = NotDetecting
  /\ taskIs' = [taskIs EXCEPT ![t] = "waits"]
  /\ UNCHANGED <<bootStep, storeIs, hasToken, platformUp, tasks, driftVars>>

\* A signal arrives once the bootstrap is through; the context ends.
SignalArrives ==
  /\ BootGoes("up", "stopping")
  /\ UNCHANGED <<storeIs, hasToken, platformUp, tasks, taskIs, driftVars>>

\* A slip: Stop does not wait for the tasks.
StopRuntimeAtOnce ==
  /\ BootGoes("stopping", "draining")
  /\ UNCHANGED <<storeIs, hasToken, platformUp, tasks, taskIs, driftVars>>

\* Stop waits for every task, however long its function takes.
StopRuntime ==
  /\ BootGoes("stopping", "draining")
  /\ \A t \in RuntimeTasks : taskIs[t] = "ended"
  /\ UNCHANGED <<storeIs, hasToken, platformUp, tasks, taskIs, driftVars>>

\* The local API has ten seconds to finish its requests; then the store is closed under them.
CloseStore ==
  /\ bootStep = "draining"
  /\ storeIs = "open"
  /\ storeIs' = "closed"
  /\ UNCHANGED <<bootStep, hasToken, platformUp, tasks, taskIs, driftVars>>

\* At the end of the shut-down, or at any time: killed, or the local API could not start.
ProcessExits ==
  /\ bootStep # "down"
  /\ bootStep' = "down"
  /\ storeIs' = "closed"
  /\ taskIs' = [t \in RuntimeTasks |-> "ended"]
  /\ detector' = [c \in DetectCallers |-> NotDetecting]
  /\ driftLost' = (driftLost \/ \E c \in DetectCallers : Finds(c))
  /\ tasks' = {} /\ hasToken' = FALSE /\ platformUp' = FALSE
  /\ UNCHANGED <<watched, baseline, drifts>>

-----------------------------------------------------------------------------
(* The governance engine                                                   *)

\* The host is renamed, an interface comes or goes.
SystemChanges ==
  /\ watched.names + watched.proxy < MaxDrifts
  /\ watched' = [watched EXCEPT !.names = @ + 1]
  /\ UNCHANGED <<processVars, baseline, detector, drifts, driftLost>>

MayDetect(c) ==
  /\ detector[c] = NotDetecting
  /\ storeIs = "open"
  /\ IF c = "task" THEN taskIs["governance_baseline"] = "runs"
     ELSE bootStep \in {"register", "start", "updater", "up", "stopping"}

\* Where nothing can be read the status is silent, and the task takes it that there is no baseline
\* yet and captures one.
GetLatestBaseline(c) ==
  /\ MayDetect(c)
  /\ \E saw \in {baseline.latest, NoBaseline} :
       /\ saw = NoBaseline => c = "task"
       /\ detector' = [detector EXCEPT ![c] = [at |-> "captures", saw |-> saw]]
  /\ UNCHANGED <<processVars, watched, baseline, drifts, driftLost>>

\* A slip: the baseline is read after the new one was saved.
CaptureBaselineFirst(c) ==
  /\ Captures(c)
  /\ LET first == IF baseline.first = NoBaseline THEN watched ELSE baseline.first IN
       baseline' = [first |-> first, latest |-> watched]
  /\ detector' = [detector EXCEPT ![c] = NotDetecting]
  /\ UNCHANGED <<processVars, watched, drifts, driftLost>>

\* A difference from a baseline that was not read is gone once that baseline is replaced.
Overlooked(c) ==
  /\ detector[c].saw = NoBaseline
  /\ baseline.latest # NoBaseline /\ Differs(baseline.latest, watched)

\* CaptureBaseline saves what it captures, if it can, and so replaces the baseline the drift is
\* measured from.  DetectDrift compares it with the one that was read.
CaptureBaseline(c) ==
  /\ Captures(c)
  /\ \/ UNCHANGED <<baseline, driftLost>>
     \/ /\ storeIs = "open"
        /\ LET first == IF baseline.first = NoBaseline THEN watched ELSE baseline.first IN
             baseline' = [first |-> first, latest |-> watched]
        /\ driftLost' = (driftLost \/ Overlooked(c))
  /\ LET saw == detector[c].saw IN
       detector' = [detector EXCEPT
         ![c] = IF saw # NoBaseline /\ Differs(saw, watched) THEN DriftFound ELSE NotDetecting]
  /\ UNCHANGED <<processVars, watched, drifts>>

\* A drift that cannot be written down is forgotten: the next comparison starts from the new
\* baseline.
SaveDrift(c) ==
  /\ Finds(c)
  /\ detector' = [detector EXCEPT ![c] = NotDetecting]
  /\ \/ storeIs = "open" /\ drifts' = 1 /\ UNCHANGED driftLost
     \/ drifts' = drifts /\ driftLost' = TRUE
  /\ UNCHANGED <<processVars, watched, baseline>>

RuntimeNext ==
  \/ LaunchProcess \/ OpenLocalStore \/ CheckIdentity \/ PullRemoteConfig \/ StartLocalAPI
  \/ RegisterTasks \/ StartRuntimeTasks \/ RegisterUpdateCheck
  \/ SignalArrives \/ StopRuntime \/ CloseStore \/ ProcessExits \/ SystemChanges
  \/ \E t \in RuntimeTasks : TaskTicks(t) \/ TaskReturns(t)
  \/ \E c \in DetectCallers : GetLatestBaseline(c) \/ CaptureBaseline(c) \/ SaveDrift(c)

RuntimeSpec == RuntimeInit /\ [][RuntimeNext]_runtimeVars

-----------------------------------------------------------------------------

\* Though every look at the status replaces the baseline the next comparison starts from, a system
\* that differs from its first baseline has a drift on record or about to be written, unless one could
\* not be written, the process ended between the two writes, or the baseline could not be read and was
\* replaced unseen (governance/engine.go DetectDrift, RunBaselineCheck); and no task of the runtime is
\* running when the store is closed (runtime.go Stop, bootstrap.go Shutdown).
DriftsAreRecorded ==
  /\ baseline.latest # NoBaseline /\ Differs(baseline.first, baseline.latest) /\ ~driftLost =>
       drifts > 0 \/ \E c \in DetectCallers : Finds(c)
  /\ bootStep = "draining" => \A t \in RuntimeTasks : taskIs[t] = "ended"

=============================================================================
