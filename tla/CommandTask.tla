----------------------------- MODULE CommandTask -----------------------------
(***************************************************************************)
(* The life of one command task in platform-api: a draft is submitted,     *)
(* routed to bypass, automatic or human approval, dispatched to its target *)
(* devices through the session gateway, and summarised from the results    *)
(* the devices report.                                                     *)
(*                                                                         *)
(* Every HTTP request and every dispatch goroutine is a slot of Handlers.  *)
(* It shares nothing with the others but the database: it reads the task   *)
(* row, works on its copy, and writes the whole row back (gorm's Save),    *)
(* with no transaction and no version check.  One action stands for the    *)
(* code between two writes, so all interleavings of the database calls are *)
(* behaviours of the model.                                                *)
(***************************************************************************)
EXTENDS Integers, Sequences, FiniteSets, Functions

CONSTANTS
  Handlers,          \* slots for concurrent requests and goroutines
  Users,
  Devices,
  Payloads,          \* command texts
  Contents,          \* what a creator may ask for, a set of ContentType
  SystemRisk,        \* EvaluateRisk, the keyword table: payload -> level
  ActiveSets,        \* which sets of devices may be active
  PolicyTables,      \* what an administrator may configure: level -> policy
  EmergencyHolders,  \* users with the permission command:emergency
  BypassHolders,     \* users with the permission command:bypass_approval
  SuperAdmins,       \* platform super administrators
  ApprovalTTL,       \* ExpiresMinutes, in units of the clock
  MaxNow,            \* bound: last instant of the clock
  MaxRequests,       \* bound: number of requests users ever make
  MayCrash,          \* may platform-api restart?
  MayFail,           \* may a call to the database fail?
  MayTimeOut,        \* may a call to the gateway return an error?
  MayLose,           \* may a command or a result be lost on its way?
  NoTask, NoExec, NoPolicy

Levels == 1 .. 3

\* The devices are a list; nothing sees to it that each is on it once.
ContentType ==
  [payload: Payloads, devices: Seq(Devices) \ {<<>>}, risk: Levels, emergency: BOOLEAN]

PolicyType == [auto: BOOLEAN, sod: BOOLEAN, approvers: SUBSET Users]

ASSUME ContentsAssumption   == Contents \subseteq ContentType
ASSUME RiskTableAssumption  == SystemRisk \in [Payloads -> Levels]
ASSUME PoliciesAssumption   == PolicyTables \subseteq [Levels -> PolicyType \cup {NoPolicy}]
ASSUME ActiveAssumption     == ActiveSets \subseteq SUBSET Devices
ASSUME SentinelAssumption   == NoPolicy \notin PolicyType
ASSUME BoundsAssumption     == ApprovalTTL \in Nat /\ MaxNow \in Nat /\ MaxRequests \in Nat

VARIABLES
  task,      \* the row of command_tasks, or NoTask
  created,   \* has the row ever existed?
  execs,     \* the rows of command_executions: id -> [device, status]
  nextExec,  \* ids are ULIDs: unique and growing
  policy,    \* what FindPolicy returns for a level
  active,    \* the devices whose status is active
  now,       \* the wall clock
  pc,        \* per slot: the database call it makes next
  copy,      \* per slot: its copy of the task row
  todo,      \* per slot: the devices its loop has still to treat, in their order
  ecopy,     \* per slot: its copy of an execution row
  requests,  \* bookkeeping of the bound MaxRequests
  verdict,   \* per slot: what updateTaskStatus made of the executions
  commands,  \* command.execute events on their way to a device
  results,   \* command.result events on their way to platform-api
  grants,    \* history: every decision that lets a content be executed
  seen,      \* history: every policy table that was ever in force
  ran        \* history: what the devices executed

dbVars   == <<task, created, execs, nextExec>>
envVars  == <<policy, active, now, seen>>
slotVars == <<pc, copy, todo, ecopy, verdict, requests>>
netVars  == <<commands, results>>
vars     == <<dbVars, envVars, slotVars, netVars, grants, ran>>

Statuses == {"draft", "pending_approval", "approved", "denied", "executing",
             "partial_done", "completed", "failed", "expired", "cancelled"}

ExecStatuses == {"pending", "sent", "succeeded", "failed", "skipped"}

\* The fields the handlers decide on.  A draft's own deadline is read by nobody.
Rows == [status: Statuses, content: ContentType, effective: Levels, creator: Users,
         approvers: SUBSET Users, expiresAt: Nat, archived: BOOLEAN]

ExecRows == [device: Devices, status: ExecStatuses]
ExecCopies == [id: Nat \ {0}, device: Devices, status: ExecStatuses]

\* place: what the loop that sent the command had left to do, which tells two of one
\* execution apart.
Messages == [exec: Nat \ {0}, payload: Payloads, device: Devices, place: Nat]
Results == [exec: Nat \ {0}, status: {"succeeded", "failed"}, place: Nat]

\* A decision: a submitter whose task needs no human, or an approver, whom a policy that
\* could be read would have refused if it was unread.
Grants == [as: {"submitter", "approver"}, by: Users, creator: Users, content: ContentType,
           unread: BOOLEAN]

\* The database call a slot makes next; "idle" is a free slot.
Steps == {"idle", "delete_execs", "create_execs", "save", "save_dispatch",
          "remove_execs", "remove_task", "dispatch", "save_sent", "send",
          "save_skip", "save_result", "list", "get"}

Verdicts == {"none", "running", "partial_done", "failed", "completed"}

-----------------------------------------------------------------------------
(* Risk and approval routing *)

EffectiveRisk(user, system) == IF system > user THEN system ELSE user

RiskOf(c) == EffectiveRisk(c.risk, SystemRisk[c.payload])

\* An emergency needs its own permission, which no other permission replaces.
ShouldBypass(u, c) ==
  IF c.emergency THEN u \in EmergencyHolders ELSE u \in BypassHolders

AutoApproves(pol) == pol # NoPolicy /\ pol.auto

ApproversOf(pol) == IF pol = NoPolicy THEN {} ELSE pol.approvers

TargetsValid(c) == Range(c.devices) \subseteq active

\* What FindPolicy gives the handlers, who take an error for no policy.
PolicyRead(level) == {policy[level]} \cup (IF MayFail THEN {NoPolicy} ELSE {})

\* Whether the permission to bypass is found; a lookup that fails counts as no.
BypassRead(u, c) == {ShouldBypass(u, c)} \cup (IF MayFail THEN {FALSE} ELSE {})

NeedsNoHuman(bypass, pol) == bypass \/ AutoApproves(pol)

\* The row written for content c: approved at once, or pending for the approvers
\* the policy of its risk names.
Routed(row, c, bypass, pol) ==
  LET direct == NeedsNoHuman(bypass, pol)
  IN  [row EXCEPT !.content   = c,
                  !.effective = RiskOf(c),
                  !.approvers = IF direct THEN {} ELSE ApproversOf(pol),
                  !.expiresAt = now + ApprovalTTL,
                  !.status    = IF direct THEN "approved" ELSE "pending_approval"]

CanAct(u, row) == u \in SuperAdmins \/ u \in row.approvers

\* ApproveTask's separation of duty, by the policy it reads at that moment.
SeparationOK(u, row, pol) ==
  ~(u \notin SuperAdmins /\ u = row.creator /\ pol # NoPolicy /\ pol.sod)

-----------------------------------------------------------------------------
(* Slots *)

Init ==
  /\ task = NoTask
  /\ created = FALSE
  /\ execs = [i \in {} |-> NoExec]
  /\ nextExec = 1
  /\ policy \in PolicyTables
  /\ seen = {policy}
  /\ active \in ActiveSets
  /\ now = 0
  /\ pc = [h \in Handlers |-> "idle"]
  /\ copy = [h \in Handlers |-> NoTask]
  /\ todo = [h \in Handlers |-> <<>>]
  /\ ecopy = [h \in Handlers |-> NoExec]
  /\ verdict = [h \in Handlers |-> "none"]
  /\ requests = 0
  /\ commands = {}
  /\ results = {}
  /\ grants = {}
  /\ ran = {}

Goto(h, step)   == pc' = [pc EXCEPT ![h] = step]
Load(h, row)    == copy' = [copy EXCEPT ![h] = row]
Left(h, devs)   == todo' = [todo EXCEPT ![h] = devs]
LoadExec(h, e)  == ecopy' = [ecopy EXCEPT ![h] = e]

\* A slot that ends forgets its local state.
Finish(h) ==
  /\ Goto(h, "idle")
  /\ Load(h, NoTask)
  /\ Left(h, <<>>)
  /\ LoadExec(h, NoExec)
  /\ verdict' = [verdict EXCEPT ![h] = "none"]

\* A request whose first read passed its checks goes on to step with row as its
\* copy and devs as its device list.
Start(h, step, row, devs) ==
  /\ Goto(h, step)
  /\ Load(h, row)
  /\ Left(h, devs)
  /\ requests' = requests + 1
  /\ UNCHANGED <<ecopy, verdict, dbVars, envVars, netVars, ran>>

-----------------------------------------------------------------------------
(* Requests: each checks the row it reads, decides, and leaves the writes to *)
(* the steps of its slot                                                     *)

\* CreateTask validates the targets and inserts the draft: a single write.
CreateTask(u, c) ==
  /\ ~created
  /\ TargetsValid(c)
  /\ task' = [status |-> "draft", content |-> c, effective |-> RiskOf(c), creator |-> u,
              approvers |-> {}, expiresAt |-> 0, archived |-> FALSE]
  /\ created' = TRUE
  /\ UNCHANGED <<execs, nextExec, envVars, slotVars, netVars, grants, ran>>

\* A slot that is free, and a row of one of these statuses to work on.
Accepts(h, statuses) ==
  /\ requests < MaxRequests
  /\ pc[h] = "idle"
  /\ task # NoTask
  /\ task.status \in statuses

Expired == now > task.expiresAt

Decide(as, u, c, unread) ==
  grants' = grants \cup {[as |-> as, by |-> u, creator |-> task.creator, content |-> c,
                          unread |-> unread]}

\* What SubmitTask and UpdateTask share: rebuild the executions, then save the
\* routed row, and dispatch it when no human has to approve.
Route(h, u, c) ==
  /\ TargetsValid(c)
  /\ \E pol \in PolicyRead(RiskOf(c)), bypass \in BypassRead(u, c) :
       /\ Start(h, "delete_execs", Routed(task, c, bypass, pol), c.devices)
       /\ IF NeedsNoHuman(bypass, pol) THEN Decide("submitter", u, c, FALSE)
          ELSE UNCHANGED grants

BeginSubmit(h, u) ==
  /\ Accepts(h, {"draft"})
  /\ u = task.creator
  /\ Route(h, u, task.content)

BeginUpdateDraft(h, u, c) ==
  /\ Accepts(h, {"draft"})
  /\ u = task.creator
  /\ TargetsValid(c)
  /\ Start(h, "save",
           [task EXCEPT !.content = c, !.effective = RiskOf(c), !.approvers = {}, !.expiresAt = 0],
           <<>>)
  /\ UNCHANGED grants

\* UpdateTask and ApproveTask notice an overdue approval, DenyTask and CancelTask
\* do not; nothing else in the program expires a command task.
Expire(h) ==
  /\ Expired
  /\ Start(h, "save", [task EXCEPT !.status = "expired"], <<>>)
  /\ UNCHANGED grants

BeginUpdatePending(h, u, c) ==
  /\ Accepts(h, {"pending_approval"})
  /\ u = task.creator
  /\ IF Expired THEN Expire(h) ELSE Route(h, u, c)

\* Mutant: the status of the task is not checked.
BeginApproveAnyStatus(h, u) ==
  /\ Accepts(h, Statuses)
  /\ CanAct(u, task)
  /\ SeparationOK(u, task, policy[task.effective])
  /\ Start(h, "save_dispatch", [task EXCEPT !.status = "approved"], <<>>)
  /\ Decide("approver", u, task.content, FALSE)

BeginApprove(h, u) ==
  /\ Accepts(h, {"pending_approval"})
  /\ \/ Expire(h)
     \/ /\ ~Expired
        /\ CanAct(u, task)
        /\ \E pol \in PolicyRead(task.effective) : SeparationOK(u, task, pol)
        /\ TargetsValid(task.content)
        /\ Start(h, "save_dispatch", [task EXCEPT !.status = "approved"], <<>>)
        /\ Decide("approver", u, task.content,
                  ~SeparationOK(u, task, policy[task.effective]))

BeginDeny(h, u) ==
  /\ Accepts(h, {"pending_approval"})
  /\ CanAct(u, task)
  /\ Start(h, "save", [task EXCEPT !.status = "denied"], <<>>)
  /\ UNCHANGED grants

\* Mutant: a dispatched task can be cancelled.
BeginCancelLate(h, u) ==
  /\ Accepts(h, {"draft", "pending_approval", "approved", "executing"})
  /\ u = task.creator
  /\ Start(h, "save", [task EXCEPT !.status = "cancelled"], <<>>)
  /\ UNCHANGED grants

BeginCancel(h, u) ==
  /\ Accepts(h, {"draft", "pending_approval"})
  /\ u = task.creator
  /\ Start(h, "save", [task EXCEPT !.status = "cancelled"], <<>>)
  /\ UNCHANGED grants

\* DeleteTask removes what never ran and archives the rest.
BeginDelete(h, u) ==
  /\ Accepts(h, Statuses)
  /\ u = task.creator
  /\ IF task.status \in {"draft", "pending_approval", "denied", "cancelled"}
     THEN Start(h, "remove_execs", task, <<>>)
     ELSE /\ ~task.archived
          /\ Start(h, "save", [task EXCEPT !.archived = TRUE], <<>>)
  /\ UNCHANGED grants

\* HandleExecutionResult loads the execution and overwrites its status, whatever
\* that was.
BeginResult(h, r) ==
  /\ pc[h] = "idle"
  /\ r \in results
  /\ results' = results \ {r}
  /\ r.exec \in DOMAIN execs
  /\ Goto(h, "save_result")
  /\ LoadExec(h, [id |-> r.exec, device |-> execs[r.exec].device, status |-> r.status])
  /\ UNCHANGED <<copy, todo, verdict, requests, dbVars, envVars, commands, grants, ran>>

\* The result of an execution that was deleted meanwhile is refused.
RefuseResult(r) ==
  /\ r \in results
  /\ r.exec \notin DOMAIN execs
  /\ results' = results \ {r}
  /\ UNCHANGED <<dbVars, envVars, slotVars, commands, grants, ran>>

-----------------------------------------------------------------------------
(* The writes of a slot *)

\* gorm's Save writes every column, and inserts the row if it is gone.
SaveExecRow(e) ==
  execs' = [i \in DOMAIN execs \cup {e.id} |->
              IF i = e.id THEN [device |-> e.device, status |-> e.status] ELSE execs[i]]

At(h, step) == pc[h] = step /\ UNCHANGED <<envVars, grants, ran, created, requests>>

DeleteExecs(h) ==
  /\ At(h, "delete_execs")
  /\ execs' = [i \in {} |-> NoExec]
  /\ Goto(h, "create_execs")
  /\ UNCHANGED <<task, nextExec, copy, todo, ecopy, verdict, netVars>>

\* One execution for each place on the list.
CreateExec(h) ==
  /\ At(h, "create_execs")
  /\ todo[h] # <<>>
  /\ SaveExecRow([id |-> nextExec, device |-> Head(todo[h]), status |-> "pending"])
  /\ nextExec' = nextExec + 1
  /\ Left(h, Tail(todo[h]))
  /\ Goto(h, IF Tail(todo[h]) # <<>> THEN "create_execs"
             ELSE IF copy[h].status = "approved" THEN "save_dispatch" ELSE "save")
  /\ UNCHANGED <<task, copy, ecopy, verdict, netVars>>

\* The last write of a request.
SaveTask(h) ==
  /\ At(h, "save")
  /\ task' = copy[h]
  /\ Finish(h)
  /\ UNCHANGED <<execs, nextExec, netVars>>

\* The write of an approved row, after which the request answers and its slot goes
\* on as the goroutine dispatchToDevices, with the row it has in memory.
SaveAndDispatch(h) ==
  /\ At(h, "save_dispatch")
  /\ task' = copy[h]
  /\ Goto(h, "dispatch")
  /\ Left(h, copy[h].content.devices)
  /\ UNCHANGED <<execs, nextExec, copy, ecopy, verdict, netVars>>

RemoveExecs(h) ==
  /\ At(h, "remove_execs")
  /\ execs' = [i \in {} |-> NoExec]
  /\ Goto(h, "remove_task")
  /\ UNCHANGED <<task, nextExec, copy, todo, ecopy, verdict, netVars>>

RemoveTask(h) ==
  /\ At(h, "remove_task")
  /\ task' = NoTask
  /\ Finish(h)
  /\ UNCHANGED <<execs, nextExec, netVars>>

-----------------------------------------------------------------------------
(* dispatchToDevices *)

ExecsOf(d) == {i \in DOMAIN execs : execs[i].device = d}

\* Mutant: a device without an execution is not passed over.
PickDeviceUnchecked(h) ==
  LET d == Head(todo[h]) IN
  /\ At(h, "dispatch")
  /\ todo[h] # <<>>
  /\ Left(h, Tail(todo[h]))
  /\ Goto(h, "save_sent")
  /\ LoadExec(h, [id |-> IF ExecsOf(d) = {} THEN 0 ELSE CHOOSE i \in ExecsOf(d) : TRUE,
                  device |-> d, status |-> "sent"])
  /\ UNCHANGED <<task, execs, nextExec, copy, verdict, netVars>>

\* Whether the device is found and active; a lookup that fails counts as no.
LookedUp(d) == {d \in active} \cup (IF MayFail THEN {FALSE} ELSE {})

\* The next device of the loop: its oldest execution is marked sent, or skipped
\* when the device is no longer active; without an execution it is passed over.
PickDevice(h) ==
  LET d == Head(todo[h]) IN
  /\ At(h, "dispatch")
  /\ todo[h] # <<>>
  /\ Left(h, Tail(todo[h]))
  /\ IF ExecsOf(d) = {}
     THEN UNCHANGED <<pc, ecopy>>
     ELSE \E i \in ExecsOf(d), found \in LookedUp(d) :
            /\ \A j \in ExecsOf(d) : i <= j
            /\ Goto(h, IF found THEN "save_sent" ELSE "save_skip")
            /\ LoadExec(h, [id |-> i, device |-> d,
                            status |-> IF found THEN "sent" ELSE "skipped"])
  /\ UNCHANGED <<task, execs, nextExec, copy, verdict, netVars>>

SaveSent(h) ==
  /\ At(h, "save_sent")
  /\ SaveExecRow(ecopy[h])
  /\ Goto(h, "send")
  /\ UNCHANGED <<task, nextExec, copy, todo, ecopy, verdict, netVars>>

\* Mutant: the text is taken from the row as it is now.
CommandOfRow(h) ==
  [exec |-> ecopy[h].id,
   payload |-> IF task = NoTask THEN copy[h].content.payload ELSE task.content.payload,
   device |-> ecopy[h].device, place |-> Len(todo[h])]

CommandOf(h) == [exec |-> ecopy[h].id, payload |-> copy[h].content.payload,
                 device |-> ecopy[h].device, place |-> Len(todo[h])]

\* The gateway takes the command.
Send(h) ==
  /\ At(h, "send")
  /\ commands' = commands \cup {CommandOf(h)}
  /\ Goto(h, "dispatch")
  /\ LoadExec(h, NoExec)
  /\ UNCHANGED <<task, execs, nextExec, copy, todo, verdict, results>>

\* The call to the gateway returns an error, which does not say whether the command
\* went out: it may have been refused, or the answer was late.
SendError(h) ==
  /\ MayTimeOut
  /\ At(h, "send")
  /\ commands' \in {commands, commands \cup {CommandOf(h)}}
  /\ Goto(h, "save_skip")
  /\ LoadExec(h, [ecopy[h] EXCEPT !.status = "skipped"])
  /\ UNCHANGED <<task, execs, nextExec, copy, todo, verdict, results>>

\* Mutant: the skip is not stored.
SaveSkipNot(h) ==
  /\ At(h, "save_skip")
  /\ Goto(h, "dispatch")
  /\ LoadExec(h, NoExec)
  /\ UNCHANGED <<task, execs, nextExec, copy, todo, verdict, netVars>>

SaveSkip(h) ==
  /\ At(h, "save_skip")
  /\ SaveExecRow(ecopy[h])
  /\ Goto(h, "dispatch")
  /\ LoadExec(h, NoExec)
  /\ UNCHANGED <<task, nextExec, copy, todo, verdict, netVars>>

-----------------------------------------------------------------------------
(* HandleExecutionResult and updateTaskStatus *)

\* Mutant: a result does not lead to updateTaskStatus.
SaveResultOnly(h) ==
  /\ At(h, "save_result")
  /\ SaveExecRow(ecopy[h])
  /\ Finish(h)
  /\ UNCHANGED <<task, nextExec, netVars>>

SaveResult(h) ==
  /\ At(h, "save_result")
  /\ SaveExecRow(ecopy[h])
  /\ Goto(h, "list")
  /\ LoadExec(h, NoExec)
  /\ UNCHANGED <<task, nextExec, copy, todo, verdict, netVars>>

\* What the executions add up to.
Summary ==
  LET statuses == {execs[i].status : i \in DOMAIN execs}
  IN  IF statuses \cap {"pending", "sent"} # {} THEN "running"
      ELSE IF {"failed", "succeeded"} \subseteq statuses THEN "partial_done"
      ELSE IF "failed" \in statuses THEN "failed"
      ELSE "completed"

DispatchDone(h) == pc[h] = "dispatch" /\ todo[h] = <<>>

ListExecs(h) ==
  /\ DispatchDone(h) \/ pc[h] = "list"
  /\ verdict' = [verdict EXCEPT ![h] = Summary]
  /\ Goto(h, "get")
  /\ Load(h, NoTask)
  /\ UNCHANGED <<todo, ecopy, requests, dbVars, envVars, netVars, grants, ran>>

\* An unfinished task becomes "executing" if it is "approved"; a finished one takes
\* the verdict whatever its status is.
GetTask(h) ==
  /\ At(h, "get")
  /\ IF task = NoTask \/ (verdict[h] = "running" /\ task.status # "approved")
     THEN Finish(h)
     ELSE /\ Goto(h, "save")
          /\ Load(h, [task EXCEPT !.status = IF verdict[h] = "running" THEN "executing"
                                             ELSE verdict[h]])
          /\ UNCHANGED <<todo, ecopy, verdict>>
  /\ UNCHANGED <<task, execs, nextExec, netVars>>

-----------------------------------------------------------------------------
(* Devices, network, administrators, failures *)

RunCommand(m) ==
  /\ m \in commands
  /\ commands' = commands \ {m}
  /\ ran' = ran \cup {m}
  /\ \E s \in {"succeeded", "failed"} :
       results' = results \cup {[exec |-> m.exec, status |-> s, place |-> m.place]}
  /\ UNCHANGED <<dbVars, envVars, slotVars, grants>>

LoseCommand(m) ==
  /\ MayLose
  /\ m \in commands
  /\ commands' = commands \ {m}
  /\ UNCHANGED <<dbVars, envVars, slotVars, results, grants, ran>>

LoseResult(r) ==
  /\ MayLose
  /\ r \in results
  /\ results' = results \ {r}
  /\ UNCHANGED <<dbVars, envVars, slotVars, commands, grants, ran>>

SetPolicy(table) ==
  /\ table # policy
  /\ policy' = table
  /\ seen' = seen \cup {table}
  /\ UNCHANGED <<active, now, dbVars, slotVars, netVars, grants, ran>>

SetActive(devs) ==
  /\ devs # active
  /\ active' = devs
  /\ UNCHANGED <<policy, now, seen, dbVars, slotVars, netVars, grants, ran>>

Tick ==
  /\ now < MaxNow
  /\ now' = now + 1
  /\ UNCHANGED <<policy, active, seen, dbVars, slotVars, netVars, grants, ran>>

\* A call to the database fails.  A request gives up where it is; the dispatch
\* goroutine ignores the error and goes on.
FailedCall(h) ==
  /\ MayFail
  /\ \/ /\ \/ pc[h] \in {"delete_execs", "create_execs", "save", "save_dispatch", "remove_execs",
                         "remove_task", "save_result", "list", "get"}
           \/ DispatchDone(h)
        /\ Finish(h)
     \/ /\ pc[h] = "dispatch"
        /\ todo[h] # <<>>
        /\ Left(h, Tail(todo[h]))
        /\ UNCHANGED <<pc, copy, ecopy, verdict>>
     \/ /\ pc[h] \in {"save_sent", "save_skip"}
        /\ Goto(h, IF pc[h] = "save_sent" THEN "send" ELSE "dispatch")
        /\ UNCHANGED <<copy, todo, ecopy, verdict>>
  /\ UNCHANGED <<requests, dbVars, envVars, netVars, grants, ran>>

\* platform-api restarts: what the slots hold in memory is gone.
Crash ==
  /\ MayCrash
  /\ \E h \in Handlers : pc[h] # "idle"
  /\ pc' = [h \in Handlers |-> "idle"]
  /\ copy' = [h \in Handlers |-> NoTask]
  /\ todo' = [h \in Handlers |-> <<>>]
  /\ ecopy' = [h \in Handlers |-> NoExec]
  /\ verdict' = [h \in Handlers |-> "none"]
  /\ UNCHANGED <<requests, dbVars, envVars, netVars, grants, ran>>

-----------------------------------------------------------------------------
(* Specification *)

Request(h, u) ==
  \/ BeginSubmit(h, u)
  \/ \E c \in Contents : BeginUpdateDraft(h, u, c)
  \/ \E c \in Contents : BeginUpdatePending(h, u, c)
  \/ BeginApprove(h, u)
  \/ BeginDeny(h, u)
  \/ BeginCancel(h, u)
  \/ BeginDelete(h, u)

\* What a slot does once its request has been accepted.
SlotStep(h) ==
  \/ DeleteExecs(h)
  \/ CreateExec(h)
  \/ SaveTask(h)
  \/ SaveAndDispatch(h)
  \/ RemoveExecs(h)
  \/ RemoveTask(h)
  \/ PickDevice(h)
  \/ SaveSent(h)
  \/ Send(h)
  \/ SendError(h)
  \/ SaveSkip(h)
  \/ SaveResult(h)
  \/ ListExecs(h)
  \/ GetTask(h)
  \/ FailedCall(h)

TakeResult == \E h \in Handlers, r \in results : BeginResult(h, r)

RunSome == \E m \in commands : RunCommand(m)

Environment ==
  \/ \E u \in Users, c \in Contents : CreateTask(u, c)
  \/ \E r \in results : RefuseResult(r)
  \/ \E m \in commands : LoseCommand(m)
  \/ \E r \in results : LoseResult(r)
  \/ \E table \in PolicyTables : SetPolicy(table)
  \/ \E devs \in ActiveSets : SetActive(devs)
  \/ Tick
  \/ Crash

Next ==
  \/ \E h \in Handlers, u \in Users : Request(h, u)
  \/ \E h \in Handlers : SlotStep(h)
  \/ TakeResult
  \/ RunSome
  \/ Environment

Spec == Init /\ [][Next]_vars

\* The code runs on once started, a device that has a command runs it, and a result
\* that waits while slots come free is taken.  Nobody is obliged to make a request.
FairSpec ==
  /\ Spec
  /\ \A h \in Handlers : WF_vars(SlotStep(h))
  /\ WF_vars(RunSome)
  /\ SF_vars(TakeResult)
  /\ WF_vars(Tick)

-----------------------------------------------------------------------------
(* Properties *)

AllIdle == \A h \in Handlers : pc[h] = "idle"

\* The rows, the slots' copies and the messages have the types of the code.
TypeOK ==
  /\ task \in Rows \cup {NoTask}
  /\ created \in BOOLEAN
  /\ nextExec \in Nat \ {0}
  /\ DOMAIN execs \subseteq 1 .. nextExec
  /\ \A i \in DOMAIN execs : execs[i] \in ExecRows
  /\ policy \in PolicyTables
  /\ seen \subseteq PolicyTables
  /\ active \in ActiveSets
  /\ now \in Nat
  /\ pc \in [Handlers -> Steps]
  /\ copy \in [Handlers -> Rows \cup {NoTask}]
  /\ todo \in [Handlers -> Seq(Devices)]
  /\ ecopy \in [Handlers -> ExecCopies \cup {NoExec}]
  /\ verdict \in [Handlers -> Verdicts]
  /\ requests \in 0 .. MaxRequests
  /\ commands \subseteq Messages
  /\ results \subseteq Results
  /\ grants \subseteq Grants
  /\ ran \subseteq Messages

\* The policies there were for the risk of what was decided on.
InForce(g) == {table[RiskOf(g.content)] : table \in seen}

\* A decision on somebody else's task, or one that separation of duty did not forbid.
DutiesApart(g) == g.by # g.creator \/ \E pol \in InForce(g) : pol = NoPolicy \/ ~pol.sod

\* Whether a decision was the decider's to make: a submitter needs the permission
\* that fits, or an automatic policy for the risk of the content; an approver is a
\* super administrator, or is named by a policy for that risk and is not deciding on
\* a task of their own that separation of duty forbids, as far as that could be read.
Entitled(g) ==
  \/ /\ g.as = "submitter"
     /\ \/ g.by \in IF g.content.emergency THEN EmergencyHolders ELSE BypassHolders
        \/ \E pol \in InForce(g) : pol # NoPolicy /\ pol.auto
  \/ /\ g.as = "approver"
     /\ \/ g.by \in SuperAdmins
        \/ /\ \E pol \in InForce(g) : pol # NoPolicy /\ g.by \in pol.approvers
           /\ DutiesApart(g) \/ g.unread

\* Everything a device executes is a command that someone entitled to do so decided
\* on, with that very text and for that very device, however the requests of several
\* users interleave, fail or crash: dispatchToDevices sends the row its request
\* decided on, never one read again later.
AuthorisedRuns ==
  \A m \in ran : \E g \in grants :
    /\ Entitled(g)
    /\ m.payload = g.content.payload
    /\ m.device \in Range(g.content.devices)

\* The requests that end a task before it ran leave nothing behind that can still
\* run: a draft, a pending, denied, cancelled or expired task has no command on its
\* way and never had one (the handlers' checks of the status, one request at a time).
WithdrawnNeverRuns ==
  task # NoTask /\ task.status \in {"draft", "pending_approval", "denied", "cancelled", "expired"}
    => commands = {} /\ ran = {}

\* A list that names each device once.
EachOnce(c) == IsInjective(c.devices)

\* No device that has executed the task is sent it again, unless somebody decided on a list
\* that names a device twice.
NeverRunsTwice ==
  \A m \in commands, n \in ran : m.device = n.device => \E g \in grants : ~EachOnce(g.content)

\* Whenever no request is being handled, the status of a dispatched task is what its
\* executions add up to, whatever was skipped, timed out or reported late.
SummaryCorrect ==
  AllIdle /\ task # NoTask
          /\ task.status \in {"approved", "executing", "partial_done", "completed", "failed"}
    => task.status = IF Summary = "running" THEN "executing" ELSE Summary

\* A task that was denied is not executed.
DeniedNeverRuns == task # NoTask /\ task.status = "denied" => ran = {}

\* An approved task that names each device once reaches a final summary: each device is
\* served or skipped, each result arrives and the last one closes the task.
Concluded ==
  task # NoTask /\ task.status \in {"approved", "executing"} /\ EachOnce(task.content)
    ~> task # NoTask /\ task.status \in {"partial_done", "completed", "failed"}

=============================================================================
