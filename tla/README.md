# EnvNexus in TLA+

EnvNexus executes commands and remediations on managed endpoints: a control
plane (`services/platform-api`) decides what may run, a relay
(`services/session-gateway`) carries it to the devices, an agent
(`apps/agent-core`) runs it, and background workers (`services/job-runner`)
expire and build things. What makes the system correct is less in any function
than in what happens between them: rows that are read, worked on and written
back whole while others do the same; goroutines that share channels; calls whose
answer gets lost after they have had their effect.

This directory holds

- three large specifications, `CommandTask`, `SessionGateway` and `IdeAuthorization`,
  each of one protocol of the system, with one action per step of the code;
- thirty-one smaller ones, of the other components of the platform, the agent, the desktop
  and the workers, each a module of its own with the same grain of steps;
- small instances of them (`MC*.tla` and the `.cfg` files), which TLC explores; the thirty-one
  share one, `MCComponents`;
- proofs (`*Proofs.tla`), which TLAPS checks for every value of the constants: of all safety
  properties of the three, of all but one of those of the smaller ones, and of a refinement;
- `PROJECT.json`, which ties every definition to the lines it models and lists
  the runs, theorems, findings and hazards.

Contents: [the system](#1-the-system), [the modules](#2-the-modules),
[the runs](#3-the-runs), [findings](#4-where-code-and-documents-disagree),
[the proofs](#5-the-proofs), [what is not modelled](#6-what-is-not-modelled),
[the plan](#7-the-plan).

To check a module: `tlc -config Ide.cfg MCIdeAuthorization`; to check a proof:
`tlapm IdeAuthorizationProofs.tla`.

## 1. The system

Paths below are relative to `src/`; `PA` stands for
`services/platform-api/internal`, `AG` for `apps/agent-core/internal`.

### How the parts interact

    console-web, IDE extension, Feishu bot
          |  HTTP (JWT)                         job-runner
          v                                         |
    platform-api ------------- MySQL ---------------+   (rows are the only
          |  HTTP: events for devices                    thing they share)
          v
    session-gateway <--Redis pub/sub--> session-gateway
          |  WebSocket, one per device
          v
    agent-core  <--HTTP on localhost-->  agent-desktop
          |  HTTP: enrolment, activation, heartbeats, audit, approvals, updates
          v
    platform-api

- `platform-api` handles each request in a goroutine of its own. Repositories
  wrap single SQL statements; services read a row, check it, change their copy
  and write it back with GORM's `Save`, which writes every column and inserts the
  row if it is gone. There is no transaction around read and write and no version
  column, so requests interleave between any two statements.
- `session-gateway` keeps the connected devices of one process in a map under a
  mutex, with a reader and a writer goroutine per connection. Several processes
  share events over Redis pub/sub, which keeps nothing for a subscriber that is
  away.
- `agent-core` dials the gateway for ever, runs what it is sent, and calls
  `platform-api` for everything else.
- `job-runner` polls the database on timers and updates rows that
  `platform-api` owns.

### Inventory

For every part: the state it keeps, its operations, what is hard about it and
what makes it correct. The last column is where it is treated: a module, or the
section on [the plan](#7-the-plan) or on [what is left out](#6-what-is-not-modelled).

| part | state | operations | hard | correct when | here |
|---|---|---|---|---|---|
| command tasks (`PA/service/command/command_service.go`) | rows of tasks and executions | create, submit, update, approve, deny, cancel, delete, dispatch, take a result | interleaved read-and-save; dispatch in a goroutine; late answers; restarts | only what was decided on runs; a withdrawn task never runs; the summary agrees with the executions | `CommandTask` |
| approval policies (`approval_policy_service.go`) | a policy per risk level | CRUD, lookup | changed while a task waits | a decision is taken by someone the policy names | `CommandTask` |
| batch runs (`batch_service.go`) | row of the batch, map of running ones | dispatch, run wave by wave, cancel | cancellation, timeouts, late results | a run ends, and its row claims no success that did not happen | `BatchRun`, `DeviceGroups` |
| drafts of commands (`nl_generator.go`, `nl_target.go`) | none | pick a model, ask, retry, find the line | free text, cut short, with thoughts in it | a draft is a line the model said to run, in the device's syntax | `CommandDraft` |
| sessions, approval requests (`PA/service/session`) | two state machines | create, approve, deny, abort, executing, succeeded, failed | the agent, users and the expiry worker write the same rows | what is executed was approved; moves are the declared ones; nothing waits for ever | `ApprovalRequest` |
| devices, heartbeats (`PA/service/device`) | device rows | heartbeat, edit, revoke, delete | a heartbeat against a revocation | a device that is out stays out | `Enrollment` |
| IDE sign-in (`PA/service/device_auth`, `PA/middleware/ide_auth.go`) | device codes, token rows | initiate, poll, confirm, refresh, validate, revoke | polling, lost answers, rotation of tokens | tokens only after approval, once; one-time refresh | `IdeAuthorization` |
| IDE extension (`apps/ide-extension`) | secrets, a polling interval, synchronised files | login, tick, sync, deactivate | callbacks of an earlier login | it polls while its login waits; it holds what the server has stored | `IdeAuthorization`, `Marketplace` |
| device binding (`PA/service/device_binding`) | bindings, counts per package | register, activate, bind, unbind, heartbeat, migrate | check and increment in two calls | the count is that of the active bindings and within the quota; a device is bound once | `DeviceBinding`, `BindingLife` |
| enrolment (`PA/service/enrollment`) | tokens with a use count | create, enrol | concurrent enrolments, lost answers | uses are devices; no more devices than `MaxUses` | `Enrollment` |
| file access (`PA/service/file_access`) | request rows | create, approve, deny, dispatch, answer, clear | as command tasks | what was sent is decided | `FileAccess` |
| users, API tokens (`PA/service/auth`, `user`, `api_token`) | account, tokens | log in, refresh, change, delete, use a token | whole rows written back by a login | an account is as its last change said; a deleted person is out | `Accounts` |
| roles (`PA/service/rbac`) | roles, bindings | seed, create, update, delete, bind | two instances seed at once; what the schema refuses | a bound role is there; the preset ones never are | `Roles` |
| packages (`PA/service/package`) | packages, build jobs | create, expire, delete | the build against deletion | what is offered is in the store | `PackageBuild`, `DeviceBinding` |
| tenants, profiles (`PA/service/tenant`, `model_profile`, `policy_profile`, `agent_profile`) | rows with versions | CRUD, pull of a configuration | whole rows written back; three lookups per pull; what the schema refuses | rows are as answered; names are once; a version tells what is in it | `TenantProfiles` |
| licences (`PA/service/license`) | rows | activate, validate, revoke | - | - | left out |
| device groups (`PA/service/device_group`) | groups, members | CRUD, pages, start of a batch | whole rows written back; pages under insertions | callers' answers come true; pages miss nothing; a task reaches its group | `DeviceGroups` |
| webhooks, notifications | - | nothing calls them | - | - | left out |
| marketplace (`PA/service/marketplace`) | items, artefacts, subscriptions | create, update, delete, sync | row and object in separate calls | an item has its artefact | `Marketplace` |
| governance rules, audit (`PA/service/governance`, `handler/agent/audit_handler.go`) | stored rules and events | write, list | - | - | `Watchlist`, `AuditTrail` |
| Feishu bot (`PA/integration/feishu`) | chat bindings, sessions | bind, unbind, talk, push | memory and Redis written apart, restarts | a chat asks its device; the asker is told | `FeishuBot` |
| session gateway (`services/session-gateway/internal/handler/ws`) | registry, channels, sockets | connect, read, write, send, publish, subscribe | channels closed by two goroutines; stale lookups; full channels; restarts | the registry holds live connections; nothing delivered twice by one process; devices come back | `SessionGateway` |
| expiry workers of job-runner | - | expire approvals, sessions, tokens, links | they write others' rows | they never undo a decision | `ApprovalRequest`, `Enrollment`, `PackageBuild` |
| claimed jobs of job-runner | job rows, archives | claim, work, conclude, retry | a crash after the claim | a job ends within its attempts; archived rows are in an archive | `PackageBuild`, `AuditTrail` |
| session client, policy engine (`AG/session`, `AG/policy`) | connections, send channel, pending approvals | connect, read, write, run, check, resolve | two writers on one channel, two decisions, a late one | the first answer decides; readers and writers do not hang | `RemoteTools` |
| diagnosis (`AG/diagnosis`) | evidence, reasoning | plan, collect, reason in rounds | arbitrary answers of the model | only tools that read run; what changes is asked | `Diagnosis` |
| agent loop (`AG/agent`, `AG/api/server.go`) | the chat | rounds, approvals, cancel, auto-approve | answers that come late or twice | what changes the device was allowed | `ChatLoop` |
| LLM router, providers (`AG/llm`) | provider list, conversation | route, fail over, convert | conversations that change provider | calls and answers stay paired | `ModelRouting` |
| watchlist (`AG/governance/watchlist`) | timers, items, alerts, score | register, sync, check, alert, score | timers armed by registrations; conditions in doubt | rules are checked, and forgotten; what is wrong shows | `Watchlist`, `RuleChecks` |
| drift detection, boot, shut-down (`AG/governance/engine.go`, `runtime`, `bootstrap`) | baselines, tasks | boot, run tasks, detect, stop | every look replaces the baseline, also one that could not be read | drifts are recorded; no task outlives the store | `AgentRuntime` |
| settings (`AG/config`, `setup`) | files, key, copies in memory | unpack, import, load, save | two processes, sources that outrank each other, a lost key | what was set and saved comes back | `AgentConfig` |
| remediation (`AG/remediation`) | plan, steps | accept, execute, roll back | a step that fails after others | order of dependencies, backwards when undone | `Remediation` |
| activation, enrolment client | files, mode | activate, poll, heartbeat | the binding changes meanwhile | a binding is noticed | `Activation`, `Enrollment` |
| updater (`AG/updater`) | program, backup, staged file | check, download, apply | a crash or an error between steps | a program is there | `SelfUpdate` |
| audit client (`AG/audit`) | the queue | report, flush | a batch that fails, lost answers | every event is on its way or stored | `AuditTrail` |
| tools (`AG/tools`) | files and services of the device | execute | executions side by side, each of several steps | what is reported as done is done | `DeviceTools` |
| agent-desktop (`apps/agent-desktop/src`) | the agent's process, a chat, an update | spawn, poll, chat, cancel, update | timers, awaited spawns, exits noticed late | one agent; the shown status follows; only a newer release is unpacked, and whole unless a write failed | `DesktopShell`, `DesktopChat`, `DesktopUpdate` |
| console-web, shared libraries, deployment | - | - | - | - | left out |

What is hard in this code and no test reaches is listed, line by line, under
`hazards` in `PROJECT.json`; a hazard names the properties below that would catch
it.

## 2. The modules

In all modules a step of the specification is the code between two points
where another process can get in: two SQL statements, two critical sections, two
operations on a channel, socket or file, two turns of an event loop.
What a handler read before such a point and uses after it is a variable of its
own (`copy`, `ecopy`, `holds`, `call`), so it may be out of date in the model
whenever it may be in the code. Data is cut down to what decisions depend on: a
command text is a model value with a risk, a token is a number.

### CommandTask: one command task

`PA/service/command/command_service.go` with its repositories, the gateway client
and the part of the agent that runs commands. The variables are

- the database: `task`, the row of `command_tasks`; `execs` and `nextExec`, the
  rows of `command_executions` by id;
- the surroundings: `policy` (what `FindPolicy` returns for each level), `active`
  (devices that are active), the clock `now`;
- per slot, a request or the goroutine it leaves behind: `pc`, the database call it
  makes next, and its copies `copy`, `todo`, `ecopy`, `verdict`;
- messages on their way: `commands` to devices, `results` from them;
- history: `grants` (decisions that let a content run, and whose they were), `seen`
  (policies that were ever in force), `ran` (what devices executed).

| code | actions |
|---|---|
| `CreateTask` | `CreateTask` (one insert) |
| `SubmitTask`, `UpdateTask` | `BeginSubmit`, `BeginUpdateDraft`, `BeginUpdatePending` (read, checks, risk, routing); `DeleteExecs`, `CreateExec`, `SaveTask` or `SaveAndDispatch` |
| `ApproveTask` | `BeginApprove`, with separation of duty and the deadline; `SaveAndDispatch` |
| `DenyTask`, `CancelTask` | `BeginDeny`, `BeginCancel`; `SaveTask` |
| `DeleteTask` | `BeginDelete`; `RemoveExecs`, `RemoveTask`, or `SaveTask` for an archived one |
| `dispatchToDevices` | `PickDevice`, `SaveSent`, `Send`, `SendError`, `SaveSkip` |
| `HandleExecutionResult`, `updateTaskStatus` | `BeginResult`, `RefuseResult`, `SaveResult`, `ListExecs`, `GetTask`, `SaveTask` |
| `handleCommandExecute` of the agent | `RunCommand` |
| failures | `FailedCall` (with what the code does after each error), `Crash`, `LoseCommand`, `LoseResult` |
| administrators, time | `SetPolicy`, `SetActive`, `Tick` |

The targets are a list, as in the code: nothing sees to it that a device is named once
(`EachOnce`), there is an execution for each place of the list, and the loop finds the
oldest execution of a device each time it comes to it. `place`, what the loop had left to
do when it sent a command, tells two commands of one execution apart. A policy that cannot
be read counts as no policy (`PolicyRead`), and a permission as not held (`BypassRead`); a
grant notes whether separation of duty would have refused it had its policy been read.

Abstractions: one task (tasks share no row); payload, title and target list are one
`content`; listing, counting and notifications change nothing.

### SessionGateway: connections and the way down to a device

`services/session-gateway/internal/handler/ws`. The variables are the processes
(`alive`), their `registry`, the connections, numbered as they are made (`home`,
`owner`, `reader`, `writer`, `sock`, `open`, `chan`), the connection each `agent`
holds at its end, the HTTP requests that bring events (`request`, `via`, `holds`),
Redis (`bus`, `subHolds`) and, as history, what devices `received`.

| code | actions |
|---|---|
| `HandleAgentConnection` | `Dial` (upgrade), `Register` (its critical section) |
| `readPump` | `ReaderLeaves` (unregisters under the lock), `ReaderCloses` (closes channel and socket without it), `AnswerPing` |
| `writePump` | `WriterWrites`, `WriterStops`, `WriteTimesOut` |
| `HandleDeviceEvent`, `SendToDevice` | `Receive` (look up under the lock), `Send` (after it) |
| `PublishSessionEvent`, `subscribeLoop` | `Publish`, `SubTakes`, `SubSends` |
| the agent's `connectLoop` | `Dial`, `AgentNotices`, `AgentDrops` |
| panics, restarts | `Down` as the effect of a step, `Stop`, `Restart` |

A send on a closed channel, or its second close, is a panic. gin recovers it in an
HTTP handler, where it is the answer "failed"; in any other goroutine it ends the
process, and the step has the effect `Down`. What devices send upwards passes
through without a state of the gateway that matters here.

### IdeAuthorization: signing an IDE in

`PA/service/device_auth/service.go` with its handler and middleware, and
`apps/ide-extension/src/auth.ts` as its client. The variables are the rows (`code`
per login; `row`, the pair of tokens each row of `ide_client_tokens` stores), clocks
(`lapsed`, `stale`, `dead`), the extension (`current`, its `loginSeq`; `timer`, its
interval; `held`, its secrets), the calls under way (`call`, per slot) and history.

| code | actions |
|---|---|
| `login`, `setInterval`, `tick`, `disposeDeviceAuth` | `Login`, `StartPolling`, `Tick`, `PollAnswered`, `Deactivate` |
| `PollForTokens` | `PollReads`, `PollCreates`, `PollDeletes` |
| `ConfirmUserCode` | `Confirm`, `ConfirmReads`, `ConfirmSaves`, `ConfirmExpires`, `ConfirmDeletes` |
| `getValidAccessToken`, `RefreshTokens` | `Sync`, `RefreshReads`, `RefreshDeletes`, `RefreshSaves`, `RefreshAnswered` |
| `IdeAuth`, `ValidateIdeAccessToken` | `ValidateReads`, `ValidateSaves`, `Answered` |
| `RevokeIdeToken` | `Revoke`, `RevokeReads`, `RevokeDeletes` |
| failures, time | `Fail`, `IgnoredError` (errors the service assigns to `_`), `CodeLapses`, `AccessLapses`, `RefreshLapses` |

Abstractions: both tokens of a pair are one number, and a hash is found exactly by
the token it was made of; the three secrets of the extension are read and written
at once; pairs lapse in the order they were made, as their lifetimes are constant;
`RevokeIdeToken` is called by an administrator of the right tenant; the list of
tokens changes nothing; the branch for an authorised code without a user cannot be
reached, as `ConfirmUserCode` sets both. A caller that gives up takes its handler along
(`Fail`), because the service works under the context of the request.

### The other components

Each of the following modules is a whole specification (`Init`, `Next`, `Spec`, for some
`Fairness`) of one component, and shares no variable with another: what components do to
each other is an input here, or an action of the module that has the state it changes.
The head of each module says what is left out.

**Platform.**

| module | code | actions |
|---|---|---|
| `ApprovalRequest` | `session_service.go`, workers `approval_expiry`, `session_cleanup` | a call reads (`ApproveSession`, `ApproveTooLate`, `DenySession`, `MarkApproval...`) and saves (`UpdateApproval`, or fails); `WorkerExpiresApproval`, `ApprovalLapses` |
| `Enrollment` | `enrollment_service.go`, `token_cleanup`, the agent's `bootstrap.go`; `device_service.go` | `Boot`, `LoadIdentity`, `Enrol`, `CreateDevice`, `CountUse`, and their failures; `TokenCleanup`. The row of a device: `Heartbeat`, `UpdateDevice` (reads), `SaveDevice`, `DeleteDevice` |
| `DeviceBinding` | `device_binding_service.go`, `package_service.go` | `ActivateAuto`, `BindManual`, `UnbindDevice`, `Migrate`, `DeleteUnusedPackage` (reads); one action for each statement they are followed by |
| `BindingLife` | what `device_bindings` promises of one device code | `Bind`, `Unbind`, `Purge` |
| `Activation` | `activation.go` of the agent, `bootstrap.go` | `Install`, `StartAgent`, `ActivateAuto...`, `RegisterForBinding`, `CheckStatus`, `SendHeartbeat`; the platform's side is `BindingLife` |
| `BatchRun` | `batch_service.go` | `CreateBatchTask`, `CancelBatch`, `StartRun`, `DispatchWave`, `WaveEnds`, `CloseRun`, `RunIsLost`, answers in time and late |
| `DeviceGroups` | `device_group/service.go` and its repository | `CreateGroup`, `ReadGroup`/`SaveGroup`, `DeleteGroup`, `AddMembers`, `OpenList`/`CountGroups`/`ShowPage`, `InsertTask`/`DispatchTask`/`ListForTask`/`RunTask`/`NobodyToReach` (also when the members cannot be read) |
| `TenantProfiles` | `tenant_service.go`, the three profile services and their repositories, `lifecycle_handler.go`, the schema | `CreateModelProfile`... and the like for each kind, `LookForSlug`/`InsertTenant`, `Read...`/`SaveProfile`/`SaveTenant`/`SaveRefused`, `Delete...`, `PullAgentProfile`/`PullModelProfile`/`PullPolicyProfile` |
| `PackageBuild` | `package_build.go` of job-runner, `package_service.go`, `link_cleanup` | `CreatePackage`, the claim, build, upload and conclusion of a builder (`BuilderSteps`), `RunnerStops`, `DeletePackage`, `ExpirePackage` |
| `FileAccess` | `file_access/service.go`, the agent's handler | `ReadToApprove`, `ReadToDeny`, `ReadToAnswer`, `SaveRequest`, `SaveApproved`, `DispatchToDevice`, `FetchFile`, `ClearHistory` |
| `Marketplace` | `marketplace/service.go`, `sync.ts` | edits step by step (`PutArtefact`, `RemoveReplaced`, `SaveItem`, `DeleteRow`), `SubscribeItem`, `FetchIdeSyncManifest`, `SyncWrites` |
| `Accounts`, `Roles` | `auth_service.go`, `user_service.go`, `api_token/service.go`, `rbac_service.go` | each call as its read and its save; `SeedDefaultRoles` role by role, each insert refused by the foreign key of `tenant_id` |
| `CommandDraft` | `nl_generator.go`, `nl_target.go`, `agentprompt.go` | `GenerateCommand`, `PickModel`, `CallLLM`, `PostRefused`, `Generate` |
| `FeishuBot` | `chat_bridge.go`, `event_sink.go`, `handler.go` | `HandleMessage`, `GetBinding`, `BindChat`/`BindStore`, `HandleConversation`, `TrackSession`, `HandleEventPush`, `ChatForSession`, `PushToChat`, `Restart` |
| `AuditTrail` | `audit/client.go` of the agent, `audit_handler.go`, `audit_flush.go` | `ReportEvent`, `BeginFlush` and how it ends, `ShutDownAgent`, `SelectRows`, `UploadArchive`, `MarkArchived` |

**Agent.**

| module | code | actions |
|---|---|---|
| `RemoteTools` | `ws_client.go`, `policy/engine.go` | `Connect`, `Reconnect`, `ReadFails`, `WriterTakes`, `WriterWrites`, `PingFails`; `ToolStarted`, `Check...`, `Execute`, `Resolve`, `SendAnswer` |
| `ChatLoop` | `agent/loop.go`, `api/server.go` | `StartChat`, `LoopSteps`, `ChatApprove`, `ChatAutoApprove`, `ContextIsOver` |
| `Diagnosis` | `diagnosis/engine.go`, `complexity.go`, `ws_client.go` | one action per step of the pipeline, `IterateReasoning`, `RequestSupplementaryEvidence`, `SendApprovalRequest` |
| `ModelRouting` | `llm/router`, `llm/providers`, `bootstrap.go` | `InitLLMRouter`, `AskModel`, `SendRequest`, `ProviderFails`, `ProviderCalls`, `ToolAnswers`; one operator per conversion |
| `Watchlist` | `scheduler.go`, `manager.go`, `platform_sync.go`, `watchlist_handler.go` | `BootAgent`, `SetRule`, `FetchRules`/`ApplyRules`, `ConfirmItem`, `ReadForUpdate`/`UpdateItem`, `TimerFires`, `CheckEnds` |
| `RuleChecks` | `evaluator.go`, `builtin_rules.go`, `scheduler.go`, `manager.go`, `decomposer.go` | `RegisterBuiltin`, `SyncRule`, `ConfirmDraft`, `HandleTriggered`, `CheckIsFine`, `Decompose`; `Evaluate` and `Score` are operators |
| `AgentRuntime` | `bootstrap.go`, `runtime.go`, `governance/engine.go` | the steps of boot and shut-down; `TaskTicks`, `GetLatestBaseline`, `CaptureBaseline`, `SaveDrift` |
| `AgentConfig` | `config.go`, `crypto.go`, `setup/server.go`, `main.ts` | `Unpack`, `ImportCopies`, `ImportMerges`, `Start`, `PulledConfig`, `AppliedUpdate`, `SetUp` |
| `SelfUpdate` | `updater.go`, `lifecycle_handler.go` | `CheckForUpdate`, `BeginDownload`/`EndDownload`, `BeginApply`, `RemoveBackup`, `MoveAway`, `CopyIn`, `Restore`/`RestoreFails`, `RecordVersion`, `AgentEnds` |
| `Remediation` | `planner.go`, `dag.go`, `executor.go` | `GeneratePlan`, `RejectPlan`, `StepSucceeds`, `StepIsDeclined`, `StepFails`, `PlanIsCancelled`, `UndoStep` |
| `DeviceTools` | eight tools of `internal/tools` | each tool as the commands and file operations it consists of |

**Desktop.**

| module | code | actions |
|---|---|---|
| `DesktopShell` | `main.ts`: `spawnAgentCore`, `stopAgentCore`, `startHealthPolling` | `SpawnEnds`, `SpawnFires`, `RetryFires`, `CoreEnds`, `ExitNoticed`, `ProbeSent`/`ProbeAnswered`, `RestartAgentCore`, `Quit` |
| `DesktopChat` | `main.ts`: `send-chat`, `index.html` | `SendChatRequest`, `SessionEvent`, `StreamEnds`, `CancelChatRequest`, `CutFires`, `AutoApproveAsked` |
| `DesktopUpdate` | `main.ts`: the portable update | `CheckPortableUpdate`, `DownloadStarts`, `ArchiveArrives` (whole, or spoiled by a failed write), `DownloadEnds`, `ApplyPortableUpdate`, `ScriptRuns`, `Killed` |

**Composition.** `MCComponents` is their disjoint sum: a variable `part` says which
component a behaviour is about, `Next` is the disjunction of all next-state relations, each
with the variables of the others unchanged. A run explores every behaviour of every
component, and a property of one is checked where its variables move. As they share no
state, interleaving them would multiply the states and show nothing more. Where two
components do meet, one module has both sides (an agent and its platform in `Enrollment`,
`FileAccess`, `AuditTrail`; a builder and the platform in `PackageBuild`; the setup wizard,
the agent and the desktop in `AgentConfig`), or the one side is an abstraction that the other
is shown to implement: `Activation` is built on `BindingLife`, and `DeviceBinding` implements
it for every device (`ImplementsLife`, with `row` mapped to the status of the device's row).

## 3. The runs

| run | instance | properties |
|---|---|---|
| `command_sequential` | one slot, 2 devices, lists of them, 5 requests, approvals that expire, gateway errors | `WithdrawnNeverRuns`, `NeverRunsTwice`, `SummaryCorrect`, `Concluded` |
| `command_concurrent` | 2 slots, 1 device, 3 requests, two policy tables, an emergency (no other bypass), failed calls, restarts, lost messages | `TypeOK`, `AuthorisedRuns` |
| `command_denied` | 2 slots, nothing fails | `DeniedNeverRuns` is violated |
| `command_lost_update` | 2 slots, 2 devices, one request, nothing fails | `Concluded` is violated |
| `gateway` | 2 processes with Redis, 3 connections of a device, lost messages, restarts, timeouts, pings | `TypeOK`, `RegisteredIsOpen`, `NoZombies`, `OncePerInstance` |
| `gateway_live` | 1 process, 3 connections, timeouts | `ReachableAgain`, `QueueDrains`, `StaleIsForgotten` |
| `gateway_reconnect` | 1 process, 3 connections, nothing fails | `OwnReaderEnds` is violated |
| `ide_in_turn` | 2 logins, 3 pairs, calls one after the other | `TypeOK`, `TokensOnce`, `DecisionStands`, `OneTimeRefresh`, `RevokedStaysRevoked`, `ClientKeepsItsRow`, `PollsInTurn` |
| `ide_overlap` | 1 login, 1 pair, 2 calls at once | `TokensNeedApproval`, `LoginEnds` |
| `ide_late_answer` | 2 logins, 1 slot | `PollsUntilAnswered` is violated |
| `components` | 30 components, one at a time, with overlapping calls, failures and restarts | `TypeOK`, 12 merged invariants, `RowsMoveAsDeclared`, `ImplementsLife` |
| `components_live` | the 8 of them that wait, poll or work | `WaitsEnd`, `WorkEnds`, `NewsArrives` |

The largest, `command_concurrent`, has 2.2 million distinct states, `ide_in_turn` under two
million, `components` 0.9 million, `components_live` 44,000.

### What they show

**Command tasks.** `AuthorisedRuns` is what the approval chain is for: everything a
device executes was decided on, with that text and for that device, by the submitter
(who needs the permission that fits, or an automatic policy for the risk) or by an
approver the policy names, under separation of duty as far as the policy could be read: if
it cannot, the creator's own approval passes (section 4). It holds under every
interleaving, failure and restart, because `dispatchToDevices` works with the row its
own request decided on; the mutant that reads the row again is caught. The other four
properties hold for requests that do not overlap: a withdrawn task has sent nothing; a
device that has executed the task is not sent it again; the stored status is what the
executions add up to even when the gateway's error was wrong and the result arrives later;
and every approved task is closed. The second and the last are about lists that name each
device once; with a device named twice both fail (section 4). That the first and the last fail
when requests overlap is the content of two findings.

**The gateway.** `RegisteredIsOpen` makes the code under the mutex safe: a registered
connection's channel is open, so replacing it closes an open channel and whoever holds
the lock may send. `NoZombies` is its converse for devices: none sits on a connection
that is read but forgotten. `OncePerInstance` says the ways to a device (handler, and
the subscriber of the same process) do not deliver an event twice; across processes
nothing promises that. `ReachableAgain`, `QueueDrains` and `StaleIsForgotten` say that
a device comes back, that queued events are written or given up, and that a connection
its device has left does not stay.

**IDE sign-in.** `TokensNeedApproval` is the safety of the whole flow and holds under
every overlap: a late copy may bring a row back, but never one of another login. The
rest of the safety properties are stated under `InTurn`, that no two calls ever
overlapped and no login began during one. That is the honest condition: two overlapping
polls make two rows; the `Save` by which a validation notes `LastUsedAt` can undo a
rotation, or insert a row again that was revoked meanwhile. In turn they still have to
survive what the run does allow: every call may fail at every point, its answer may be
lost, errors the service ignores leave codes and rows behind, and everything lapses.

**The other components.** The properties of `components` are conjunctions of those the
modules state; each is about one kind of failure, and there is a mutant of the code for
every conjunct.

| property | parts | what it says |
|---|---|---|
| `ExecutedWasGranted` | `ApprovalRequest` | what is reported as executing was approved by the user its row names |
| `FirstAnswerDecides` | `RemoteTools` | a tool that changes something runs only if the first answer was yes |
| `SentIsDecided` | `FileAccess` | a request that was sent is never open again |
| `CountsAreTrue` | `BatchRun` | a batch row claims no success that did not happen |
| `EnrolmentsAddUp` | `Enrollment` | the token counts no use without a device; in turn, no more devices than `max_uses` |
| `BindingsAddUp` | `DeviceBinding`, `FeishuBot`, `DeviceGroups` | counts equal bindings, quotas hold; a chat asks its device and is told; a batch reaches its group as it is when it runs, unless the database refuses a call |
| `ObjectsAreThere` | `PackageBuild`, `Marketplace`, `Roles`, `Accounts`, `DeviceGroups`, `TenantProfiles`, `AgentConfig`, `DeviceTools` | what a row, an answer or a report says is there, is there; names are once, and a device is shown its tenant's profiles under versions that tell them apart |
| `OrderKept` | `Remediation`, `ModelRouting` | steps after their dependencies and undone backwards; answers after their calls |
| `NothingChangesUnasked` | `ChatLoop`, `Diagnosis`, `DesktopChat`, `CommandDraft`, `RuleChecks`, `AgentConfig` | what a model asks for changes nothing unless somebody agreed; what it thinks is no command, and an explanation is one only where a brace begins the answer |
| `OneProgramRuns` | `SelfUpdate`, `DesktopShell`, `DesktopUpdate` | the program or its backup is there, runs once, and is replaced only by a newer one, whole unless a write failed |
| `AuditKept` | `AuditTrail` | every event is on its way or stored, in order, and archived only into an archive |
| `WrongIsShown` | `AgentRuntime`, `RuleChecks`, `DeviceGroups` | drifts the comparison sees are recorded unless the baseline was unread or the write failed; doubt triggers, the score is earned, pages miss nothing |
| `RowsMoveAsDeclared` | `Enrollment` (device rows), `ApprovalRequest`, `Accounts` | action properties of rows that are saved whole |
| `ImplementsLife` | `DeviceBinding` | the refinement of `BindingLife` |

Those that hold however calls overlap are the first four, `UsesAdmitted`, `ReadyIsUploaded`,
`ProgramKept`, `AuditKept`, `ImplementsLife`, and those about chats, plans and updates. The
others name their condition in the formula, as a flag that the model sets when it happens: two
calls at once on one row (`overlapped`, `deviceRaced`, `tokenRaced`, `editRaced`, `overlap`,
`apart`, `alone`), a statement that failed, a copy that was out of date. The condition is what
the code needs and does not ensure; section 4 says what happens without it.

`WaitsEnd` says that an approval is decided on or expires, that the writer of a broken
connection ends, and that a reader that waits for an answer reads on; `WorkEnds` that the run of
a batch, a queued build and a chat end; `NewsArrives` that an agent in manual mode notices its
binding, that rules are checked and forgotten as the platform says, and that the desktop shows
whether the agent is up.

### Bounds, and why they are enough

- *Slots* (`Handlers`, `Slots`): the races are between two readers of one row; a third
  writer adds no new kind of lost update. One slot gives the sequential runs.
- *Requests*: three reach submit, approve and a rival decision or deletion; five reach
  update, submit, approve, expire, delete in one behaviour.
- *Devices*: two, where the summary has to combine different results; one otherwise. A list
  names at most two, one of them twice where a run is about that.
- *Connections*: three, so that a device replaces a connection that has replaced one;
  two processes, so that it moves away and back. `Capacity` is 1 instead of 64: full
  and empty are one step apart. When the connections are used up a device cannot dial
  again, which `ReachableAgain` says in its statement.
- *Pairs*: three, so that a refreshed pair is refreshed again, or two logins get tokens
  and one of them is refreshed; when they are used up the random source fails, which the
  code handles like any error.
- *Clock*: `ApprovalTTL = 0` and `MaxNow = 1` in `command_sequential` put the deadline
  between two steps of any request.
- *Components*: two or three overlapping calls (`Calls`, `Requests`, `Handlers`, `Savers`,
  `Deciding`, `Editors`, `Callers`, `Executors`), because a lost update needs two, and a third
  to see what is left of it; two objects where one must not be taken for the other (`Devices`,
  `Packages`, `Chats`, `BotChats`, `Agents`, `Builders`); `MaxAttempts = 3` as in the code;
  `GroupSize = 12` in waves of 10, the default of the code, so that the last wave is a part of
  one; a threshold of 9 tenths, so that one failed device of a wave passes and two do not;
  three steps of a plan, in every graph; two connections and a send channel of one, so that it
  is full and the writer of a lost connection has something to take; conditions, outputs, texts and settings as a few named values of every kind the code tells
  apart (the definitions `DConditions`, `DFields`, `DBundles` of `MCComponents`). The counters
  (`MaxBoots`, `MaxBegun`, `MaxEdits`, `MaxLoads`, `MaxAccountCalls`, ...) end a behaviour after
  the second of what can happen twice, or the third where an order of three matters.
  `components_live` has smaller ones, as the interplay it needs is that of one call and a timer.
- *Tenants and profiles*: three changes, two of them in flight: a save, a deletion and a creation
  of the same name or slug between its read and its write. Two pulls, so that two of them show one
  profile; lookups of a pull fail in the last one only, where a profile that is missing shows no
  less than an earlier pull would.
- *Symmetry*: over slots, processes and logins, which the specifications never tell
  apart; not used in runs with a temporal property, nor in `MCComponents`.

Deadlock is not looked for except in `command_sequential`: the systems do stop when
their bounds are used up, or when a task is deleted, and each `.cfg` says which it is.

### Fairness

- `CommandTask!FairSpec`: a slot that can go on does (`WF`), as goroutines are
  scheduled; a device runs what it got; the clock goes on. Taking a result is `SF`: a
  result waits for a free slot only because slots are finite. No request is ever forced,
  and nothing is fair about failures: `Concluded` is checked where calls to the database
  succeed, because the code gives up on an error and nothing retries.
- `SessionGateway!FairSpec`: pumps run on, a failing read or write is noticed (pings
  every 30 s, a read deadline of 90 s), the agent's loop dials for ever, and a process
  that ended is started again: the gateway is a Kubernetes Deployment
  (`deploy/k8s/helm/envnexus/templates/session-gateway-deployment.yaml`). The compose
  file sets no restart policy; there `ReachableAgain` holds only until the first panic
  (see the finding `gateway_reconnect`). Devices need not ping, requests need not come,
  nothing must fail.
- `IdeAuthorization!LiveSpec`: handlers and callbacks finish, the code lapses, and a set
  interval fires; the latter is `SF`, as a tick waits only for one of finitely many
  slots. No user has to log in, decide or close a prompt.

- `ToolFairness`: the dialler dials, a read or a ping of a dead connection fails, writes and
  waits end at their deadlines, a tool ends within its timeout, and a decider that found its
  request sends its answer. No user has to answer.
- `ApprovalFairness`: the workers tick and time passes. `BatchFairness`: the goroutine of the
  run goes on; no device has to answer. `BuildFairness`: a builder goes on (it polls every three
  seconds); a hung upload is excepted by `stranded`. `ChatFairness`: model and tools return
  within their timeouts and the timer of an approval fires.
- `ActivationFairness`: the runtime repeats its task. `WatchFairness`: the agent is started
  again, the ticker of the sync and the timers of items fire, a check ends by its timeout.
  The poll of the desktop (in `MCComponents!Fairness`) is sent, and answered or refused. Nothing that an
  administrator, a user or the network does is ever forced.

## 4. Where code and documents disagree

Each of these is a run TLC ends with a counterexample, under a specification in which
nothing fails, so that what is shown is due to the order of steps alone.

- **A denied task is executed** (`command_denied`). An approver and a denier read the
  pending row; both pass the check and both save. The approval dispatches, the denial is
  what is stored. The design says a denied command is not executed and a task is decided
  on once (`docs/omnidev-state/main/04-design.md:1540` and `:1445`).
- **A task stays executing for ever** (`command_lost_update`). `updateTaskStatus` lists
  the executions, reads the task and saves it, in three calls, and is run at once by the
  dispatch and by a result. The dispatch saw an execution unfinished; the result saves
  "completed"; the dispatch overwrites it with "executing". No result is left to come.
- **A reconnecting device ends the gateway** (`gateway_reconnect`).
  `HandleAgentConnection` closes the channel of the connection it replaces; that
  connection's reader ends and closes it again, which panics outside of any HTTP handler
  and takes the process down, with the connections of all devices.
- **A login polls no more** (`ide_late_answer`). A poll of an earlier login that returns
  after `login` was called again clears the interval of the new login. Its user approves,
  and the extension never asks.

### Observations without a run

Modelling the code also showed behaviour that contradicts no formula above, because the model
has it (as a condition, or as the behaviour itself). The ones worth a reader's time:

*Command tasks.* Separation of duty is skipped when the policy cannot be read: `ApproveTask` throws
the error of `FindPolicy` away (`command_service.go:637`) and looks at separation of duty only if
there is a policy, so one failed call lets a creator who is an approver approve their own task,
though the comment above (`:634`) says that it still applies to normal operators. `Grants` records
that a policy was unread, and `AuthorisedRuns` lets such an approval pass. A device named twice runs
a command twice: nothing takes a repeated device out of `device_ids`; each place gets an execution
(`:267`), `GetByTaskAndDevice` finds the first one both times (`:867`), the device is sent the same
execution twice and the other one stays pending, so the task is never concluded. The design has one
execution for each device (`docs/omnidev-state/main/04-design.md:233` and `:362`). The lists of the
model may name a device twice, and `NeverRunsTwice` and `Concluded` say so.

*Roles.* The preset roles are never created: every start seeds them for the tenant "system"
(`main.go:244`), which no migration and no call creates, and the foreign key of `roles.tenant_id`
refuses the first insert, whose error ends the seeding and is dropped with its goroutine, though
`rbac_service.go:24` says that it creates them and `README.zh-CN.md:114` lists them.

*Rows saved whole.* A heartbeat that read its device before a revocation or a deletion undoes it
(`device_service.go:115`, `:147`); a login or the use of an API token writes back the account or
token it read (`auth_service.go`, `api_token/service.go`), so it can undo a change of password or
a revocation; an update of a group, role or tenant that was deleted meanwhile inserts it again (a tenant whose slug
has been given away overwrites the new holder instead), one of a profile revives it, and of two that
overlap the version counts one. An
overdue approval is closed from any status (`session_service.go:142`), also one that is being
executed. Enrolments that overlap exceed `max_uses`, bindings that overlap exceed the quota, and
a binding by migration is not checked against the quota at all.

*Configurations.* `has_update` of a pull compares the device's own `policy_version`, which no change of
a profile raises (`lifecycle_handler.go:144`); a lookup that fails is answered as no profile; the status
of a profile is not looked at; nothing looks whether the model and policy an agent profile names are
there. `Revoke` of a licence sets a column `updated_at` the table does not have (`license_repo.go:75`).

*Things nothing calls.* The watchlist scheduler's and the governance engine's `Start`, the
runtime's `self_update_check` (registered after the runtime has started, `bootstrap.go:385` and
`:414`, although `runtime.go:30` says before), webhooks (`webhook_service.go:92` says job-runner
calls `RetryPending`), notifiers, `RequirePermission`, `SetFallbacks`, `SetRemediator`, the
remediation executor. An item a user confirms keeps the context of the request and is not checked
(`scheduler.go`), though the README says such items are inspected continuously (`README.md:52`).
A bound agent whose binding is revoked never notices: `SendHeartbeat` looks for "revoked" in the
error of an answer that says so with status 200.

*Watchlist.* `scheduler.go:219` takes any tool status but "success" for a failure, and nearly
all tools answer "succeeded" or "ok"; of the tools the built-in rules name only four exist;
SEC-001 triggers when the firewall is on; "NaN" passes a threshold.

*Settings.* `main.go:64-70` says a bundled `agent.enx` outranks the injected configuration, the
order of loading makes it the other way round; a flag meant for one run is saved for good; the
desktop's merge quotes every value, so that agent-core cannot read numbers and starts afresh; a
key store that is away once makes the saved file unreadable for ever.

*Desktop.* The exit of an earlier process makes the shell forget the present one
(`main.ts:718`). Where a kill is only asked for (SIGTERM) the next process is spawned while the
last one ends, so two may run and one be forgotten: `OneAgent` is stated for forced kills
(`taskkill /f`). A write of a downloaded archive that fails is not noticed: what was written is
renamed, and every later download of that release takes it as done (`main.ts:1886`, `:1910-1928`),
so the update is started and changes nothing. Cancelling a chat cuts two seconds later
whichever request is active then.

*Updater.* The error of the rename that puts the old program back is dropped (`updater.go:381`),
and then only the backup is left, which nothing restores. `latestInfo` and not the staged version
is recorded after an apply; checksums are cleared whenever a URL is offered; the staged version is
forgotten at a restart.

*Jobs.* Only queued jobs are claimed, so a job whose instance stopped stays "running"; an audit
batch refused by the platform is dropped, and the last flush of a shut-down is not waited for.
A cancelled batch writes its final status with the context that has just ended
(`batch_service.go:160`), so its row stays "running".

*Drift.* A baseline that cannot be read is taken for none and replaced without a comparison
(`governance/engine.go:256`), and the next comparison starts from the new one. Interfaces are
compared by name only, environment variables only if the earlier snapshot had them. Of two
snapshots captured within one second, which is the later is left to the order of their ids; the
model takes the later one.

*Models.* An answer cut short inside a JSON object is drafted whole when a brace begins it, an
explanation included (`nl_generator.go:188`); the ids of tool calls are taken as the provider
gives them, and the model of `OrderKept` assumes that those of providers other than Gemini
differ. `SetPrimary` from the environment outranks the platform's choice; call ids of Gemini
start again at 0 in every round; an answer of a draft given as an array of typed parts is read
as empty (`nl_generator.go:286-333`).

## 5. The proofs

TLAPS proves, for every value of the constants that satisfies the named `ASSUME`s of
the modules (types of the tables, bounds in `Nat`, sentinels outside of the sets they
stand beside), every safety property that section 3 lists, invariants and action properties:

| theorem | property | module |
|---|---|---|
| `TypeCorrect`, `RunsAreAuthorised` | `TypeOK`, `AuthorisedRuns` | `CommandTaskProofs` |
| `WithdrawnTasksNeverRan`, `NoDeviceRunsTwice`, `SummariesAreRight` | `WithdrawnNeverRuns`, `NeverRunsTwice`, `SummaryCorrect` | `CommandTaskProofs` |
| `GatewayTypeCorrect`, `RegistryIsOpen`, `NoForgottenConnection`, `DeliveredOncePerInstance` | `TypeOK`, `RegisteredIsOpen`, `NoZombies`, `OncePerInstance` | `SessionGatewayProofs` |
| `IdeTypeCorrect`, `TokensAreApproved` | `TypeOK`, `TokensNeedApproval` | `IdeAuthorizationProofs` |
| `OneLoginOneRow`, `DecidedOnce`, `RefreshedOnce`, `RevokedForGood`, `PairAndRowAgree`, `PollsGoOn` | `TokensOnce`, `DecisionStands`, `OneTimeRefresh`, `RevokedStaysRevoked`, `ClientKeepsItsRow`, `PollsInTurn` | `IdeAuthorizationProofs` |
| `ReportedWasGranted`, `SentStaysDecided`, `CountsStayTrue` | `ExecutedWasGranted`, `SentIsDecided`, `CountsAreTrue` | `PlatformProofs` |
| `BindingImplementsLife` | `ImplementsLife` (refinement) | `PlatformProofs` |
| `FirstAnswerIsKept`, `EventsAreKept` | `FirstAnswerDecides`, `AuditKept` | `AgentProofs` |
| `EnrolmentsStayCounted`, `BindingsStayTrue`, `ObjectsStay`, `OneProgramStays`, `NothingUnasked`, `WrongShows`, `OrderStays` | `EnrolmentsAddUp`, `BindingsAddUp`, `ObjectsAreThere`, `OneProgramRuns`, `NothingChangesUnasked`, `WrongIsShown`, `OrderKept` | `ComponentsProofs` |
| `RowsMoveRight` | `RowsMoveAsDeclared` (action properties) | `ComponentsProofs` |
| `ComponentsTypeCorrect` | `TypeOK` of the thirty components | `ComponentsProofs` |

So the number of requests, connections, logins, of slots, users, processes and devices,
the size of a group, of its waves and pages, the length of a conversation or a plan, and
what fails in which order, do not matter for these.

### Assumptions

- `WithdrawnTasksNeverRan`, `NoDeviceRunsTwice` and `SummariesAreRight` are about behaviours in
  which `OneBusy` always holds: no two slots of `CommandTask` are at work at once. It is what the
  run `command_sequential` checks them under (it has one slot); that they fail without is the
  content of two findings. `SummariesAreRight` assumes `Reliable` besides: calls to the database
  succeed and the service does not restart, as an execution that could not be saved is not in the
  summary. Both leave expiry, lost commands and results and failing calls to the gateway in.
- The properties of the sign-in in turn have their condition in the formula (`InTurn`, a flag of
  the model), and so have those of the components (section 3) and what `NeverRunsTwice` says of
  lists. Nothing else is assumed of `Spec`.
- TLC evaluates the `ASSUME`s in every run of their module. Besides types, bounds and sentinels
  they say that the tools known to only read, and the harmless ones, are registered and that the
  table of the diagnosis has its general entry (`DiagnosisTools`), that the object which holds a
  text is one of the values (`ValueConstants`), that finitely many devices may be put in groups
  (`GroupConstants`), and of tenants and profiles that the ids of their
  tables differ, that the rows there are at the start keep to the unique indexes and the foreign key
  (`FirstRows`), and that requests set the fields the DTOs have, an update never a slug
  (`TenantRequests`).

### How they go

**CommandTask.** `AuthorisedRuns` speaks of what devices did; to be inductive it has to
be followed back. `Inv` says of the row that its risk is that of its content and its
approvers were named by a policy once in force for that risk (`RowOK`); of each slot that
its copy has this too and, if it is going to be dispatched, that a decision by someone
entitled to it is on record for exactly that content (`SlotOK`, with `Covered`); and of
each message what the property says of each run (`MessageOK`). The row in the database
may be overwritten by anyone at any time: nothing about its status is needed, and that
is why the theorem survives the lost updates of the findings. `SlotStepInv` and
`OutsideInv` reduce each action to the slot it moves; there is one lemma per action.

**CommandTask, in turn.** Once a slot is alone its copy is the row. `TurnInv` adds what that is
worth: nothing is sent before the row has a status that only `dispatchToDevices` works on
(`Begun`), a slot that may still change its mind works on a task that was never dispatched, and
the one that dispatches has sent nothing to the devices it has still to treat (`TurnOK`), as long
as no list that was decided on names a device twice (`AllOnce`; then `Apart` holds). `SumInv`
says what the status is at each point of a dispatch and of the recording of a result, up to the
summary that is written last.

**SessionGateway.** `RegisteredIsOpen` needs to know that a connection about to be
registered still has its channel, and that readers which close a channel have left the
registry before (`ConnOK`, `EntryOK`); `NoZombies` that the entry of a connection goes
away only by its own reader or with the socket of the one it replaces. `DownInv` handles
the end of a process once, for all the steps that may cause it. `OncePerInstance` counts:
`OnceInv` says that of the request, the bus, the hands of the subscriber, the channels and what
devices have received, at most one place of each process has a copy of an event, and none has
before the request was sent.

**IdeAuthorization.** The rows are written by calls from copies that may be out of date,
so `Inv` says what each kind of call still knows when it writes: a pair about to be
stored is new, and its row that of an approved login (`StoreOK`); the copy a validation
writes back was made for that row (`CopyOK`); what is handed out was stored (`HandOutOK`);
and no two calls store the same pair (`Distinct`). That a pair never changes rows
(`home`) is what makes all of this stable under other calls. `TimerOK` is an invariant by
itself. The lemmas `ReplyStep`, `MoveStep`, `MakeStep`, `StoreStep` and `NewCallStep` treat
the ways a call can move, and the actions are instances of them.

**IdeAuthorization, in turn.** One invariant (`TurnInv`) carries all six properties: in turn at
most one call is under way (`Alone`), and what it read is what the database says (`LoginCallOK`,
`RowCallOK`). The rest is what calls that failed half way leave behind: a code that was decided or
has a row (`LoginOK`), pairs taken, stored or revoked (`PairOK`), and that the pair the extension
holds is stored in its row, or the row is gone because it lapsed or was revoked (`Kept`), unless a
call had trouble or a refresh that will bring the new pair is under way.

**Rows that are saved whole.** *Approvals*: the row may be overwritten by any call from a copy that
is out of date, so `ApprovalInv` is about every copy as well as the row: a row that is approved, or
further, names someone whose approval was saved, and so does every copy that is further; a copy that
brings the approval names who gives it, and saving it is the grant. `MovesInv` adds, for the
declared moves, that a call that was not overtaken has the row's status. *File requests*: no copy a
handler holds is pending (`HandlerOK`), as it decides in memory before it saves, and whatever is on
its way to the device, on it or back shows that the request was sent (`OnTheWay`). *Devices*
(`DeviceInv`): no copy was read from a deleted row, and none of a heartbeat from a revoked one.
*Accounts*: a call that issues tokens has read a live row.

**Rows as callers were told.** *Accounts* (`AccountRowsInv`): as long as calls do not overlap the
one under way holds the row as it is but for what it was asked to change, so the save, which writes
the whole row, changes that alone; saving the time of a login or of a use writes back the same.
*Groups* (`AnsweredInv`, on top of `PagesInv`): the property is inductive with one addition, that
an id which was not given out yet has no history; a save over a row that changed since it was read
marks the row as raced. *Tenants and profiles* (`TenantsInv`): what a row is, whom it belongs to
and what slug a tenant has never change, whatever overlaps; so a save may bring a deleted row back
but not into another tenant, and the unique indexes, which are looked at by every write, keep names
apart (`WriteKeepsNames`). A save over the row as it was read adds one to its version
(`WriteKeepsSettings`), and one that is not has marked the row as raced; so of two copies a device
was shown of an unmarked row, the one with the higher version is the later (`WriteKeepsReceived`),
and `SeesMore` reduces each lookup of a pull to the copy it adds. *Roles* (`RolesInv`): a role that
is bound cannot be deleted, and no save makes a row go.

**Objects in the store.** *Packages* (`BuildInv`): a builder that is about to mark a package ready
has uploaded its archive, and nothing removes one. *Marketplace* (`MarketInv`): an edit removes the
old artefact first and then saves the item with another, or deletes it. Between the two the row names
what is gone; then what is about to be saved is in the store (`EditKnows`), and otherwise the
artefact of the row is, as long as edits neither overlap nor fail.

**Tools of the agent.** `DeviceToolInv`: while a tool is alone what it has done so far is there: the
flag of a proxy half way, and a rename has found its new name free (`DoneSoFar`); when it reports
success all of it is (`AsAsked`). As long as a tool counts as alone no other is under way
(`NoneBeside`), so nobody undoes it.

**Counts.** *Batches*: `Balance` is a sum: devices that succeeded, may still answer late, or belong
to the present wave are different ones among those dispatched, and what the run counted as
successful has succeeded; `Between` says what the totals are at each point of the loop. Once its
context has ended the run counts wrongly, and the invariant then says nothing of its totals: it no
longer writes any. *Enrolment*: what a copy of the token will count is
no more than the devices there are (`CopyAdmitted`), and of the only request at work nobody has
written the row since it was read (`AloneOnToken`). *Packages*: `CountsInv` says
that the count of a package is the number of devices whose bindings or whose requests on their way
count with it (`CountedIn`), a set that one statement changes by one device; `QuotaInv` that those
bound and those about to be stay within a quota the package has had. *Groups* (`GroupTaskInv`): what a task will reach is
between the members that were there throughout and those that were there at all.

**Walks.** `PagesInv`: as long as no group was deleted those there are all that were ever made, and
a walk that has come to a page has seen each of its groups that stands above it (`SeenSoFar`).

**BindingLife.** The refinement goes step by step: every action of `DeviceBinding` either leaves the
status of a device's row or is `Bind`, `Unbind` or `Purge` of it; a row is only inserted where there
is none, as the unique key demands. `LifeInv` is small: rows and requests are what they should be,
and a request that will write a binding names its device and package.

**One answer.** *RemoteTools*: `FirstIsHeld` follows an answer: while the reader waits, the channel
is empty only if nobody has answered, and holds yes only if that was the first answer; `Unasked`
that nothing is answered before it was sent. *Chats* have the same channel (`ChatsInv`). *Desktop
chat*: a stream that is not over belongs to the request the window waits for. *Diagnosis*: from the
plan on only tools that read are named, and the result is the surest so far. *Feishu*
(`BotInv`): a chat whose requests do not overlap is served by one of them at a time, and only that
one may leave memory, Redis and what was ordered apart.

**One program.** `UpdateInv` says which of program and backup is there at each step of an apply;
once an apply is over the program is there, unless the process ended in it or the old program could
not be put back (`cutOff`). `DesktopUpdateInv` says that an archive has its name only if it is
whole or a write of it failed (`spoiled`), and that what the desktop knows of a release it forgets
when it ends; `ShellInv` that of the processes the shell has started and not seen the end of there
is one at most, as long as its kills are forced.

**Audit.** The events of the batch and the queue are in order and behind those stored; every event
is on its way, stored or noted as lost; a row that a run of the worker is going to mark is in the
archive it uploaded.

**Drafts, settings, watch items, drifts.** `DraftInv` says what is asked of the model and what is
taken of its answer, an explanation only where a brace begins the text; `RuleDraftInv` that a
drafted item has a tool and is not asked for more than once a minute. `ConfigInv` is about the file
and each copy of it: sealed, or noted that it could not be, or written by the desktop since.
`ComesBackInv` adds that where the file can be read, and in a process that is not in doubt of a
setting, it is as it was set last: an overlay of what is given over what is there keeps every
setting that is not empty (`OverlaidKeeps`). `WatchInv` ties the row of an item to the last result
noted for it and its count to the checks that found something wrong, with the row a PUT holds for a
while; the score counts items, so one that is not healthy keeps it below 100. That doubt triggers
(`DoubtTriggers`) is about the operator `Evaluate`: whatever a fold over a path finds at it is one
of the values or none (`ExtractGoes`, `FoundIsThere`), and only a value that was found can be
healthy (`HealthyIsFound`). `RuntimeInv`: a difference from the first baseline that the comparison
looks at is on record, is about to be written down, or its loss was noted: if the present snapshot
differs from the first baseline, the baseline that was read does so already, or the present one
differs from it (`AgreesOn`). Tasks have ended before the store is closed.

**Order.** Kahn's algorithm of the planner is a recursive function over layers. That a function so
defined exists, and that each layer contains the one before, is shown by a least counterexample
(`FirstOne`), not by induction: so the steps of a layer depend on earlier ones
(`LayersAreInOrder`), an order that is drawn from the layers respects all dependencies
(`DependenciesComeBefore`), and `PlanInv` says that what is finished and what is left are that
order. For the models: `ConversationIsSound` says that behind the calls of a message stand their
answers as far as they have come, and each answer behind its call; `WaitsFor` that only one message
waits, for the calls still to run. Each provider's form is the conversation itself or all but its
first message (`MessagesAt`, `KeptIsRest`), so it is paired because the conversation is
(`SentIsPaired`).

**Types.** Of most components the type is a part of the invariant, as the invariant is only kept
where the type is; of the others it is proved on top of it. What the invariants above say nothing of
is a small formula of its own (`...Rest`), kept with their help where that is where a bound comes
from: the pages of a walk end because the total never exceeds the groups there may be
(`GroupNextTypes`); the totals of a batch stay within the group because what was counted and the
wave that is waited for are among the devices passed so far (`BatchRest`); a second post to a model
is made only if the first asked for JSON (`DraftRest`); no more spawns of the shell fall due than
were asked for (`ShellRest`). `Activation` and `Watchlist` need nothing besides their types.

**The composition.** Each behaviour of `MCComponents` is one of each component, as the steps of the
others leave its variables alone (`ComponentsProofs`, `Implements...`): what is proved of a component
by itself holds of the composition. The theorems there are put together from the invariants above.

### Only model-checked

- Every liveness property: TLAPS proves neither fairness nor `ENABLED`.
- The violated properties, which are false.

## 6. What is not modelled

Each part of the inventory is listed under `components` in `PROJECT.json`, with what of it is
modelled. Left out are:

- *Configuration rows*: licences and metrics, which have plain inserts and reads, and nothing acts
  on them but display.
- *What nothing calls*: webhooks and notifications, `CheckWithSession`, `CheckPlan` and
  `ReportExecutionResult` of the policy engine, `ListExpired` of the command tasks,
  `TransitionSession`. The remediation executor is modelled although only its tests run it, as it
  has an order to keep.
- *The way up through session-gateway*: forwarding of results (once, without a retry) and the
  offline heartbeat when a connection ends, which may arrive after the device has come back.
- *Front ends*: console-web, the pages of the desktop, the cards of the bot; *the operating
  system*: the tools of the agent that only read.
- *Texts*: what prompts and messages say; `CommandDraft`, `RuleChecks` and `ModelRouting` tell
  apart only the kinds of text the code does.
- In the modules themselves, the abstractions named in section 2 and at their heads, and the
  deletion of tenants under the other modules: the foreign keys of the schema refuse it as long as a
  user, role, package, token, device or profile refers to the tenant.

## 7. The plan

What would come next, in this order:

1. **`OneShotDecision`**, an abstract specification: a subject is decided on once, and acts only
   after a decision in its favour. `ApprovalRequest` and `RemoteTools` would implement it as they
   are, `CommandTask` and `IdeAuthorization` when calls do not overlap.
2. **The way up**: results from `RemoteTools` through the gateway's cache of event ids to
   `platform-api`, as a composition with two processes of the gateway.
3. **Two job-runners**: whose archives of audit events may have one name.
