---------------------------- MODULE MCComponents ----------------------------
(***************************************************************************)
(* Small instances of the components that share no state, checked side by  *)
(* side: every behaviour picks one of them at its start, and only its      *)
(* variables change.                                                       *)
(***************************************************************************)
EXTENDS
  ApprovalRequest, RemoteTools, Enrollment, DeviceBinding, Activation, BatchRun,
  PackageBuild, Watchlist, Remediation, ChatLoop, SelfUpdate, AuditTrail, FileAccess, Diagnosis,
  Marketplace, AgentRuntime, DesktopShell, DesktopChat, DesktopUpdate, ModelRouting, FeishuBot,
  Accounts, Roles, CommandDraft, DeviceTools, RuleChecks, DeviceGroups, AgentConfig,
  TenantProfiles

CONSTANT Parts   \* the components a run explores

VARIABLE part    \* the one this behaviour is about

allVars ==
  <<part, approvalVars, toolVars, enrolVars, deviceVars, bindingVars, activationVars, batchVars,
    buildVars, watchVars, planVars, chatVars, updateVars, auditVars, fileVars, diagVars,
    marketVars, runtimeVars, shellVars, desktopChatVars, desktopUpdateVars, routeVars, botVars,
    accountsVars, rolesVars, draftVars, deviceToolVars, ruleVars, groupVars, configVars,
    tenantVars>>

Init ==
  /\ part \in Parts
  /\ ApprovalInit
  /\ ToolInit
  /\ EnrolInit
  /\ DeviceInit
  /\ BindingInit
  /\ ActivationInit
  /\ BatchInit
  /\ BuildInit
  /\ WatchInit
  /\ PlanInit
  /\ ChatInit
  /\ UpdateInit
  /\ AuditInit
  /\ FileInit
  /\ DiagInit
  /\ MarketInit
  /\ RuntimeInit
  /\ ShellInit
  /\ DesktopChatInit
  /\ DesktopUpdateInit
  /\ RouteInit
  /\ BotInit
  /\ AccountsInit
  /\ RolesInit
  /\ DraftInit
  /\ DeviceToolInit
  /\ RuleInit
  /\ GroupInit
  /\ ConfigInit
  /\ TenantsInit
  /\ part # "shell" => forced /\ spawnsDue = 0 /\ ~pointer
  /\ part # "feishu" => hasRedis
  /\ part # "device_tools" => windows
  /\ part # "settings" => legacy = Nowhere

On(p) ==
  /\ part = p /\ UNCHANGED part
  /\ p # "approvals" => UNCHANGED approvalVars
  /\ p # "tools" => UNCHANGED toolVars
  /\ p # "enrolment" => UNCHANGED enrolVars
  /\ p # "devices" => UNCHANGED deviceVars
  /\ p # "bindings" => UNCHANGED bindingVars
  /\ p # "activation" => UNCHANGED activationVars
  /\ p # "batches" => UNCHANGED batchVars
  /\ p # "builds" => UNCHANGED buildVars
  /\ p # "watchlist" => UNCHANGED watchVars
  /\ p # "remediation" => UNCHANGED planVars
  /\ p # "chats" => UNCHANGED chatVars
  /\ p # "updates" => UNCHANGED updateVars
  /\ p # "audit" => UNCHANGED auditVars
  /\ p # "files" => UNCHANGED fileVars
  /\ p # "diagnosis" => UNCHANGED diagVars
  /\ p # "marketplace" => UNCHANGED marketVars
  /\ p # "runtime" => UNCHANGED runtimeVars
  /\ p # "shell" => UNCHANGED shellVars
  /\ p # "desktop_chat" => UNCHANGED desktopChatVars
  /\ p # "desktop_update" => UNCHANGED desktopUpdateVars
  /\ p # "model_routing" => UNCHANGED routeVars
  /\ p # "feishu" => UNCHANGED botVars
  /\ p # "accounts" => UNCHANGED accountsVars
  /\ p # "roles" => UNCHANGED rolesVars
  /\ p # "draft" => UNCHANGED draftVars
  /\ p # "device_tools" => UNCHANGED deviceToolVars
  /\ p # "rules" => UNCHANGED ruleVars
  /\ p # "groups" => UNCHANGED groupVars
  /\ p # "settings" => UNCHANGED configVars
  /\ p # "tenants" => UNCHANGED tenantVars

Next ==
  \/ On("approvals") /\ ApprovalNext
  \/ On("tools") /\ ToolNext
  \/ On("enrolment") /\ EnrolNext
  \/ On("devices") /\ DeviceNext
  \/ On("bindings") /\ BindingNext
  \/ On("activation") /\ ActivationNext
  \/ On("batches") /\ BatchNext
  \/ On("builds") /\ BuildNext
  \/ On("watchlist") /\ WatchNext
  \/ On("remediation") /\ PlanNext
  \/ On("chats") /\ ChatNext
  \/ On("updates") /\ UpdateNext
  \/ On("audit") /\ AuditNext
  \/ On("files") /\ FileNext
  \/ On("diagnosis") /\ DiagNext
  \/ On("marketplace") /\ MarketNext
  \/ On("runtime") /\ RuntimeNext
  \/ On("shell") /\ ShellNext
  \/ On("desktop_chat") /\ DesktopChatNext
  \/ On("desktop_update") /\ DesktopUpdateNext
  \/ On("model_routing") /\ RouteNext
  \/ On("feishu") /\ BotNext
  \/ On("accounts") /\ AccountsNext
  \/ On("roles") /\ RolesNext
  \/ On("draft") /\ DraftNext
  \/ On("device_tools") /\ DeviceToolNext
  \/ On("rules") /\ RuleNext
  \/ On("groups") /\ GroupNext
  \/ On("settings") /\ ConfigNext
  \/ On("tenants") /\ TenantsNext

Spec == Init /\ [][Next]_allVars

\* The fairness of each component, as its module states it.
Fairness ==
  /\ WF_approvalVars(part = "approvals" /\ WorkerExpiresApproval)
  /\ WF_approvalVars(part = "approvals" /\ ApprovalLapses)
  /\ WF_toolVars(part = "tools" /\ Connect)
  /\ WF_toolVars(part = "tools" /\ Reconnect)
  /\ \A l \in Links : /\ WF_toolVars(part = "tools" /\ ReadFails(l))
                      /\ WF_toolVars(part = "tools" /\ WriterWrites(l))
                      /\ WF_toolVars(part = "tools" /\ (PingFails(l) \/ WriterTakes(l)))
  /\ \A t \in Tools : /\ WF_toolVars(part = "tools" /\ CheckExpires(t))
                      /\ WF_toolVars(part = "tools" /\ Execute(t))
  /\ \A d \in Deciders : WF_toolVars(part = "tools" /\ SendAnswer(d))
  /\ WF_activationVars(part = "activation" /\ CheckStatus)
  /\ WF_activationVars(part = "activation" /\ SendHeartbeat)
  /\ WF_batchVars(part = "batches" /\ RunSteps)
  /\ \A b \in Builders : WF_buildVars(part = "builds" /\ BuilderSteps(b))
  /\ WF_watchVars(part = "watchlist" /\ BootAgent)
  /\ WF_watchVars(part = "watchlist" /\ FetchRules)
  /\ WF_watchVars(part = "watchlist" /\ ApplyRules)
  /\ WF_watchVars(part = "watchlist" /\ UpdateItem)
  /\ \A i \in Watched : /\ WF_watchVars(part = "watchlist" /\ TimerFires(i))
                        /\ WF_watchVars(part = "watchlist" /\ CheckEnds(i))
  /\ \A c \in Chats : WF_chatVars(part = "chats" /\ LoopSteps(c))
  /\ WF_shellVars(part = "shell" /\ ProbeSent)
  /\ WF_shellVars(part = "shell" /\ ProbeAnswered)

FairSpec == Spec /\ Fairness

-----------------------------------------------------------------------------
(* Values of constants                                                     *)

DMapped == [dns |-> {"info", "ping", "flush"}, general |-> {"info"}]
DLocal == [dns |-> {"flush"}, general |-> {}]

\* Tenants and their profiles: a policy named before it is there, another tenant's model to come.
DFirstTenants ==
  ("n1" :> [slug |-> "one", state |-> "draft"]) @@ ("n2" :> [slug |-> "two", state |-> "draft"])
DFirstProfiles ==
  ("m1" :> [name |-> "a", config |-> "first"]) @@
  ("ap" :> [name |-> "a", model |-> "m1", policy |-> "p1"])
DTenantAsked == {[slug |-> "", state |-> "suspended"]}
DLeafNew == {[name |-> "b", config |-> "first"]}
DAgentNew == {[name |-> "b", model |-> "m1", policy |-> "p1"]}
DLeafAsked == {[name |-> "b", config |-> ""], [name |-> "", config |-> "second"]}
DAgentAsked == {[name |-> "", model |-> "m2", policy |-> ""]}

\* Settings; conditions of rules, what tools put out, and what the model drafts.
Cond(name, type, path, op, threshold, is, pattern) ==
  [tool |-> name, type |-> type, path |-> path, op |-> op, threshold |-> threshold, is |-> is,
   pattern |-> pattern]

DBundles == <<[url |-> "new", mode |-> "new", dist |-> "new", version |-> ""]>>
DInjected == [Nowhere EXCEPT !["url"] = "injected"]
DLegacy == [url |-> "legacy", mode |-> "", dist |-> "", version |-> "told"]

DConditions ==
  { Cond("info", t, path, op, th[1], th[2], "") :
      t \in {"threshold", "exists", "reachable", "contains", "custom", "other", "unreadable"},
      path \in {<<>>, <<"pct">>, <<"memory", "pct">>, <<"none">>},
      op \in {"lt", "gt", "eq", "ne", "contains", "not_contains", "other"},
      th \in {<<"90", "number">>, <<"true", "string">>, <<"<nil>", "absent">>} }
    \cup {Cond("gone", "exists", <<"pct">>, "eq", "true", "bool", "")}
    \cup {Cond("info", "contains", <<"memory">>, "contains", "90", "number", p) : p \in {"", "ERROR"}}

DFields ==
  ("high" :> ("pct" :> "95" @@ "status" :> "success")) @@
  ("low"  :> ("pct" :> "NaN" @@ "memory" :> "json" @@ "status" :> "text")) @@
  ("half" :> ("pct" :> "90" @@ "memory" :> "high")) @@
  ("none" :> ("pct" :> "<nil>" @@ "memory" :> "text" @@ "enabled" :> "true")) @@
  ("raw"  :> ("raw" :> "text"))

DWritten == ("json" :> "high") @@ ("document" :> "none")
DNumbers == ("90" :> 90) @@ ("95" :> 95) @@ ("NaN" :> 0)
DSaid == {<<"text", "ERROR">>, <<"json", "95">>}
DDrafts ==
  LET D(t, name, s) == [tool |-> t, name |-> name, seconds |-> s]
  IN {{}, {D("gone", "x", 60)}, {D("info", "x", 0), D("gone", "y", 300)},
      {D("info", "", 300), D("info", "x", 60)}}

-----------------------------------------------------------------------------
(* What the runs check                                                     *)

\* The variables of the component a behaviour is about have their types; the others stay as they are
\* at the start of a behaviour about them.
TypeOK ==
  /\ part = "approvals" => ApprovalTypeOK
  /\ part = "tools" => ToolTypeOK
  /\ part = "enrolment" => EnrolTypeOK
  /\ part = "devices" => DeviceTypeOK
  /\ part = "bindings" => BindingTypeOK
  /\ part = "activation" => ActivationTypeOK
  /\ part = "batches" => BatchTypeOK
  /\ part = "builds" => BuildTypeOK
  /\ part = "watchlist" => WatchTypeOK
  /\ part = "remediation" => PlanTypeOK
  /\ part = "chats" => ChatTypeOK
  /\ part = "updates" => UpdateTypeOK
  /\ part = "audit" => AuditTypeOK
  /\ part = "files" => FileTypeOK
  /\ part = "diagnosis" => DiagTypeOK
  /\ part = "marketplace" => MarketTypeOK
  /\ part = "runtime" => RuntimeTypeOK
  /\ part = "shell" => ShellTypeOK
  /\ part = "desktop_chat" => DesktopChatTypeOK
  /\ part = "desktop_update" => DesktopUpdateTypeOK
  /\ part = "model_routing" => RouteTypeOK
  /\ part = "feishu" => BotTypeOK
  /\ part = "accounts" => AccountsTypeOK
  /\ part = "roles" => RolesTypeOK
  /\ part = "draft" => DraftTypeOK
  /\ part = "device_tools" => DeviceToolTypeOK
  /\ part = "rules" => RuleTypeOK
  /\ part = "groups" => GroupTypeOK
  /\ part = "settings" => ConfigTypeOK
  /\ part = "tenants" => TenantTypeOK

\* Enrolment: what the token counts are the enrolments it admitted, and handled one at a time they
\* are at most max_uses (enrollment_service.go Enroll).
EnrolmentsAddUp == part = "enrolment" => UsesAdmitted /\ AdmitsAtMost

\* Bindings: requests that did not overlap leave bound_count equal to the active bindings, and
\* within the quota of the package; a chat of the bot asks the device it is bound to, and what the
\* device answers is told to the chat that asked; a batch task, unless the database refuses it
\* something, reaches the devices that are in its group when it runs (device_binding_service.go,
\* chat_bridge.go, event_sink.go, batch_service.go).
BindingsAddUp ==
  /\ part = "bindings" => CountsMatch /\ QuotaKept
  /\ part = "feishu" => ChatAsksItsDevice /\ AskerIsTold
  /\ part = "groups" => TaskReachesItsGroup

\* A row that says an object can be downloaded, a package that is ready or a marketplace item, has
\* its object in the store; a role that is bound is there; as long as calls do not overlap an
\* account, its API token, a device group, a tenant and a profile are as their callers were told; a
\* profile keeps its tenant and its name to itself, and a device is shown those of its tenant under
\* versions that tell them apart; what was last set and saved in the settings of an agent comes
\* back; and what a tool of the agent says it has done is done (package_build.go markReady,
\* marketplace/service.go, rbac_service.go, auth_service.go, api_token/service.go,
\* device_group/service.go, the profile services, lifecycle_handler.go GetConfig, config.go,
\* internal/tools).
ObjectsAreThere ==
  /\ part = "builds" => ReadyIsUploaded
  /\ part = "marketplace" => ArtefactKept
  /\ part = "roles" => BoundRolesAreThere
  /\ part = "accounts" => RowsAreAsLastSet
  /\ part = "groups" => GroupsAsAnswered
  /\ part = "tenants" => SettingsAsAnswered /\ NamesAreOnce /\ VersionsTell
  /\ part = "settings" => SavedComesBack
  /\ part = "device_tools" => ReportedIsDone

\* Where one thing must follow another it does: a remediation plan runs a step after those it depends
\* on and undoes them in the opposite order, and in what a provider of language models is sent the
\* answers follow their calls (remediation/dag.go, executor.go, llm/providers).
OrderKept ==
  /\ part = "remediation" => DependenciesFirst /\ UndoneBackwards
  /\ part = "model_routing" => RequestsArePaired

\* What the language model asks for changes the device only if somebody agreed: in a chat before a
\* tool runs, in a diagnosis before what it recommends does; and the desktop tells agent-core to ask
\* no more only in the chat its window waits for.  A drafted command is a line of the answer, never
\* what the model thought, and the whole of an explanation only where the answer begins as an object
\* would; a drafted watch item has its tool.  The settings, which hold the keys, do not stay in
\* plain text unless the key store refuses (agent/loop.go, diagnosis/engine.go, main.ts,
\* nl_generator.go, watchlist/decomposer.go, config/crypto.go).
NothingChangesUnasked ==
  /\ part = "chats" => ChangesWereAllowed
  /\ part = "diagnosis" => DiagnosisIsSafe
  /\ part = "desktop_chat" => SessionIsLive
  /\ part = "draft" => DraftIsTheLine /\ AskedInWordsUnderstood
  /\ part = "rules" => DraftsCanBeChecked
  /\ part = "settings" => PlainOnlyIfRefused

\* What is wrong with the device shows: the drift an agent finds is recorded before its baseline is
\* replaced, where its comparison looks and unless the baseline could not be read or the drift not
\* be written; a rule in doubt triggers, and the health score is full only if no item's last check
\* found anything wrong; an alert is critical only at the third check that did; and the pages of a
\* list leave out no row that was there all the time (governance/engine.go, watchlist/evaluator.go,
\* scheduler.go, manager.go, mysql_device_group_repo.go).
WrongIsShown ==
  /\ part = "runtime" => DriftsAreRecorded
  /\ part = "rules" => FullScoreIsEarned /\ AlertsAreEarned /\ (checking = itemRow => DoubtTriggers)
  /\ part = "groups" => PagesMissNothing

\* A program is there to be run and runs once: an update of the agent leaves the program in place or
\* its backup; the desktop keeps one agent, and unpacks over itself only a newer release, which is
\* whole unless a write of its archive failed (updater.go ApplyUpdate, main.ts).
OneProgramRuns ==
  /\ part = "updates" => ProgramKept
  /\ part = "shell" => OneAgent
  /\ part = "desktop_update" => UnpacksNewRelease

\* As long as calls do not overlap, a device that is out stays out, and an approval only moves as
\* CanTransitionTo declares; a person whose account is deleted is given no more tokens
\* (domain/device.go, domain/approval_request.go, auth_service.go).
RowsMoveAsDeclared ==
  OutStaysOut /\ MovesAsDeclared /\ DeletedIsShutOut

\* Nothing waits for ever: an approval of a session is decided or lapses, the writer of a broken
\* connection ends, and a reader that waits for an answer reads on (session_service.go,
\* ws_client.go).
WaitsEnd == PendingEnds /\ StaleWritersEnd /\ ReadersReturn

\* Work that was begun ends: the run of a batch, the build of a package unless its job-runner was
\* lost, and a chat (batch_service.go, package_build.go, agent/loop.go).
WorkEnds == RunEnds /\ BuildSettles /\ ChatsEnd

\* News arrives where it is waited for: a binding, a rule switched on or off by the platform at the
\* agent, and at the desktop whether the agent is up (activation.go, platform_sync.go, main.ts).
NewsArrives == BoundIsNoticed /\ RulesAreChecked /\ RulesAreForgotten /\ (part = "shell" => StatusFollows)

=============================================================================
