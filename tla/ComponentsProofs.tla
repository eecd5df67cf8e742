--------------------------- MODULE ComponentsProofs ---------------------------
(****************************************************************************)
(* The components side by side: each behaviour of the composition is one of *)
(* every component, as the steps of the others leave its variables alone.   *)
(* So what is proved of a component by itself holds of the composition.     *)
(****************************************************************************)
EXTENDS MCComponents, PlatformProofs, AgentProofs

\* The composition implements each of its components.
LEMMA ImplementsEnrolment == Spec => EnrolSpec
<1>1. Init => EnrolInit  BY DEF Init
<1>2. [Next]_allVars => [EnrolNext]_enrolVars  BY DEF Next, On, allVars
<1> QED  BY <1>1, <1>2, PTL DEF Spec, EnrolSpec

LEMMA ImplementsAgentUpdate == Spec => UpdateSpec
<1>1. Init => UpdateInit  BY DEF Init
<1>2. [Next]_allVars => [UpdateNext]_updateVars  BY DEF Next, On, allVars
<1> QED  BY <1>1, <1>2, PTL DEF Spec, UpdateSpec

LEMMA ImplementsShell == Spec => ShellInit /\ [][ShellNext]_shellVars
<1>1. Init => ShellInit  BY DEF Init
<1>2. [Next]_allVars => [ShellNext]_shellVars  BY DEF Next, On, allVars
<1> QED  BY <1>1, <1>2, PTL DEF Spec

LEMMA ImplementsDesktopUpdate == Spec => DesktopUpdateInit /\ [][DesktopUpdateNext]_desktopUpdateVars
<1>1. Init => DesktopUpdateInit  BY DEF Init
<1>2. [Next]_allVars => [DesktopUpdateNext]_desktopUpdateVars  BY DEF Next, On, allVars
<1> QED  BY <1>1, <1>2, PTL DEF Spec

LEMMA ImplementsApprovals == Spec => ApprovalSpec
<1>1. Init => ApprovalInit  BY DEF Init
<1>2. [Next]_allVars => [ApprovalNext]_approvalVars  BY DEF Next, On, allVars
<1> QED  BY <1>1, <1>2, PTL DEF Spec, ApprovalSpec

LEMMA ImplementsDevices == Spec => DeviceSpec
<1>1. Init => DeviceInit  BY DEF Init
<1>2. [Next]_allVars => [DeviceNext]_deviceVars  BY DEF Next, On, allVars
<1> QED  BY <1>1, <1>2, PTL DEF Spec, DeviceSpec

LEMMA ImplementsAccounts == Spec => AccountsInit /\ [][AccountsNext]_accountsVars
<1>1. Init => AccountsInit  BY DEF Init
<1>2. [Next]_allVars => [AccountsNext]_accountsVars  BY DEF Next, On, allVars
<1> QED  BY <1>1, <1>2, PTL DEF Spec

LEMMA ImplementsBindings == Spec => BindingSpec
<1>1. Init => BindingInit  BY DEF Init
<1>2. [Next]_allVars => [BindingNext]_bindingVars  BY DEF Next, On, allVars
<1> QED  BY <1>1, <1>2, PTL DEF Spec, BindingSpec

LEMMA ImplementsGroups == Spec => GroupSpec
<1>1. Init => GroupInit  BY DEF Init
<1>2. [Next]_allVars => [GroupNext]_groupVars  BY DEF Next, On, allVars
<1> QED  BY <1>1, <1>2, PTL DEF Spec, GroupSpec

LEMMA ImplementsPlan == Spec => PlanInit /\ [][PlanNext]_planVars
<1>1. Init => PlanInit  BY DEF Init
<1>2. [Next]_allVars => [PlanNext]_planVars  BY DEF Next, On, allVars
<1> QED  BY <1>1, <1>2, PTL DEF Spec

LEMMA ImplementsRouting == Spec => RouteInit /\ [][RouteNext]_routeVars
<1>1. Init => RouteInit  BY DEF Init
<1>2. [Next]_allVars => [RouteNext]_routeVars  BY DEF Next, On, allVars
<1> QED  BY <1>1, <1>2, PTL DEF Spec

LEMMA ImplementsBot == Spec => BotInit /\ [][BotNext]_botVars
<1>1. Init => BotInit  BY DEF Init
<1>2. [Next]_allVars => [BotNext]_botVars  BY DEF Next, On, allVars
<1> QED  BY <1>1, <1>2, PTL DEF Spec

LEMMA ImplementsChats == Spec => ChatSpec
<1>1. Init => ChatInit  BY DEF Init
<1>2. [Next]_allVars => [ChatNext]_chatVars  BY DEF Next, On, allVars
<1> QED  BY <1>1, <1>2, PTL DEF Spec, ChatSpec

LEMMA ImplementsDesktopChat == Spec => DesktopChatInit /\ [][DesktopChatNext]_desktopChatVars
<1>1. Init => DesktopChatInit  BY DEF Init
<1>2. [Next]_allVars => [DesktopChatNext]_desktopChatVars  BY DEF Next, On, allVars
<1> QED  BY <1>1, <1>2, PTL DEF Spec

LEMMA ImplementsDiagnosis == Spec => DiagSpec
<1>1. Init => DiagInit  BY DEF Init
<1>2. [Next]_allVars => [DiagNext]_diagVars  BY DEF Next, On, allVars
<1> QED  BY <1>1, <1>2, PTL DEF Spec, DiagSpec

LEMMA ImplementsDraft == Spec => DraftInit /\ [][DraftNext]_draftVars
<1>1. Init => DraftInit  BY DEF Init
<1>2. [Next]_allVars => [DraftNext]_draftVars  BY DEF Next, On, allVars
<1> QED  BY <1>1, <1>2, PTL DEF Spec

LEMMA ImplementsRules == Spec => RuleInit /\ [][RuleNext]_ruleVars
<1>1. Init => RuleInit  BY DEF Init
<1>2. [Next]_allVars => [RuleNext]_ruleVars  BY DEF Next, On, allVars
<1> QED  BY <1>1, <1>2, PTL DEF Spec

LEMMA ImplementsSettings == Spec => ConfigSpec
<1>1. Init => ConfigInit  BY DEF Init
<1>2. [Next]_allVars => [ConfigNext]_configVars  BY DEF Next, On, allVars
<1> QED  BY <1>1, <1>2, PTL DEF Spec, ConfigSpec

LEMMA ImplementsRuntime == Spec => RuntimeSpec
<1>1. Init => RuntimeInit  BY DEF Init
<1>2. [Next]_allVars => [RuntimeNext]_runtimeVars  BY DEF Next, On, allVars
<1> QED  BY <1>1, <1>2, PTL DEF Spec, RuntimeSpec

LEMMA ImplementsBuilds == Spec => BuildSpec
<1>1. Init => BuildInit  BY DEF Init
<1>2. [Next]_allVars => [BuildNext]_buildVars  BY DEF Next, On, allVars
<1> QED  BY <1>1, <1>2, PTL DEF Spec, BuildSpec

LEMMA ImplementsMarketplace == Spec => MarketSpec
<1>1. Init => MarketInit  BY DEF Init
<1>2. [Next]_allVars => [MarketNext]_marketVars  BY DEF Next, On, allVars
<1> QED  BY <1>1, <1>2, PTL DEF Spec, MarketSpec

LEMMA ImplementsRoles == Spec => RolesInit /\ [][RolesNext]_rolesVars
<1>1. Init => RolesInit  BY DEF Init
<1>2. [Next]_allVars => [RolesNext]_rolesVars  BY DEF Next, On, allVars
<1> QED  BY <1>1, <1>2, PTL DEF Spec

LEMMA ImplementsTenants == Spec => TenantsSpec
<1>1. Init => TenantsInit  BY DEF Init
<1>2. [Next]_allVars => [TenantsNext]_tenantVars  BY DEF Next, On, allVars
<1> QED  BY <1>1, <1>2, PTL DEF Spec, TenantsSpec

LEMMA ImplementsDeviceTools == Spec => DeviceToolInit /\ [][DeviceToolNext]_deviceToolVars
<1>1. Init => DeviceToolInit  BY DEF Init
<1>2. [Next]_allVars => [DeviceToolNext]_deviceToolVars  BY DEF Next, On, allVars
<1> QED  BY <1>1, <1>2, PTL DEF Spec

LEMMA ImplementsTools == Spec => ToolSpec
<1>1. Init => ToolInit  BY DEF Init
<1>2. [Next]_allVars => [ToolNext]_toolVars  BY DEF Next, On, allVars
<1> QED  BY <1>1, <1>2, PTL DEF Spec, ToolSpec

LEMMA ImplementsActivation == Spec => ActivationSpec
<1>1. Init => ActivationInit  BY DEF Init
<1>2. [Next]_allVars => [ActivationNext]_activationVars  BY DEF Next, On, allVars
<1> QED  BY <1>1, <1>2, PTL DEF Spec, ActivationSpec

LEMMA ImplementsBatches == Spec => BatchSpec
<1>1. Init => BatchInit  BY DEF Init
<1>2. [Next]_allVars => [BatchNext]_batchVars  BY DEF Next, On, allVars
<1> QED  BY <1>1, <1>2, PTL DEF Spec, BatchSpec

LEMMA ImplementsWatchlist == Spec => WatchSpec
<1>1. Init => WatchInit  BY DEF Init
<1>2. [Next]_allVars => [WatchNext]_watchVars  BY DEF Next, On, allVars
<1> QED  BY <1>1, <1>2, PTL DEF Spec, WatchSpec

LEMMA ImplementsAudit == Spec => AuditSpec
<1>1. Init => AuditInit  BY DEF Init
<1>2. [Next]_allVars => [AuditNext]_auditVars  BY DEF Next, On, allVars
<1> QED  BY <1>1, <1>2, PTL DEF Spec, AuditSpec

LEMMA ImplementsFiles == Spec => FileSpec
<1>1. Init => FileInit  BY DEF Init
<1>2. [Next]_allVars => [FileNext]_fileVars  BY DEF Next, On, allVars
<1> QED  BY <1>1, <1>2, PTL DEF Spec, FileSpec

\* As long as calls do not overlap, a device that is out stays out and an approval only moves as
\* CanTransitionTo declares; the person of a deleted account is given no more tokens
\* (device_service.go, session_service.go, auth_service.go).
THEOREM RowsMoveRight == Spec => RowsMoveAsDeclared
  BY ImplementsApprovals, ImplementsDevices, ImplementsAccounts, ApprovalMoves, DevicesStayOut,
     DeletedGetNoTokens, PTL DEF RowsMoveAsDeclared

\* However enrolments overlap, fail or are repeated, the token counts no more uses than there are
\* devices, and enrolments one after the other stay within max_uses (enrollment_service.go Enroll).
THEOREM EnrolmentsStayCounted == Spec => []EnrolmentsAddUp
<1>1. EnrolSpec => []EnrolInv  BY EnrolInitInv, EnrolNextInv, PTL DEF EnrolSpec
<1>2. EnrolInv => EnrolmentsAddUp  BY EnrolInvShows DEF EnrolmentsAddUp
<1> QED  BY <1>1, <1>2, ImplementsEnrolment, PTL

\* The bindings of packages to devices count the devices there are and stay within the quota while
\* calls do not overlap, however they fail; a chat asks the device it was last bound to and the chat
\* that asked is told; a batch task reaches its group as it is when it runs (device_binding_service.go,
\* chat_bridge.go, event_sink.go, batch_service.go).
THEOREM BindingsStayTrue == Spec => []BindingsAddUp
<1>1. BindingSpec => []CountsInv  BY CountsInitInv, CountsNextInv, PTL DEF BindingSpec
<1>2. BindingSpec => []QuotaInv
  BY CountsInitInv, CountsNextInv, QuotaInitInv, QuotaNextInv, PTL DEF BindingSpec
<1>3. GroupSpec => []GroupTaskInv  BY GroupTaskInitInv, GroupTaskNextInv, PTL DEF GroupSpec
<1>4. BotInit /\ [][BotNext]_botVars => []BotInv  BY BotInitInv, BotNextInv, PTL
<1>5. CountsInv /\ QuotaInv /\ GroupTaskInv /\ BotInv => BindingsAddUp
  BY CountsInvShows, QuotaInvShows, BotInvShows DEF BindingsAddUp, GroupTaskInv
<1> QED
  BY <1>1, <1>2, <1>3, <1>4, <1>5, ImplementsBindings, ImplementsGroups, ImplementsBot, PTL

\* A program of the agent is in place or its backup is, the desktop keeps one agent, and it unpacks
\* over itself only a whole and newer release (updater.go ApplyUpdate, main.ts).
THEOREM OneProgramStays == Spec => []OneProgramRuns
<1>1. UpdateSpec => []UpdateInv  BY UpdateInitInv, UpdateNextInv, PTL DEF UpdateSpec
<1>2. ShellInit /\ [][ShellNext]_shellVars => []ShellInv  BY ShellInitInv, ShellNextInv, PTL
<1>3. DesktopUpdateInit /\ [][DesktopUpdateNext]_desktopUpdateVars => []DesktopUpdateInv
  BY DesktopUpdateInitInv, DesktopUpdateNextInv, PTL
<1>4. UpdateInv /\ ShellInv /\ DesktopUpdateInv => OneProgramRuns
  BY UpdateInvShows, ShellInvShows, DesktopUpdateInvShows DEF OneProgramRuns
<1> QED
  BY <1>1, <1>2, <1>3, <1>4, ImplementsAgentUpdate, ImplementsShell, ImplementsDesktopUpdate, PTL

\* What a language model asks for changes the device only if somebody agreed, the desktop lets
\* agent-core ask no more only in the chat its window waits for, no thought is drafted as a command
\* nor a watch item without its tool, and the settings are sealed unless the key store refuses or the
\* desktop wrote them since (agent/loop.go, diagnosis/engine.go, main.ts, nl_generator.go,
\* watchlist/decomposer.go, config/crypto.go).
THEOREM NothingUnasked == Spec => []NothingChangesUnasked
<1>1. ChatSpec => []ChatsInv  BY ChatsInitInv, ChatsNextInv, PTL DEF ChatSpec
<1>2. DiagSpec => []DiagInv  BY DiagInitInv, DiagNextInv, PTL DEF DiagSpec
<1>3. DesktopChatInit /\ [][DesktopChatNext]_desktopChatVars => []DesktopChatInv
  BY DesktopChatInitInv, DesktopChatNextInv, PTL
<1>4. DraftInit /\ [][DraftNext]_draftVars => []DraftInv  BY DraftInitInv, DraftNextInv, PTL
<1>5. RuleInit /\ [][RuleNext]_ruleVars => []RuleDraftInv  BY RuleInitInv, RuleNextInv, PTL
<1>6. ConfigSpec => []ConfigInv  BY ConfigInitInv, ConfigNextInv, PTL DEF ConfigSpec
<1>7. ChatsInv /\ DiagInv /\ DesktopChatInv /\ DraftInv /\ RuleDraftInv /\ ConfigInv
        => NothingChangesUnasked
  BY ChatsInvShows, DiagInvShows, DesktopChatInvShows, DraftInvShows, RuleInvShows,
     ConfigInvShows DEF NothingChangesUnasked
<1> QED
  BY <1>1, <1>2, <1>3, <1>4, <1>5, <1>6, <1>7, ImplementsChats, ImplementsDiagnosis,
     ImplementsDesktopChat, ImplementsDraft, ImplementsRules, ImplementsSettings, PTL

\* A drift is recorded before its baseline is replaced, a rule in doubt triggers, the health score is
\* full only if no item's last check found anything wrong, an alert is critical only at the third
\* check that did, and the pages of a list leave out no row that was there all the time
\* (governance/engine.go, watchlist/evaluator.go, scheduler.go, manager.go,
\* mysql_device_group_repo.go).
THEOREM WrongShows == Spec => []WrongIsShown
<1>1. RuntimeSpec => []RuntimeInv  BY RuntimeInitInv, RuntimeNextInv, PTL DEF RuntimeSpec
<1>2. RuleInit /\ [][RuleNext]_ruleVars => []WatchInv  BY WatchInitInv, WatchNextInv, PTL
<1>3. GroupSpec => []PagesInv  BY PagesInitInv, PagesNextInv, PTL DEF GroupSpec
<1>4. RuntimeInv /\ WatchInv /\ PagesInv => WrongIsShown
  BY RuntimeInvShows, WatchInvShows, DoubtDoesTrigger, PagesInvShows DEF WrongIsShown
<1> QED
  BY <1>1, <1>2, <1>3, <1>4, ImplementsRuntime, ImplementsRules, ImplementsGroups, PTL

\* The steps of a remediation plan run after those they depend on and are undone in the opposite
\* order, and in what a provider of language models is sent of a conversation every call is followed
\* by its answers (remediation/dag.go, executor.go, llm/providers).
THEOREM OrderStays == Spec => []OrderKept
<1>1. PlanInit /\ [][PlanNext]_planVars => []PlanInv  BY PlanInitInv, PlanNextInv, PTL
<1>2. RouteInit /\ [][RouteNext]_routeVars => []RouteInv
  <2>1. RouteInv /\ [RouteNext]_routeVars => RouteInv'  BY RouteNextInv
  <2> QED  BY <2>1, RouteInitInv, PTL
<1>3. PlanInv /\ RouteInv => OrderKept  BY PlanInvShows, RouteInvShows DEF OrderKept
<1> QED  BY <1>1, <1>2, <1>3, ImplementsPlan, ImplementsRouting, PTL

\* A package that is ready and a marketplace item have their object in the store; a role that is
\* bound is there; accounts, API tokens, device groups,
\* tenants and profiles are as their callers were told while calls do not overlap, a profile keeps
\* its tenant and its name, and a device is shown those of its tenant under versions that tell them
\* apart; the settings last saved come back, and what a tool reports as done is done
\* (package_build.go markReady, marketplace/service.go, rbac_service.go, auth_service.go,
\* api_token/service.go, device_group/service.go, the profile services, lifecycle_handler.go
\* GetConfig, config.go, internal/tools).
THEOREM ObjectsStay == Spec => []ObjectsAreThere
<1>1. BuildSpec => []BuildInv  BY BuildInitInv, BuildNextInv, PTL DEF BuildSpec
<1>2. MarketSpec => []MarketInv  BY MarketInitInv, MarketNextInv, PTL DEF MarketSpec
<1>3. RolesInit /\ [][RolesNext]_rolesVars => []RolesInv  BY RolesInitInv, RolesNextInv, PTL
<1>4. AccountsInit /\ [][AccountsNext]_accountsVars => []AccountRowsInv
  BY AccountRowsInitInv, AccountRowsNextInv, PTL
<1>5. GroupSpec => []AnsweredInv
  BY PagesInitInv, PagesNextInv, AnsweredInitInv, AnsweredNextInv, PTL DEF GroupSpec
<1>6. TenantsSpec => []TenantsInv  BY TenantsInitInv, TenantsNextInv, PTL DEF TenantsSpec
<1>7. ConfigSpec => []ComesBackInv
  BY ConfigInitInv, ConfigNextInv, ComesBackInitInv, ComesBackNextInv, PTL DEF ConfigSpec
<1>8. DeviceToolInit /\ [][DeviceToolNext]_deviceToolVars => []DeviceToolInv
  BY DeviceToolInitInv, DeviceToolNextInv, PTL
<1>9. /\ BuildInv => ReadyIsUploaded
      /\ AnsweredInv => GroupsAsAnswered
  BY DEF BuildInv, AnsweredInv
<1>10. /\ BuildInv /\ MarketInv /\ RolesInv /\ AccountRowsInv /\ AnsweredInv
       /\ TenantsInv /\ ComesBackInv /\ DeviceToolInv
       => ObjectsAreThere
  BY <1>9, MarketInvShows, RolesInvShows, AccountRowsInvShows, TenantsInvShows, ComesBackInvShows,
     DeviceToolInvShows DEF ObjectsAreThere
<1> QED
  BY <1>1, <1>2, <1>3, <1>4, <1>5, <1>6, <1>7, <1>8, <1>10, ImplementsBuilds,
     ImplementsMarketplace, ImplementsRoles, ImplementsAccounts, ImplementsGroups,
     ImplementsTenants, ImplementsSettings, ImplementsDeviceTools, PTL

------------------------------------------------------------------------------
(* Types.  Two components need no more than their types to keep them.       *)

LEMMA ActivationInitTypes == ActivationInit => ActivationTypeOK
  BY DEF ActivationInit, LifeInit, ActivationTypeOK

LEMMA ActivationNextTypes ==
  ActivationTypeOK /\ [ActivationNext]_activationVars => ActivationTypeOK'
<1> SUFFICES ASSUME ActivationTypeOK, [ActivationNext]_activationVars  PROVE ActivationTypeOK'
  OBVIOUS
<1> USE DEF ActivationTypeOK
<1>1. CASE Install \/ StartAgent \/ IsActivated \/ ActivateAutoRejected \/ CheckStatus
  BY <1>1 DEF Install, StartAgent, IsActivated, ActivateAutoRejected, CheckStatus
<1>2. CASE ActivateAutoAccepted \/ ActivateAutoUnheard \/ RegisterForBinding
  BY <1>2 DEF ActivateAutoAccepted, ActivateAutoUnheard, RegisterForBinding, Bind
<1>3. CASE SendHeartbeat
  BY <1>3 DEF SendHeartbeat
<1>4. CASE BindByAdmin \/ UnbindByAdmin \/ DeletePackageOf
  BY <1>4 DEF BindByAdmin, UnbindByAdmin, DeletePackageOf, Bind, Unbind, Purge
<1>5. CASE UNCHANGED activationVars  BY <1>5 DEF activationVars
<1> QED  BY <1>1, <1>2, <1>3, <1>4, <1>5 DEF ActivationNext

LEMMA PutIs ==
  ASSUME NEW D, NEW T, NEW f \in [D -> T], NEW S, NEW v \in T  PROVE Put(f, S, v) \in [D -> T]
  BY DEF Put

LEMMA WatchInitTypes == WatchInit => WatchTypeOK
  BY WatchConstants DEF WatchInit, WatchTypeOK

LEMMA WatchNextTypes == WatchTypeOK /\ [WatchNext]_watchVars => WatchTypeOK'
<1> SUFFICES ASSUME WatchTypeOK, [WatchNext]_watchVars  PROVE WatchTypeOK'  OBVIOUS
<1> USE DEF WatchTypeOK
<1>1. CASE BootAgent
  <2>1. Put(item, Builtin, "on") \in [Watched -> {"absent", "on", "off"}]  BY PutIs
  <2>2. Put(timer, Builtin, "armed") \in [Watched -> {"none", "armed", "dead"}]  BY PutIs
  <2> QED  BY <1>1, <2>1, <2>2 DEF BootAgent, Register, Armed
<1>2. CASE StopAgent
  <2>1. Put(timer, Watched, "none") \in [Watched -> {"none", "armed", "dead"}]  BY PutIs
  <2>2. Put(checks, Watched, 0) \in [Watched -> 0 .. MaxChecks]
    <3>1. 0 \in 0 .. MaxChecks  BY WatchConstants
    <3> QED  BY <3>1, PutIs
  <2> QED  BY <1>2, <2>1, <2>2 DEF StopAgent
<1>3. CASE ApplyRules
  <2>1. PICK stale : /\ item' = Put(Put(item, Desired(fetched), "on"), stale, "absent")
                     /\ timer' = Put(Armed(Desired(fetched), "armed"), stale, "none")
    BY <1>3 DEF ApplyRules
  <2>2. Put(item, Desired(fetched), "on") \in [Watched -> {"absent", "on", "off"}]  BY PutIs
  <2>3. item' \in [Watched -> {"absent", "on", "off"}]  BY <2>1, <2>2, PutIs
  <2>4. Armed(Desired(fetched), "armed") \in [Watched -> {"none", "armed", "dead"}]
    BY PutIs DEF Armed
  <2>5. timer' \in [Watched -> {"none", "armed", "dead"}]  BY <2>1, <2>4, PutIs
  <2> QED  BY <1>3, <2>3, <2>5 DEF ApplyRules
<1>4. ASSUME NEW i \in User, ConfirmItem(i)  PROVE WatchTypeOK'
  <2>1. Put(item, {i}, "on") \in [Watched -> {"absent", "on", "off"}]  BY PutIs
  <2>2. Put(timer, {i}, "dead") \in [Watched -> {"none", "armed", "dead"}]  BY PutIs
  <2> QED  BY <1>4, <2>1, <2>2 DEF ConfirmItem, Register, Armed
<1>5. CASE UpdateItem
  <2>1. edit \in [of : Watched, row : {"on", "off"}]  BY <1>5 DEF UpdateItem
  <2> QED  BY <1>5, <2>1 DEF UpdateItem
<1>6. ASSUME NEW i \in Watched, NEW state \in {"on", "off"}, ReadForUpdate(i, state)
      PROVE  WatchTypeOK'
  BY <1>6 DEF ReadForUpdate
<1>7. ASSUME NEW i \in Watched, Unregister(i) \/ TimerFires(i) \/ DeadTimerFires(i) \/ CheckEnds(i)
      PROVE  WatchTypeOK'
  <2>1. checks[i] \in 0 .. MaxChecks  OBVIOUS
  <2> QED  BY <1>7, <2>1, WatchConstants DEF Unregister, TimerFires, DeadTimerFires, CheckEnds
<1>8. ASSUME NEW r \in Platform, NEW state \in {"on", "off", "gone"}, SetRule(r, state)
      PROVE  WatchTypeOK'
  BY <1>8 DEF SetRule
<1>9. CASE FetchRules \/ UNCHANGED watchVars  BY <1>9 DEF FetchRules, watchVars
<1> QED  BY <1>1, <1>2, <1>3, <1>4, <1>5, <1>6, <1>7, <1>8, <1>9, Zenon DEF WatchNext

LEMMA PlatformTypes ==
  Spec => [](/\ ApprovalTypeOK /\ EnrolTypeOK /\ DeviceTypeOK /\ BindingTypeOK
             /\ BatchTypeOK /\ BuildTypeOK /\ FileTypeOK /\ MarketTypeOK
             /\ BotTypeOK /\ AccountsTypeOK /\ RolesTypeOK /\ DraftTypeOK
             /\ GroupTypeOK /\ TenantTypeOK)
<1>1. Spec => []ApprovalTypeOK
  <2>1. ApprovalInv => ApprovalTypeOK  BY DEF ApprovalInv
  <2> QED  BY <2>1, ApprovalInitInv, ApprovalNextInv, ImplementsApprovals, PTL DEF ApprovalSpec
<1>2. Spec => []EnrolTypeOK
  <2>1. EnrolInv => EnrolTypeOK  BY DEF EnrolInv
  <2> QED  BY <2>1, EnrolInitInv, EnrolNextInv, ImplementsEnrolment, PTL DEF EnrolSpec
<1>3. Spec => []DeviceTypeOK
  <2>1. DeviceInv => DeviceTypeOK  BY DEF DeviceInv
  <2> QED  BY <2>1, DeviceInitInv, DeviceNextInv, ImplementsDevices, PTL DEF DeviceSpec
<1>4. Spec => []BindingTypeOK
  <2>1. CountsInv /\ QuotaInv /\ BindingRest => BindingTypeOK  BY BindingTypes
  <2> QED  BY <2>1, CountsInitInv, CountsNextInv, QuotaInitInv, QuotaNextInv, BindingInitTypes,
              BindingNextTypes, ImplementsBindings, PTL DEF BindingSpec
<1>5. Spec => []BatchTypeOK
  <2>1. BatchInv /\ BatchRest => BatchTypeOK  BY BatchTypes
  <2> QED  BY <2>1, BatchInitInv, BatchNextInv, BatchInitTypes, BatchNextTypes,
              ImplementsBatches, PTL DEF BatchSpec
<1>6. Spec => []BuildTypeOK
  <2>1. BuildInv => BuildTypeOK  BY DEF BuildInv
  <2> QED  BY <2>1, BuildInitInv, BuildNextInv, ImplementsBuilds, PTL DEF BuildSpec
<1>7. Spec => []FileTypeOK
  <2>1. FileInv /\ FileRest => FileTypeOK  BY FileTypes
  <2> QED  BY <2>1, FileInitInv, FileNextInv, FileInitTypes, FileNextTypes, ImplementsFiles, PTL
              DEF FileSpec
<1>8. Spec => []MarketTypeOK
  <2>1. MarketInv => MarketTypeOK  BY DEF MarketInv
  <2> QED  BY <2>1, MarketInitInv, MarketNextInv, ImplementsMarketplace, PTL DEF MarketSpec
<1>9. Spec => []BotTypeOK
  <2>1. BotInv => BotTypeOK  BY BotTypes
  <2> QED  BY <2>1, BotInitInv, BotNextInv, ImplementsBot, PTL
<1>10. Spec => []AccountsTypeOK
  <2>1. AccountRowsInv => AccountsTypeOK  BY AccountRowsInvShows
  <2> QED  BY <2>1, AccountRowsInitInv, AccountRowsNextInv, ImplementsAccounts, PTL
<1>11. Spec => []RolesTypeOK
  <2>1. RolesInv => RolesTypeOK  BY RolesInvShows
  <2> QED  BY <2>1, RolesInitInv, RolesNextInv, ImplementsRoles, PTL
<1>12. Spec => []DraftTypeOK
  <2>1. DraftInv /\ DraftRest => DraftTypeOK  BY DraftTypes
  <2> QED  BY <2>1, DraftInitInv, DraftNextInv, DraftInitTypes, DraftNextTypes, ImplementsDraft,
              PTL
<1>13. Spec => []GroupTypeOK
  <2>1. GroupTaskInv /\ PagesInv /\ AnsweredInv /\ GroupRest => GroupTypeOK  BY GroupTypes
  <2> QED  BY <2>1, GroupTaskInitInv, GroupTaskNextInv, PagesInitInv, PagesNextInv,
              AnsweredInitInv, AnsweredNextInv, GroupInitTypes, GroupNextTypes, ImplementsGroups,
              PTL DEF GroupSpec
<1>14. Spec => []TenantTypeOK
  <2>1. TenantsInv /\ TenantRest => TenantTypeOK  BY TenantTypes
  <2> QED  BY <2>1, TenantsInitInv, TenantsNextInv, TenantInitTypes, TenantNextTypes,
              ImplementsTenants, PTL DEF TenantsSpec
<1> QED  BY <1>1, <1>2, <1>3, <1>4, <1>5, <1>6, <1>7, <1>8, <1>9, <1>10, <1>11, <1>12, <1>13,
            <1>14, PTL

LEMMA AgentTypes ==
  Spec => [](/\ ToolTypeOK /\ ActivationTypeOK /\ WatchTypeOK /\ PlanTypeOK
             /\ ChatTypeOK /\ UpdateTypeOK /\ AuditTypeOK /\ DiagTypeOK
             /\ RuntimeTypeOK /\ ShellTypeOK /\ DesktopChatTypeOK /\ DesktopUpdateTypeOK
             /\ RouteTypeOK /\ DeviceToolTypeOK /\ RuleTypeOK /\ ConfigTypeOK)
<1>1. Spec => []ToolTypeOK
  <2>1. ToolInv /\ ToolWires => ToolTypeOK  BY ToolTypes
  <2> QED  BY <2>1, ToolInitInv, ToolNextInv, ToolInitWires, ToolNextWires, ImplementsTools, PTL
              DEF ToolSpec
<1>2. Spec => []ActivationTypeOK
  BY ActivationInitTypes, ActivationNextTypes, ImplementsActivation, PTL DEF ActivationSpec
<1>3. Spec => []WatchTypeOK
  BY WatchInitTypes, WatchNextTypes, ImplementsWatchlist, PTL DEF WatchSpec
<1>4. Spec => []PlanTypeOK
  <2>1. PlanInv => PlanTypeOK  BY PlanTypes
  <2> QED  BY <2>1, PlanInitInv, PlanNextInv, ImplementsPlan, PTL
<1>5. Spec => []ChatTypeOK
  <2>1. ChatsInv /\ ChatRest => ChatTypeOK  BY ChatTypes
  <2> QED  BY <2>1, ChatsInitInv, ChatsNextInv, ChatInitTypes, ChatNextTypes, ImplementsChats,
              PTL DEF ChatSpec
<1>6. Spec => []UpdateTypeOK
  <2>1. UpdateInv => UpdateTypeOK  BY DEF UpdateInv
  <2> QED  BY <2>1, UpdateInitInv, UpdateNextInv, ImplementsAgentUpdate, PTL DEF UpdateSpec
<1>7. Spec => []AuditTypeOK
  <2>1. AuditInv => AuditTypeOK  BY DEF AuditInv
  <2> QED  BY <2>1, AuditInitInv, AuditNextInv, ImplementsAudit, PTL DEF AuditSpec
<1>8. Spec => []DiagTypeOK
  <2>1. DiagInv /\ DiagRest => DiagTypeOK  BY DiagTypes
  <2> QED  BY <2>1, DiagInitInv, DiagNextInv, DiagInitTypes, DiagNextTypes, ImplementsDiagnosis,
              PTL DEF DiagSpec
<1>9. Spec => []RuntimeTypeOK
  <2>1. RuntimeInv /\ RuntimeRest => RuntimeTypeOK  BY RuntimeTypes
  <2> QED  BY <2>1, RuntimeInitInv, RuntimeNextInv, RuntimeInitTypes, RuntimeNextTypes,
              ImplementsRuntime, PTL DEF RuntimeSpec
<1>10. Spec => []ShellTypeOK
  <2>1. ShellInv /\ ShellRest /\ ShellFlags => ShellTypeOK  BY ShellTypes
  <2> QED  BY <2>1, ShellInitInv, ShellNextInv, ShellInitTypes, ShellNextFlags, ShellNextTypes,
              ImplementsShell, PTL
<1>11. Spec => []DesktopChatTypeOK
  <2>1. DesktopChatInv /\ DesktopChatRest => DesktopChatTypeOK  BY DesktopChatTypes
  <2> QED  BY <2>1, DesktopChatInitInv, DesktopChatNextInv, DesktopChatInitTypes,
              DesktopChatNextTypes, ImplementsDesktopChat, PTL
<1>12. Spec => []DesktopUpdateTypeOK
  <2>1. DesktopUpdateInv => DesktopUpdateTypeOK  BY DEF DesktopUpdateInv
  <2> QED  BY <2>1, DesktopUpdateInitInv, DesktopUpdateNextInv, ImplementsDesktopUpdate, PTL
<1>13. Spec => []RouteTypeOK
  <2>1. RouteInv /\ [RouteNext]_routeVars => RouteInv'  BY RouteNextInv
  <2>2. RouteInv /\ RouteRest => RouteTypeOK  BY RouteTypes
  <2> QED  BY <2>2, <2>1, RouteInitInv, RouteInitTypes, RouteNextTypes, ImplementsRouting, PTL
<1>14. Spec => []DeviceToolTypeOK
  <2>1. DeviceToolInv /\ DeviceToolRest => DeviceToolTypeOK  BY DeviceToolTypes
  <2> QED  BY <2>1, DeviceToolInitInv, DeviceToolNextInv, DeviceToolInitTypes,
              DeviceToolNextTypes, ImplementsDeviceTools, PTL
<1>15. Spec => []RuleTypeOK
  <2>1. WatchInv /\ RuleRest => RuleTypeOK  BY RuleTypes
  <2> QED  BY <2>1, WatchInitInv, WatchNextInv, RuleInitTypes, RuleNextTypes, ImplementsRules,
              PTL
<1>16. Spec => []ConfigTypeOK
  <2>1. ConfigInv /\ SettingsRest => ConfigTypeOK  BY SettingsTypes
  <2> QED  BY <2>1, ConfigInitInv, ConfigNextInv, SettingsInitTypes, SettingsNextTypes,
              ImplementsSettings, PTL DEF ConfigSpec
<1> QED  BY <1>1, <1>2, <1>3, <1>4, <1>5, <1>6, <1>7, <1>8, <1>9, <1>10, <1>11, <1>12, <1>13,
            <1>14, <1>15, <1>16, PTL

\* The state of every component, of platform-api as of the agent and its desktop, stays of its type;
\* the types bound what the code counts: the rows and the wave of a batch, the pages of a list, the
\* posts to a model, the messages that wait to be written to a connection (batch_service.go,
\* mysql_device_group_repo.go, nl_generator.go, ws_client.go).
THEOREM ComponentsTypeCorrect == Spec => []TypeOK
<1>1. /\ ApprovalTypeOK /\ EnrolTypeOK /\ DeviceTypeOK /\ BindingTypeOK
      /\ BatchTypeOK /\ BuildTypeOK /\ FileTypeOK /\ MarketTypeOK
      /\ BotTypeOK /\ AccountsTypeOK /\ RolesTypeOK /\ DraftTypeOK
      /\ GroupTypeOK /\ TenantTypeOK /\ ToolTypeOK /\ ActivationTypeOK
      /\ WatchTypeOK /\ PlanTypeOK /\ ChatTypeOK /\ UpdateTypeOK
      /\ AuditTypeOK /\ DiagTypeOK /\ RuntimeTypeOK /\ ShellTypeOK
      /\ DesktopChatTypeOK /\ DesktopUpdateTypeOK /\ RouteTypeOK /\ DeviceToolTypeOK
      /\ RuleTypeOK /\ ConfigTypeOK
      => TypeOK
  BY Zenon DEF TypeOK
<1> QED  BY <1>1, PlatformTypes, AgentTypes, PTL

==============================================================================
