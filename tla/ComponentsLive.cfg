\* What must happen in the components that retry, poll or work through a queue.
SPECIFICATION FairSpec
CONSTANTS
  Parts = {
    "approvals", "tools", "activation", "batches", "builds", "watchlist",
    "chats", "shell"}
  NoApproval = NoApproval
  NoUser = NoUser
  Calls = {c1, c2}
  Approvers = {u1, u2}
  Idle = Idle
  Tools = {t1, t2}
  ReadOnly = {t2}
  Deciders = {x1}
  MaxLinks = 2
  SendCapacity = 1
  Agents = {a1, a2}
  Handlers = {h1, h2}
  MaxUses = 1
  MaxRows = 3
  MaxBoots = 2
  NoCopy = NoCopy
  Savers = {s1, s2}
  Unsaved = Unsaved
  Devices = {d1, d2}
  Packages = {p1, p2}
  Requests = {r1, r2}
  MaxBegun = 3
  Quotas = {1}
  Nothing = Nothing
  GroupSize = 12
  BatchSize = 10
  Threshold = 9
  Builders = {b1, b2}
  MaxAttempts = 3
  Builtin = {}
  Platform = {rule}
  User = {wish}
  MaxChecks = 1
  NoEdit = NoEdit
  NoAnswer = NoAnswer
  Steps = {1, 2, 3}
  Chats = {chat1, chat2}
  MaxIterations = 1
  MaxCalls = 1
  Askers = {asker}
  MaxVersion = 3
  MaxEvents = 1
  MaxSends = 3
  BatchRows = 2
  Deciding = {f1, f2, f3}
  FileApprovers = {v1, v2}
  Assigned = {v1}
  MaxSent = 2
  NoRequest = NoRequest
  Registered = {"info", "ping", "flush"}
  ReadsOnly = {"info", "ping"}
  Harmless = {"info", "ping"}
  Mapped <- DMapped
  LocalActions <- DLocal
  NoSuchTool = "none_such"
  Editors = {e1, e2}
  MaxEdits = 3
  Artefacts = {zip1, zip2}
  NoItem = NoItem
  NoFile = NoFile
  MaxDrifts = 1
  NoBaseline = NoBaseline
  Bundles <- DBundles
  Injected <- DInjected
  Legacy <- DLegacy
  SetupModes = {"chosen"}
  MaxKeys = 1
  MaxLoads = 3
  MaxSaves = 2
  MaxGroups = 2
  GroupDevices = {g_d1, g_d2}
  GroupEdits = {g_e1}
  PageSize = 1
  MaxGroupCalls = 4
  g_d1 = g_d1
  g_d2 = g_d2
  g_e1 = g_e1
  RuleTools = {"info", "dns_lookup"}
  Sampled <- DConditions
  Fields <- DFields
  Written <- DWritten
  Numbers <- DNumbers
  NaN = {"NaN"}
  Said <- DSaid
  Outputs = {"high", "low", "half", "document", "text"}
  Drafts <- DDrafts
  MaxBad = 3
  MaxPuts = 1
  Executors = {x1, x2}
  ConfigKeys = {"http_proxy", "no_proxy", "PATH"}
  AllowedKeys = {"http_proxy", "no_proxy"}
  Proxies = {"p1"}
  MaxExecutions = 2
  Platforms = {"windows", "win32", "linux", ""}
  MaxChoices = 2
  MaxPieces = 2
  Seeders = {i1, i2}
  DefaultRoles = {"tenant_admin", "security_auditor"}
  OwnRoles = {"own"}
  Permissions = {"devices:view"}
  MaxRoleEdits = 2
  Callers = {k1, k2}
  Passwords = {"p", "q"}
  MaxAccountCalls = 4
  BotChats = {c1, c2}
  BotDevices = {d1, d2}
  BotRequests = {r1, r2}
  ChatSessions = {s1}
  MaxMessages = 3
  KeysSet = {"openai", "gemini"}
  RemoteKinds = {"anthropic"}
  MaxRounds = 1
  MaxToolCalls = 2
  MaxStarts = 2
  MaxRequests = 1
  Delays = 1
  MaxChatSends = 3
  MaxRelease = 3
  MaxKills = 2
  NoInfo = NoInfo
  TenantIds = {"n1", "n2", "n3"}
  ModelIds = {"m1", "m2"}
  PolicyIds = {"p1"}
  AgentIds = {"ap", "aq"}
  FirstTenants <- DFirstTenants
  FirstProfiles <- DFirstProfiles
  LeafNew <- DLeafNew
  AgentNew <- DAgentNew
  TenantAsked <- DTenantAsked
  LeafAsked <- DLeafAsked
  AgentAsked <- DAgentAsked
  ProfileNames = {"a", "b"}
  Slugs = {"one", "two"}
  OwnTenant = "n1"
  OwnProfile = "ap"
  MaxProfileEdits = 2
  MaxProfileCalls = 3
  MaxPulls = 2
\* Some components come to an end.
CHECK_DEADLOCK FALSE
PROPERTIES
  WaitsEnd
  WorkEnds
  NewsArrives
