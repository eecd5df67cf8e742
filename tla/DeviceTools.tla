------------------------------ MODULE DeviceTools ------------------------------
(***************************************************************************)
(* The tools of the agent that change the device it runs on.  Chats,       *)
(* diagnoses, remediation plans and the platform's requests execute them   *)
(* independently of each other, and nothing keeps two executions apart.    *)
(* Where a tool reads and writes, or runs several commands, others may     *)
(* come in between, and each part may fail.                                *)
(***************************************************************************)
EXTENDS Naturals, FiniteSets

CONSTANTS
  Executors,      \* who may be executing a tool
  ConfigKeys,     \* keys of the environment file, some of them in allowedConfigKeys
  AllowedKeys,
  Proxies,        \* proxies to switch to
  MaxExecutions   \* bound of the model: executions

ASSUME AllowedAreKeys == AllowedKeys \subseteq ConfigKeys
ASSUME ExecutionBound == MaxExecutions \in Nat

VARIABLES
  windows,     \* does the agent run on Windows?
  executing,   \* what each executor does, and where it is
  executions,  \* executions begun
  envFile,     \* the keys the environment file sets
  proxy,       \* the proxy of the system
  cacheDir,    \* what is in the cache directory
  fileLength,  \* the length of the file to be uploaded
  object,      \* the length of the object in the store, if there is one
  paths,       \* two files, and the one that is at the path both may be renamed to
  service,     \* a service, and a container: as old as it was, new, or down
  shellWork    \* how far the command of shell_exec has come

deviceState ==
  <<envFile, proxy, cacheDir, fileLength, object, paths, service, shellWork>>
deviceToolVars == <<windows, executing, executions, deviceState>>

NoKey == "none"
NotExecuting == [tool |-> NoKey, at |-> "idle", alone |-> TRUE, key |-> NoKey, on |-> FALSE,
                 copy |-> {}, length |-> 0]
CacheEntries == {"tmp", "open"}
Sources == {"draft", "log"}

DeviceToolTypeOK ==
  /\ windows \in BOOLEAN /\ executions \in 0..MaxExecutions
  /\ \A x \in Executors :
       /\ executing[x].at \in {"idle", "begun", "half", "ok", "partial", "error"}
       /\ executing[x].alone \in BOOLEAN
  /\ envFile \subseteq ConfigKeys
  /\ proxy \in [on : BOOLEAN, server : Proxies \cup {NoKey}]
  /\ cacheDir \subseteq CacheEntries /\ fileLength \in 0..2
  /\ object \subseteq 0..2 /\ paths \subseteq Sources \cup {"renamed"}
  /\ service \in {"old", "new", "down"} /\ shellWork \in 0..2

DeviceToolInit ==
  /\ windows \in BOOLEAN
  /\ executing = [x \in Executors |-> NotExecuting] /\ executions = 0
  /\ envFile = {} /\ proxy = [on |-> FALSE, server |-> NoKey]
  /\ cacheDir = CacheEntries /\ fileLength = 1 /\ object = {}
  /\ paths = Sources /\ service = "old" /\ shellWork = 0

-----------------------------------------------------------------------------
(* Executions                                                              *)

Under(x) == executing[x].at \in {"begun", "half"}

\* An execution that begins is alone if no other is under way, and is in the way of those that are.
\* Answers given before have been delivered.
ExecutionBegins(x, call) ==
  /\ ~Under(x) /\ executions < MaxExecutions
  /\ executions' = executions + 1
  /\ executing' = [y \in Executors |->
                     IF y = x
                     THEN [call EXCEPT !.at = "begun", !.alone = \A z \in Executors : ~Under(z)]
                     ELSE IF Under(y) THEN [executing[y] EXCEPT !.alone = FALSE]
                     ELSE NotExecuting]
  /\ UNCHANGED windows

Moves(x, at) ==
  /\ executing' = [executing EXCEPT ![x].at = at]
  /\ UNCHANGED <<windows, executions>>

Runs(x, tool, at) == executing[x].tool = tool /\ executing[x].at = at

\* A tool that cannot do its next part says so; what it has done stays done.
Fails(x) ==
  /\ Under(x) /\ Moves(x, "error")
  /\ UNCHANGED deviceState

-----------------------------------------------------------------------------
(* config_modify                                                           *)

\* A key outside the allowlist is refused; the lines of the file are read, if it can be read.
ConfigModify(x, key, on) ==
  /\ key \in AllowedKeys
  /\ ExecutionBegins(x, [NotExecuting EXCEPT !.tool = "config_modify", !.key = key, !.on = on,
                !.copy = IF on THEN envFile \cup {key} ELSE envFile \ {key}])
  /\ UNCHANGED deviceState

\* The file is opened to be written, which empties it ...
ConfigTruncated(x) ==
  /\ Runs(x, "config_modify", "begun") /\ Moves(x, "half")
  /\ envFile' = {}
  /\ UNCHANGED <<proxy, cacheDir, fileLength, object, paths, service, shellWork>>

\* A slip: only the line that changes is written.
ConfigWrittenAlone(x) ==
  /\ Runs(x, "config_modify", "half") /\ Moves(x, "ok")
  /\ envFile' = executing[x].copy \cap {executing[x].key}
  /\ UNCHANGED <<proxy, cacheDir, fileLength, object, paths, service, shellWork>>

\* ... and its lines, with the one that changes, are written.
ConfigWritten(x) ==
  /\ Runs(x, "config_modify", "half") /\ Moves(x, "ok")
  /\ envFile' = executing[x].copy
  /\ UNCHANGED <<proxy, cacheDir, fileLength, object, paths, service, shellWork>>

-----------------------------------------------------------------------------
(* proxy_toggle                                                            *)

ProxyToggle(x, on, server) ==
  /\ on <=> server # NoKey
  /\ ExecutionBegins(x, [NotExecuting EXCEPT !.tool = "proxy_toggle", !.key = server, !.on = on])
  /\ UNCHANGED deviceState

\* On Windows two values of the registry, one after the other ...
ToggleWindows(x) ==
  /\ windows /\ Runs(x, "proxy_toggle", "begun")
  /\ IF executing[x].on THEN Moves(x, "half") ELSE Moves(x, "ok")
  /\ proxy' = [proxy EXCEPT !.on = executing[x].on]
  /\ UNCHANGED <<envFile, cacheDir, fileLength, object, paths, service, shellWork>>

SetProxyServer(x) ==
  /\ Runs(x, "proxy_toggle", "half") /\ Moves(x, "ok")
  /\ proxy' = [proxy EXCEPT !.server = executing[x].key]
  /\ UNCHANGED <<envFile, cacheDir, fileLength, object, paths, service, shellWork>>

\* ... elsewhere one file, or one command of networksetup.
ToggleUnix(x) ==
  /\ ~windows /\ Runs(x, "proxy_toggle", "begun") /\ Moves(x, "ok")
  /\ proxy' = [on |-> executing[x].on, server |-> executing[x].key]
  /\ UNCHANGED <<envFile, cacheDir, fileLength, object, paths, service, shellWork>>

-----------------------------------------------------------------------------
(* cache_rebuild                                                           *)

\* The directory is one of those allowed, and its entries are read.
CacheRebuild(x) ==
  /\ ExecutionBegins(x, [NotExecuting EXCEPT !.tool = "cache_rebuild", !.copy = cacheDir])
  /\ UNCHANGED deviceState

\* A slip: errors are kept for the answer, which does not look at them.
EntriesRemovedSomehow(x) ==
  /\ Runs(x, "cache_rebuild", "begun") /\ Moves(x, "ok")
  /\ \E left \in SUBSET executing[x].copy : cacheDir' = cacheDir \ (executing[x].copy \ left)
  /\ UNCHANGED <<envFile, proxy, fileLength, object, paths, service, shellWork>>

\* Each is removed, or not: one that is in use stays, and the answer is "partial".
EntriesRemoved(x) ==
  /\ Runs(x, "cache_rebuild", "begun")
  /\ \E left \in SUBSET executing[x].copy :
       /\ cacheDir' = cacheDir \ (executing[x].copy \ left)
       /\ Moves(x, IF left = {} THEN "ok" ELSE "partial")
  /\ UNCHANGED <<envFile, proxy, fileLength, object, paths, service, shellWork>>

-----------------------------------------------------------------------------
(* file_download                                                           *)

\* The file is a regular one within the limit; how long it is now is the length of the request.
FileDownload(x) ==
  /\ ExecutionBegins(x, [NotExecuting EXCEPT !.tool = "file_download", !.length = fileLength])
  /\ UNCHANGED deviceState

\* A slip: the body is sent as long as it is by then.
UploadedAsFound(x) ==
  /\ Runs(x, "file_download", "begun")
  /\ object' = {fileLength} /\ Moves(x, "ok")
  /\ UNCHANGED <<envFile, proxy, cacheDir, fileLength, paths, service, shellWork>>

\* A file that has grown is cut where the request ends, and the request fails though the store has
\* the object; one that has become shorter is not stored.
Uploaded(x) ==
  /\ Runs(x, "file_download", "begun")
  /\ object' = IF fileLength >= executing[x].length THEN {executing[x].length} ELSE object
  /\ Moves(x, IF fileLength = executing[x].length THEN "ok" ELSE "error")
  /\ UNCHANGED <<envFile, proxy, cacheDir, fileLength, paths, service, shellWork>>

\* Something else on the device writes to the file.
FileIsWritten ==
  /\ \E x \in Executors : Runs(x, "file_download", "begun")
  /\ fileLength' \in 0..2 \ {fileLength}
  /\ UNCHANGED <<windows, executing, executions, envFile, proxy, cacheDir, object, paths, service,
                 shellWork>>

-----------------------------------------------------------------------------
(* file_rename                                                             *)

\* A slip: whatever is where it is to go.
FileRenameOver(x, source) ==
  /\ source \in paths
  /\ ExecutionBegins(x, [NotExecuting EXCEPT !.tool = "file_rename", !.key = source])
  /\ UNCHANGED deviceState

\* The source is there, and nothing where it is to go.
FileRename(x, source) ==
  /\ source \in paths /\ "renamed" \notin paths
  /\ ExecutionBegins(x, [NotExecuting EXCEPT !.tool = "file_rename", !.key = source])
  /\ UNCHANGED deviceState

\* os.Rename replaces what is there by then.
Renamed(x) ==
  /\ Runs(x, "file_rename", "begun") /\ executing[x].key \in paths
  /\ paths' = (paths \ {executing[x].key}) \cup {"renamed"} /\ Moves(x, "ok")
  /\ UNCHANGED <<envFile, proxy, cacheDir, fileLength, object, service, shellWork>>

-----------------------------------------------------------------------------
(* service_restart, container_reload                                       *)

ServiceRestart(x) ==
  /\ ExecutionBegins(x, [NotExecuting EXCEPT !.tool = "service_restart"])
  /\ UNCHANGED deviceState

Restarted(x) ==
  /\ Runs(x, "service_restart", "begun")
  /\ \/ service' = "new" /\ Moves(x, "ok")
     \/ service' \in {service, "down"} /\ Moves(x, "error")
  /\ UNCHANGED <<envFile, proxy, cacheDir, fileLength, object, paths, shellWork>>

\* The mode is docker unless another is asked for.
ContainerReload(x, method) ==
  /\ ExecutionBegins(x, [NotExecuting EXCEPT !.tool = "container_reload", !.key = method])
  /\ UNCHANGED deviceState

\* The signal is sent, whether it is heeded or not; only if it cannot be sent is the container
\* restarted.
ReloadDocker(x) ==
  /\ Runs(x, "container_reload", "begun") /\ executing[x].key = "docker"
  /\ \/ service # "down" /\ service' \in {service, "new"} /\ Moves(x, "ok")
     \/ service' = service /\ Moves(x, "half")
  /\ UNCHANGED <<envFile, proxy, cacheDir, fileLength, object, paths, shellWork>>

\* A process is only sent the signal, and a unit of systemd reloads or restarts.
ReloadOther(x) ==
  /\ Runs(x, "container_reload", "begun") /\ executing[x].key = "other" /\ Moves(x, "ok")
  /\ service' \in {service, "new"} /\ service' # "down"
  /\ UNCHANGED <<envFile, proxy, cacheDir, fileLength, object, paths, shellWork>>

\* A slip: a restart that failed is not noticed.
RestartContainerBlind(x) ==
  /\ Runs(x, "container_reload", "half")
  /\ service' \in {"new", "down"} /\ Moves(x, "ok")
  /\ UNCHANGED <<envFile, proxy, cacheDir, fileLength, object, paths, shellWork>>

RestartContainer(x) ==
  /\ Runs(x, "container_reload", "half")
  /\ \/ service' = "new" /\ Moves(x, "ok")
     \/ service' \in {service, "down"} /\ Moves(x, "error")
  /\ UNCHANGED <<envFile, proxy, cacheDir, fileLength, object, paths, shellWork>>

-----------------------------------------------------------------------------
(* shell_exec                                                              *)

\* The model has one command at a time.
ShellExec(x) ==
  /\ \A y \in Executors : executing[y].tool # "shell_exec"
  /\ ExecutionBegins(x, [NotExecuting EXCEPT !.tool = "shell_exec"])
  /\ shellWork' = 0
  /\ UNCHANGED <<envFile, proxy, cacheDir, fileLength, object, paths, service>>

\* The command does its work bit by bit, and exits with code 0 at its end.
CommandWorks(x) ==
  /\ Runs(x, "shell_exec", "begun")
  /\ IF shellWork < 2 THEN shellWork' = shellWork + 1 /\ Moves(x, "begun")
     ELSE Moves(x, "ok") /\ UNCHANGED shellWork
  /\ UNCHANGED <<envFile, proxy, cacheDir, fileLength, object, paths, service>>

\* A slip: what was killed is answered like what ended.
CommandKilledQuietly(x) ==
  /\ Runs(x, "shell_exec", "begun") /\ Moves(x, "ok")
  /\ UNCHANGED deviceState

\* It fails, or is killed after 30 seconds: the tool "succeeded", with another exit code, here
\* "partial".
CommandKilled(x) ==
  /\ Runs(x, "shell_exec", "begun") /\ Moves(x, "partial")
  /\ UNCHANGED deviceState

DeviceToolNext ==
  \/ \E x \in Executors :
       \/ Fails(x)
       \/ \E k \in ConfigKeys, on \in BOOLEAN : ConfigModify(x, k, on)
       \/ ConfigTruncated(x) \/ ConfigWritten(x)
       \/ \E on \in BOOLEAN, s \in Proxies \cup {NoKey} : ProxyToggle(x, on, s)
       \/ ToggleWindows(x) \/ SetProxyServer(x) \/ ToggleUnix(x)
       \/ CacheRebuild(x) \/ EntriesRemoved(x)
       \/ FileDownload(x) \/ Uploaded(x)
       \/ \E s \in Sources : FileRename(x, s)
       \/ Renamed(x)
       \/ ServiceRestart(x) \/ Restarted(x)
       \/ \E m \in {"docker", "other"} : ContainerReload(x, m)
       \/ ReloadDocker(x) \/ ReloadOther(x) \/ RestartContainer(x)
       \/ ShellExec(x) \/ CommandWorks(x) \/ CommandKilled(x)
  \/ FileIsWritten

-----------------------------------------------------------------------------
\* What each tool was asked for.
AsAsked(x) ==
  LET c == executing[x]
  IN CASE c.tool = "config_modify"    -> envFile = c.copy
       [] c.tool = "proxy_toggle"     -> proxy.on = c.on /\ (c.on => proxy.server = c.key)
       [] c.tool = "cache_rebuild"    -> cacheDir \cap c.copy = {}
       [] c.tool = "file_download"    -> object = {c.length}
       [] c.tool = "file_rename"      -> c.key \notin paths /\ Cardinality(paths) = 2
       [] c.tool = "service_restart"  -> service = "new"
       [] c.tool = "container_reload" -> service # "down"
       [] c.tool = "shell_exec"       -> shellWork = 2
       [] OTHER                       -> TRUE

\* A tool that says it has done what it was asked for, and that no other execution overlapped, has:
\* no key of the file is lost, nothing is left in the cache, the object is the file, no file is
\* replaced, and what it restarted runs (internal/tools).
ReportedIsDone ==
  \A x \in Executors : executing[x].at = "ok" /\ executing[x].alone => AsAsked(x)

=============================================================================
