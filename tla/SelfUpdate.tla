----------------------------- MODULE SelfUpdate -----------------------------
(***************************************************************************)
(* The agent's updater: it asks platform-api for a newer version, stages   *)
(* the program and, when the desktop shell says so, puts it in the place   *)
(* of the running one, which becomes the backup.                           *)
(*                                                                         *)
(* The check that boot registers every hour never runs: bootstrap starts   *)
(* the runtime before it registers it, and the runtime launches the tasks  *)
(* it knows when it starts.  What is left are the requests of the local    *)
(* API.  Downloads may overlap, with each other and with an apply; the     *)
(* shell sends one request to apply and waits for its answer, and nothing  *)
(* here says what two at once would do to the files.                       *)
(*                                                                         *)
(* The platform clears the checksum whenever it offers a URL, so nothing   *)
(* staged is ever recognised or verified by it.                            *)
(***************************************************************************)
EXTENDS Naturals, FiniteSets

CONSTANTS
  Askers,      \* slots for requests to check or download
  MaxVersion   \* bound: versions the tenant publishes; version 0 stands for none

ASSUME UpdateConstants == MaxVersion \in Nat \ {0}

Versions == 0 .. MaxVersion

VARIABLES
  offered,    \* version of the latest package that is ready
  agentUp,    \* the process runs
  latest,     \* latestInfo: its LatestVersion, 0 if there is none or no update
  pendingBin, \* pendingBinary: the version staged there
  staged,     \* versions in the staging directory
  program,    \* version at the path of the executable, 0 if there is no file
  backup,     \* version in its .bak file, 0 if there is none
  recorded,   \* CurrentVersion, also in the configuration file
  asks,       \* per asker: the version it downloads, 0 if idle
  apply,      \* the request to apply: its next step, and the version it installs
  cutOff      \* history: an apply was left half done: the process ended in the middle of it, or the
              \* old program could not be put back

updateVars == <<offered, agentUp, latest, pendingBin, staged, program, backup, recorded, asks,
                apply, cutOff>>

Idling == [step |-> "idle", version |-> 0]

UpdateTypeOK ==
  /\ offered \in Versions /\ latest \in Versions /\ pendingBin \in Versions
  /\ program \in Versions /\ backup \in Versions /\ recorded \in Versions
  /\ agentUp \in BOOLEAN /\ cutOff \in BOOLEAN
  /\ staged \subseteq Versions
  /\ asks \in [Askers -> Versions]
  /\ apply \in [step : {"idle", "starts", "moves", "copies", "restores", "forgets", "records"},
                version : Versions]

UpdateInit ==
  /\ offered = 1 /\ program = 1 /\ recorded = 1
  /\ agentUp = TRUE
  /\ latest = 0 /\ pendingBin = 0 /\ backup = 0
  /\ staged = {}
  /\ asks = [a \in Askers |-> 0]
  /\ apply = Idling
  /\ cutOff = FALSE

-----------------------------------------------------------------------------
\* The platform, and the check.

PublishVersion ==
  /\ offered < MaxVersion
  /\ offered' = offered + 1
  /\ UNCHANGED <<agentUp, latest, pendingBin, staged, program, backup, recorded, asks, apply,
                 cutOff>>

\* CheckUpdate of platform-api: the answer names a version only if it is newer.
NewerThan(version) == IF offered > version THEN offered ELSE 0

\* Every check replaces what the one before it found.
CheckForUpdate ==
  /\ agentUp
  /\ latest' = NewerThan(recorded)
  /\ UNCHANGED <<offered, agentUp, pendingBin, staged, program, backup, recorded, asks, apply,
                 cutOff>>

\* handleUpdateDownload checks first; it goes no further without an update.
BeginDownload(a) ==
  /\ agentUp
  /\ asks[a] = 0
  /\ latest' = NewerThan(recorded)
  /\ latest' # 0
  /\ asks' = [asks EXCEPT ![a] = latest']
  /\ UNCHANGED <<offered, agentUp, pendingBin, staged, program, backup, recorded, apply, cutOff>>

\* The file is complete before it is renamed into its place.
EndDownload(a) ==
  /\ asks[a] # 0
  /\ staged' = staged \cup {asks[a]}
  /\ pendingBin' = asks[a]
  /\ asks' = [asks EXCEPT ![a] = 0]
  /\ UNCHANGED <<offered, agentUp, latest, program, backup, recorded, apply, cutOff>>

DownloadFails(a) ==
  /\ asks[a] # 0
  /\ asks' = [asks EXCEPT ![a] = 0]
  /\ UNCHANGED <<offered, agentUp, latest, pendingBin, staged, program, backup, recorded, apply,
                 cutOff>>

-----------------------------------------------------------------------------
\* ApplyUpdate, file operation by file operation.

Advances(here, there) ==
  /\ apply.step = here
  /\ apply' = IF there = "idle" THEN Idling ELSE [apply EXCEPT !.step = there]

BeginApply ==
  /\ agentUp
  /\ apply.step = "idle"
  /\ pendingBin # 0
  /\ apply' = [step |-> "starts", version |-> pendingBin]
  /\ UNCHANGED <<offered, agentUp, latest, pendingBin, staged, program, backup, recorded, asks,
                 cutOff>>

\* The path of the program is resolved, so there is a file; the old backup is removed, if it can be.
RemoveBackup ==
  /\ program # 0
  /\ Advances("starts", "moves")
  /\ backup' \in {0, backup}
  /\ UNCHANGED <<offered, agentUp, latest, pendingBin, staged, program, recorded, asks, cutOff>>

PathFails ==
  /\ Advances("starts", "idle")
  /\ UNCHANGED <<offered, agentUp, latest, pendingBin, staged, program, backup, recorded, asks,
                 cutOff>>

MoveAway ==
  /\ Advances("moves", "copies")
  /\ backup' = program
  /\ program' = 0
  /\ UNCHANGED <<offered, agentUp, latest, pendingBin, staged, recorded, asks, cutOff>>

MoveFails ==
  /\ Advances("moves", "idle")
  /\ UNCHANGED <<offered, agentUp, latest, pendingBin, staged, program, backup, recorded, asks,
                 cutOff>>

\* copyFile ends with a rename: the program is there as a whole or not at all.
CopyIn ==
  /\ apply.version \in staged
  /\ Advances("copies", "forgets")
  /\ program' = apply.version
  /\ UNCHANGED <<offered, agentUp, latest, pendingBin, staged, backup, recorded, asks, cutOff>>

CopyFails ==
  /\ Advances("copies", "restores")
  /\ UNCHANGED <<offered, agentUp, latest, pendingBin, staged, program, backup, recorded, asks,
                 cutOff>>

\* A slip: the failed copy is only reported.
RestoreNot ==
  /\ Advances("restores", "idle")
  /\ UNCHANGED <<offered, agentUp, latest, pendingBin, staged, program, backup, recorded, asks,
                 cutOff>>

Restore ==
  /\ Advances("restores", "idle")
  /\ program' = IF backup # 0 THEN backup ELSE program
  /\ backup' = 0
  /\ UNCHANGED <<offered, agentUp, latest, pendingBin, staged, recorded, asks, cutOff>>

\* Nobody looks at whether the rename back succeeds: then there is only the backup.
RestoreFails ==
  /\ Advances("restores", "idle")
  /\ cutOff' = TRUE
  /\ UNCHANGED <<offered, agentUp, latest, pendingBin, staged, program, backup, recorded, asks>>

\* Whatever was staged meanwhile is forgotten, too.
ForgetStaged ==
  /\ Advances("forgets", "records")
  /\ staged' = staged \ {apply.version}
  /\ pendingBin' = 0
  /\ UNCHANGED <<offered, agentUp, latest, program, backup, recorded, asks, cutOff>>

\* The version recorded is that of the last check, not that of the file.
RecordVersion ==
  /\ Advances("records", "idle")
  /\ recorded' = IF latest # 0 THEN latest ELSE recorded
  /\ UNCHANGED <<offered, agentUp, latest, pendingBin, staged, program, backup, asks, cutOff>>

-----------------------------------------------------------------------------
\* The process ends, at the request of the shell or not; what is not in a file is lost.
AgentEnds ==
  /\ agentUp
  /\ agentUp' = FALSE
  /\ latest' = 0
  /\ pendingBin' = 0
  /\ cutOff' = (cutOff \/ apply.step # "idle")
  /\ asks' = [a \in Askers |-> 0]
  /\ apply' = Idling
  /\ UNCHANGED <<offered, staged, program, backup, recorded>>

\* The shell spawns the file at the path, if there is one.
AgentStarts ==
  /\ ~agentUp
  /\ program # 0
  /\ agentUp' = TRUE
  /\ UNCHANGED <<offered, latest, pendingBin, staged, program, backup, recorded, asks, apply,
                 cutOff>>

UpdateNext ==
  \/ PublishVersion \/ CheckForUpdate
  \/ \E a \in Askers : BeginDownload(a) \/ EndDownload(a) \/ DownloadFails(a)
  \/ BeginApply \/ RemoveBackup \/ PathFails \/ MoveAway \/ MoveFails \/ CopyIn \/ CopyFails
  \/ Restore \/ RestoreFails \/ ForgetStaged \/ RecordVersion
  \/ AgentEnds \/ AgentStarts

UpdateSpec == UpdateInit /\ [][UpdateNext]_updateVars

-----------------------------------------------------------------------------

\* Applied one at a time, updates never leave the device without a program: wherever the process
\* is cut off, and even where the old program cannot be put back, it is there, if only as the
\* backup, and no later apply removes that; any other apply that fails has put it back, whatever
\* downloads and checks go on beside it (updater.go ApplyUpdate, copyFile).
ProgramKept ==
  /\ program # 0 \/ backup # 0
  /\ ~cutOff /\ apply.step = "idle" => program # 0

=============================================================================
