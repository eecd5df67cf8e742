----------------------------- MODULE AgentProofs -----------------------------
(****************************************************************************)
(* Proofs about the components of the agent and of the desktop beside it:   *)
(* what holds of them for any number of tools, users, chats and             *)
(* connections, whatever is lost, stopped or restarted.                     *)
(****************************************************************************)
EXTENDS RemoteTools, SelfUpdate, DesktopShell, DesktopUpdate, AuditTrail, ChatLoop,
        DesktopChat, Diagnosis, RuleChecks, AgentConfig, AgentRuntime, Remediation,
        ModelRouting, DeviceTools, Functions, FiniteSetTheorems, NaturalsInduction,
        WellFoundedInduction, TLAPS

------------------------------------------------------------------------------
(* Tools of a session: A tool that changes something runs only on a first   *)
(* answer that was yes, for any number of tools, users and connections.     *)
(* The invariant follows an answer through the channel: as long as the      *)
(* reader waits, the channel holds the first answer or there was none.      *)

AnswerChannel == {<<>>, <<TRUE>>, <<FALSE>>}

ToolShapes ==
  /\ tool \in [Tools -> {"unsent", "waits", "runs", "over"}]
  /\ answers \in [Tools -> AnswerChannel]
  /\ decider \in [Deciders -> (Tools \X BOOLEAN) \cup {Idle}]
  /\ first \in [Tools -> {"none", "yes", "no"}]
  /\ pending \subseteq Tools /\ ran \subseteq Tools

\* Nobody is asked about a tool, and nobody answers, before it was sent.
Unasked(t) ==
  tool[t] = "unsent" =>
    /\ answers[t] = <<>> /\ first[t] = "none" /\ t \notin pending
    /\ \A d \in Deciders : decider[d] # Idle => decider[d][1] # t

\* What the channel holds while the reader waits.
FirstIsHeld(t) ==
  tool[t] = "waits" =>
    /\ answers[t] = <<>> => first[t] = "none"
    /\ answers[t] = <<TRUE>> => first[t] = "yes"

RunsOnYes(t) == t \notin ReadOnly /\ (tool[t] = "runs" \/ t \in ran) => first[t] = "yes"

ToolInv == ToolShapes /\ \A t \in Tools : Unasked(t) /\ FirstIsHeld(t) /\ RunsOnYes(t)

USE ToolConstants DEF ToolShapes

LEMMA ToolInitInv == ToolInit => ToolInv
  BY DEF ToolInit, ToolInv, AnswerChannel, Unasked, FirstIsHeld, RunsOnYes

\* Steps of the connection leave tools and answers alone.
LEMMA ConnectionKeepsInv ==
  ASSUME ToolInv, UNCHANGED <<tool, pending, answers, decider, first, ran>>
  PROVE  ToolInv'
  BY DEF ToolInv, Unasked, FirstIsHeld, RunsOnYes

\* The reader stops waiting, with an answer or without; it goes on to run only on a yes.
LEMMA WaitEndsKeepsInv ==
  ASSUME ToolInv, NEW t \in Tools, tool[t] = "waits", NEW next \in {"runs", "over"},
         tool' = [tool EXCEPT ![t] = next], pending' = pending \ {t},
         answers' = [answers EXCEPT ![t] = <<>>] \/ answers' = answers,
         next = "runs" => answers[t] = <<TRUE>>,
         UNCHANGED <<decider, first, ran>>
  PROVE  ToolInv'
<1>1. ToolShapes'
  BY DEF ToolInv, AnswerChannel
<1>2. ASSUME NEW o \in Tools PROVE (Unasked(o) /\ FirstIsHeld(o) /\ RunsOnYes(o))'
  <2>1. CASE o = t
    BY <2>1 DEF ToolInv, Unasked, FirstIsHeld, RunsOnYes
  <2>2. CASE o # t
    BY <2>2 DEF ToolInv, Unasked, FirstIsHeld, RunsOnYes
  <2> QED
    BY <2>1, <2>2
<1> QED
  BY <1>1, <1>2 DEF ToolInv

LEMMA ToolStartKeepsInv ==
  ASSUME ToolInv, NEW l \in Links, NEW t \in Tools, ToolStarted(l, t)
  PROVE  ToolInv'
<1> USE DEF ToolStarted
<1>1. ToolShapes'
  BY DEF ToolInv
<1>2. ASSUME NEW o \in Tools PROVE (Unasked(o) /\ FirstIsHeld(o) /\ RunsOnYes(o))'
  <2>1. CASE o = t
    <3>1. answers'[o] = <<>> /\ first'[o] = "none" /\ tool'[o] # "unsent"
      BY <2>1 DEF ToolInv, Unasked
    <3>2. (Unasked(o) /\ FirstIsHeld(o))'
      BY <3>1 DEF Unasked, FirstIsHeld
    <3>3. t \notin ReadOnly => tool'[o] = "waits" /\ t \notin ran
      BY <2>1 DEF ToolInv, Unasked, RunsOnYes
    <3>4. RunsOnYes(o)'
      BY <2>1, <3>3 DEF RunsOnYes
    <3> QED
      BY <3>2, <3>4
  <2>2. CASE o # t
    BY <2>2 DEF ToolInv, Unasked, FirstIsHeld, RunsOnYes
  <2> QED
    BY <2>1, <2>2
<1> QED
  BY <1>1, <1>2 DEF ToolInv

LEMMA ExecuteKeepsInv ==
  ASSUME ToolInv, NEW t \in Tools, Execute(t)
  PROVE  ToolInv'
<1> USE DEF Execute
<1>1. ToolShapes'
  BY DEF ToolInv
<1>2. ASSUME NEW o \in Tools PROVE (Unasked(o) /\ FirstIsHeld(o) /\ RunsOnYes(o))'
  BY DEF ToolInv, Unasked, FirstIsHeld, RunsOnYes
<1> QED
  BY <1>1, <1>2 DEF ToolInv

LEMMA ResolveKeepsInv ==
  ASSUME ToolInv, NEW d \in Deciders, NEW t \in Tools, NEW yes \in BOOLEAN, Resolve(d, t, yes)
  PROVE  ToolInv'
<1> USE DEF Resolve
<1>1. <<t, yes>> \in Tools \X BOOLEAN /\ <<t, yes>>[1] = t
  OBVIOUS
<1>2. ToolShapes'
  BY <1>1 DEF ToolInv
<1>3. tool[t] # "unsent"
  BY DEF ToolInv, Unasked
<1>4. ASSUME NEW o \in Tools PROVE (Unasked(o) /\ FirstIsHeld(o) /\ RunsOnYes(o))'
  <2>1. Unasked(o)'
    BY <1>1, <1>3 DEF ToolInv, Unasked
  <2>2. (FirstIsHeld(o) /\ RunsOnYes(o))'
    BY DEF ToolInv, FirstIsHeld, RunsOnYes
  <2> QED
    BY <2>1, <2>2
<1> QED
  BY <1>2, <1>4 DEF ToolInv

\* An answer goes into an empty channel; it is the first if the reader still waits.
LEMMA ToolAnswerKeepsInv ==
  ASSUME ToolInv, NEW d \in Deciders, SendAnswer(d)
  PROVE  ToolInv'
<1> DEFINE t == decider[d][1]
           yes == decider[d][2]
           firstNow == IF first[t] # "none" THEN first[t] ELSE IF yes THEN "yes" ELSE "no"
<1>1. t \in Tools /\ yes \in BOOLEAN /\ decider[d] # Idle
  BY DEF SendAnswer, ToolInv
<1>2. /\ answers[t] = <<>> /\ answers' = [answers EXCEPT ![t] = <<yes>>]
      /\ first' = [first EXCEPT ![t] = firstNow]
      /\ decider' = [decider EXCEPT ![d] = Idle]
      /\ UNCHANGED <<tool, pending, ran>>
  BY DEF SendAnswer
<1>3. tool[t] # "unsent"
  BY <1>1 DEF ToolInv, Unasked
<1>4. firstNow \in {"none", "yes", "no"} /\ (first[t] = "yes" => firstNow = "yes")
  BY <1>1 DEF ToolInv
<1>5. tool[t] = "waits" => first[t] = "none"
  BY <1>1, <1>2 DEF ToolInv, FirstIsHeld
<1>6. /\ <<yes>> \in AnswerChannel /\ <<yes>> # <<>>
      /\ first[t] = "none" /\ <<yes>> = <<TRUE>> => firstNow = "yes"
  <2>1. CASE yes = TRUE
    BY <2>1 DEF AnswerChannel
  <2>2. CASE yes = FALSE
    BY <2>2 DEF AnswerChannel
  <2> QED
    BY <1>1, <2>1, <2>2
<1> HIDE DEF t, yes, firstNow
<1>7. ToolShapes'
  BY <1>1, <1>2, <1>4, <1>6 DEF ToolInv
<1>8. ASSUME NEW o \in Tools PROVE (Unasked(o) /\ FirstIsHeld(o) /\ RunsOnYes(o))'
  <2>1. CASE o = t
    <3>1. Unasked(o)'
      BY <1>2, <1>3, <2>1 DEF Unasked
    <3>2. FirstIsHeld(o)'
      BY <1>1, <1>2, <1>5, <1>6, <2>1 DEF ToolInv, FirstIsHeld
    <3>3. RunsOnYes(o)'
      BY <1>1, <1>2, <1>4, <2>1 DEF ToolInv, RunsOnYes
    <3> QED
      BY <3>1, <3>2, <3>3
  <2>2. CASE o # t
    BY <1>1, <1>2, <2>2 DEF ToolInv, Unasked, FirstIsHeld, RunsOnYes
  <2> QED
    BY <2>1, <2>2
<1> QED
  BY <1>7, <1>8 DEF ToolInv

LEMMA ToolNextInv == ToolInv /\ [ToolNext]_toolVars => ToolInv'
<1> SUFFICES ASSUME ToolInv, [ToolNext]_toolVars PROVE ToolInv'
  OBVIOUS
<1>1. CASE Connect \/ Reconnect
  BY <1>1, ConnectionKeepsInv DEF Connect, Reconnect
<1>2. ASSUME NEW l \in Links,
             Breaks(l) \/ ReadFails(l) \/ WriterTakes(l) \/ WriterWrites(l) \/ PingFails(l)
      PROVE  ToolInv'
  BY <1>2, ConnectionKeepsInv DEF Breaks, ReadFails, WriterTakes, WriterWrites, PingFails
<1>3. ASSUME NEW t \in Tools, CheckExpires(t) PROVE ToolInv'
  BY <1>3, WaitEndsKeepsInv DEF CheckExpires
<1>4. ASSUME NEW t \in Tools, CheckDenied(t) PROVE ToolInv'
  BY <1>4, WaitEndsKeepsInv DEF CheckDenied
<1>5. ASSUME NEW t \in Tools, CheckApproved(t) PROVE ToolInv'
  BY <1>5, WaitEndsKeepsInv DEF CheckApproved
<1>6. CASE UNCHANGED toolVars
  BY <1>6, ConnectionKeepsInv DEF toolVars
<1> QED
  BY <1>1, <1>2, <1>3, <1>4, <1>5, <1>6, ToolStartKeepsInv, ExecuteKeepsInv, ResolveKeepsInv,
     ToolAnswerKeepsInv DEF ToolNext

\* However many users answer at once, and whatever becomes of the connection, a tool that changes
\* something runs only if the first answer to its request was yes (policy/engine.go Check, Resolve;
\* ws_client.go handleToolStarted).
THEOREM FirstAnswerIsKept == ToolSpec => []FirstAnswerDecides
<1>1. ToolInv => FirstAnswerDecides
  BY DEF ToolInv, RunsOnYes, FirstAnswerDecides
<1> QED
  BY <1>1, ToolInitInv, ToolNextInv, PTL DEF ToolSpec

HIDE ToolConstants DEF ToolShapes

------------------------------------------------------------------------------
(* Updates of the agent: A program is in place, or its backup is, wherever  *)
(* the process ends and whatever cannot be put back.  The invariant says    *)
(* which of the two at each step of an apply.                               *)

\* The steps between the move away and what ends it.
InBackup == {"copies", "restores"}

UpdateInv ==
  /\ UpdateTypeOK
  /\ program # 0 \/ backup # 0
  /\ ~agentUp => apply = Idling
  /\ apply.step # "idle" => apply.version # 0
  /\ apply.step \in InBackup => backup # 0
  /\ apply.step \in {"moves", "forgets", "records"} => program # 0
  /\ ~cutOff /\ apply.step \notin InBackup => program # 0

USE UpdateConstants DEF Versions, Idling, InBackup

LEMMA UpdateInitInv == UpdateInit => UpdateInv
<1> SUFFICES ASSUME UpdateInit PROVE UpdateInv  OBVIOUS
<1>1. agentUp \in BOOLEAN /\ cutOff \in BOOLEAN  BY Zenon DEF UpdateInit
<1> QED  BY <1>1 DEF UpdateInit, UpdateInv, UpdateTypeOK

\* Checks and downloads leave the files and the apply alone.
LEMMA DownloadsKeepInv ==
  ASSUME UpdateInv, UpdateTypeOK', UNCHANGED <<agentUp, program, backup, apply, cutOff>>
  PROVE  UpdateInv'
  BY DEF UpdateInv

LEMMA DownloadsKeepTypes ==
  ASSUME UpdateInv,
         \/ PublishVersion \/ CheckForUpdate
         \/ \E a \in Askers : BeginDownload(a) \/ EndDownload(a) \/ DownloadFails(a)
  PROVE  UpdateInv'
<1> USE DEF UpdateInv, UpdateTypeOK
<1>1. NewerThan(recorded) \in Versions  BY DEF NewerThan
<1>2. CASE PublishVersion  BY <1>2, DownloadsKeepInv DEF PublishVersion
<1>3. CASE CheckForUpdate  BY <1>1, <1>3, DownloadsKeepInv DEF CheckForUpdate
<1>4. ASSUME NEW a \in Askers, BeginDownload(a) \/ EndDownload(a) \/ DownloadFails(a) PROVE UpdateInv'
  <2>1. UpdateTypeOK'
    <3>1. CASE BeginDownload(a)  BY <1>1, <3>1 DEF BeginDownload
    <3>2. CASE EndDownload(a)
      <4>1. asks[a] \in Versions  OBVIOUS
      <4>2. pendingBin' \in Versions  BY <3>2, <4>1 DEF EndDownload
      <4>3. staged' \subseteq Versions  BY <3>2, <4>1 DEF EndDownload
      <4>4. asks' \in [Askers -> Versions]  BY <3>2 DEF EndDownload
      <4> QED  BY <3>2, <4>2, <4>3, <4>4 DEF EndDownload
    <3>3. CASE DownloadFails(a)  BY <3>3 DEF DownloadFails
    <3> QED  BY <1>4, <3>1, <3>2, <3>3
  <2> QED  BY <1>4, <2>1, DownloadsKeepInv DEF BeginDownload, EndDownload, DownloadFails
<1> QED  BY <1>2, <1>3, <1>4

LEMMA AdvancesTyped ==
  ASSUME UpdateInv, NEW here, NEW there \in {"idle", "starts", "moves", "copies", "restores", "forgets", "records"},
         Advances(here, there)
  PROVE  /\ apply.step = here
         /\ apply'.step = there
         /\ there # "idle" => apply'.version = apply.version
         /\ apply' \in [step : {"idle", "starts", "moves", "copies", "restores", "forgets", "records"},
                        version : Versions]
  BY DEF Advances, UpdateInv, UpdateTypeOK

\* The steps of an apply, which only a process that runs takes.
LEMMA ApplyKeepsInv ==
  ASSUME UpdateInv,
         \/ BeginApply \/ RemoveBackup \/ PathFails \/ MoveAway \/ MoveFails \/ CopyIn \/ CopyFails
         \/ Restore \/ RestoreFails \/ ForgetStaged \/ RecordVersion
  PROVE  UpdateInv'
<1> USE DEF UpdateInv, UpdateTypeOK
<1>1. CASE BeginApply  BY <1>1 DEF BeginApply
<1>2. CASE RemoveBackup
  <2>1. Advances("starts", "moves")  BY <1>2 DEF RemoveBackup
  <2> QED  BY <1>2, <2>1, AdvancesTyped DEF RemoveBackup
<1>3. CASE MoveAway
  <2>1. Advances("moves", "copies")  BY <1>3 DEF MoveAway
  <2> QED  BY <1>3, <2>1, AdvancesTyped DEF MoveAway
<1>4. CASE MoveFails
  <2>1. Advances("moves", "idle")  BY <1>4 DEF MoveFails
  <2> QED  BY <1>4, <2>1, AdvancesTyped DEF MoveFails
<1>5. CASE CopyIn
  <2>1. Advances("copies", "forgets")  BY <1>5 DEF CopyIn
  <2> QED  BY <1>5, <2>1, AdvancesTyped DEF CopyIn
<1>6. CASE CopyFails
  <2>1. Advances("copies", "restores")  BY <1>6 DEF CopyFails
  <2> QED  BY <1>6, <2>1, AdvancesTyped DEF CopyFails
<1>7. CASE Restore
  <2>1. Advances("restores", "idle")  BY <1>7 DEF Restore
  <2> QED  BY <1>7, <2>1, AdvancesTyped DEF Restore
<1>8. CASE ForgetStaged
  <2>1. Advances("forgets", "records")  BY <1>8 DEF ForgetStaged
  <2>2. staged' \subseteq staged /\ pendingBin' = 0  BY <1>8 DEF ForgetStaged
  <2>3. UNCHANGED <<offered, agentUp, latest, program, backup, recorded, asks, cutOff>>
    BY <1>8 DEF ForgetStaged
  <2> QED  BY <2>1, <2>2, <2>3, AdvancesTyped
<1>9. CASE RecordVersion
  <2>1. Advances("records", "idle")  BY <1>9 DEF RecordVersion
  <2> QED  BY <1>9, <2>1, AdvancesTyped DEF RecordVersion
<1>10. CASE PathFails
  <2>1. Advances("starts", "idle")  BY <1>10 DEF PathFails
  <2> QED  BY <1>10, <2>1, AdvancesTyped DEF PathFails
<1>11. CASE RestoreFails
  <2>1. Advances("restores", "idle")  BY <1>11 DEF RestoreFails
  <2>2. cutOff' \in BOOLEAN /\ cutOff'  BY <1>11 DEF RestoreFails
  <2> QED  BY <1>11, <2>1, <2>2, AdvancesTyped DEF RestoreFails
<1> QED  BY <1>1, <1>2, <1>3, <1>4, <1>5, <1>6, <1>7, <1>8, <1>9, <1>10, <1>11

\* What is not in a file is lost; an agent runs again only from a program.
LEMMA ProcessKeepsInv ==
  ASSUME UpdateInv, AgentEnds \/ AgentStarts
  PROVE  UpdateInv'
<1> USE DEF UpdateInv, UpdateTypeOK
<1>1. CASE AgentEnds
  <2>1. UpdateTypeOK'
    <3>1. agentUp' \in BOOLEAN /\ cutOff' \in BOOLEAN  BY <1>1 DEF AgentEnds
    <3> QED  BY <1>1, <3>1 DEF AgentEnds
  <2>2. ~cutOff' => program # 0  BY <1>1 DEF AgentEnds
  <2> QED  BY <1>1, <2>1, <2>2 DEF AgentEnds
<1>2. CASE AgentStarts  BY <1>2 DEF AgentStarts
<1> QED  BY <1>1, <1>2

LEMMA UpdateNextInv == UpdateInv /\ [UpdateNext]_updateVars => UpdateInv'
<1> SUFFICES ASSUME UpdateInv, [UpdateNext]_updateVars PROVE UpdateInv'  OBVIOUS
<1>1. CASE UNCHANGED updateVars  BY <1>1, DownloadsKeepInv DEF updateVars, UpdateInv, UpdateTypeOK
<1>2. CASE UpdateNext
  BY <1>2, DownloadsKeepTypes, ApplyKeepsInv, ProcessKeepsInv DEF UpdateNext
<1> QED  BY <1>1, <1>2

LEMMA UpdateInvShows == UpdateInv => ProgramKept
  BY DEF UpdateInv, ProgramKept

HIDE UpdateConstants DEF Versions, Idling, InBackup

------------------------------------------------------------------------------
(* Updates of the desktop: What is unpacked is newer, and whole unless a    *)
(* write failed, for any number of releases, checks and kills.  An archive  *)
(* has its own name only when all of the answer came, and nothing takes one *)
(* away while the program runs; whatever the program knows of a release it  *)
(* forgets when it ends.                                                    *)

DesktopUpdateInv ==
  /\ DesktopUpdateTypeOK
  /\ zip = whole \cup spoiled
  /\ info # NoInfo \/ fetching # 0 => running
  /\ script # 0 => ~running /\ script \in zip /\ script > inPlace
  /\ info # NoInfo => /\ info.version > inPlace
                      /\ info.archive # 0 => info.archive \in zip /\ info.archive > inPlace
  /\ fetching # 0 => info # NoInfo /\ fetching > inPlace

USE DesktopUpdateConstants DEF Releases

LEMMA DesktopUpdateInitInv == DesktopUpdateInit => DesktopUpdateInv
<1> SUFFICES ASSUME DesktopUpdateInit PROVE DesktopUpdateInv  OBVIOUS
<1>1. running \in BOOLEAN  BY Zenon DEF DesktopUpdateInit
<1> QED  BY <1>1 DEF DesktopUpdateInit, DesktopUpdateInv, DesktopUpdateTypeOK

LEMMA CheckKeepsInv ==
  ASSUME DesktopUpdateInv, Released \/ CheckPortableUpdate
  PROVE  DesktopUpdateInv'
<1> USE DEF DesktopUpdateInv, DesktopUpdateTypeOK
<1>1. CASE Released  BY <1>1 DEF Released
<1>2. CASE CheckPortableUpdate
  <2> DEFINE found == [version |-> released, archive |-> 0]
  <2>1. /\ found \in [version : Releases, archive : 0 .. MaxRelease]
        /\ found.version = released /\ found.archive = 0
    OBVIOUS
  <2>2. /\ running /\ released > inPlace /\ info' = found
        /\ UNCHANGED <<released, inPlace, running, fetching, partial, zip, whole, spoiled, script, kills>>
    BY <1>2 DEF CheckPortableUpdate, IsNewer
  <2>3. found # NoInfo
    <3>1. found \in [version : Nat, archive : Nat]  BY <2>1
    <3> QED  BY <3>1
  <2> HIDE DEF found
  <2> QED  BY <2>1, <2>2, <2>3
<1> QED  BY <1>1, <1>2

LEMMA FetchKeepsInv ==
  ASSUME DesktopUpdateInv, DownloadStarts \/ ArchiveArrives \/ DownloadEnds \/ FetchFails
  PROVE  DesktopUpdateInv'
<1> USE DEF DesktopUpdateInv, DesktopUpdateTypeOK
<1>1. CASE DownloadStarts
  <2>1. /\ fetching' \in Releases /\ fetching' > inPlace /\ info # NoInfo
        /\ partial' \subseteq Releases
    BY <1>1 DEF DownloadStarts
  <2> QED  BY <1>1, <2>1 DEF DownloadStarts
<1>2. CASE ArchiveArrives  BY <1>2 DEF ArchiveArrives
<1>3. CASE DownloadEnds
  <2>1. /\ fetching \in zip /\ fetching # 0 /\ fetching > inPlace
        /\ info \in [version : Releases, archive : 0 .. MaxRelease]
    BY <1>3 DEF DownloadEnds
  <2> DEFINE known == [info EXCEPT !.archive = fetching]
  <2>2. /\ known \in [version : Releases, archive : 0 .. MaxRelease]
        /\ known.version = info.version /\ known.archive = fetching
    BY <2>1
  <2>3. known # NoInfo
    <3>1. known \in [version : Nat, archive : Nat]  BY <2>2
    <3> QED  BY <3>1
  <2>4. /\ running /\ info' = known /\ fetching' = 0
        /\ UNCHANGED <<released, inPlace, running, partial, zip, whole, spoiled, script, kills>>
    BY <1>3 DEF DownloadEnds
  <2> HIDE DEF known
  <2> QED  BY <2>1, <2>2, <2>3, <2>4
<1>4. CASE FetchFails  BY <1>4 DEF FetchFails
<1> QED  BY <1>1, <1>2, <1>3, <1>4

LEMMA ApplyPortableKeepsInv ==
  ASSUME DesktopUpdateInv, ApplyPortableUpdate \/ ScriptRuns \/ Killed \/ Started
  PROVE  DesktopUpdateInv'
<1> USE DEF DesktopUpdateInv, DesktopUpdateTypeOK
<1>1. CASE ApplyPortableUpdate  BY <1>1 DEF ApplyPortableUpdate
<1>2. CASE ScriptRuns  BY <1>2 DEF ScriptRuns
<1>3. CASE Killed
  <2>1. kills' \in 0 .. MaxKills  BY <1>3 DEF Killed
  <2>2. running' \in BOOLEAN /\ ~running'  BY <1>3 DEF Killed
  <2>3. /\ info' = NoInfo /\ fetching' = 0 /\ running
        /\ UNCHANGED <<released, inPlace, partial, zip, whole, spoiled, script>>
    BY <1>3 DEF Killed
  <2> QED  BY <2>1, <2>2, <2>3
<1>4. CASE Started  BY <1>4 DEF Started
<1> QED  BY <1>1, <1>2, <1>3, <1>4

LEMMA DesktopUpdateNextInv == DesktopUpdateInv /\ [DesktopUpdateNext]_desktopUpdateVars => DesktopUpdateInv'
<1> SUFFICES ASSUME DesktopUpdateInv, [DesktopUpdateNext]_desktopUpdateVars PROVE DesktopUpdateInv'
  OBVIOUS
<1>1. CASE UNCHANGED desktopUpdateVars
  BY <1>1 DEF desktopUpdateVars, DesktopUpdateInv, DesktopUpdateTypeOK
<1>2. CASE DesktopUpdateNext
  BY <1>2, CheckKeepsInv, FetchKeepsInv, ApplyPortableKeepsInv DEF DesktopUpdateNext
<1> QED  BY <1>1, <1>2

LEMMA DesktopUpdateInvShows == DesktopUpdateInv => UnpacksNewRelease
  BY DEF DesktopUpdateInv, UnpacksNewRelease

HIDE DesktopUpdateConstants DEF Releases

------------------------------------------------------------------------------
(* The keeper of agent-core: Where a kill is forced one process runs, for   *)
(* any number of processes, restarts and updates.  The invariant counts a   *)
(* process that is being started, one that runs, and one whose end was not  *)
(* noticed yet: there is one of the three.                                  *)

\* Processes the shell has not seen the end of.
InFlux == {p \in Processes : process[p] \in {"starting", "up", "exited"}}

ShellInv ==
  /\ process \in [Processes -> {"none", "starting", "up", "ending", "exited", "gone"}]
  /\ keptProcess \in Processes \cup {0}
  /\ spawning # NotSpawning =>
       spawning.process \in Processes /\ process[spawning.process] = "starting"
  /\ forced =>
       /\ \A p, q \in InFlux : p = q
       /\ \A p \in Processes :
            /\ process[p] = "starting" => spawning # NotSpawning /\ keptProcess = 0
            /\ process[p] = "up" => p = keptProcess /\ ~quitting
            /\ process[p] # "ending"

LEMMA NoneIsKept == 0 \notin Processes
  BY DEF Processes

LEMMA ShellInitInv == ShellInit => ShellInv
  BY NoneIsKept DEF ShellInit, ShellInv, InFlux

\* A step that neither starts nor stops a process.
LEMMA ShownKeepsInv ==
  ASSUME ShellInv, UNCHANGED <<forced, process, keptProcess, spawning, quitting>>
  PROVE  ShellInv'
  BY DEF ShellInv, InFlux

\* A process is only started when there is none the shell still has to do with.
LEMMA SpawnKeepsInv ==
  ASSUME ShellInv, TimersMayFire, NEW chain, NEW recent, SpawnAgentCore(chain, recent),
         UNCHANGED <<forced, keptProcess, quitting>>
  PROVE  ShellInv'
<1>1. CASE process' = process /\ spawning' = spawning  BY <1>1, ShownKeepsInv
<1>2. CASE ~(process' = process /\ spawning' = spawning)
  <2>1. keptProcess = 0 /\ spawning = NotSpawning
    BY <1>2 DEF SpawnAgentCore, SpawnRefused
  <2>2. PICK p \in Processes :
          /\ process' = [process EXCEPT ![p] = "starting"]
          /\ spawning' = [process |-> p, chain |-> chain]
    BY <1>2 DEF SpawnAgentCore
  <2>3. forced => \A q \in Processes : q \notin InFlux
    BY <2>1, NoneIsKept DEF ShellInv, TimersMayFire, InFlux
  <2>4. spawning'.process = p /\ spawning' # NotSpawning  BY <2>2, NoneIsKept DEF NotSpawning
  <2>5. /\ process' \in [Processes -> {"none", "starting", "up", "ending", "exited", "gone"}]
        /\ process'[p] = "starting"
        /\ \A q \in Processes : q # p => process'[q] = process[q]
    BY <2>2 DEF ShellInv
  <2>6. forced => \A q \in Processes : q \in InFlux' => q = p
    BY <2>3, <2>5 DEF InFlux
  <2>7. forced =>
          \A q \in Processes :
            /\ process'[q] = "starting" => spawning' # NotSpawning /\ keptProcess = 0
            /\ process'[q] # "up" /\ process'[q] # "ending"
    BY <2>1, <2>3, <2>4, <2>5 DEF InFlux, ShellInv
  <2>8. \A q \in InFlux' : q \in Processes  BY DEF InFlux
  <2> QED  BY <2>4, <2>5, <2>6, <2>7, <2>8 DEF ShellInv
<1> QED  BY <1>1, <1>2

\* The process that was started runs, and is kept, or it is gone.
LEMMA SpawnEndsKeepsInv ==
  ASSUME ShellInv, NEW works \in BOOLEAN, SpawnEnds(works)
  PROVE  ShellInv'
<1> DEFINE p == spawning.process
           becomes == IF works THEN "up" ELSE "gone"
<1>1. /\ ~quitting /\ spawning # NotSpawning /\ spawning' = NotSpawning
      /\ process' = [process EXCEPT ![p] = becomes]
      /\ keptProcess' = IF works THEN p ELSE keptProcess
      /\ UNCHANGED <<forced, quitting>>
  BY DEF SpawnEnds
<1>2. p \in Processes /\ process[p] = "starting"  BY <1>1 DEF ShellInv
<1>3. becomes \in {"up", "gone"} /\ (becomes = "up" => keptProcess' = p)  BY <1>1
<1> HIDE DEF p, becomes
<1>4. /\ process' \in [Processes -> {"none", "starting", "up", "ending", "exited", "gone"}]
      /\ process'[p] = becomes
      /\ \A q \in Processes : q # p => process'[q] = process[q]
  BY <1>1, <1>2, <1>3 DEF ShellInv
<1>5. keptProcess' \in Processes \cup {0}  BY <1>1, <1>2 DEF ShellInv
<1>6. ASSUME forced PROVE \A q \in Processes : q # p => process[q] \notin {"starting", "up", "exited", "ending"}
  BY <1>2, <1>6 DEF ShellInv, InFlux
<1>7. ASSUME forced'
      PROVE  /\ \A q, r \in InFlux' : q = r
             /\ \A q \in Processes :
                  /\ process'[q] # "starting"
                  /\ process'[q] = "up" => q = keptProcess' /\ ~quitting'
                  /\ process'[q] # "ending"
  <2>1. forced  BY <1>1, <1>7
  <2>2. \A q \in Processes : q # p => process'[q] \notin {"starting", "up", "exited", "ending"}
    BY <1>4, <1>6, <2>1
  <2>3. \A q \in InFlux' : q = p  BY <2>2 DEF InFlux
  <2>4. process'[p] # "starting" /\ process'[p] # "ending"  BY <1>3, <1>4
  <2>5. \A q \in Processes : process'[q] = "up" => q = keptProcess' /\ ~quitting'
    BY <1>1, <1>3, <1>4, <2>2
  <2> QED  BY <2>2, <2>3, <2>4, <2>5
<1> QED  BY <1>1, <1>4, <1>5, <1>7 DEF ShellInv

\* A process ends, and its end is noticed: nothing else was running.
LEMMA EndsKeepInv ==
  ASSUME ShellInv, NEW p \in Processes, CoreEnds(p) \/ ExitNoticed(p)
  PROVE  ShellInv'
<1>1. CASE CoreEnds(p)
  <2>1. /\ process[p] \in {"up", "ending"}
        /\ process' = [process EXCEPT ![p] = "exited"]
        /\ UNCHANGED <<forced, keptProcess, spawning, quitting>>
    BY <1>1 DEF CoreEnds
  <2>2. /\ process' \in [Processes -> {"none", "starting", "up", "ending", "exited", "gone"}]
        /\ process'[p] = "exited"
        /\ \A q \in Processes : q # p => process'[q] = process[q]
    BY <2>1 DEF ShellInv
  <2>3. forced => InFlux' \subseteq InFlux  BY <2>1, <2>2 DEF ShellInv, InFlux
  <2> QED  BY <2>1, <2>2, <2>3 DEF ShellInv
<1>2. CASE ExitNoticed(p)
  <2>1. /\ process[p] = "exited" /\ keptProcess' = 0
        /\ process' = [process EXCEPT ![p] = "gone"]
        /\ UNCHANGED <<forced, spawning, quitting>>
    BY <1>2 DEF ExitNoticed
  <2>2. /\ process' \in [Processes -> {"none", "starting", "up", "ending", "exited", "gone"}]
        /\ process'[p] = "gone"
        /\ \A q \in Processes : q # p => process'[q] = process[q]
    BY <2>1 DEF ShellInv
  <2>3. forced => InFlux' = {}  BY <2>1, <2>2 DEF ShellInv, InFlux
  <2>4. forced => \A q \in Processes : process'[q] \notin {"starting", "up", "ending"}
    BY <2>1, <2>2, <2>3 DEF ShellInv, InFlux
  <2> QED  BY <2>1, <2>2, <2>3, <2>4 DEF ShellInv
<1> QED  BY <1>1, <1>2

\* A process that is asked to end is kept no more; if the kill is forced it has ended.
LEMMA StopKeepsInv ==
  ASSUME ShellInv, process' = Stopped, keptProcess' = 0, UNCHANGED <<forced, spawning>>
  PROVE  ShellInv'
<1>1. CASE keptProcess = 0 \/ process[keptProcess] # "up"
  <2>1. process' = process  BY <1>1 DEF Stopped
  <2>2. forced => \A q \in Processes : process[q] # "up"  BY <1>1, NoneIsKept DEF ShellInv
  <2> QED  BY <2>1, <2>2 DEF ShellInv, InFlux
<1>2. CASE keptProcess # 0 /\ process[keptProcess] = "up"
  <2> DEFINE ends == IF forced THEN "exited" ELSE "ending"
  <2>1. keptProcess \in Processes /\ process' = [process EXCEPT ![keptProcess] = ends]
    BY <1>2 DEF ShellInv, Stopped
  <2>2. ends \in {"exited", "ending"} /\ (forced => ends = "exited")  OBVIOUS
  <2> HIDE DEF ends
  <2>3. /\ process' \in [Processes -> {"none", "starting", "up", "ending", "exited", "gone"}]
        /\ process'[keptProcess] = ends
        /\ \A q \in Processes : q # keptProcess => process'[q] = process[q]
    BY <2>1, <2>2 DEF ShellInv
  <2>4. forced => InFlux' \subseteq InFlux  BY <1>2, <2>1, <2>2, <2>3 DEF InFlux
  <2>5. forced => \A q \in Processes : process'[q] # "up" /\ process'[q] # "ending"
    BY <2>1, <2>2, <2>3 DEF ShellInv
  <2>6. forced => \A q \in Processes : process'[q] # "starting"
    BY <1>2, <2>1, <2>2, <2>3 DEF ShellInv
  <2>7. spawning # NotSpawning => process'[spawning.process] = "starting"
    BY <1>2, <2>1, <2>3 DEF ShellInv
  <2> QED  BY <2>3, <2>4, <2>5, <2>6, <2>7 DEF ShellInv
<1> QED  BY <1>1, <1>2

LEMMA ShellNextInv == ShellInv /\ [ShellNext]_shellVars => ShellInv'
<1> SUFFICES ASSUME ShellInv, [ShellNext]_shellVars PROVE ShellInv'  OBVIOUS
<1>1. CASE UNCHANGED shellVars  BY <1>1, ShownKeepsInv DEF shellVars
<1>2. CASE \E works \in BOOLEAN : SpawnEnds(works)  BY <1>2, SpawnEndsKeepsInv
<1>3. CASE SpawnFires  BY <1>3, SpawnKeepsInv DEF SpawnFires
<1>4. ASSUME NEW k \in Chains, RetryFires(k) PROVE ShellInv'
  <2>1. CASE keptProcess # 0  BY <1>4, <2>1, ShownKeepsInv DEF RetryFires, spawnVars
  <2>2. CASE keptProcess = 0  BY <1>4, <2>2, SpawnKeepsInv DEF RetryFires
  <2> QED  BY <2>1, <2>2
<1>5. CASE \E p \in Processes : CoreEnds(p) \/ ExitNoticed(p)  BY <1>5, EndsKeepInv
<1>6. CASE \/ ThrottleEnds \/ CeilingPasses \/ ProbeSent \/ ProbeAnswered
           \/ EarlyProbeSent \/ EarlyProbeAnswered
  BY <1>6, ShownKeepsInv
     DEF ThrottleEnds, CeilingPasses, ProbeSent, ProbeAnswered, EarlyProbeSent, EarlyProbeAnswered,
         spawnVars
<1>7. CASE RestartAgentCore \/ AgentUpdateApplied \/ Quit
  BY <1>7, StopKeepsInv DEF RestartAgentCore, AgentUpdateApplied, Quit
<1> QED  BY <1>1, <1>2, <1>3, <1>4, <1>5, <1>6, <1>7 DEF ShellNext

LEMMA ShellInvShows == ShellInv => OneAgent
<1> SUFFICES ASSUME ShellInv, forced
             PROVE  /\ \A p, q \in Processes : {process[p], process[q]} \subseteq {"starting", "up"} => p = q
                    /\ \A p \in Processes : process[p] = "up" => p = keptProcess /\ ~quitting
  BY DEF OneAgent
<1>1. ASSUME NEW p \in Processes, NEW q \in Processes,
             {process[p], process[q]} \subseteq {"starting", "up"}
      PROVE  p = q
  <2>1. p \in InFlux /\ q \in InFlux  BY <1>1 DEF InFlux
  <2> QED  BY <2>1 DEF ShellInv
<1> QED  BY <1>1 DEF ShellInv

------------------------------------------------------------------------------
(* Audit events: An event is on its way or has its row, in their order, for *)
(* any number of events, batches and archives.  The invariant adds that the *)
(* events of the batch and of the queue come in their order, and that what  *)
(* is going to be marked was archived.                                      *)

\* The events on their way, as they will be sent, and those that will not come.
OnItsWay == batch \o queue
LostEvents == refused \cup dropped

Stored(d) == \E n \in DOMAIN rows : rows[n].event = d

\* The first row of the event comes after those of earlier events only.
FirstRow(d) == \E n \in DOMAIN rows : rows[n].event = d /\ \A m \in 1 .. n : rows[m].event <= d

NoneForgotten ==
  \A d \in 1 .. eventsReported :
    (\E i \in DOMAIN OnItsWay : OnItsWay[i] = d) \/ Stored(d) \/ d \in LostEvents

RowsInOrder == \A n \in DOMAIN rows : \A d \in 1 .. rows[n].event : d \in LostEvents \/ FirstRow(d)

ArchivedIsHeld == \A n \in DOMAIN rows : rows[n].archived => n \in archive

\* Nothing was reported that is not numbered, and what is on its way is in the order of its numbers.
InOrder ==
  /\ \A i, j \in DOMAIN OnItsWay : i < j => OnItsWay[i] < OnItsWay[j]
  /\ \A i \in DOMAIN OnItsWay : OnItsWay[i] <= eventsReported

FlusherOK ==
  /\ flusher # "sends" => batch = <<>>
  /\ agentIs = "down" => queue = <<>> /\ flusher = "gone"

AuditInv ==
  /\ AuditTypeOK
  /\ NoneForgotten /\ RowsInOrder /\ ArchivedIsHeld
  /\ InOrder /\ FlusherOK
  /\ archiver = "marks" => picked \subseteq archive

USE AuditConstants DEF Events

LEMMA AuditInitInv == AuditInit => AuditInv
<1> SUFFICES ASSUME AuditInit PROVE AuditInv  OBVIOUS
<1>1. /\ agentIs = "up" /\ flusher = "waits" /\ archiver = "waits"
      /\ queue = <<>> /\ batch = <<>> /\ rows = <<>> /\ eventsReported = 0 /\ sends = 0
      /\ refused = {} /\ dropped = {} /\ picked = {} /\ archive = {}
  BY DEF AuditInit
<1>2. AuditTypeOK  BY <1>1 DEF AuditTypeOK
<1>3. DOMAIN rows = {} /\ DOMAIN OnItsWay = {}  BY <1>1 DEF OnItsWay
<1> QED  BY <1>1, <1>2, <1>3
         DEF AuditInv, NoneForgotten, RowsInOrder, ArchivedIsHeld, InOrder, FlusherOK

AuditRow == [event : Events, archived : BOOLEAN]

\* What is in a sequence, and two of them one behind the other.
LEMMA SeqMembers == ASSUME NEW S, NEW s \in Seq(S) PROVE \A n \in DOMAIN s : s[n] \in S
  OBVIOUS

LEMMA Joined ==
  ASSUME NEW S, NEW s \in Seq(S), NEW t \in Seq(S)
  PROVE  /\ s \o t \in Seq(S)
         /\ DOMAIN s = 1 .. Len(s) /\ Len(s) \in Nat /\ Len(t) \in Nat
         /\ DOMAIN (s \o t) = 1 .. Len(s) + Len(t)
         /\ \A i \in 1 .. Len(s) : (s \o t)[i] = s[i]
         /\ \A i \in 1 .. Len(t) : (s \o t)[Len(s) + i] = t[i]
  OBVIOUS

LEMMA RowEvents ==
  ASSUME AuditTypeOK
  PROVE  /\ DOMAIN rows = 1 .. Len(rows) /\ Len(rows) \in Nat
         /\ rows \in Seq(AuditRow)
         /\ \A n \in DOMAIN rows : rows[n].event \in Events /\ rows[n].event \in Nat
<1>1. rows \in Seq(AuditRow)  BY DEF AuditTypeOK, AuditRow
<1>2. \A n \in DOMAIN rows : rows[n] \in AuditRow  BY <1>1, SeqMembers
<1>3. \A n \in DOMAIN rows : rows[n].event \in Events  BY <1>2 DEF AuditRow
<1>4. DOMAIN rows = 1 .. Len(rows) /\ Len(rows) \in Nat  BY <1>1
<1> QED  BY <1>1, <1>3, <1>4

\* Where an event that is on its way is.
LEMMA WayParts ==
  ASSUME AuditTypeOK
  PROVE  /\ OnItsWay \in Seq(Events)
         /\ DOMAIN OnItsWay = 1 .. Len(batch) + Len(queue)
         /\ \A i \in 1 .. Len(batch) : OnItsWay[i] = batch[i]
         /\ \A i \in 1 .. Len(queue) : OnItsWay[Len(batch) + i] = queue[i]
  BY DEF AuditTypeOK, OnItsWay

\* The rows of a batch are put behind those that are there.
LEMMA RowsAppended ==
  ASSUME AuditTypeOK, InsertRows
  PROVE  /\ rows' \in Seq(AuditRow)
         /\ DOMAIN rows' = 1 .. Len(rows) + Len(batch)
         /\ \A n \in DOMAIN rows : n \in DOMAIN rows' /\ rows'[n] = rows[n]
         /\ \A i \in 1 .. Len(batch) : /\ rows'[Len(rows) + i].event = batch[i]
                                       /\ rows'[Len(rows) + i].archived = FALSE
<1> DEFINE new == [i \in DOMAIN batch |-> [event |-> batch[i], archived |-> FALSE]]
<1>1. batch \in Seq(Events) /\ rows \in Seq(AuditRow)  BY RowEvents DEF AuditTypeOK
<1>2. DOMAIN batch = 1 .. Len(batch) /\ Len(batch) \in Nat  BY <1>1
<1>3. \A i \in 1 .. Len(batch) : [event |-> batch[i], archived |-> FALSE] \in AuditRow
  BY <1>1, <1>2, SeqMembers DEF AuditRow
<1>4. new \in Seq(AuditRow) /\ Len(new) = Len(batch)
  BY <1>2, <1>3
<1>5. \A i \in 1 .. Len(batch) : new[i].event = batch[i] /\ new[i].archived = FALSE
  BY <1>2
<1>6. rows' = rows \o new  BY DEF InsertRows
<1> HIDE DEF new
<1>7. /\ rows' \in Seq(AuditRow)
      /\ DOMAIN rows = 1 .. Len(rows) /\ Len(rows) \in Nat
      /\ DOMAIN rows' = 1 .. Len(rows) + Len(batch)
      /\ \A i \in 1 .. Len(rows) : rows'[i] = rows[i]
      /\ \A i \in 1 .. Len(batch) : rows'[Len(rows) + i] = new[i]
  <2>1. /\ rows \o new \in Seq(AuditRow)
        /\ DOMAIN rows = 1 .. Len(rows) /\ Len(rows) \in Nat
        /\ DOMAIN (rows \o new) = 1 .. Len(rows) + Len(new)
        /\ \A i \in 1 .. Len(rows) : (rows \o new)[i] = rows[i]
        /\ \A i \in 1 .. Len(new) : (rows \o new)[Len(rows) + i] = new[i]
    <3>1. rows \in Seq(AuditRow) /\ new \in Seq(AuditRow)  BY <1>1, <1>4
    <3> QED  BY ONLY <3>1, Joined
  <2> QED  BY <1>4, <1>6, <2>1
<1>8. \A n \in DOMAIN rows : n \in DOMAIN rows'  BY <1>2, <1>7
<1> QED  BY <1>5, <1>7, <1>8

\* An event with a row keeps it, and with a first row that too.
LEMMA RowsStay ==
  ASSUME AuditInv, AuditTypeOK',
         \A n \in DOMAIN rows : n \in DOMAIN rows' /\ rows'[n].event = rows[n].event,
         NEW d
  PROVE  (Stored(d) => Stored(d)') /\ (FirstRow(d) => FirstRow(d)')
<1>1. ASSUME FirstRow(d) PROVE FirstRow(d)'
  <2>1. PICK n \in DOMAIN rows : rows[n].event = d /\ \A m \in 1 .. n : rows[m].event <= d
    BY <1>1 DEF FirstRow
  <2>2. rows \in Seq([event : Events, archived : BOOLEAN])  BY DEF AuditInv, AuditTypeOK
  <2>3. \A m \in 1 .. n : m \in DOMAIN rows  BY <2>2
  <2> QED  BY <2>1, <2>3 DEF FirstRow
<1> QED  BY <1>1 DEF Stored

\* A batch that is inserted comes in its order, whatever of it has rows already.
LEMMA InsertKeepsOrder ==
  ASSUME AuditInv, InsertRows, AuditTypeOK', LostEvents' = LostEvents
  PROVE  RowsInOrder'
<1> DEFINE s == OnItsWay
<1>1. AuditTypeOK /\ RowsInOrder /\ NoneForgotten /\ InOrder  BY DEF AuditInv
<1>2. /\ rows \in Seq([event : Events, archived : BOOLEAN]) /\ batch \in Seq(Events) /\ queue \in Seq(Events)
      /\ eventsReported \in Nat
  BY <1>1 DEF AuditTypeOK
<1>3. /\ DOMAIN s = 1 .. Len(batch) + Len(queue)
      /\ \A i \in 1 .. Len(batch) : s[i] = batch[i]
      /\ s \in Seq(Events)
  BY <1>1, WayParts
<1>4. /\ \A i, j \in DOMAIN s : i < j => s[i] < s[j]
      /\ \A i \in DOMAIN s : s[i] <= eventsReported
  BY <1>1 DEF InOrder
<1> HIDE DEF s
<1>11. \A p \in DOMAIN s : s[p] \in Nat
  <2>1. \A p \in DOMAIN s : s[p] \in Events  BY <1>3, SeqMembers
  <2> QED  BY <2>1
<1>5. SUFFICES ASSUME NEW n \in DOMAIN rows', NEW d \in 1 .. rows'[n].event, d \notin LostEvents
               PROVE  FirstRow(d)'
  BY DEF RowsInOrder
<1>6. /\ DOMAIN rows' = 1 .. Len(rows) + Len(batch)
      /\ \A m \in DOMAIN rows : m \in DOMAIN rows' /\ rows'[m] = rows[m]
      /\ \A i \in 1 .. Len(batch) : rows'[Len(rows) + i].event = batch[i]
  BY <1>1, RowsAppended
<1>10. /\ DOMAIN rows = 1 .. Len(rows) /\ Len(rows) \in Nat
       /\ Len(batch) \in Nat /\ Len(queue) \in Nat
  BY <1>1, <1>2, RowEvents
<1>7. ASSUME NEW m \in DOMAIN rows, d <= rows[m].event PROVE FirstRow(d)'
  <2>1. rows[m].event \in Nat  BY <1>1, RowEvents
  <2>2. d \in 1 .. rows[m].event  BY <1>7, <2>1
  <2>3. FirstRow(d)  BY <1>1, <2>2, <1>5 DEF RowsInOrder
  <2> QED  BY <2>3, <1>6, RowsStay
<1>8. CASE n \in DOMAIN rows  BY <1>5, <1>6, <1>7, <1>8
<1>9. CASE n \notin DOMAIN rows
  <2>1. PICK i \in 1 .. Len(batch) : n = Len(rows) + i
    <3>1. n - Len(rows) \in 1 .. Len(batch)  BY <1>6, <1>9, <1>10
    <3> QED  BY <1>6, <1>10, <3>1
  <2>2. i \in DOMAIN s /\ s[i] = rows'[n].event  BY <1>2, <1>3, <1>6, <2>1
  <2>3. s[i] \in Nat  BY <1>11, <2>2
  <2>4. d \in 1 .. eventsReported /\ d <= s[i]  BY <1>2, <1>4, <1>5, <2>2, <2>3
  <2>5. CASE \E m \in DOMAIN rows : d <= rows[m].event  BY <1>7, <2>5
  <2>6. CASE \A m \in DOMAIN rows : ~(d <= rows[m].event)
    <3>1. ~Stored(d)
      <4>1. \A m \in DOMAIN rows : rows[m].event # d  BY <2>4, <2>6
      <4> QED  BY <4>1 DEF Stored
    <3>2. PICK j \in DOMAIN s : s[j] = d  BY <1>1, <1>5, <2>4, <3>1 DEF NoneForgotten, s
    <3>3. j <= i /\ j \in 1 .. Len(batch)
      <4>1. i \in Int /\ j \in Int /\ Len(batch) \in Nat /\ Len(queue) \in Nat  BY <1>2, <1>3, <3>2
      <4>2. ~(i < j)  BY <1>4, <2>2, <2>3, <2>4, <3>2
      <4> QED  BY <1>3, <4>1, <4>2
    <3> DEFINE r == Len(rows) + j
    <3>4. r \in DOMAIN rows' /\ rows'[r].event = d  BY <1>3, <1>6, <1>10, <3>2, <3>3
    <3>6. r \in Nat /\ Len(rows) <= r  BY <1>10, <3>3
    <3>5. ASSUME NEW m \in 1 .. r PROVE rows'[m].event <= d
      <4>1. CASE m \in DOMAIN rows
        <5>1. rows[m].event \in Nat  BY <1>1, <4>1, RowEvents
        <5> QED  BY <1>6, <2>4, <2>6, <4>1, <5>1
      <4>2. CASE m \notin DOMAIN rows
        <5>1. m - Len(rows) \in 1 .. j  BY <1>10, <3>3, <3>6, <4>2
        <5> DEFINE k == m - Len(rows)
        <5>2. k \in 1 .. Len(batch) /\ m = Len(rows) + k  BY <1>10, <3>3, <5>1
        <5> HIDE DEF k
        <5>6. k <= j  BY <5>1 DEF k
        <5>7. rows'[m].event = s[k]  BY <1>3, <1>6, <5>2
        <5>8. k \in DOMAIN s  BY <1>3, <1>10, <5>2
        <5>3. rows'[m].event = s[k] /\ k \in DOMAIN s /\ k <= j  BY <5>6, <5>7, <5>8
        <5>4. s[k] \in Nat  BY <1>11, <5>8
        <5>5. s[k] <= s[j]
          <6>1. k \in Int /\ j \in Int  BY <1>3, <1>10, <3>3, <5>2
          <6> QED  BY <1>4, <3>2, <5>3, <5>4, <6>1
        <5> QED  BY <3>2, <5>3, <5>5
      <4> QED  BY <4>1, <4>2
    <3> HIDE DEF r
    <3> QED  BY <3>4, <3>5 DEF FirstRow
  <2> QED  BY <2>5, <2>6
<1> QED  BY <1>8, <1>9

\* An empty sequence in front of another, and behind it.
LEMMA EmptyJoined == ASSUME NEW S, NEW s \in Seq(S) PROVE <<>> \o s = s /\ s \o <<>> = s
  OBVIOUS

\* One more at the end.
LEMMA JoinedAppended ==
  ASSUME NEW S, NEW s \in Seq(S), NEW t \in Seq(S), NEW e \in S
  PROVE  s \o Append(t, e) = Append(s \o t, e)
  OBVIOUS

\* The same is on its way.
LEMMA SameWay ==
  ASSUME AuditInv, OnItsWay' = OnItsWay, eventsReported' = eventsReported
  PROVE  InOrder'
  BY DEF AuditInv, InOrder

\* A batch is taken out of the way.
LEMMA WayShortens ==
  ASSUME AuditInv, batch' = <<>>, queue' = queue, eventsReported' = eventsReported
  PROVE  /\ InOrder'
         /\ \A d : (\E i \in DOMAIN OnItsWay : OnItsWay[i] = d) =>
              \/ (\E i \in DOMAIN OnItsWay : OnItsWay[i] = d)'
              \/ \E i \in DOMAIN batch : batch[i] = d
<1>1. /\ AuditTypeOK /\ InOrder
      /\ queue \in Seq(Events) /\ batch \in Seq(Events)
  BY DEF AuditInv, AuditTypeOK
<1>2. OnItsWay' = queue  BY <1>1, EmptyJoined DEF OnItsWay
<1>3. /\ DOMAIN OnItsWay = 1 .. Len(batch) + Len(queue)
      /\ \A i \in 1 .. Len(batch) : OnItsWay[i] = batch[i]
      /\ \A i \in 1 .. Len(queue) : OnItsWay[Len(batch) + i] = queue[i]
  BY <1>1, WayParts
<1>4. /\ DOMAIN queue = 1 .. Len(queue) /\ Len(queue) \in Nat
      /\ DOMAIN batch = 1 .. Len(batch) /\ Len(batch) \in Nat
  BY <1>1
<1>5. \A i \in DOMAIN queue : Len(batch) + i \in DOMAIN OnItsWay /\ queue[i] = OnItsWay[Len(batch) + i]
  BY <1>3, <1>4
<1>6. ASSUME NEW i \in DOMAIN queue, NEW j \in DOMAIN queue, i < j PROVE queue[i] < queue[j]
  <2>1. Len(batch) + i < Len(batch) + j  BY <1>4, <1>6
  <2> QED  BY <1>1, <1>5, <2>1 DEF InOrder
<1>7. \A i \in DOMAIN queue : queue[i] <= eventsReported  BY <1>1, <1>5 DEF InOrder
<1>8. InOrder'  BY <1>2, <1>6, <1>7 DEF InOrder
<1>9. ASSUME NEW i \in DOMAIN OnItsWay
      PROVE  \/ \E j \in DOMAIN queue : queue[j] = OnItsWay[i]
             \/ \E j \in DOMAIN batch : batch[j] = OnItsWay[i]
  <2>1. CASE i \in DOMAIN batch  BY <1>3, <1>4, <2>1
  <2>2. CASE i \notin DOMAIN batch
    <3>1. i - Len(batch) \in DOMAIN queue  BY <1>3, <1>4, <2>2
    <3>2. queue[i - Len(batch)] = OnItsWay[i]  BY <1>3, <1>4, <1>5, <3>1
    <3> QED  BY <3>1, <3>2
  <2> QED  BY <2>1, <2>2
<1> QED  BY <1>2, <1>8, <1>9

\* Rows that stay as they are stay in order, whatever is lost besides.
LEMMA SameRows ==
  ASSUME AuditInv, AuditTypeOK', rows' = rows, LostEvents \subseteq LostEvents'
  PROVE  RowsInOrder'
  BY DEF AuditInv, RowsInOrder, FirstRow

LEMMA ReportKeepsInv == ASSUME AuditInv, ReportEvent PROVE AuditInv'
<1> DEFINE e == eventsReported + 1
<1>1. /\ AuditTypeOK /\ InOrder /\ NoneForgotten /\ FlusherOK
      /\ queue \in Seq(Events) /\ batch \in Seq(Events)
      /\ eventsReported \in Nat /\ e \in Events /\ e <= MaxEvents
  BY DEF AuditInv, AuditTypeOK, ReportEvent
<1>2. /\ eventsReported' = e /\ queue' = Append(queue, e)
      /\ UNCHANGED <<agentIs, flusher, batch, sends, refused, dropped, rows, archiver, picked, archive>>
  BY DEF ReportEvent
<1>3. AuditTypeOK'
  <2>1. queue' \in Seq(Events)  BY <1>1, <1>2
  <2>2. eventsReported' \in 0 .. MaxEvents  BY <1>1, <1>2
  <2> QED  BY <1>1, <1>2, <2>1, <2>2 DEF AuditTypeOK
<1> DEFINE s == OnItsWay
<1>4. OnItsWay' = Append(s, e)
  <2>1. batch \o Append(queue, e) = Append(batch \o queue, e)  BY <1>1, JoinedAppended
  <2> QED  BY <1>2, <2>1 DEF OnItsWay
<1>5. s \in Seq(Events)  BY <1>1, WayParts
<1>6. /\ \A i, j \in DOMAIN s : i < j => s[i] < s[j]
      /\ \A i \in DOMAIN s : s[i] <= eventsReported /\ s[i] \in Nat
  BY <1>1, <1>5, SeqMembers DEF InOrder
<1> HIDE DEF s
<1>7. /\ DOMAIN s = 1 .. Len(s) /\ Len(s) \in Nat
      /\ DOMAIN OnItsWay' = 1 .. Len(s) + 1
      /\ \A i \in DOMAIN s : OnItsWay'[i] = s[i]
      /\ OnItsWay'[Len(s) + 1] = e
  BY <1>4, <1>5, <1>1
<1> HIDE DEF e
<1>8. e = eventsReported + 1  BY DEF e
<1>9. InOrder'
  <2>1. \A i \in DOMAIN OnItsWay' : i \in DOMAIN s \/ i = Len(s) + 1  BY <1>7
  <2>4. \A i \in DOMAIN s : OnItsWay'[i] = s[i] /\ s[i] <= eventsReported /\ s[i] < e /\ s[i] <= e
    BY <1>1, <1>6, <1>7, <1>8
  <2>2. ASSUME NEW i \in DOMAIN OnItsWay' PROVE OnItsWay'[i] <= eventsReported'
    <3>1. CASE i \in DOMAIN s  BY <1>2, <2>4, <3>1
    <3>2. CASE i = Len(s) + 1  BY <1>1, <1>2, <1>7, <1>8, <3>2
    <3> QED  BY <2>1, <3>1, <3>2
  <2>3. ASSUME NEW i \in DOMAIN OnItsWay', NEW j \in DOMAIN OnItsWay', i < j
        PROVE  OnItsWay'[i] < OnItsWay'[j]
    <3>1. i \in DOMAIN s  BY <1>7, <2>3
    <3>2. CASE j \in DOMAIN s  BY <1>6, <1>7, <2>3, <3>1, <3>2
    <3>3. CASE j = Len(s) + 1  BY <1>7, <2>4, <3>1, <3>3
    <3> QED  BY <2>1, <3>2, <3>3
  <2> QED  BY <2>2, <2>3 DEF InOrder
<1>10. NoneForgotten'
  <2>1. SUFFICES ASSUME NEW d \in 1 .. e
                 PROVE  (\E i \in DOMAIN OnItsWay : OnItsWay[i] = d)' \/ Stored(d) \/ d \in LostEvents
    BY <1>2 DEF NoneForgotten, Stored, LostEvents
  <2>2. CASE d = e
    <3>1. Len(s) + 1 \in DOMAIN OnItsWay'  BY <1>7
    <3> QED  BY <1>7, <2>2, <3>1
  <2>3. CASE d # e
    <3>1. d \in 1 .. eventsReported  BY <1>1, <1>8, <2>3
    <3>2. (\E i \in DOMAIN s : s[i] = d) \/ Stored(d) \/ d \in LostEvents
      BY <1>1, <3>1 DEF NoneForgotten, s
    <3>3. \A i \in DOMAIN s : i \in DOMAIN OnItsWay'  BY <1>7
    <3> QED  BY <1>7, <3>2, <3>3
  <2> QED  BY <2>2, <2>3
<1>11. RowsInOrder'  BY <1>2, <1>3, SameRows DEF LostEvents
<1>12. ArchivedIsHeld' /\ FlusherOK' /\ (archiver' = "marks" => picked' \subseteq archive')
  <2>1. agentIs # "down"  BY DEF ReportEvent
  <2> QED  BY <1>1, <1>2, <2>1 DEF AuditInv, ArchivedIsHeld, FlusherOK
<1> QED  BY <1>3, <1>9, <1>10, <1>11, <1>12 DEF AuditInv

LEMMA BeginKeepsFlush == ASSUME AuditInv, BeginFlush PROVE AuditInv'
<1>1. /\ AuditTypeOK /\ batch = <<>> /\ agentIs # "down"
      /\ queue \in Seq(Events)
      /\ flusher' = "sends" /\ batch' = queue /\ queue' = <<>> /\ sends' = sends + 1
      /\ UNCHANGED <<agentIs, eventsReported, refused, dropped, rows, archiver, picked, archive>>
  BY DEF AuditInv, AuditTypeOK, FlusherOK, BeginFlush
<1>2. AuditTypeOK'
  <2>1. sends' \in 0 .. MaxSends  BY <1>1 DEF AuditTypeOK, BeginFlush
  <2>2. queue' \in Seq(Events)  BY <1>1
  <2> QED  BY <1>1, <2>1, <2>2 DEF AuditTypeOK
<1>3. OnItsWay' = OnItsWay  BY <1>1, EmptyJoined DEF OnItsWay
<1>4. InOrder'  BY <1>1, <1>3, SameWay
<1>5. NoneForgotten'  BY <1>1, <1>3 DEF AuditInv, NoneForgotten, Stored, LostEvents
<1>6. RowsInOrder'  BY <1>1, <1>2, SameRows DEF LostEvents
<1>7. ArchivedIsHeld' /\ FlusherOK' /\ (archiver' = "marks" => picked' \subseteq archive')
  BY <1>1 DEF AuditInv, ArchivedIsHeld, FlusherOK
<1> QED  BY <1>2, <1>4, <1>5, <1>6, <1>7 DEF AuditInv

\* A flush that ends, with the rows inserted or not, loses no event as long as those of the batch
\* have their rows, are refused, or are queued again.
LEMMA FlushKeepsInv ==
  ASSUME AuditInv, FlushReturns, InsertRows \/ UNCHANGED rows,
         queue' \in Seq(Events), InOrder', NoneForgotten',
         LostEvents \subseteq LostEvents', refused' \subseteq Events, InsertRows => refused' = refused,
         UNCHANGED <<agentIs, eventsReported, sends, dropped, archiver, picked, archive>>
  PROVE  AuditInv'
<1>1. /\ AuditTypeOK /\ agentIs # "down"
      /\ flusher' \in {"waits", "gone"} /\ batch' = <<>>
  BY DEF AuditInv, FlusherOK, FlushReturns
<1>2. /\ rows' \in Seq(AuditRow)
      /\ \A n \in DOMAIN rows : n \in DOMAIN rows' /\ rows'[n] = rows[n]
  BY <1>1, RowEvents, RowsAppended
<1>3. AuditTypeOK'
  <2>1. batch' \in Seq(Events)  BY <1>1
  <2>2. picked' \subseteq DOMAIN rows' /\ archive' \subseteq DOMAIN rows'  BY <1>1, <1>2 DEF AuditTypeOK
  <2> QED  BY <1>1, <1>2, <2>1, <2>2 DEF AuditTypeOK, AuditRow
<1>4. RowsInOrder'
  <2>1. CASE InsertRows  BY <1>3, <2>1, InsertKeepsOrder DEF LostEvents
  <2>2. CASE UNCHANGED rows  BY <1>3, <2>2, SameRows
  <2> QED  BY <2>1, <2>2
<1>5. ArchivedIsHeld'
  <2>1. CASE UNCHANGED rows  BY <2>1 DEF AuditInv, ArchivedIsHeld
  <2>2. CASE InsertRows
    <3>1. SUFFICES ASSUME NEW n \in DOMAIN rows', rows'[n].archived PROVE n \in archive
      BY DEF ArchivedIsHeld
    <3>2. CASE n \in DOMAIN rows  BY <1>2, <3>1, <3>2 DEF AuditInv, ArchivedIsHeld
    <3>3. CASE n \notin DOMAIN rows
      <4>1. /\ DOMAIN rows' = 1 .. Len(rows) + Len(batch)
            /\ \A i \in 1 .. Len(batch) : rows'[Len(rows) + i].archived = FALSE
            /\ DOMAIN rows = 1 .. Len(rows) /\ Len(rows) \in Nat
        BY <1>1, <2>2, RowsAppended, RowEvents
      <4>2. Len(batch) \in Nat  BY <1>1 DEF AuditTypeOK
      <4>5. n \in 1 .. Len(rows) + Len(batch) /\ n \notin 1 .. Len(rows)  BY <3>3, <4>1
      <4>3. PICK i \in 1 .. Len(batch) : n = Len(rows) + i
        <5>1. n - Len(rows) \in 1 .. Len(batch) /\ n = Len(rows) + (n - Len(rows))
          BY ONLY <4>1, <4>2, <4>5
        <5> QED  BY <5>1
      <4>4. rows'[n].archived = FALSE  BY <4>1, <4>3
      <4> QED  BY <3>1, <4>4
    <3> QED  BY <3>2, <3>3
  <2> QED  BY <2>1, <2>2
<1>6. FlusherOK' /\ (archiver' = "marks" => picked' \subseteq archive')
  BY <1>1 DEF AuditInv, FlusherOK
<1> QED  BY <1>3, <1>4, <1>5, <1>6 DEF AuditInv

LEMMA FlushesKeepInv ==
  ASSUME AuditInv, FlushAccepted \/ FlushRefused \/ FlushFails
  PROVE  AuditInv'
<1>1. /\ AuditTypeOK /\ NoneForgotten
      /\ queue \in Seq(Events) /\ batch \in Seq(Events) /\ refused \subseteq Events
  BY DEF AuditInv, AuditTypeOK
<1>2. CASE FlushAccepted
  <2>1. /\ FlushReturns /\ InsertRows /\ batch' = <<>>
        /\ UNCHANGED <<agentIs, queue, eventsReported, sends, refused, dropped, archiver, picked, archive>>
    BY <1>2 DEF FlushAccepted, FlushReturns
  <2>2. /\ \A n \in DOMAIN rows : n \in DOMAIN rows' /\ rows'[n] = rows[n]
        /\ \A j \in DOMAIN batch : Len(rows) + j \in DOMAIN rows' /\ rows'[Len(rows) + j].event = batch[j]
    <3>1. /\ DOMAIN batch = 1 .. Len(batch) /\ Len(batch) \in Nat
          /\ DOMAIN rows = 1 .. Len(rows) /\ Len(rows) \in Nat
      BY <1>1, RowEvents
    <3>2. /\ DOMAIN rows' = 1 .. Len(rows) + Len(batch)
          /\ \A n \in DOMAIN rows : n \in DOMAIN rows' /\ rows'[n] = rows[n]
          /\ \A j \in 1 .. Len(batch) : rows'[Len(rows) + j].event = batch[j]
      BY <1>1, <2>1, RowsAppended
    <3>3. \A j \in 1 .. Len(batch) : Len(rows) + j \in 1 .. Len(rows) + Len(batch)  BY <3>1
    <3> QED  BY <3>1, <3>2, <3>3
  <2>3. NoneForgotten'
    <3>1. SUFFICES ASSUME NEW d \in 1 .. eventsReported, d \notin LostEvents
                   PROVE  (\E k \in DOMAIN OnItsWay : OnItsWay[k] = d)' \/ Stored(d)'
      BY <2>1 DEF NoneForgotten, LostEvents
    <3>2. CASE Stored(d)  BY <2>2, <3>2 DEF Stored
    <3>3. CASE \E k \in DOMAIN batch : batch[k] = d  BY <2>2, <3>3 DEF Stored
    <3>4. CASE \E k \in DOMAIN OnItsWay : OnItsWay[k] = d  BY <2>1, <3>3, <3>4, WayShortens
    <3> QED  BY <1>1, <3>1, <3>2, <3>4 DEF NoneForgotten
  <2>4. InOrder'  BY <2>1, WayShortens
  <2> QED  BY <1>1, <2>1, <2>3, <2>4, FlushKeepsInv DEF LostEvents
<1>3. CASE FlushRefused
  <2>1. /\ FlushReturns /\ batch' = <<>> /\ refused' = refused \cup Range(batch)
        /\ UNCHANGED <<agentIs, queue, eventsReported, sends, dropped, rows, archiver, picked, archive>>
    BY <1>3 DEF FlushRefused, FlushReturns
  <2>2. \A d : (\E k \in DOMAIN batch : batch[k] = d) => d \in refused'  BY <2>1 DEF Range
  <2>3. refused' \subseteq Events  BY <1>1, <2>1, SeqMembers DEF Range
  <2>4. NoneForgotten'
    <3>1. SUFFICES ASSUME NEW d \in 1 .. eventsReported, d \notin LostEvents'
                   PROVE  (\E k \in DOMAIN OnItsWay : OnItsWay[k] = d)' \/ Stored(d)'
      BY <2>1 DEF NoneForgotten
    <3>2. d \notin LostEvents /\ ~\E k \in DOMAIN batch : batch[k] = d
      BY <2>1, <2>2, <3>1 DEF LostEvents
    <3>3. CASE Stored(d)  BY <2>1, <3>3 DEF Stored
    <3>4. CASE \E k \in DOMAIN OnItsWay : OnItsWay[k] = d  BY <2>1, <3>2, <3>4, WayShortens
    <3> QED  BY <1>1, <3>1, <3>2, <3>3, <3>4 DEF NoneForgotten
  <2>5. InOrder'  BY <2>1, WayShortens
  <2>6. ~InsertRows \/ refused' = refused \/ UNCHANGED rows  BY <2>1
  <2>7. CASE batch = <<>>
    <3>1. refused' = refused  BY <2>1, <2>7 DEF Range
    <3> QED  BY <1>1, <2>1, <2>3, <2>4, <2>5, <3>1, FlushKeepsInv DEF LostEvents
  <2>8. CASE batch # <<>>
    <3>1. ~InsertRows
      <4>1. Len(batch) \in Nat \ {0} /\ Len(rows) \in Nat /\ DOMAIN rows = 1 .. Len(rows)
        BY <1>1, <2>8, RowEvents
      <4>2. SUFFICES ASSUME InsertRows PROVE FALSE  OBVIOUS
      <4>3. DOMAIN rows' = 1 .. Len(rows) + Len(batch)  BY <1>1, <4>2, RowsAppended
      <4>4. Len(rows) + 1 \in 1 .. Len(rows) + Len(batch) /\ Len(rows) + 1 \notin 1 .. Len(rows)  BY <4>1
      <4> QED  BY <2>1, <4>1, <4>3, <4>4
    <3> QED  BY <1>1, <2>1, <2>3, <2>4, <2>5, <3>1, FlushKeepsInv DEF LostEvents
  <2> QED  BY <2>7, <2>8
<1>4. CASE FlushFails
  <2>1. /\ FlushReturns /\ (InsertRows \/ UNCHANGED rows)
        /\ batch' = <<>> /\ queue' = batch \o queue
        /\ UNCHANGED <<agentIs, eventsReported, sends, refused, dropped, archiver, picked, archive>>
    BY <1>4 DEF FlushFails, FlushReturns
  <2>2. OnItsWay' = OnItsWay
    <3>1. batch \o queue \in Seq(Events)  BY <1>1, Joined
    <3> QED  BY <2>1, <3>1, EmptyJoined DEF OnItsWay
  <2>3. queue' \in Seq(Events)  BY <1>1, <2>1, Joined
  <2>4. InOrder'  BY <2>1, <2>2, SameWay
  <2>5. \A n \in DOMAIN rows : n \in DOMAIN rows' /\ rows'[n] = rows[n]  BY <1>1, <2>1, RowsAppended
  <2>6. NoneForgotten'
    BY <1>1, <2>1, <2>2, <2>5 DEF NoneForgotten, Stored, LostEvents
  <2> QED  BY <1>1, <2>1, <2>3, <2>4, <2>6, FlushKeepsInv DEF LostEvents
<1> QED  BY <1>2, <1>3, <1>4

\* What the process still had is dropped when it ends.
LEMMA AgentStopsKeepsInv ==
  ASSUME AuditInv, ShutDownAgent \/ ProcessEnds \/ StartAgentAgain
  PROVE  AuditInv'
<1>1. AuditTypeOK /\ batch \in Seq(Events) /\ queue \in Seq(Events)  BY DEF AuditInv, AuditTypeOK
<1>2. CASE ShutDownAgent \/ StartAgentAgain
  <2>1. /\ batch' = batch /\ queue' = queue /\ OnItsWay' = OnItsWay
        /\ UNCHANGED <<eventsReported, sends, refused, dropped, rows, archiver, picked, archive>>
    BY <1>2 DEF ShutDownAgent, StartAgentAgain, OnItsWay
  <2>2. AuditTypeOK'  BY <1>1, <1>2, <2>1 DEF AuditTypeOK, ShutDownAgent, StartAgentAgain
  <2>3. InOrder' /\ RowsInOrder'  BY <2>1, <2>2, SameWay, SameRows DEF LostEvents
  <2>4. NoneForgotten' /\ ArchivedIsHeld' /\ (archiver' = "marks" => picked' \subseteq archive')
    BY <2>1 DEF AuditInv, NoneForgotten, Stored, LostEvents, ArchivedIsHeld
  <2>5. FlusherOK'  BY <1>2, <2>1 DEF AuditInv, FlusherOK, ShutDownAgent, StartAgentAgain
  <2> QED  BY <2>2, <2>3, <2>4, <2>5 DEF AuditInv
<1>3. CASE ProcessEnds
  <2>1. /\ agentIs' = "down" /\ flusher' = "gone" /\ queue' = <<>> /\ batch' = <<>>
        /\ dropped' = dropped \cup Range(queue) \cup Range(batch)
        /\ UNCHANGED <<eventsReported, sends, refused, rows, archiver, picked, archive>>
    BY <1>3 DEF ProcessEnds
  <2>2. AuditTypeOK'
    <3>3. Range(queue) \subseteq Events /\ Range(batch) \subseteq Events  BY <1>1, SeqMembers DEF Range
    <3>1. dropped' \subseteq Events  BY <1>1, <2>1, <3>3 DEF AuditTypeOK
    <3>2. batch' \in Seq(Events) /\ queue' \in Seq(Events)  BY <2>1
    <3> QED  BY <1>1, <2>1, <3>1, <3>2 DEF AuditTypeOK
  <2>3. DOMAIN OnItsWay' = {}  BY <2>1 DEF OnItsWay
  <2>4. \A k \in DOMAIN OnItsWay : OnItsWay[k] \in dropped'
    <3>1. /\ DOMAIN OnItsWay = 1 .. Len(batch) + Len(queue)
          /\ \A i \in 1 .. Len(batch) : OnItsWay[i] = batch[i]
          /\ \A i \in 1 .. Len(queue) : OnItsWay[Len(batch) + i] = queue[i]
      BY <1>1, WayParts
    <3>2. /\ DOMAIN batch = 1 .. Len(batch) /\ Len(batch) \in Nat
          /\ DOMAIN queue = 1 .. Len(queue) /\ Len(queue) \in Nat
      BY <1>1
    <3>3. TAKE k \in DOMAIN OnItsWay
    <3>4. CASE k \in DOMAIN batch  BY <2>1, <3>1, <3>2, <3>4 DEF Range
    <3>5. CASE k \notin DOMAIN batch
      <4>1. PICK i \in DOMAIN queue : k = Len(batch) + i
        <5>1. k - Len(batch) \in DOMAIN queue /\ k = Len(batch) + (k - Len(batch))
          BY ONLY <3>1, <3>2, <3>5, k \in DOMAIN OnItsWay
        <5> QED  BY <5>1
      <4> QED  BY <2>1, <3>1, <3>2, <4>1 DEF Range
    <3> QED  BY <3>4, <3>5
  <2>5. LostEvents \subseteq LostEvents'  BY <2>1 DEF LostEvents
  <2>6. InOrder' /\ RowsInOrder'  BY <2>1, <2>2, <2>3, <2>5, SameRows DEF InOrder
  <2>7. NoneForgotten'
    BY <2>1, <2>4, <2>5 DEF AuditInv, NoneForgotten, Stored, LostEvents
  <2>8. ArchivedIsHeld' /\ FlusherOK' /\ (archiver' = "marks" => picked' \subseteq archive')
    BY <2>1 DEF AuditInv, ArchivedIsHeld, FlusherOK
  <2> QED  BY <2>2, <2>6, <2>7, <2>8 DEF AuditInv
<1> QED  BY <1>2, <1>3

\* The archive leaves the agent alone, and changes of a row only its mark.
LEMMA ArchiveKeepsInv ==
  ASSUME AuditInv, AuditTypeOK',
         UNCHANGED <<agentIs, flusher, queue, batch, eventsReported, sends, refused, dropped>>,
         DOMAIN rows' = DOMAIN rows, \A n \in DOMAIN rows : rows'[n].event = rows[n].event,
         archive \subseteq archive',
         \A n \in DOMAIN rows : rows'[n].archived => rows[n].archived \/ n \in archive',
         archiver' = "marks" => picked' \subseteq archive'
  PROVE  AuditInv'
<1>1. OnItsWay' = OnItsWay /\ LostEvents' = LostEvents  BY DEF OnItsWay, LostEvents
<1>2. InOrder' /\ FlusherOK'  BY <1>1, SameWay DEF AuditInv, FlusherOK
<1>3. \A d : (Stored(d) => Stored(d)') /\ (FirstRow(d) => FirstRow(d)')
  <2>1. TAKE d
  <2> QED  BY RowsStay
<1>4. NoneForgotten'  BY <1>1, <1>3 DEF AuditInv, NoneForgotten
<1>5. RowsInOrder'  BY <1>1, <1>3 DEF AuditInv, RowsInOrder
<1>6. ArchivedIsHeld'  BY DEF AuditInv, ArchivedIsHeld
<1> QED  BY <1>2, <1>4, <1>5, <1>6 DEF AuditInv

LEMMA ArchiverKeepsInv ==
  ASSUME AuditInv,
         SelectRows \/ UploadArchive \/ UploadArchiveFails \/ WriteLocal \/ ArchiveFails \/ MarkArchived
  PROVE  AuditInv'
<1>1. AuditTypeOK /\ ArchivedIsHeld  BY DEF AuditInv
<1>2. CASE SelectRows \/ UploadArchive \/ UploadArchiveFails \/ WriteLocal \/ ArchiveFails
  <2>1. /\ UNCHANGED <<agentIs, flusher, queue, batch, eventsReported, sends, refused, dropped, rows>>
        /\ archive \subseteq archive' /\ picked' \subseteq DOMAIN rows /\ archive' \subseteq DOMAIN rows
        /\ archiver' \in {"waits", "writes", "falls_back", "marks"}
        /\ archiver' = "marks" => picked' \subseteq archive'
    BY <1>1, <1>2
       DEF AuditTypeOK, SelectRows, Unarchived, UploadArchive, UploadArchiveFails, WriteLocal,
           WritesArchive, ArchiveFails
  <2>2. AuditTypeOK'  BY <1>1, <2>1 DEF AuditTypeOK
  <2> QED  BY <2>1, <2>2, ArchiveKeepsInv
<1>3. CASE MarkArchived
  <2> DEFINE marked == [n \in DOMAIN rows |-> IF n \in picked THEN [rows[n] EXCEPT !.archived = TRUE]
                                              ELSE rows[n]]
  <2>1. /\ rows' = marked /\ archiver' = "waits" /\ picked' = {} /\ picked \subseteq archive
        /\ UNCHANGED <<agentIs, flusher, queue, batch, eventsReported, sends, refused, dropped, archive>>
    BY <1>3 DEF AuditInv, MarkArchived
  <2>2. /\ DOMAIN rows = 1 .. Len(rows) /\ Len(rows) \in Nat /\ rows \in Seq(AuditRow)
        /\ \A n \in DOMAIN rows : rows[n] \in AuditRow
    BY <1>1, RowEvents, SeqMembers
  <2>3. \A n \in DOMAIN rows :
          /\ marked[n] \in AuditRow /\ marked[n].event = rows[n].event
          /\ n \notin picked => marked[n] = rows[n]
    BY <2>2 DEF AuditRow
  <2>4. DOMAIN marked = DOMAIN rows /\ marked \in Seq(AuditRow)  BY <2>2, <2>3
  <2> HIDE DEF marked
  <2>5. AuditTypeOK'
    <3>1. rows' \in Seq([event : Events, archived : BOOLEAN])  BY <2>1, <2>4 DEF AuditRow
    <3> QED  BY <1>1, <2>1, <2>4, <3>1 DEF AuditTypeOK
  <2> QED  BY <2>1, <2>3, <2>4, <2>5, ArchiveKeepsInv
<1> QED  BY <1>2, <1>3

LEMMA AuditNextInv == AuditInv /\ [AuditNext]_auditVars => AuditInv'
<1> SUFFICES ASSUME AuditInv, [AuditNext]_auditVars PROVE AuditInv'  OBVIOUS
<1>1. CASE UNCHANGED auditVars
  <2>1. AuditTypeOK'  BY <1>1 DEF AuditInv, AuditTypeOK, auditVars
  <2> QED  BY <1>1, <2>1, ArchiveKeepsInv DEF auditVars, AuditInv
<1>2. CASE AuditNext
  BY <1>2, ReportKeepsInv, BeginKeepsFlush, FlushesKeepInv, AgentStopsKeepsInv, ArchiverKeepsInv
     DEF AuditNext
<1> QED  BY <1>1, <1>2

\* The invariant in the words of the property.
LEMMA AuditInvShows == AuditInv => AuditKept
<1> SUFFICES ASSUME AuditInv PROVE AuditKept  OBVIOUS
<1> DEFINE stored == {rows[n].event : n \in DOMAIN rows}
<1>1. /\ AuditTypeOK /\ NoneForgotten /\ RowsInOrder /\ ArchivedIsHeld
      /\ batch \in Seq(Events) /\ queue \in Seq(Events)
  BY DEF AuditInv, AuditTypeOK
<1>2. \A k \in DOMAIN OnItsWay : OnItsWay[k] \in Range(queue) \cup Range(batch)
  <2>1. /\ DOMAIN OnItsWay = 1 .. Len(batch) + Len(queue)
        /\ \A i \in 1 .. Len(batch) : OnItsWay[i] = batch[i]
        /\ \A i \in 1 .. Len(queue) : OnItsWay[Len(batch) + i] = queue[i]
        /\ DOMAIN batch = 1 .. Len(batch) /\ Len(batch) \in Nat
        /\ DOMAIN queue = 1 .. Len(queue) /\ Len(queue) \in Nat
    BY <1>1, WayParts
  <2>2. TAKE k \in DOMAIN OnItsWay
  <2>3. CASE k \in DOMAIN batch  BY <2>1, <2>3 DEF Range
  <2>4. CASE k \notin DOMAIN batch
    <3>1. PICK i \in DOMAIN queue : k = Len(batch) + i
      <4>1. k - Len(batch) \in DOMAIN queue /\ k = Len(batch) + (k - Len(batch))
        BY ONLY <2>1, <2>4, k \in DOMAIN OnItsWay
      <4> QED  BY <4>1
    <3> QED  BY <2>1, <3>1 DEF Range
  <2> QED  BY <2>3, <2>4
<1>3. 1 .. eventsReported \subseteq Range(queue) \cup Range(batch) \cup stored \cup refused \cup dropped
  BY <1>1, <1>2 DEF NoneForgotten, Stored, LostEvents
<1>4. \A e \in stored : \A d \in 1 .. e :
        \/ d \in refused \cup dropped
        \/ \E n \in DOMAIN rows : rows[n].event = d /\ \A m \in 1 .. n : rows[m].event <= d
  BY <1>1 DEF RowsInOrder, FirstRow, LostEvents
<1>5. DOMAIN rows \ Unarchived \subseteq archive  BY <1>1 DEF ArchivedIsHeld, Unarchived
<1> QED  BY <1>3, <1>4, <1>5 DEF AuditKept

\* Every event is on its way or has its row, in their order, unless its batch was refused or the
\* process ended over it; and an archive holds what is marked.
THEOREM EventsAreKept == AuditSpec => []AuditKept
<1>1. AuditSpec => []AuditInv  BY AuditInitInv, AuditNextInv, PTL DEF AuditSpec
<1> QED  BY <1>1, AuditInvShows, PTL

HIDE AuditConstants DEF Events

------------------------------------------------------------------------------
(* Chats: a question that is open has had no answer, and an answer that is  *)
(* in the channel is the first one.                                         *)

ChatShapes ==
  /\ chat \in [Chats -> [at : {"none", "asks", "calls", "waits", "runs", "sums_up", "ended"},
                         rounds : 0 .. MaxIterations, calls : 0 .. MaxCalls]]
  /\ answer \in [Chats -> {"none", "empty", "yes", "no"}]
  /\ agreed \in [Chats -> {"none", "yes", "no"}]
  /\ grant \in [Chats -> {"none", "read", "auto", "user"}]

\* What the channel holds was said of the call at hand.
AnswerIsOfCall(c) ==
  /\ answer[c] # "none" => chat[c].at = "waits"
  /\ answer[c] \in {"yes", "no"} => agreed[c] = answer[c]

MayRun(c) ==
  chat[c].at = "runs" =>
    \/ grant[c] = "read"
    \/ grant[c] = "user" /\ agreed[c] = "yes"
    \/ grant[c] = "auto" /\ c \in autoEver

ChatsInv ==
  /\ ChatShapes
  /\ auto \subseteq autoEver
  /\ \A c \in Chats : AnswerIsOfCall(c) /\ MayRun(c)


LEMMA ChatsInitInv == ChatInit => ChatsInv
  BY ChatConstants DEF ChatInit, ChatsInv, ChatShapes, AnswerIsOfCall, MayRun

\* The steps of one chat leave the others alone.
LEMMA OtherChatsInv ==
  ASSUME NEW c, AnswerIsOfCall(c), MayRun(c), chat'[c] = chat[c], answer'[c] = answer[c],
         agreed'[c] = agreed[c], grant'[c] = grant[c], c \in autoEver => c \in autoEver'
  PROVE  AnswerIsOfCall(c)' /\ MayRun(c)'
  BY DEF AnswerIsOfCall, MayRun

LEMMA ChatsNextInv == ChatsInv /\ [ChatNext]_chatVars => ChatsInv'
<1> SUFFICES ASSUME ChatsInv, [ChatNext]_chatVars  PROVE ChatsInv'  OBVIOUS
<1> USE ChatConstants
<1>1. ASSUME NEW c \in Chats, NEW place, chat[c].at \notin {"waits", "runs"},
             place \in {"asks", "ended", "sums_up", "calls"},
             GoesTo(c, place), auto' \subseteq auto, UNCHANGED <<answer, autoEver, agreed, grant>>
      PROVE  ChatsInv'
  <2>1. /\ chat' \in [Chats -> [at : {"none", "asks", "calls", "waits", "runs", "sums_up", "ended"},
                                rounds : 0 .. MaxIterations, calls : 0 .. MaxCalls]]
        /\ chat'[c].at = place /\ \A d \in Chats : d # c => chat'[d] = chat[d]
    BY <1>1 DEF ChatsInv, ChatShapes, GoesTo
  <2>2. AnswerIsOfCall(c)' /\ MayRun(c)'
    BY <1>1, <2>1 DEF ChatsInv, AnswerIsOfCall, MayRun
  <2>3. \A d \in Chats : AnswerIsOfCall(d)' /\ MayRun(d)'
    BY <1>1, <2>1, <2>2, OtherChatsInv DEF ChatsInv
  <2> QED  BY <1>1, <2>1, <2>3 DEF ChatsInv, ChatShapes
<1>2. ASSUME NEW c \in Chats, StartChat(c)  PROVE ChatsInv'
  BY <1>1, <1>2 DEF StartChat, ChatAt
<1>3. ASSUME NEW c \in Chats,
             ModelEnds(c) \/ SumUp(c) \/ SummaryEnds(c) \/ RoundEnds(c) \/ CallsAreDropped(c)
      PROVE  ChatsInv'
  BY <1>1, <1>3
     DEF ModelEnds, SumUp, SummaryEnds, RoundEnds, CallsAreDropped, EndChat, ChatAt
<1>4. ASSUME NEW c \in Chats, ModelCalls(c)  PROVE ChatsInv'
  <2>1. PICK n \in 1 .. MaxCalls :
          chat' = [chat EXCEPT ![c] = [at |-> "calls", rounds |-> @.rounds + 1, calls |-> n]]
    BY <1>4 DEF ModelCalls
  <2>2. /\ chat' \in [Chats -> [at : {"none", "asks", "calls", "waits", "runs", "sums_up", "ended"},
                                rounds : 0 .. MaxIterations, calls : 0 .. MaxCalls]]
        /\ chat'[c].at = "calls" /\ \A d \in Chats : d # c => chat'[d] = chat[d]
    BY <1>4, <2>1 DEF ChatsInv, ChatShapes, ModelCalls
  <2>3. AnswerIsOfCall(c)' /\ MayRun(c)'
    BY <1>4, <2>2 DEF ChatsInv, AnswerIsOfCall, MayRun, ModelCalls, ChatAt
  <2>4. \A d \in Chats : AnswerIsOfCall(d)' /\ MayRun(d)'
    BY <1>4, <2>2, <2>3, OtherChatsInv DEF ChatsInv, ModelCalls
  <2> QED  BY <1>4, <2>2, <2>4 DEF ChatsInv, ChatShapes, ModelCalls
<1>5. ASSUME NEW c \in Chats,
             NEW place \in {"calls", "runs", "waits"}, NEW reason \in {"none", "read", "auto"},
             NextCall(c, place, reason),
             place = "runs" => reason = "read" \/ (reason = "auto" /\ c \in auto),
             answer' = IF place = "waits" THEN [answer EXCEPT ![c] = "empty"] ELSE answer
      PROVE  ChatsInv'
  <2>1. chat' = [chat EXCEPT ![c].at = place, ![c].calls = @ - 1] /\ chat[c].calls > 0
        /\ chat[c].at = "calls"
    BY <1>5 DEF NextCall, ChatAt
  <2>2. /\ chat' \in [Chats -> [at : {"none", "asks", "calls", "waits", "runs", "sums_up", "ended"},
                                rounds : 0 .. MaxIterations, calls : 0 .. MaxCalls]]
        /\ chat'[c].at = place /\ \A d \in Chats : d # c => chat'[d] = chat[d]
    BY <2>1 DEF ChatsInv, ChatShapes
  <2>3. /\ grant' \in [Chats -> {"none", "read", "auto", "user"}] /\ grant'[c] = reason
        /\ agreed' \in [Chats -> {"none", "yes", "no"}]
        /\ \A d \in Chats : d # c => grant'[d] = grant[d] /\ agreed'[d] = agreed[d]
        /\ UNCHANGED <<auto, autoEver>>
    BY <1>5 DEF ChatsInv, ChatShapes, NextCall
  <2>4. /\ answer' \in [Chats -> {"none", "empty", "yes", "no"}]
        /\ \A d \in Chats : d # c => answer'[d] = answer[d]
        /\ answer'[c] = IF place = "waits" THEN "empty" ELSE "none"
    BY <1>5, <2>1 DEF ChatsInv, ChatShapes, AnswerIsOfCall
  <2>5. AnswerIsOfCall(c)' /\ MayRun(c)'
    BY <1>5, <2>2, <2>3, <2>4 DEF ChatsInv, AnswerIsOfCall, MayRun
  <2>6. \A d \in Chats : AnswerIsOfCall(d)' /\ MayRun(d)'
    BY <2>2, <2>3, <2>4, <2>5, OtherChatsInv DEF ChatsInv
  <2> QED  BY <2>2, <2>3, <2>4, <2>6 DEF ChatsInv, ChatShapes
<1>6. ASSUME NEW c \in Chats, UnknownTool(c) \/ ReadCall(c) \/ AutoCall(c) \/ AskApproval(c)
      PROVE  ChatsInv'
  BY <1>5, <1>6 DEF UnknownTool, ReadCall, AutoCall, AskApproval, AutoApproved
<1>7. ASSUME NEW c \in Chats, TakeAnswer(c)  PROVE ChatsInv'
  <2> DEFINE place == IF answer[c] = "yes" THEN "runs" ELSE "calls"
             why == IF answer[c] = "yes" THEN "user" ELSE "none"
  <2>1. /\ place \in {"runs", "calls"} /\ why \in {"user", "none"}
        /\ (place = "runs" => answer[c] = "yes" /\ why = "user")
    OBVIOUS
  <2>2. /\ chat' = [chat EXCEPT ![c].at = place] /\ grant' = [grant EXCEPT ![c] = why]
        /\ answer' = [answer EXCEPT ![c] = "none"] /\ UNCHANGED <<auto, autoEver, agreed>>
    BY <1>7 DEF TakeAnswer, GoesTo
  <2> HIDE DEF place, why
  <2>3. /\ chat' \in [Chats -> [at : {"none", "asks", "calls", "waits", "runs", "sums_up", "ended"},
                                rounds : 0 .. MaxIterations, calls : 0 .. MaxCalls]]
        /\ chat'[c].at = place /\ \A d \in Chats : d # c => chat'[d] = chat[d]
    BY <2>1, <2>2 DEF ChatsInv, ChatShapes
  <2>4. /\ grant' \in [Chats -> {"none", "read", "auto", "user"}] /\ grant'[c] = why
        /\ answer' \in [Chats -> {"none", "empty", "yes", "no"}] /\ answer'[c] = "none"
        /\ \A d \in Chats : d # c => grant'[d] = grant[d] /\ answer'[d] = answer[d]
    BY <2>1, <2>2 DEF ChatsInv, ChatShapes
  <2>5. AnswerIsOfCall(c)' /\ MayRun(c)'
    BY <2>1, <2>2, <2>3, <2>4 DEF ChatsInv, AnswerIsOfCall, MayRun
  <2>6. \A d \in Chats : AnswerIsOfCall(d)' /\ MayRun(d)'
    BY <2>2, <2>3, <2>4, <2>5, OtherChatsInv DEF ChatsInv
  <2> QED  BY <2>2, <2>3, <2>4, <2>6 DEF ChatsInv, ChatShapes
<1>8. ASSUME NEW c \in Chats, QuestionLapses(c) \/ ToolReturns(c)  PROVE ChatsInv'
  <2>1. /\ chat' \in [Chats -> [at : {"none", "asks", "calls", "waits", "runs", "sums_up", "ended"},
                                rounds : 0 .. MaxIterations, calls : 0 .. MaxCalls]]
        /\ chat'[c].at = "calls" /\ \A d \in Chats : d # c => chat'[d] = chat[d]
    BY <1>8 DEF ChatsInv, ChatShapes, QuestionLapses, ToolReturns, GoesTo
  <2>2. /\ grant' \in [Chats -> {"none", "read", "auto", "user"}]
        /\ answer' \in [Chats -> {"none", "empty", "yes", "no"}]
        /\ (answer'[c] = "none" \/ (answer'[c] = answer[c] /\ chat[c].at = "runs"))
        /\ \A d \in Chats : d # c => grant'[d] = grant[d] /\ answer'[d] = answer[d]
        /\ UNCHANGED <<auto, autoEver, agreed>>
    BY <1>8 DEF ChatsInv, ChatShapes, QuestionLapses, ToolReturns, ChatAt
  <2>3. AnswerIsOfCall(c)' /\ MayRun(c)'
    BY <2>1, <2>2 DEF ChatsInv, AnswerIsOfCall, MayRun
  <2>4. \A d \in Chats : AnswerIsOfCall(d)' /\ MayRun(d)'
    BY <2>1, <2>2, <2>3, OtherChatsInv DEF ChatsInv
  <2> QED  BY <2>1, <2>2, <2>4 DEF ChatsInv, ChatShapes
<1>9. ASSUME NEW c \in Chats, NEW said \in {"yes", "no"}, ChatApprove(c, said)  PROVE ChatsInv'
  BY <1>9 DEF ChatApprove, ChatsInv, ChatShapes, AnswerIsOfCall, MayRun
<1>10. ASSUME NEW c \in Chats, NEW enabled \in BOOLEAN, ChatAutoApprove(c, enabled)
       PROVE  ChatsInv'
  <2>1. autoEver \subseteq autoEver' /\ auto' \subseteq autoEver'
    BY <1>10 DEF ChatAutoApprove, ChatsInv
  <2> QED
    BY <1>10, <2>1, OtherChatsInv DEF ChatAutoApprove, ChatsInv, ChatShapes
<1>11. ASSUME NEW c \in Chats, ContextIsOver(c)  PROVE ChatsInv'
  BY <1>11 DEF ContextIsOver, ChatsInv, ChatShapes, AnswerIsOfCall, MayRun
<1>12. CASE UNCHANGED chatVars
  BY <1>12 DEF chatVars, ChatsInv, ChatShapes, AnswerIsOfCall, MayRun
<1> QED
  BY <1>2, <1>3, <1>4, <1>6, <1>7, <1>8, <1>9, <1>10, <1>11, <1>12 DEF ChatNext, LoopSteps

LEMMA ChatsInvShows == ChatsInv => ChangesWereAllowed
  BY DEF ChatsInv, MayRun, ChangesWereAllowed

------------------------------------------------------------------------------
(* The chat of the desktop: a request whose stream is not over is one the   *)
(* window waits for.                                                        *)

DesktopChatInv ==
  /\ chatSends \in 0 .. MaxChatSends
  /\ dChat \in [Sends -> {"unsent", "waiting", "settled"}]
  /\ stream \in [Sends -> {"none", "opening", "open", "cut", "closed"}]
  /\ activeSession \in 0 .. MaxChatSends
  /\ activeRequest \in 0 .. MaxChatSends
  /\ \A c \in Sends : stream[c] \in {"opening", "open", "cut"} => dChat[c] = "waiting"
  /\ activeRequest # 0 => stream[activeRequest] # "none"
  /\ \A c \in Sends : c > chatSends => stream[c] = "none"
  /\ SessionIsLive


LEMMA DesktopChatInitInv == DesktopChatInit => DesktopChatInv
  BY DesktopChatConstants DEF DesktopChatInit, DesktopChatInv, SessionIsLive, Sends

LEMMA DesktopChatNextInv ==
  DesktopChatInv /\ [DesktopChatNext]_desktopChatVars => DesktopChatInv'
<1> SUFFICES ASSUME DesktopChatInv, [DesktopChatNext]_desktopChatVars  PROVE DesktopChatInv'
  OBVIOUS
<1> USE DesktopChatConstants DEF DesktopChatInv, SessionIsLive, Sends
<1>1. CASE SendChatRequest
  <2> DEFINE c == chatSends + 1
  <2>1. c \in Sends  BY <1>1 DEF SendChatRequest
  <2>2. /\ dChat' = [dChat EXCEPT ![c] = "waiting"] /\ stream' = [stream EXCEPT ![c] = "opening"]
        /\ chatSends' = c /\ activeRequest' = c /\ UNCHANGED activeSession
    BY <1>1 DEF SendChatRequest
  <2> HIDE DEF c
  <2>3. /\ dChat' \in [Sends -> {"unsent", "waiting", "settled"}]
        /\ stream' \in [Sends -> {"none", "opening", "open", "cut", "closed"}]
        /\ dChat'[c] = "waiting" /\ stream'[c] = "opening"
        /\ \A d \in Sends : d # c => dChat'[d] = dChat[d] /\ stream'[d] = stream[d]
    BY <2>1, <2>2
  <2>4. activeSession # c
    BY <2>1 DEF c
  <2>5. \A d \in Sends : d > c => d > chatSends /\ d # c  BY DEF c
  <2> QED  BY <2>1, <2>2, <2>3, <2>4, <2>5
<1>2. ASSUME NEW c \in Sends, SessionEvent(c)  PROVE DesktopChatInv'
  BY <1>2 DEF SessionEvent
<1>3. ASSUME NEW c \in Sends, StreamEnds(c)  PROVE DesktopChatInv'
  <2>1. /\ stream[c] \in {"opening", "open", "cut"} /\ dChat[c] = "waiting"
        /\ stream' = [stream EXCEPT ![c] = "closed"]
        /\ dChat' = [dChat EXCEPT ![c] = "settled"]
        /\ activeRequest' = 0 /\ activeSession' = 0 /\ UNCHANGED chatSends
    BY <1>3 DEF StreamEnds, SafeResolve
  <2> QED  BY <2>1
<1>4. CASE CancelChatRequest \/ CancelTold  BY <1>4 DEF CancelChatRequest, CancelTold
<1>5. CASE CutFires
  <2>1. UNCHANGED <<chatSends, dChat>> /\ activeRequest' = 0 /\ activeSession' = 0
    BY <1>5 DEF CutFires
  <2>2. /\ stream' \in [Sends -> {"none", "opening", "open", "cut", "closed"}]
        /\ \A c \in Sends : stream'[c] # stream[c] =>
                               stream[c] \notin {"none", "closed"} /\ stream'[c] = "cut"
    BY <1>5 DEF CutFires
  <2> QED  BY <2>1, <2>2
<1>6. ASSUME NEW enabled \in BOOLEAN, AutoApproveAsked(enabled)  PROVE DesktopChatInv'
  BY <1>6 DEF AutoApproveAsked
<1>7. CASE UNCHANGED desktopChatVars  BY <1>7 DEF desktopChatVars
<1> QED  BY <1>1, <1>2, <1>3, <1>4, <1>5, <1>6, <1>7 DEF DesktopChatNext

LEMMA DesktopChatInvShows == DesktopChatInv => SessionIsLive  BY DEF DesktopChatInv

------------------------------------------------------------------------------
(* Diagnosis: from the plan on only tools that read are named, the result   *)
(* is the surest so far, and what it recommends is drafted before it is     *)
(* reported.                                                                *)

DiagInv ==
  /\ diagPlan \in [problem : Problems, tools : SUBSET ToolNames, complexity : Complexities]
  /\ reasoned \in DiagResult
  /\ best \in Confidence
  /\ toolsRun \subseteq ReadsOnly
  /\ stage \notin {"parse", "assess"} => diagPlan.tools \subseteq ReadsOnly
  /\ stage \in {"iterate", "again", "draft", "report", "done"} => best = reasoned.confidence
  /\ stage \in {"report", "done"} =>
       /\ reasoned.actions \subseteq Registered
       /\ reasoned.actions \ Harmless \subseteq wantApproval \cup asked
  /\ stage = "done" => wantApproval = {}


USE DiagnosisTools DEF Problems, ToolNames, Complexities, Confidence, LocalConfidence,
                       ConfidenceThreshold, DiagResult

LEMMA DiagInitInv == DiagInit => DiagInv
  BY DEF DiagInit, DiagInv, NoResult

LEMMA SurerIsMax ==
  ASSUME NEW x \in Confidence, NEW y \in Confidence
  PROVE  Max({x, y}) \in Confidence /\ (y > x => Max({x, y}) = y) /\ (~(y > x) => Max({x, y}) = x)
<1> DEFINE top == IF y > x THEN y ELSE x
<1>1. top \in {x, y} /\ \A z \in {x, y} : top >= z  OBVIOUS
<1>2. Max({x, y}) \in {x, y} /\ \A z \in {x, y} : Max({x, y}) >= z
  BY <1>1 DEF Max
<1> QED  BY <1>2

\* The draft keeps the confidence, names known tools only, and asks for all that is not harmless.
LEMMA DraftIs ==
  ASSUME NEW r \in DiagResult
  PROVE  /\ StepActionDraft(r) \in DiagResult
         /\ StepActionDraft(r).confidence = r.confidence
         /\ StepActionDraft(r).actions = r.actions \cap Registered
         /\ ~StepActionDraft(r).approvalRequired => StepActionDraft(r).actions \subseteq Harmless
<1> DEFINE actions == r.actions \cap Registered
<1>1. PICK required \in BOOLEAN :
        required = (r.approvalRequired \/ actions \ Harmless # {})
  BY Zenon
<1>2. PICK changes \in BOOLEAN :
        changes = (r.needsRemediation \/ actions \ (Harmless \cap ReadsOnly) # {})
  BY Zenon
<1>3. StepActionDraft(r) = [r EXCEPT !.actions = actions, !.approvalRequired = required,
                                     !.needsRemediation = changes]
  BY <1>1, <1>2 DEF StepActionDraft
<1>4. ~required => actions \subseteq Harmless  BY <1>1
<1>5. actions \in SUBSET ToolNames  OBVIOUS
<1> HIDE DEF actions
<1>6. StepActionDraft(r) \in DiagResult /\ StepActionDraft(r).confidence = r.confidence
      /\ StepActionDraft(r).actions = actions /\ StepActionDraft(r).approvalRequired = required
  BY <1>3, <1>5
<1> QED  BY <1>4, <1>6 DEF actions

LEMMA DiagNextInv == DiagInv /\ [DiagNext]_diagVars => DiagInv'
<1> SUFFICES ASSUME DiagInv, [DiagNext]_diagVars  PROVE DiagInv'  OBVIOUS
<1>0. diagPlan \in [problem : Problems, tools : SUBSET ToolNames, complexity : Complexities]
  BY DEF DiagInv
<1>1. CASE StepIntentParse
  <2>1. PICK p \in Problems, named \in {{}} \cup kSubset(1, ToolNames) :
          diagPlan' = [diagPlan EXCEPT !.problem = p, !.tools = named]
    BY <1>1 DEF StepIntentParse
  <2>2. named \in SUBSET ToolNames  BY DEF kSubset
  <2>3. diagPlan' \in [problem : Problems, tools : SUBSET ToolNames, complexity : Complexities]
    BY <1>0, <2>1, <2>2
  <2> QED  BY <1>1, <2>3 DEF StepIntentParse, DiagInv
<1>2. CASE AssessComplexity
  <2> DEFINE tools == StepEvidencePlan(diagPlan)
  <2>1. tools \subseteq ReadsOnly  BY DEF StepEvidencePlan
  <2>2. PICK c \in Complexities : diagPlan' = [diagPlan EXCEPT !.complexity = c, !.tools = tools]
    BY <1>2 DEF AssessComplexity
  <2> HIDE DEF tools
  <2>3. /\ diagPlan' \in [problem : Problems, tools : SUBSET ToolNames, complexity : Complexities]
        /\ diagPlan'.tools = tools
    BY <1>0, <2>1, <2>2
  <2> QED  BY <1>2, <2>1, <2>3 DEF AssessComplexity, DiagInv
<1>3. ASSUME NEW tools, tools \subseteq ReadsOnly, ExecuteTools(tools)
      PROVE  toolsRun' \subseteq ReadsOnly
  BY <1>3 DEF ExecuteTools, DiagInv
<1>4. CASE StepEvidenceCollect
  <2>1. toolsRun' \subseteq ReadsOnly
    <3>1. diagPlan.tools \cap Registered \subseteq ReadsOnly
      BY <1>4 DEF StepEvidenceCollect, DiagInv
    <3> QED  BY <1>3, <1>4, <3>1 DEF StepEvidenceCollect
  <2>2. stage' \in {"layer2", "reason"}  BY <1>4 DEF StepEvidenceCollect
  <2> QED  BY <1>4, <2>1, <2>2 DEF StepEvidenceCollect, DiagInv
<1>5. CASE StepLayer2
  <2>1. toolsRun' \subseteq ReadsOnly  BY <1>3, <1>5 DEF StepLayer2
  <2> QED  BY <1>5, <2>1 DEF StepLayer2, DiagInv
<1>6. ASSUME NEW r \in DiagResult, reasoned' = r, best' = r.confidence,
             stage' \in {"iterate", "draft"}, stage \in {"reason", "again"},
             UNCHANGED <<diagPlan, toolsRun>>
      PROVE  DiagInv'
  BY <1>6 DEF DiagInv
<1>7. CASE StepReasoning
  <2>1. ASSUME NEW r \in ModelAnswers, Reasons(r), best' = r.confidence  PROVE DiagInv'
    <3>1. r \in DiagResult  BY DEF ModelAnswers
    <3>2. stage' \in {"iterate", "draft"}  BY <2>1 DEF Reasons
    <3> QED  BY <1>6, <1>7, <2>1, <3>1, <3>2 DEF Reasons, StepReasoning
  <2>2. CASE reasoned' = LocalReasoning /\ best' = LocalConfidence /\ stage' = "draft"
    <3>1. PICK actions \in SUBSET ToolNames : actions = LocalActions[diagPlan.problem]  BY <1>0
    <3>2. PICK required \in BOOLEAN : required = (actions # {})  BY Zenon
    <3>3. LocalReasoning = [[[NoResult EXCEPT !.confidence = 1] EXCEPT !.actions = actions]
                              EXCEPT !.approvalRequired = required]
      BY <3>1, <3>2, Zenon DEF LocalReasoning
    <3>4. LocalReasoning \in DiagResult /\ LocalReasoning.confidence = LocalConfidence
      <4>0. NoResult \in DiagResult  BY DEF NoResult
      <4> DEFINE r1 == [NoResult EXCEPT !.confidence = 1]
      <4>1. r1 \in DiagResult /\ r1.confidence = 1  BY <4>0
      <4> DEFINE r2 == [r1 EXCEPT !.actions = actions]
      <4> HIDE DEF r1
      <4>2. r2 \in DiagResult /\ r2.confidence = 1  BY <4>1
      <4> HIDE DEF r2
      <4>3. [r2 EXCEPT !.approvalRequired = required] \in DiagResult
            /\ [r2 EXCEPT !.approvalRequired = required].confidence = 1  BY <4>2
      <4> QED  BY <3>3, <4>3 DEF r1, r2
    <3> QED  BY <1>6, <1>7, <2>2, <3>4 DEF StepReasoning
  <2>3. ASSUME NEW r \in ModelAnswers, reasoned' = r, best' = r.confidence, stage' = "draft"
        PROVE  DiagInv'
    <3>1. r \in DiagResult  BY DEF ModelAnswers
    <3> QED  BY <1>6, <1>7, <2>3, <3>1 DEF StepReasoning
  <2> QED  BY <1>7, <2>1, <2>2, <2>3 DEF StepReasoning
<1>8. CASE RequestSupplementaryEvidence
  <2>1. PICK suggested \in SUBSET ToolNames, more \in SUBSET ReadsOnly :
          \/ stage' = "draft" /\ UNCHANGED toolsRun
          \/ stage' = "again" /\ ExecuteTools(more)
    BY <1>8 DEF RequestSupplementaryEvidence
  <2>2. toolsRun' \subseteq ReadsOnly  BY <1>3, <2>1 DEF DiagInv
  <2> QED  BY <1>8, <2>1, <2>2 DEF RequestSupplementaryEvidence, DiagInv
<1>9. CASE IterateReasoning
  <2>1. ASSUME NEW r \in ModelAnswers, best' = Max({best, r.confidence}),
               IF r.confidence > reasoned.confidence THEN Reasons(r)
               ELSE stage' = "draft" /\ UNCHANGED <<reasoned, iteration>>
        PROVE  DiagInv'
    <3>1. r \in DiagResult /\ r.confidence \in Confidence  BY DEF ModelAnswers
    <3>2. best = reasoned.confidence /\ best \in Confidence
      BY <1>9 DEF DiagInv, IterateReasoning
    <3>3. CASE r.confidence > reasoned.confidence
      <4>1. best' = r.confidence  BY <2>1, <3>1, <3>2, <3>3, SurerIsMax
      <4>2. reasoned' = r /\ stage' \in {"iterate", "draft"}  BY <2>1, <3>3 DEF Reasons
      <4> QED  BY <1>6, <1>9, <3>1, <4>1, <4>2 DEF IterateReasoning
    <3>4. CASE ~(r.confidence > reasoned.confidence)
      <4>1. best' = best  BY <2>1, <3>1, <3>2, <3>4, SurerIsMax
      <4> QED  BY <1>9, <2>1, <3>2, <3>4, <4>1 DEF IterateReasoning, DiagInv
    <3> QED  BY <3>3, <3>4
  <2>2. CASE stage' = "draft" /\ UNCHANGED <<reasoned, iteration, best>>
    BY <1>9, <2>2 DEF IterateReasoning, DiagInv
  <2> QED  BY <1>9, <2>1, <2>2 DEF IterateReasoning
<1>10. CASE Complete
  <2>1. reasoned \in DiagResult  BY DEF DiagInv
  <2>2. /\ reasoned' \in DiagResult /\ reasoned'.confidence = reasoned.confidence
        /\ reasoned'.actions \subseteq Registered
        /\ (~reasoned'.approvalRequired => reasoned'.actions \subseteq Harmless)
    BY <1>10, <2>1, DraftIs DEF Complete
  <2>3. reasoned'.actions \ Harmless \subseteq wantApproval'  BY <1>10, <2>2 DEF Complete
  <2> QED  BY <1>10, <2>2, <2>3 DEF Complete, DiagInv
<1>11. CASE SendApprovalRequest  BY <1>11 DEF SendApprovalRequest, DiagInv
<1>12. CASE ReportCompleted  BY <1>12 DEF ReportCompleted, DiagInv
<1>13. CASE UNCHANGED diagVars  BY <1>13 DEF diagVars, DiagInv
<1> QED
  BY <1>1, <1>2, <1>4, <1>5, <1>7, <1>8, <1>9, <1>10, <1>11, <1>12, <1>13 DEF DiagNext

LEMMA DiagInvShows == DiagInv => DiagnosisIsSafe  BY DEF DiagInv, DiagnosisIsSafe

HIDE DiagnosisTools DEF Problems, ToolNames, Complexities, Confidence, LocalConfidence,
                        ConfidenceThreshold, DiagResult

------------------------------------------------------------------------------
(* Watch items in words: what is drafted has a tool and is not asked for    *)
(* more than once a minute.                                                 *)

Checkable(S) == S # {} /\ \A d \in S : d.tool \in RuleTools /\ d.seconds >= 60
RuleDraftInv == drafted = <<>> \/ \E S : drafted = <<S>> /\ Checkable(S)

LEMMA RuleInitInv == RuleInit => RuleDraftInv
<1> SUFFICES ASSUME RuleInit  PROVE RuleDraftInv  OBVIOUS
<1>1. drafted = <<>>  BY Zenon DEF RuleInit
<1> QED  BY <1>1 DEF RuleDraftInv

LEMMA DecomposesCheckably ==
  ASSUME NEW said \in Drafts, Decompose(said)
  PROVE  RuleDraftInv'
<1> DEFINE valid == {d \in said : Valid(d)}
           kept == {[d EXCEPT !.seconds = Interval(d)] : d \in valid}
<1>1. drafted' = <<kept>> /\ valid # {}  BY Zenon DEF Decompose
<1>2. \A d \in valid : d \in [tool : STRING, name : STRING, seconds : Int]
  BY RuleConstants, Zenon
<1>3. \A d \in valid : d.tool \in RuleTools  BY Zenon DEF Valid
<1>4. ASSUME NEW d \in valid
      PROVE  /\ [d EXCEPT !.seconds = Interval(d)].tool \in RuleTools
             /\ [d EXCEPT !.seconds = Interval(d)].seconds >= 60
  <2> HIDE DEF valid
  <2> QED  BY <1>2, <1>3 DEF Interval
<1> HIDE DEF valid
<1>5. Checkable(kept)  BY <1>1, <1>4 DEF Checkable
<1> HIDE DEF kept
<1> QED  BY <1>1, <1>5 DEF RuleDraftInv

LEMMA RuleNextInv == RuleDraftInv /\ [RuleNext]_ruleVars => RuleDraftInv'
<1> SUFFICES ASSUME RuleDraftInv, [RuleNext]_ruleVars  PROVE RuleDraftInv'  OBVIOUS
<1>1. ASSUME UNCHANGED drafted \/ drafted' = <<>>  PROVE RuleDraftInv'
  BY <1>1 DEF RuleDraftInv
<1>2. ASSUME RegisterBuiltin \/ SyncRule \/ SaveRow  PROVE UNCHANGED drafted
  BY <1>2, Zenon DEF RegisterBuiltin, SyncRule, SaveRow
<1>3. ASSUME ConfirmDraft  PROVE drafted' = <<>>  BY <1>3, Zenon DEF ConfirmDraft
<1>4. ASSUME NEW i \in RuleItems,
             \/ \E on \in BOOLEAN : ReadRow(i, on)
             \/ DeleteItem(i) \/ ToolIsUnknown(i) \/ HandleFailure(i) \/ HandleTriggered(i)
             \/ CheckIsFine(i)
      PROVE  UNCHANGED drafted
  BY <1>4, Zenon DEF ReadRow, DeleteItem, ToolIsUnknown, HandleFailure, HandleTriggered,
                     CheckIsFine, FindsWrong
<1>5. ASSUME UNCHANGED ruleVars  PROVE UNCHANGED drafted  BY <1>5 DEF ruleVars
<1> QED
  BY <1>1, <1>2, <1>3, <1>4, <1>5, DecomposesCheckably, Zenon DEF RuleNext

LEMMA RuleInvShows == RuleDraftInv => DraftsCanBeChecked
<1> SUFFICES ASSUME RuleDraftInv, NEW n \in DOMAIN drafted, NEW d \in drafted[n]
             PROVE  d.tool \in RuleTools /\ d.seconds >= 60 /\ drafted[n] # {}
  BY DEF DraftsCanBeChecked
<1>1. PICK S : drafted = <<S>> /\ Checkable(S)  BY DEF RuleDraftInv
<1>2. drafted[n] = S  BY <1>1
<1> QED  BY <1>1, <1>2 DEF Checkable

------------------------------------------------------------------------------
(* Settings: from a save of agent-core on the file is sealed, or it is      *)
(* noted that it is not; the desktop's writes leave every copy in doubt.    *)

EmptyText == ""
SettingTexts == {EmptyText, "default", "flag", "chosen", "told", "applied"} \cup GivenTexts
Settings == [SettingNames -> SettingTexts]
SavedFiles == [kind : {"none", "empty", "plain", "broken", "sealed"}, conf : Settings,
               key : 0 .. MaxKeys, numbers : BOOLEAN]
SettingCopies == [up : BOOLEAN, conf : Settings, doubt : SUBSET SettingNames]

ConfigInv ==
  /\ bundled \in 0 .. Len(Bundles)
  /\ saved \in SavedFiles /\ legacy \in Settings /\ osKey \in 0 .. MaxKeys
  /\ copies \in [AgentProcesses -> SettingCopies]
  /\ saved.kind \in {"plain", "broken"} /\ ~unsealed =>
       \A p \in AgentProcesses : copies[p].up => copies[p].doubt = SettingNames

LEMMA ConfigGiven ==
  /\ MaxKeys \in Nat /\ SetupModes \subseteq SettingTexts
  /\ Len(Bundles) \in Nat /\ DOMAIN Bundles = 1 .. Len(Bundles)
  /\ Injected \in Settings /\ Legacy \in Settings /\ Nowhere \in Settings
  /\ \A b \in DOMAIN Bundles : Bundles[b] \in Settings
<1>1. /\ MaxKeys \in Nat
      /\ \E S : S = [SettingNames -> STRING] /\ Bundles \in Seq(S) /\ Injected \in S /\ Legacy \in S
  BY ConfigConstants, Zenon
<1>2. ASSUME NEW T  PROVE \A g \in [SettingNames -> T] : g = [f \in SettingNames |-> g[f]]
  OBVIOUS
<1>3. PICK S : /\ \A g \in S : g = [f \in SettingNames |-> g[f]]
               /\ Bundles \in Seq(S) /\ Injected \in S /\ Legacy \in S
  BY <1>1, <1>2, Zenon
<1>4. /\ Len(Bundles) \in Nat /\ DOMAIN Bundles = 1 .. Len(Bundles)
      /\ \A b \in DOMAIN Bundles : Bundles[b] \in S
  BY <1>3
<1>5. ASSUME NEW g, g = [f \in SettingNames |-> g[f]],
             \A f \in SettingNames : g[f] \in SettingTexts
      PROVE  g \in Settings
  BY <1>5 DEF Settings
<1>6. Injected \in Settings /\ Legacy \in Settings  BY <1>3, <1>5 DEF SettingTexts, GivenTexts
<1>7. \A b \in DOMAIN Bundles : Bundles[b] \in Settings  BY <1>3, <1>4, <1>5 DEF SettingTexts, GivenTexts
<1>9. Nowhere = [f \in SettingNames |-> EmptyText]  BY Zenon DEF Nowhere, EmptyText
<1>10. Nowhere \in Settings  BY <1>9 DEF Settings, SettingTexts
<1>11. SetupModes \subseteq SettingTexts
  <2>1. SetupModes \subseteq {EmptyText, "chosen"}  BY ConfigConstants, Zenon DEF EmptyText
  <2> QED  BY <2>1 DEF SettingTexts
<1> QED  BY <1>1, <1>4, <1>6, <1>7, <1>10, <1>11

USE ConfigGiven

LEMMA ConfigInitInv == ConfigInit => ConfigInv
  BY DEF ConfigInit, ConfigInv, NoSaved, NotRunning, SavedFiles, SettingCopies

LEMMA BundleIsSettings == ConfigInv => Bundle \in Settings
<1> SUFFICES ASSUME ConfigInv  PROVE Bundle \in Settings  OBVIOUS
<1>1. CASE bundled = 0  BY <1>1 DEF Bundle
<1>2. CASE bundled # 0
  <2>1. bundled \in 1 .. Len(Bundles)  BY <1>2 DEF ConfigInv
  <2> QED  BY <1>2, <2>1 DEF Bundle
<1> QED  BY <1>1, <1>2

LEMMA OverlaidIsSettings ==
  ASSUME NEW a \in Settings, NEW b \in Settings  PROVE Overlaid(a, b) \in Settings
<1>1. ASSUME NEW empty  PROVE [f \in SettingNames |-> IF b[f] = empty THEN a[f] ELSE b[f]] \in Settings
  BY DEF Settings
<1> QED  BY <1>1, Zenon DEF Overlaid

LEMMA LoadsSettings == ASSUME ConfigInv, NEW k  PROVE Load(k) \in Settings
<1> DEFINE With(g, f, v) == [g EXCEPT ![f] = v]
<1>0. ASSUME NEW g \in Settings, NEW f \in SettingNames, NEW v \in SettingTexts
      PROVE  With(g, f, v) \in Settings
  BY DEF Settings
<1> HIDE DEF With
<1>1. Defaults \in Settings
  <2>1. "url" \in SettingNames /\ "default" \in SettingTexts  BY DEF SettingNames, SettingTexts
  <2> QED  BY <1>0, <2>1, ConfigGiven DEF Defaults, With
<1>2. WithoutVersion(Injected) \in Settings
  <2>0. "version" \in SettingNames /\ EmptyText \in SettingTexts
    BY DEF SettingNames, SettingTexts
  <2>1. [Injected EXCEPT !["version"] = EmptyText] \in Settings
    BY <1>0, <2>0, ConfigGiven DEF With
  <2> QED  BY <2>1, Zenon DEF WithoutVersion, EmptyText
<1>3. OnDisk(k) \in Settings  BY DEF OnDisk, ConfigInv, SavedFiles
<1> QED  BY <1>1, <1>2, <1>3, BundleIsSettings, OverlaidIsSettings DEF Load

\* What agent-core writes is sealed, or it is noted that it is not.
LEMMA SealedOrNoted ==
  ASSUME ConfigInv, NEW conf \in Settings, NEW k \in KeyOutcomes, NEW how \in SaveOutcomes,
         SavesAs(conf, k, how)
  PROVE  /\ saved' \in SavedFiles /\ legacy' \in Settings /\ osKey' \in 0 .. MaxKeys
         /\ saved'.kind \in {"plain", "broken"} => unsealed'
<1>1. osKey \in 0 .. MaxKeys /\ saved \in SavedFiles /\ legacy \in Settings  BY DEF ConfigInv
<1>2. k \in 0 .. MaxKeys  BY <1>1 DEF KeyOutcomes
<1>3. osKey' \in 0 .. MaxKeys  BY <1>1, <1>2 DEF SavesAs, Kept
<1>4. legacy' \in Settings  BY <1>1 DEF SavesAs, LegacyAfter
<1>5. CASE how = "written"
  <2>1. saved' = [kind |-> IF k = 0 THEN "plain" ELSE "sealed", conf |-> conf, key |-> k,
                  numbers |-> TRUE]
    BY <1>5 DEF SavesAs
  <2>2. saved' \in SavedFiles /\ (saved'.kind \in {"plain", "broken"} => k = 0)
    BY <1>2, <2>1 DEF SavedFiles
  <2> QED  BY <1>3, <1>4, <2>2 DEF SavesAs
<1>6. CASE how = "cut"
  <2>1. saved' = [NoSaved EXCEPT !.kind = "empty"]  BY <1>6 DEF SavesAs
  <2>2. NoSaved \in SavedFiles  BY DEF NoSaved, SavedFiles
  <2>3. saved' \in SavedFiles /\ saved'.kind = "empty"  BY <2>1, <2>2 DEF SavedFiles
  <2> QED  BY <1>3, <1>4, <2>3
<1>7. CASE how = "not opened"
  <2>1. saved' = saved /\ unsealed'  BY <1>7 DEF SavesAs
  <2> QED  BY <1>1, <1>3, <1>4, <2>1
<1> QED  BY <1>5, <1>6, <1>7 DEF SaveOutcomes

LEMMA UpdateKeepsInv ==
  ASSUME ConfigInv, NEW p \in AgentProcesses, NEW set, DOMAIN set \subseteq SettingNames,
         \A f \in DOMAIN set : set[f] \in SettingTexts,
         NEW k, NEW how \in SaveOutcomes, Update(p, set, k, how)
  PROVE  ConfigInv'
<1> DEFINE conf == [f \in SettingNames |-> IF f \in DOMAIN set THEN set[f] ELSE copies[p].conf[f]]
           others == [q \in AgentProcesses |->
             IF q = p THEN [copies[p] EXCEPT !.conf = conf, !.doubt = @ \ DOMAIN set]
             ELSE [copies[q] EXCEPT !.doubt = @ \union DOMAIN set \union copies[p].doubt]]
<1>1. \A q \in AgentProcesses : copies[q] \in SettingCopies  BY DEF ConfigInv
<1>2. conf \in Settings  BY <1>1 DEF SettingCopies, Settings
<1>3. k \in KeyOutcomes /\ SavesAs(conf, k, how) /\ copies' = others /\ bundled' = bundled
  BY DEF Update
<1> HIDE DEF conf
<1>4. others \in [AgentProcesses -> SettingCopies]
  <2>1. ASSUME NEW q \in AgentProcesses
        PROVE  [copies[q] EXCEPT !.doubt = @ \union DOMAIN set \union copies[p].doubt]
                 \in SettingCopies
    BY <1>1 DEF SettingCopies
  <2>2. [copies[p] EXCEPT !.conf = conf, !.doubt = @ \ DOMAIN set] \in SettingCopies
    BY <1>1, <1>2 DEF SettingCopies
  <2> QED  BY <2>1, <2>2
<1> HIDE DEF others
<1>5. /\ saved' \in SavedFiles /\ legacy' \in Settings /\ osKey' \in 0 .. MaxKeys
      /\ saved'.kind \in {"plain", "broken"} => unsealed'
  BY <1>2, <1>3, SealedOrNoted
<1> QED  BY <1>3, <1>4, <1>5 DEF ConfigInv

LEMMA ConfigStartKeepsInv ==
  ASSUME ConfigInv, NEW p \in AgentProcesses, NEW flagged \in SUBSET SettingNames, NEW readKey,
         NEW sealKey, NEW how \in SaveOutcomes, Start(p, flagged, readKey, sealKey, how)
  PROVE  ConfigInv'
<1> DEFINE conf == Load(readKey)
           conf2 == [f \in SettingNames |-> IF f \in flagged THEN "flag" ELSE conf[f]]
           unread == saved.kind = "broken" \/ (saved.kind = "sealed" /\ saved.key # readKey)
           doubt == flagged \union (IF unread THEN SettingNames ELSE {})
<1>1. conf \in Settings  BY LoadsSettings
<1>2. conf2 \in Settings
  <2> HIDE DEF conf
  <2> QED  BY <1>1 DEF Settings, SettingTexts
<1>3. doubt \in SUBSET SettingNames  OBVIOUS
<1>4. /\ copies' = [copies EXCEPT ![p] = [up |-> TRUE, conf |-> conf2, doubt |-> doubt]]
      /\ bundled' = bundled
  BY DEF Start
<1>5. copies' \in [AgentProcesses -> SettingCopies]
  <2> HIDE DEF conf2, doubt
  <2>1. [up |-> TRUE, conf |-> conf2, doubt |-> doubt] \in SettingCopies
    BY <1>2, <1>3 DEF SettingCopies
  <2> QED  BY <1>4, <2>1 DEF ConfigInv
<1>6. CASE IsPlain
  <2>1. sealKey \in KeyOutcomes /\ SavesAs(conf, sealKey, how)  BY <1>6 DEF Start
  <2> HIDE DEF conf
  <2>2. /\ saved' \in SavedFiles /\ legacy' \in Settings /\ osKey' \in 0 .. MaxKeys
        /\ saved'.kind \in {"plain", "broken"} => unsealed'
    BY <1>1, <2>1, SealedOrNoted
  <2> QED  BY <1>4, <1>5, <2>2 DEF ConfigInv
<1>7. CASE ~IsPlain
  <2>1. saved' = saved /\ legacy' = legacy /\ osKey' = Kept(readKey)
        /\ readKey \in KeyOutcomes \cup {0}
    BY <1>7 DEF Start
  <2>2. osKey' \in 0 .. MaxKeys
    <3>1. readKey \in 0 .. MaxKeys  BY <2>1 DEF KeyOutcomes, ConfigInv
    <3> QED  BY <2>1, <3>1 DEF Kept, ConfigInv
  <2> QED  BY <1>4, <1>5, <1>7, <2>1, <2>2 DEF ConfigInv, IsPlain
<1> QED  BY <1>6, <1>7

LEMMA ConfigNextInv == ConfigInv /\ [ConfigNext]_configVars => ConfigInv'
<1> SUFFICES ASSUME ConfigInv, [ConfigNext]_configVars  PROVE ConfigInv'  OBVIOUS
<1>0. \A q \in AgentProcesses : copies[q] \in SettingCopies  BY DEF ConfigInv
<1>1. CASE Unpack  BY <1>1 DEF Unpack, ConfigInv
<1>2. ASSUME copies' = [p \in AgentProcesses |-> [copies[p] EXCEPT !.doubt = SettingNames]]
      PROVE  /\ copies' \in [AgentProcesses -> SettingCopies]
             /\ \A p \in AgentProcesses : copies'[p].doubt = SettingNames
  <2>1. ASSUME NEW p \in AgentProcesses
        PROVE  /\ [copies[p] EXCEPT !.doubt = SettingNames] \in SettingCopies
               /\ [copies[p] EXCEPT !.doubt = SettingNames].doubt = SettingNames
    BY <1>0 DEF SettingCopies
  <2> QED  BY <1>2, <2>1
<1>3. CASE ImportCopies
  <2>1. Bundle \in Settings  BY BundleIsSettings
  <2>2. saved' = [kind |-> "plain", conf |-> Bundle, key |-> 0, numbers |-> FALSE]
    BY <1>3 DEF ImportCopies
  <2>3. saved' \in SavedFiles  BY <2>1, <2>2 DEF SavedFiles
  <2> QED  BY <1>2, <1>3, <2>3 DEF ImportCopies, ConfigInv
<1>4. CASE ImportMerges
  <2>1. PICK kind \in {"broken", "plain"} : kind = IF saved.numbers THEN "broken" ELSE "plain"
    OBVIOUS
  <2>2. PICK conf : conf = [saved.conf EXCEPT !["mode"] = Bundle["mode"]]  OBVIOUS
  <2>3. conf \in Settings
    <3>1. saved.conf \in Settings /\ Bundle \in Settings
      BY BundleIsSettings DEF ConfigInv, SavedFiles
    <3> QED  BY <2>2, <3>1 DEF Settings, SettingNames
  <2>4. saved' = [saved EXCEPT !.kind = kind, !.conf = conf]
    BY <1>4, <2>1, <2>2 DEF ImportMerges
  <2>5. saved' \in SavedFiles
    <3>1. saved \in SavedFiles  BY DEF ConfigInv
    <3> QED  BY <2>3, <2>4, <3>1 DEF SavedFiles
  <2> QED  BY <1>2, <1>4, <2>5 DEF ImportMerges, ConfigInv
<1>5. ASSUME NEW p \in AgentProcesses, Stop(p)  PROVE ConfigInv'
  <2>1. NotRunning \in SettingCopies  BY DEF NotRunning, SettingCopies
  <2>2. copies' \in [AgentProcesses -> SettingCopies]  BY <1>5, <2>1 DEF Stop, ConfigInv
  <2>3. \A q \in AgentProcesses : copies'[q].up => copies'[q] = copies[q]
    BY <1>5 DEF Stop, ConfigInv, NotRunning
  <2> QED  BY <1>5, <2>2, <2>3 DEF Stop, ConfigInv
<1>6. ASSUME NEW k \in 0 .. MaxKeys, NEW how \in SaveOutcomes, NEW readKey \in 0 .. MaxKeys,
             \/ Start("setup", {}, readKey, k, how)
             \/ \E flagged \in {{}, {"url"}} : Start("agent", flagged, readKey, k, how)
      PROVE  ConfigInv'
  <2>1. {} \in SUBSET SettingNames /\ {"url"} \in SUBSET SettingNames  BY DEF SettingNames
  <2> QED  BY <1>6, <2>1, ConfigStartKeepsInv DEF AgentProcesses
<1>7. ASSUME NEW k \in 0 .. MaxKeys, NEW how \in SaveOutcomes,
             PulledConfig(k, how) \/ AppliedUpdate(k, how)
      PROVE  ConfigInv'
  <2>1. PICK set \in {[version |-> "told"], [dist |-> "applied"]} : Update("agent", set, k, how)
    BY <1>7 DEF PulledConfig, AppliedUpdate
  <2>2. DOMAIN set \subseteq SettingNames /\ \A f \in DOMAIN set : set[f] \in SettingTexts
    BY <2>1 DEF SettingNames, SettingTexts
  <2> QED  BY <2>1, <2>2, UpdateKeepsInv DEF AgentProcesses
<1>8. ASSUME NEW k \in 0 .. MaxKeys, NEW how \in SaveOutcomes, NEW url \in BOOLEAN,
             NEW mode \in SetupModes, SetUp(url, mode, k, how)
      PROVE  ConfigInv'
  <2>1. PICK set \in {[url |-> "chosen", mode |-> mode], [mode |-> mode]} :
          Update("setup", set, k, how)
    BY <1>8 DEF SetUp
  <2>2. DOMAIN set \subseteq SettingNames /\ \A f \in DOMAIN set : set[f] \in SettingTexts
    BY <2>1 DEF SettingNames, SettingTexts
  <2> QED  BY <2>1, <2>2, UpdateKeepsInv DEF AgentProcesses
<1>9. CASE UNCHANGED configVars  BY <1>9 DEF configVars, ConfigInv
<1> QED  BY <1>1, <1>3, <1>4, <1>5, <1>6, <1>7, <1>8, <1>9 DEF ConfigNext

LEMMA ConfigInvShows == ConfigInv => PlainOnlyIfRefused
  BY DEF ConfigInv, PlainOnlyIfRefused, SavedFiles

\* What is on disk, where it can be read, and what a process holds beyond doubt, is as last set.
HasLast(conf, last, f) == last[f] # EmptyText => conf[f] = last[f]

ComesBackInv ==
  /\ \A p \in AgentProcesses : copies[p].up =>
       \A f \in SettingNames \ copies[p].doubt : HasLast(copies[p].conf, lastSet, f)
  /\ saved.kind \in {"plain", "sealed"} => \A f \in SettingNames : HasLast(saved.conf, lastSet, f)
  /\ saved.kind = "none" => \A f \in SettingNames : HasLast(legacy, lastSet, f)
  /\ saved.kind = "empty" => \A f \in SettingNames : lastSet[f] = EmptyText

LEMMA NothingIsEmpty ==
  /\ \A f \in SettingNames : Nowhere[f] = EmptyText
  /\ Nowhere = [f \in SettingNames |-> EmptyText]
  BY Zenon DEF Nowhere, EmptyText

LEMMA OverlaidKeeps ==
  ASSUME NEW a, NEW b, NEW f \in SettingNames, b[f] # EmptyText  PROVE Overlaid(a, b)[f] = b[f]
  BY Zenon DEF Overlaid, EmptyText

LEMMA ComesBackInitInv == ConfigInit => ComesBackInv
<1> SUFFICES ASSUME ConfigInit  PROVE ComesBackInv  OBVIOUS
<1>1. saved.kind = "none" /\ \A p \in AgentProcesses : ~copies[p].up
  BY DEF ConfigInit, NoSaved, NotRunning
<1>2. lastSet = legacy  BY Zenon DEF ConfigInit
<1> QED  BY <1>1, <1>2 DEF ComesBackInv, HasLast

\* With nothing set last, nothing can be lost.
LEMMA NothingSetIsKept ==
  ASSUME \A f \in SettingNames : lastSet'[f] = EmptyText  PROVE ComesBackInv'
  BY DEF ComesBackInv, HasLast

LEMMA UpdateComesBack ==
  ASSUME ConfigInv, ComesBackInv, NEW p \in AgentProcesses, NEW set,
         DOMAIN set \subseteq SettingNames, NEW k, NEW how \in SaveOutcomes, Update(p, set, k, how)
  PROVE  ComesBackInv'
<1> DEFINE conf == [f \in SettingNames |-> IF f \in DOMAIN set THEN set[f] ELSE copies[p].conf[f]]
           mine == [copies[p] EXCEPT !.conf = conf, !.doubt = @ \ DOMAIN set]
           other(q) == [copies[q] EXCEPT !.doubt = @ \union DOMAIN set \union copies[p].doubt]
<1>1. \A q \in AgentProcesses : copies[q] \in SettingCopies  BY DEF ConfigInv
<1>2. /\ SavesAs(conf, k, how) /\ copies[p].up
      /\ copies' = [q \in AgentProcesses |-> IF q = p THEN mine ELSE other(q)]
  BY Zenon DEF Update
<1>3. /\ mine.up = copies[p].up /\ mine.conf = conf /\ mine.doubt = copies[p].doubt \ DOMAIN set
  <2> HIDE DEF conf
  <2> QED  BY <1>1 DEF SettingCopies
<1>4. \A q \in AgentProcesses :
        /\ other(q).up = copies[q].up /\ other(q).conf = copies[q].conf
        /\ other(q).doubt = copies[q].doubt \union DOMAIN set \union copies[p].doubt
  BY <1>1 DEF SettingCopies
<1>5. \A f \in SettingNames : conf[f] = IF f \in DOMAIN set THEN set[f] ELSE copies[p].conf[f]
  OBVIOUS
<1> HIDE DEF mine, other, conf
<1>6. copies'[p] = mine /\ \A q \in AgentProcesses \ {p} : copies'[q] = other(q)  BY <1>2
<1>7. CASE how = "written"
  <2>1. \A f \in SettingNames :
          lastSet'[f] = IF f \in DOMAIN set THEN set[f]
                        ELSE IF f \in copies[p].doubt THEN EmptyText ELSE lastSet[f]
    <3>1. lastSet' = [f \in SettingNames |-> IF f \in DOMAIN set THEN set[f]
                        ELSE IF f \in copies[p].doubt THEN EmptyText ELSE lastSet[f]]
      BY <1>7, Zenon DEF Update, EmptyText
    <3> QED  BY <3>1
  <2>2. saved'.kind \in {"plain", "sealed"} /\ saved'.conf = conf
    <3>1. saved' = [kind |-> IF k = 0 THEN "plain" ELSE "sealed", conf |-> conf, key |-> k,
                    numbers |-> TRUE]
      BY <1>2, <1>7 DEF SavesAs
    <3> QED  BY <3>1
  <2>3. \A f \in SettingNames : HasLast(conf, lastSet', f)
    BY <1>2, <1>5, <2>1 DEF ComesBackInv, HasLast
  <2>4. \A q \in AgentProcesses \ {p} : \A f \in SettingNames \ other(q).doubt :
          copies[q].up => HasLast(copies[q].conf, lastSet', f)
    BY <1>4, <2>1 DEF ComesBackInv, HasLast
  <2>5. \A q \in AgentProcesses : copies'[q].up =>
          \A f \in SettingNames \ copies'[q].doubt : HasLast(copies'[q].conf, lastSet', f)
    BY <1>3, <1>4, <1>6, <2>3, <2>4
  <2> QED  BY <2>2, <2>3, <2>5 DEF ComesBackInv
<1>8. CASE how = "not opened"
  <2>1. \A f \in SettingNames :
          lastSet'[f] = IF f \in DOMAIN set THEN EmptyText ELSE lastSet[f]
    <3>1. lastSet' = [f \in SettingNames |-> IF f \in DOMAIN set THEN EmptyText ELSE lastSet[f]]
      BY <1>8, Zenon DEF Update, EmptyText
    <3> QED  BY <3>1
  <2>2. saved' = saved /\ legacy' = legacy  BY <1>2, <1>8 DEF SavesAs, LegacyAfter
  <2>3. \A c : \A f \in SettingNames : HasLast(c, lastSet, f) => HasLast(c, lastSet', f)
    BY <2>1 DEF HasLast
  <2>4. \A f \in SettingNames \ mine.doubt : HasLast(conf, lastSet', f)
    BY <1>2, <1>3, <1>5, <2>1 DEF ComesBackInv, HasLast
  <2>5. ASSUME NEW q \in AgentProcesses, copies'[q].up, NEW f \in SettingNames \ copies'[q].doubt
        PROVE  HasLast(copies'[q].conf, lastSet', f)
    <3>1. CASE q = p  BY <1>3, <1>6, <2>4, <2>5, <3>1
    <3>2. CASE q # p
      <4>1. copies[q].up /\ f \notin copies[q].doubt /\ copies'[q].conf = copies[q].conf
        BY <1>4, <1>6, <2>5, <3>2
      <4> QED  BY <2>3, <4>1 DEF ComesBackInv
    <3> QED  BY <3>1, <3>2
  <2>6. saved.kind = "empty" => \A f \in SettingNames : lastSet'[f] = EmptyText
    BY <2>1 DEF ComesBackInv
  <2>7. /\ saved.kind \in {"plain", "sealed"} => \A f \in SettingNames : HasLast(saved.conf, lastSet', f)
        /\ saved.kind = "none" => \A f \in SettingNames : HasLast(legacy, lastSet', f)
    BY <2>3 DEF ComesBackInv
  <2> QED  BY <2>2, <2>5, <2>6, <2>7 DEF ComesBackInv
<1>9. CASE how = "cut"
  <2>1. lastSet' = Nowhere  BY <1>9 DEF Update
  <2> QED  BY <2>1, NothingIsEmpty, NothingSetIsKept
<1> QED  BY <1>7, <1>8, <1>9 DEF SaveOutcomes

\* What is read beyond doubt has what was last set.
LEMMA LoadHasLast ==
  ASSUME ConfigInv, ComesBackInv, NEW k, NEW f \in SettingNames,
         ~(saved.kind = "broken" \/ (saved.kind = "sealed" /\ saved.key # k))
  PROVE  HasLast(Load(k), lastSet, f)
<1>1. saved.kind \in {"none", "empty", "plain", "broken", "sealed"}  BY DEF ConfigInv, SavedFiles
<1>2. HasLast(OnDisk(k), lastSet, f)
  <2>1. CASE saved.kind \in {"plain", "sealed"}
    BY <2>1 DEF ComesBackInv, OnDisk, CanRead
  <2>2. CASE saved.kind = "none"  BY <2>2 DEF ComesBackInv, OnDisk, CanRead
  <2>3. CASE saved.kind = "empty"  BY <2>3 DEF ComesBackInv, HasLast
  <2> QED  BY <1>1, <2>1, <2>2, <2>3
<1>3. OnDisk(k)[f] # EmptyText => Load(k)[f] = OnDisk(k)[f]  BY OverlaidKeeps DEF Load
<1> QED  BY <1>2, <1>3 DEF HasLast

LEMMA StartComesBack ==
  ASSUME ConfigInv, ComesBackInv, NEW p \in AgentProcesses, NEW flagged \in SUBSET SettingNames,
         NEW readKey, NEW sealKey, NEW how \in SaveOutcomes, Start(p, flagged, readKey, sealKey, how)
  PROVE  ComesBackInv'
<1> DEFINE conf == Load(readKey)
           conf2 == [f \in SettingNames |-> IF f \in flagged THEN "flag" ELSE conf[f]]
           unread == saved.kind = "broken" \/ (saved.kind = "sealed" /\ saved.key # readKey)
           lost == unread \/ (IsPlain /\ how = "cut")
           doubt == flagged \union (IF unread THEN SettingNames ELSE {})
           copy == [up |-> TRUE, conf |-> conf2, doubt |-> doubt]
<1>1. /\ copies' = [copies EXCEPT ![p] = copy]
      /\ lastSet' = IF lost THEN Nowhere ELSE lastSet
      /\ IF IsPlain THEN SavesAs(conf, sealKey, how) ELSE UNCHANGED <<saved, legacy>>
  BY Zenon DEF Start
<1>2. CASE lost
  <2>1. lastSet' = Nowhere  BY <1>1, <1>2
  <2> QED  BY <2>1, NothingIsEmpty, NothingSetIsKept
<1>3. CASE ~lost
  <2>1. lastSet' = lastSet /\ ~unread /\ ~(IsPlain /\ how = "cut")  BY <1>1, <1>3
  <2>2. \A f \in SettingNames : HasLast(conf, lastSet, f)  BY <2>1, LoadHasLast
  <2>3. \A f \in SettingNames \ flagged : conf2[f] = conf[f]
    <3> HIDE DEF conf
    <3> QED  OBVIOUS
  <2>4. copy.conf = conf2 /\ flagged \subseteq copy.doubt
    <3> HIDE DEF conf2, unread
    <3> QED  OBVIOUS
  <2> HIDE DEF conf, conf2, unread, lost, copy
  <2>5. copies'[p] = copy /\ \A q \in AgentProcesses \ {p} : copies'[q] = copies[q]
    BY <1>1 DEF ConfigInv
  <2>6. \A q \in AgentProcesses : copies'[q].up =>
          \A f \in SettingNames \ copies'[q].doubt : HasLast(copies'[q].conf, lastSet', f)
    <3>1. \A f \in SettingNames \ copy.doubt : HasLast(copy.conf, lastSet, f)
      BY <2>2, <2>3, <2>4 DEF HasLast
    <3> QED  BY <2>1, <2>5, <3>1 DEF ComesBackInv
  <2>7. CASE ~IsPlain \/ how = "not opened"
    <3>1. saved' = saved /\ legacy' = legacy  BY <1>1, <2>7 DEF SavesAs, LegacyAfter
    <3> QED  BY <2>1, <2>6, <3>1 DEF ComesBackInv
  <2>8. CASE IsPlain /\ how = "written"
    <3>1. saved' = [kind |-> IF sealKey = 0 THEN "plain" ELSE "sealed", conf |-> conf,
                    key |-> sealKey, numbers |-> TRUE]
      BY <1>1, <2>8 DEF SavesAs
    <3>2. saved'.kind \in {"plain", "sealed"} /\ saved'.conf = conf  BY <3>1
    <3> QED  BY <2>1, <2>2, <2>6, <3>2 DEF ComesBackInv
  <2> QED  BY <2>1, <2>7, <2>8 DEF SaveOutcomes
<1> QED  BY <1>2, <1>3

\* The desktop copies its package only where nothing was set, and sets a mode only where none was.
LEMMA DesktopComesBack ==
  ASSUME ConfigInv, ComesBackInv, ImportCopies \/ ImportMerges  PROVE ComesBackInv'
<1>1. \A p \in AgentProcesses : copies'[p].doubt = SettingNames
  <2>1. copies' = [p \in AgentProcesses |-> [copies[p] EXCEPT !.doubt = SettingNames]]
    BY DEF ImportCopies, ImportMerges
  <2>2. \A p \in AgentProcesses : copies[p] \in SettingCopies  BY DEF ConfigInv
  <2>3. \A p \in AgentProcesses : [copies[p] EXCEPT !.doubt = SettingNames].doubt = SettingNames
    BY <2>2 DEF SettingCopies
  <2> QED  BY <2>1, <2>3
<1>2. CASE ImportCopies
  <2>1. saved.kind = "none" /\ legacy = Nowhere /\ lastSet' = lastSet
    BY <1>2 DEF ImportCopies
  <2>2. \A f \in SettingNames : lastSet[f] = EmptyText
    BY <2>1, NothingIsEmpty DEF ComesBackInv, HasLast
  <2> QED  BY <2>1, <2>2, NothingSetIsKept
<1>3. CASE ImportMerges /\ saved.numbers
  <2>1. lastSet' = Nowhere  BY <1>3 DEF ImportMerges
  <2> QED  BY <2>1, NothingIsEmpty, NothingSetIsKept
<1>4. CASE ImportMerges /\ ~saved.numbers
  <2>1. lastSet' = lastSet /\ legacy' = legacy /\ saved.kind \in {"plain", "empty"}
    BY <1>4 DEF ImportMerges
  <2>2. saved.conf["mode"] = EmptyText  BY <1>4, Zenon DEF ImportMerges, EmptyText
  <2>3. PICK conf : conf = [saved.conf EXCEPT !["mode"] = Bundle["mode"]]  OBVIOUS
  <2>4. saved' = [saved EXCEPT !.kind = "plain", !.conf = conf]
    BY <1>4, <2>3, Zenon DEF ImportMerges
  <2>5. saved \in SavedFiles  BY DEF ConfigInv
  <2>6. saved'.kind = "plain" /\ saved'.conf = conf  BY <2>4, <2>5 DEF SavedFiles
  <2>7. \A f \in SettingNames : HasLast(saved.conf, lastSet, f)
    BY <2>1 DEF ComesBackInv, HasLast
  <2>8. \A f \in SettingNames \ {"mode"} : conf[f] = saved.conf[f]
    BY <2>3, <2>5 DEF SavedFiles, Settings
  <2>9. \A f \in SettingNames : HasLast(conf, lastSet, f)  BY <2>2, <2>7, <2>8 DEF HasLast
  <2> QED  BY <1>1, <2>1, <2>6, <2>9 DEF ComesBackInv
<1> QED  BY <1>2, <1>3, <1>4

LEMMA ComesBackNextInv == ConfigInv /\ ComesBackInv /\ [ConfigNext]_configVars => ComesBackInv'
<1> SUFFICES ASSUME ConfigInv, ComesBackInv, [ConfigNext]_configVars  PROVE ComesBackInv'  OBVIOUS
<1>1. CASE Unpack \/ UNCHANGED configVars
  <2>1. UNCHANGED <<saved, legacy, copies, lastSet>>  BY <1>1 DEF Unpack, configVars
  <2> QED  BY <2>1 DEF ComesBackInv
<1>2. CASE ImportCopies \/ ImportMerges  BY <1>2, DesktopComesBack
<1>3. ASSUME NEW p \in AgentProcesses, Stop(p)  PROVE ComesBackInv'
  <2>1. /\ copies' = [copies EXCEPT ![p] = NotRunning] /\ UNCHANGED <<saved, legacy, lastSet>>
    BY <1>3 DEF Stop
  <2>2. ~NotRunning.up  BY DEF NotRunning
  <2>3. \A q \in AgentProcesses : copies'[q].up => copies'[q] = copies[q]
    BY <2>1, <2>2 DEF ConfigInv
  <2> QED  BY <2>1, <2>3 DEF ComesBackInv
<1>4. ASSUME NEW k \in 0 .. MaxKeys, NEW how \in SaveOutcomes, NEW readKey \in 0 .. MaxKeys,
             \/ Start("setup", {}, readKey, k, how)
             \/ \E flagged \in {{}, {"url"}} : Start("agent", flagged, readKey, k, how)
      PROVE  ComesBackInv'
  <2>1. {} \in SUBSET SettingNames /\ {"url"} \in SUBSET SettingNames  BY DEF SettingNames
  <2> QED  BY <1>4, <2>1, StartComesBack DEF AgentProcesses
<1>5. ASSUME NEW k \in 0 .. MaxKeys, NEW how \in SaveOutcomes,
             PulledConfig(k, how) \/ AppliedUpdate(k, how)
      PROVE  ComesBackInv'
  <2>1. PICK set \in {[version |-> "told"], [dist |-> "applied"]} : Update("agent", set, k, how)
    BY <1>5 DEF PulledConfig, AppliedUpdate
  <2>2. DOMAIN set \subseteq SettingNames  BY <2>1 DEF SettingNames
  <2> QED  BY <2>1, <2>2, UpdateComesBack DEF AgentProcesses
<1>6. ASSUME NEW k \in 0 .. MaxKeys, NEW how \in SaveOutcomes, NEW url \in BOOLEAN,
             NEW mode \in SetupModes, SetUp(url, mode, k, how)
      PROVE  ComesBackInv'
  <2>1. PICK set \in {[url |-> "chosen", mode |-> mode], [mode |-> mode]} :
          Update("setup", set, k, how)
    BY <1>6 DEF SetUp
  <2>2. DOMAIN set \subseteq SettingNames  BY <2>1 DEF SettingNames
  <2> QED  BY <2>1, <2>2, UpdateComesBack DEF AgentProcesses
<1> QED  BY <1>1, <1>2, <1>3, <1>4, <1>5, <1>6 DEF ConfigNext

LEMMA ComesBackInvShows == ComesBackInv => SavedComesBack
<1> SUFFICES ASSUME ComesBackInv, NEW p \in AgentProcesses, copies[p].up,
                    NEW f \in SettingNames \ copies[p].doubt, lastSet[f] # EmptyText
             PROVE  copies[p].conf[f] = lastSet[f]
  BY Zenon DEF SavedComesBack, EmptyText
<1> QED  BY DEF ComesBackInv, HasLast

HIDE ConfigGiven

------------------------------------------------------------------------------
(* Watch items: a result that is wrong shows in its row, and no row counts  *)
(* more failures than there were checks that found something wrong.         *)

RowStatuses == {"absent", "", "healthy", "triggered", "error"}
BadStatuses == {"triggered", "error"}
NotedKinds == {"nothing", "fine", "wrong"}
RowRecords == [status : RowStatuses, fails : Nat, on : BOOLEAN]

\* The row a PUT holds may be saved at any time: it says of a result what was noted with it.
PutIsARow(i, row, seen) ==
  /\ put = <<[of |-> i, row |-> row, noted |-> seen]>>
  /\ row.fails <= bad[i] /\ (seen = "wrong" => row.status \in BadStatuses)

PutIsSound ==
  put = <<>> \/ \E i \in RuleItems, row \in RowRecords, seen \in NotedKinds :
                  PutIsARow(i, row, seen)

WatchInv ==
  /\ itemRow \in [RuleItems -> RowRecords] /\ checking \in [RuleItems -> RowRecords]
  /\ noted \in [RuleItems -> NotedKinds] /\ bad \in [RuleItems -> Nat]
  /\ \A i \in RuleItems :
       /\ itemRow[i].fails <= bad[i] /\ checking[i].fails <= bad[i]
       /\ noted[i] = "wrong" => itemRow[i].status \in BadStatuses
  /\ PutIsSound /\ tooEarly = FALSE

LEMMA FreshRows ==
  /\ Fresh \in RowRecords /\ Fresh.fails = 0 /\ Absent \in RowRecords /\ Absent.fails = 0
  /\ NotChecking = Absent
<1> DEFINE none == ""
<1>1. none \in RowStatuses /\ "absent" \in RowStatuses  BY Zenon DEF RowStatuses
<1>2. /\ Fresh = [status |-> none, fails |-> 0, on |-> TRUE]
      /\ Absent = [status |-> "absent", fails |-> 0, on |-> FALSE] /\ NotChecking = Absent
  BY Zenon DEF Fresh, Absent, NotChecking
<1> HIDE DEF none
<1> QED  BY <1>1, <1>2 DEF RowRecords

LEMMA StatusesAreTold ==
  /\ BadStatuses \subseteq RowStatuses /\ "healthy" \in RowStatuses
  /\ "triggered" \in BadStatuses /\ "error" \in BadStatuses
  /\ \A s \in {"healthy", ""} : s \notin BadStatuses
BY Zenon DEF RowStatuses, BadStatuses

LEMMA WatchInitInv == RuleInit => WatchInv
<1> SUFFICES ASSUME RuleInit  PROVE WatchInv  OBVIOUS
<1>1. /\ itemRow = [i \in RuleItems |-> IF i = "rule" THEN Fresh ELSE Absent]
      /\ noted = [i \in RuleItems |-> "nothing"] /\ bad = [i \in RuleItems |-> 0]
      /\ tooEarly = FALSE /\ checking = itemRow /\ put = <<>>
  BY Zenon DEF RuleInit
<1> QED  BY <1>1, FreshRows DEF WatchInv, NotedKinds, PutIsSound

\* Where there is a PUT, its row stays one while the wrong checks of no item become fewer.
LEMMA PutStays ==
  ASSUME WatchInv, UNCHANGED put, \A i \in RuleItems : bad[i] <= bad'[i] /\ bad'[i] \in Nat
  PROVE  PutIsSound'
<1>1. SUFFICES ASSUME NEW i \in RuleItems, NEW row \in RowRecords, NEW seen \in NotedKinds,
                      PutIsARow(i, row, seen)
               PROVE  PutIsARow(i, row, seen)'
  BY DEF WatchInv, PutIsSound
<1>2. row.fails \in Nat /\ bad[i] \in Nat  BY DEF WatchInv, RowRecords
<1> QED  BY <1>1, <1>2 DEF PutIsARow

LEMMA PutStaysToo == ASSUME WatchInv, UNCHANGED <<put, bad>> PROVE PutIsSound'
BY DEF WatchInv, PutIsSound, PutIsARow

LEMMA SchedulingKeeps ==
  ASSUME WatchInv, NEW i \in RuleItems, NEW as \in RowRecords, as.fails <= bad[i],
         NEW background \in BOOLEAN, Schedules(i, as, background), UNCHANGED bad
  PROVE  /\ checking' \in [RuleItems -> RowRecords]
         /\ \A j \in RuleItems : checking'[j].fails <= bad'[j]
<1>1. checking' = [checking EXCEPT ![i] = as] \/ UNCHANGED checking  BY Zenon DEF Schedules
<1> QED  BY <1>1 DEF WatchInv

\* The row of an item is replaced, and what is noted of it is "nothing", or goes with the row.
LEMMA RowPutKeeps ==
  ASSUME WatchInv, NEW i \in RuleItems, NEW row \in RowRecords, NEW seen \in NotedKinds,
         row.fails <= bad[i], seen = "wrong" => row.status \in BadStatuses,
         itemRow' = [itemRow EXCEPT ![i] = row], noted' = [noted EXCEPT ![i] = seen],
         UNCHANGED bad
  PROVE  /\ itemRow' \in [RuleItems -> RowRecords] /\ noted' \in [RuleItems -> NotedKinds]
         /\ \A j \in RuleItems : /\ itemRow'[j].fails <= bad'[j]
                                 /\ noted'[j] = "wrong" => itemRow'[j].status \in BadStatuses
BY DEF WatchInv

LEMMA RegisterKeepsWatch ==
  ASSUME WatchInv, NEW i \in RuleItems, NEW background \in BOOLEAN, RegisterItem(i, background),
         UNCHANGED put
  PROVE  WatchInv'
<1>1. /\ itemRow' = [itemRow EXCEPT ![i] = Fresh] /\ noted' = [noted EXCEPT ![i] = "nothing"]
      /\ Schedules(i, Fresh, background) /\ UNCHANGED <<bad, tooEarly>>
  BY Zenon DEF RegisterItem
<1>2. Fresh.fails <= bad[i] /\ "nothing" \in NotedKinds /\ "nothing" # "wrong"
  BY FreshRows DEF WatchInv, NotedKinds
<1>3. /\ itemRow' \in [RuleItems -> RowRecords] /\ noted' \in [RuleItems -> NotedKinds]
      /\ \A j \in RuleItems : /\ itemRow'[j].fails <= bad'[j]
                              /\ noted'[j] = "wrong" => itemRow'[j].status \in BadStatuses
  BY <1>1, <1>2, FreshRows, RowPutKeeps
<1>4. /\ checking' \in [RuleItems -> RowRecords]
      /\ \A j \in RuleItems : checking'[j].fails <= bad'[j]
  BY <1>1, <1>2, FreshRows, SchedulingKeeps
<1>5. PutIsSound'  BY <1>1, PutStaysToo
<1> QED  BY <1>1, <1>3, <1>4, <1>5 DEF WatchInv

LEMMA BuiltinKeepsWatch == ASSUME WatchInv, RegisterBuiltin PROVE WatchInv'
<1>1. /\ itemRow' = [itemRow EXCEPT !["rule"] = Fresh]
      /\ noted' = [noted EXCEPT !["rule"] = "nothing"]
      /\ checking' = [i \in RuleItems |-> IF i = "rule" THEN Fresh ELSE NotChecking]
      /\ put' = <<>> /\ UNCHANGED <<bad, tooEarly>>
  BY Zenon DEF RegisterBuiltin
<1>2. "rule" \in RuleItems /\ "nothing" \in NotedKinds /\ "nothing" # "wrong"
  BY DEF RuleItems, NotedKinds
<1>3. \A i \in RuleItems : bad[i] \in Nat  BY DEF WatchInv
<1> QED  BY <1>1, <1>2, <1>3, FreshRows DEF WatchInv, PutIsSound

LEMMA ReadRowKeepsWatch ==
  ASSUME WatchInv, NEW i \in RuleItems, NEW on \in BOOLEAN, ReadRow(i, on)
  PROVE  WatchInv'
<1> DEFINE row == [itemRow[i] EXCEPT !.on = on]
<1>1. /\ put' = <<[of |-> i, row |-> row, noted |-> noted[i]]>>
      /\ UNCHANGED <<itemRow, noted, bad, tooEarly, checking>>
  BY Zenon DEF ReadRow
<1>2. row \in RowRecords /\ row.fails = itemRow[i].fails /\ row.status = itemRow[i].status
  BY DEF WatchInv, RowRecords
<1> HIDE DEF row
<1>3. PICK r \in RowRecords : r = row  BY <1>2
<1>4. PICK seen \in NotedKinds : seen = noted[i]  BY DEF WatchInv
<1>5. PutIsARow(i, r, seen)'  BY <1>1, <1>2, <1>3, <1>4 DEF WatchInv, PutIsARow
<1>6. PutIsSound'  BY <1>5 DEF PutIsSound
<1> QED  BY <1>1, <1>6 DEF WatchInv

LEMMA SaveRowKeepsWatch == ASSUME WatchInv, SaveRow PROVE WatchInv'
<1>1. PICK i \in RuleItems, row \in RowRecords, seen \in NotedKinds : PutIsARow(i, row, seen)
  BY DEF WatchInv, PutIsSound, SaveRow
<1>2. /\ put[1] = [of |-> i, row |-> row, noted |-> seen]
      /\ row.fails <= bad[i] /\ (seen = "wrong" => row.status \in BadStatuses)
  BY <1>1 DEF PutIsARow
<1>3. put[1].of = i /\ put[1].row = row /\ put[1].noted = seen  BY <1>2
<1>4. /\ put' = <<>> /\ UNCHANGED <<bad, tooEarly>>
      /\ itemRow' = [itemRow EXCEPT ![i] = row]
      /\ noted' = [noted EXCEPT ![i] = IF noted[i] = seen THEN noted[i] ELSE "nothing"]
      /\ Schedules(i, row, FALSE) \/ UNCHANGED checking
  BY <1>3, Zenon DEF SaveRow
<1>5. PICK left \in NotedKinds : /\ noted' = [noted EXCEPT ![i] = left]
                                 /\ left = "wrong" => seen = "wrong"
  BY <1>4 DEF WatchInv, NotedKinds
<1>6. /\ itemRow' \in [RuleItems -> RowRecords] /\ noted' \in [RuleItems -> NotedKinds]
      /\ \A j \in RuleItems : /\ itemRow'[j].fails <= bad'[j]
                              /\ noted'[j] = "wrong" => itemRow'[j].status \in BadStatuses
  BY <1>2, <1>4, <1>5, RowPutKeeps
<1>7. /\ checking' \in [RuleItems -> RowRecords]
      /\ \A j \in RuleItems : checking'[j].fails <= bad'[j]
  <2>1. CASE UNCHANGED checking  BY <2>1, <1>4 DEF WatchInv
  <2>2. CASE Schedules(i, row, FALSE)  BY <2>2, <1>2, <1>4, SchedulingKeeps
  <2> QED  BY <2>1, <2>2, <1>4
<1> QED  BY <1>4, <1>6, <1>7 DEF WatchInv, PutIsSound

LEMMA DeleteKeepsWatch == ASSUME WatchInv, NEW i \in RuleItems, DeleteItem(i) PROVE WatchInv'
<1>1. /\ itemRow' = [itemRow EXCEPT ![i] = Absent] /\ noted' = [noted EXCEPT ![i] = "nothing"]
      /\ UNCHANGED <<bad, tooEarly, checking, put>>
  BY Zenon DEF DeleteItem
<1>2. Absent.fails <= bad[i] /\ "nothing" \in NotedKinds /\ "nothing" # "wrong"
  BY FreshRows DEF WatchInv, NotedKinds
<1>3. /\ itemRow' \in [RuleItems -> RowRecords] /\ noted' \in [RuleItems -> NotedKinds]
      /\ \A j \in RuleItems : /\ itemRow'[j].fails <= bad'[j]
                              /\ noted'[j] = "wrong" => itemRow'[j].status \in BadStatuses
  BY <1>1, <1>2, FreshRows, RowPutKeeps
<1>4. PutIsSound'  BY <1>1, PutStaysToo
<1> QED  BY <1>1, <1>3, <1>4 DEF WatchInv

\* A check ends: the row, if it is there, is given the result.
LEMMA NotesKeeps ==
  ASSUME WatchInv, NEW i \in RuleItems, NEW status \in RowStatuses, NEW fails \in Nat,
         NEW found \in NotedKinds, found = "wrong" => status \in BadStatuses,
         Notes(i, status, fails, found),
         bad' \in [RuleItems -> Nat], \A j \in RuleItems : bad[j] <= bad'[j], fails <= bad'[i]
  PROVE  /\ itemRow' \in [RuleItems -> RowRecords] /\ noted' \in [RuleItems -> NotedKinds]
         /\ \A j \in RuleItems : /\ itemRow'[j].fails <= bad'[j]
                                 /\ noted'[j] = "wrong" => itemRow'[j].status \in BadStatuses
<1> DEFINE row == [itemRow[i] EXCEPT !.status = status, !.fails = fails]
<1>1. \/ itemRow' = [itemRow EXCEPT ![i] = row] /\ noted' = [noted EXCEPT ![i] = found]
      \/ UNCHANGED <<itemRow, noted>>
  BY Zenon DEF Notes
<1>2. row \in RowRecords /\ row.fails = fails /\ row.status = status
  BY DEF WatchInv, RowRecords
<1> HIDE DEF row
<1>3. \A j \in RuleItems : itemRow[j].fails \in Nat /\ bad[j] \in Nat /\ bad'[j] \in Nat
  BY DEF WatchInv, RowRecords
<1> QED  BY <1>1, <1>2, <1>3 DEF WatchInv

\* Checks that find something wrong: the row counts at most those, a critical alert needs three.
LEMMA WrongKeepsWatch ==
  ASSUME WatchInv, NEW i \in RuleItems, NEW status \in BadStatuses,
         NEW severity \in {"none", "warning", "critical"},
         Notes(i, status, checking[i].fails + 1, "wrong"), FindsWrong(i, severity),
         severity = "critical" => checking[i].fails + 1 >= 3
  PROVE  WatchInv'
<1>1. /\ bad' = [bad EXCEPT ![i] = bad[i] + 1]
      /\ checking' = [checking EXCEPT ![i] = NotChecking] /\ UNCHANGED put
      /\ tooEarly' = (tooEarly \/ (severity = "critical" /\ bad[i] + 1 < 3))
  BY Zenon DEF FindsWrong
<1>2. /\ bad[i] \in Nat /\ checking[i].fails \in Nat /\ checking[i].fails <= bad[i]
      /\ checking[i].fails + 1 \in Nat
  BY DEF WatchInv, RowRecords
<1>3. /\ bad' \in [RuleItems -> Nat] /\ checking[i].fails + 1 <= bad'[i]
      /\ \A j \in RuleItems : bad[j] <= bad'[j] /\ bad'[j] \in Nat
  BY <1>1, <1>2 DEF WatchInv
<1>4. ~(severity = "critical" /\ bad[i] + 1 < 3)  BY <1>2
<1>5. tooEarly' = FALSE  BY <1>1, <1>4, Zenon DEF WatchInv
<1>6. status \in RowStatuses /\ "wrong" \in NotedKinds  BY StatusesAreTold DEF NotedKinds
<1>7. /\ itemRow' \in [RuleItems -> RowRecords] /\ noted' \in [RuleItems -> NotedKinds]
      /\ \A j \in RuleItems : /\ itemRow'[j].fails <= bad'[j]
                              /\ noted'[j] = "wrong" => itemRow'[j].status \in BadStatuses
  BY <1>2, <1>3, <1>6, NotesKeeps
<1>8. checking' \in [RuleItems -> RowRecords] /\ \A j \in RuleItems : checking'[j].fails <= bad'[j]
  <2>1. \A j \in RuleItems : checking[j].fails \in Nat /\ bad[j] \in Nat
    BY DEF WatchInv, RowRecords
  <2> QED  BY <2>1, <1>1, <1>3, FreshRows DEF WatchInv
<1>9. PutIsSound'
  BY <1>1, <1>3, PutStays
<1> QED  BY <1>3, <1>5, <1>7, <1>8, <1>9 DEF WatchInv

LEMMA FineKeepsWatch == ASSUME WatchInv, NEW i \in RuleItems, CheckIsFine(i) PROVE WatchInv'
<1>1. /\ Notes(i, "healthy", 0, "fine") /\ UNCHANGED <<bad, tooEarly, put>>
      /\ checking' = [checking EXCEPT ![i] = NotChecking]
  BY Zenon DEF CheckIsFine
<1>2. bad' \in [RuleItems -> Nat] /\ 0 <= bad'[i] /\ \A j \in RuleItems : bad[j] <= bad'[j]
  BY <1>1 DEF WatchInv
<1>3. "healthy" \in RowStatuses /\ "fine" \in NotedKinds /\ "fine" # "wrong"
  BY StatusesAreTold DEF NotedKinds
<1>4. /\ itemRow' \in [RuleItems -> RowRecords] /\ noted' \in [RuleItems -> NotedKinds]
      /\ \A j \in RuleItems : /\ itemRow'[j].fails <= bad'[j]
                              /\ noted'[j] = "wrong" => itemRow'[j].status \in BadStatuses
  BY <1>1, <1>2, <1>3, NotesKeeps
<1>5. checking' \in [RuleItems -> RowRecords] /\ \A j \in RuleItems : checking'[j].fails <= bad'[j]
  <2>1. \A j \in RuleItems : bad[j] \in Nat  BY DEF WatchInv
  <2> QED  BY <2>1, <1>1, FreshRows DEF WatchInv
<1>6. PutIsSound'  BY <1>1, PutStaysToo
<1> QED  BY <1>1, <1>2, <1>4, <1>5, <1>6 DEF WatchInv

LEMMA FoundKeepsWatch ==
  ASSUME WatchInv, NEW i \in RuleItems, ToolIsUnknown(i) \/ HandleFailure(i) \/ HandleTriggered(i)
  PROVE  WatchInv'
<1>1. checking[i].fails + 1 \in Nat  BY DEF WatchInv, RowRecords
<1>2. CASE ToolIsUnknown(i)
  <2>1. /\ Notes(i, "error", checking[i].fails + 1, "wrong") /\ FindsWrong(i, "none")
    BY <1>2, Zenon DEF ToolIsUnknown
  <2> QED  BY <2>1, StatusesAreTold, WrongKeepsWatch
<1>3. CASE HandleFailure(i)
  <2> DEFINE severity == FailureSeverity(checking[i].fails + 1)
  <2>1. /\ Notes(i, "error", checking[i].fails + 1, "wrong") /\ FindsWrong(i, severity)
    BY <1>3, Zenon DEF HandleFailure
  <2>2. /\ severity \in {"none", "warning", "critical"}
        /\ severity = "critical" => checking[i].fails + 1 >= 3
    BY <1>1 DEF FailureSeverity
  <2> HIDE DEF severity
  <2> QED  BY <2>1, <2>2, StatusesAreTold, WrongKeepsWatch
<1>4. CASE HandleTriggered(i)
  <2> DEFINE severity == TriggeredSeverity(checking[i].fails + 1)
  <2>1. /\ Notes(i, "triggered", checking[i].fails + 1, "wrong") /\ FindsWrong(i, severity)
    BY <1>4, Zenon DEF HandleTriggered
  <2>2. /\ severity \in {"none", "warning", "critical"}
        /\ severity = "critical" => checking[i].fails + 1 >= 3
    BY <1>1 DEF TriggeredSeverity
  <2> HIDE DEF severity
  <2> QED  BY <2>1, <2>2, StatusesAreTold, WrongKeepsWatch
<1> QED  BY <1>2, <1>3, <1>4

LEMMA WatchNextInv == WatchInv /\ [RuleNext]_ruleVars => WatchInv'
<1> SUFFICES ASSUME WatchInv, [RuleNext]_ruleVars  PROVE WatchInv'  OBVIOUS
<1>1. ASSUME UNCHANGED <<itemRow, noted, bad, tooEarly, checking, put>>  PROVE WatchInv'
  <2>1. PutIsSound'  BY <1>1, PutStaysToo
  <2> QED  BY <1>1, <2>1 DEF WatchInv
<1>2. CASE UNCHANGED ruleVars  BY <1>1, <1>2 DEF ruleVars
<1>3. CASE SyncRule
  <2>1. RegisterItem("rule", TRUE) /\ UNCHANGED put  BY <1>3, Zenon DEF SyncRule
  <2> QED  BY <2>1, RegisterKeepsWatch DEF RuleItems
<1>4. CASE ConfirmDraft
  <2>1. RegisterItem("wish", FALSE) /\ UNCHANGED put  BY <1>4, Zenon DEF ConfirmDraft
  <2> QED  BY <2>1, RegisterKeepsWatch DEF RuleItems
<1>5. ASSUME NEW a \in Drafts, Decompose(a)  PROVE WatchInv'
  <2>1. UNCHANGED <<itemRow, noted, bad, tooEarly, checking, put>>  BY <1>5, Zenon DEF Decompose
  <2> QED  BY <1>1, <2>1
<1> QED
  BY <1>2, <1>3, <1>4, <1>5, BuiltinKeepsWatch, SaveRowKeepsWatch, ReadRowKeepsWatch,
     DeleteKeepsWatch, FoundKeepsWatch, FineKeepsWatch, Zenon DEF RuleNext

\* One item of which something wrong is noted is not healthy, and then the score is below 100.
LEMMA WatchInvShows == WatchInv => FullScoreIsEarned /\ AlertsAreEarned
<1> SUFFICES ASSUME WatchInv  PROVE FullScoreIsEarned /\ AlertsAreEarned  OBVIOUS
<1>1. AlertsAreEarned  BY Zenon DEF AlertsAreEarned, WatchInv
<1>2. ASSUME Score = 100, NEW i \in Shown, noted[i] = "wrong"  PROVE FALSE
  <2>1. Shown \subseteq RuleItems /\ HealthyItems \subseteq Shown
    BY Zenon DEF Shown, HealthyItems
  <2>2. i \notin HealthyItems
    <3>1. itemRow[i].status \in BadStatuses  BY <1>2, <2>1 DEF WatchInv
    <3> QED  BY <3>1, StatusesAreTold, Zenon DEF HealthyItems
  <2>3. IsFiniteSet(RuleItems) /\ Cardinality(RuleItems) = 2
    <3>1. IsFiniteSet({"rule"}) /\ Cardinality({"rule"}) = 1  BY FS_Singleton
    <3>2. RuleItems = {"rule"} \cup {"wish"} /\ "wish" \notin {"rule"}  BY DEF RuleItems
    <3> QED  BY <3>1, <3>2, FS_AddElement
  <2>4. /\ IsFiniteSet(Shown) /\ Cardinality(Shown) \in Nat /\ Cardinality(Shown) <= 2
        /\ IsFiniteSet(HealthyItems) /\ Cardinality(HealthyItems) \in Nat
    BY <2>1, <2>3, FS_Subset, FS_CardinalityType
  <2>5. Cardinality(HealthyItems) < Cardinality(Shown)
    <3>1. /\ IsFiniteSet(Shown \ {i}) /\ Cardinality(Shown \ {i}) = Cardinality(Shown) - 1
      BY <2>4, <1>2, FS_RemoveElement
    <3>2. Cardinality(HealthyItems) <= Cardinality(Shown \ {i})
      BY <2>1, <2>2, <3>1, FS_Subset
    <3> QED  BY <3>1, <3>2, <2>4
  <2>6. (Cardinality(HealthyItems) * 100) \div Cardinality(Shown) = 100
    BY <1>2, Zenon DEF Score
  <2>7. Cardinality(Shown) \in {1, 2}  BY <2>4, <2>5
  <2> QED  BY <2>4, <2>5, <2>6, <2>7
<1> QED  BY <1>1, <1>2 DEF FullScoreIsEarned

------------------------------------------------------------------------------
(* The value at a path: what extractByJSONPath finds, key by key.           *)

LEMMA FirstOne ==
  ASSUME NEW S, S \subseteq Nat, S # {}
  PROVE  \E x \in S : \A y \in S : x <= y
<1> DEFINE R == {ss \in Nat \X Nat : ss[1] < ss[2]}
<1>1. IsWellFoundedOn(R, Nat)  BY NatLessThanWellFounded DEF OpToRel
<1>2. \E x \in S : \A y \in S : <<y, x>> \notin R
  <2> HIDE DEF R
  <2> QED  BY <1>1, WFMin
<1>3. PICK x \in S : \A y \in S : <<y, x>> \notin R  BY <1>2
<1>4. ASSUME NEW y \in S PROVE x <= y
  <2>1. <<y, x>> \notin R  BY <1>3
  <2>2. <<y, x>> \in Nat \X Nat /\ (<<y, x>>)[1] = y /\ (<<y, x>>)[2] = x  OBVIOUS
  <2>3. ~(y < x)  BY <2>1, <2>2
  <2> QED  BY <2>3
<1> QED  BY <1>4

\* A function on sets of positions that takes the last key of each set last.
KeyByKey(path, output, n, f) ==
  f = [s \in SUBSET (1 .. n) |-> IF s = {} THEN output
                                 ELSE FieldOf(f[s \ {Max(s)}], path[Max(s)])]

LEMMA MaxOfPrefix == ASSUME NEW n \in Nat \ {0} PROVE Max(1 .. n) = n
<1>1. n \in 1 .. n /\ \A y \in 1 .. n : n >= y  OBVIOUS
<1>2. \A x \in 1 .. n : (\A y \in 1 .. n : x >= y) => x = n  OBVIOUS
<1> QED  BY <1>1, <1>2 DEF Max

LEMMA GoesOneFurther ==
  ASSUME NEW path, NEW output, NEW n \in Nat, NEW f, KeyByKey(path, output, n, f)
  PROVE  \E h : KeyByKey(path, output, n + 1, h)
<1> DEFINE m == n + 1
           h == [s \in SUBSET (1 .. m) |->
                   IF m \in s THEN FieldOf(f[s \ {m}], path[m]) ELSE f[s]]
           step == [s \in SUBSET (1 .. m) |->
                      IF s = {} THEN output ELSE FieldOf(h[s \ {Max(s)}], path[Max(s)])]
<1>1. \A s \in SUBSET (1 .. n) :
        f[s] = IF s = {} THEN output ELSE FieldOf(f[s \ {Max(s)}], path[Max(s)])
  BY Zenon DEF KeyByKey
<1>2. \A s \in SUBSET (1 .. m) : m \notin s => s \in SUBSET (1 .. n)  OBVIOUS
<1>3. \A s \in SUBSET (1 .. n) : s \in SUBSET (1 .. m) /\ m \notin s  OBVIOUS
<1>4. \A s \in SUBSET (1 .. m) : m \in s => Max(s) = m
  <2> SUFFICES ASSUME NEW s \in SUBSET (1 .. m), m \in s  PROVE Max(s) = m  OBVIOUS
  <2>1. \A y \in s : m >= y  OBVIOUS
  <2>2. \A x \in s : (\A y \in s : x >= y) => x = m  OBVIOUS
  <2> QED  BY <2>1, <2>2 DEF Max
<1>5. \A s \in SUBSET (1 .. m) : m \in s => s \ {m} \in SUBSET (1 .. n)  OBVIOUS
<1> HIDE DEF m
<1>6. \A s \in SUBSET (1 .. n) : h[s] = f[s]  BY <1>3
<1>7. ASSUME NEW s \in SUBSET (1 .. m)  PROVE h[s] = step[s]
  <2>1. CASE m \in s
    <3>1. h[s] = FieldOf(f[s \ {m}], path[m])  BY <2>1
    <3>2. h[s \ {m}] = f[s \ {m}] /\ Max(s) = m /\ s # {}  BY <2>1, <1>4, <1>5, <1>6
    <3>3. step[s] = FieldOf(h[s \ {Max(s)}], path[Max(s)])
      <4> HIDE DEF h
      <4> QED  BY <3>2
    <3> QED  BY <3>1, <3>2, <3>3
  <2>2. CASE m \notin s
    <3>1. s \in SUBSET (1 .. n) /\ s \ {Max(s)} \in SUBSET (1 .. n)  BY <2>2, <1>2
    <3>2. h[s] = f[s] /\ h[s \ {Max(s)}] = f[s \ {Max(s)}]  BY <3>1, <1>6
    <3>3. step[s] = IF s = {} THEN output ELSE FieldOf(h[s \ {Max(s)}], path[Max(s)])
      <4> HIDE DEF h
      <4> QED  OBVIOUS
    <3> HIDE DEF h, step
    <3> QED  BY <3>1, <3>2, <3>3, <1>1
  <2> QED  BY <2>1, <2>2
<1>8. h = step
  <2>1. h = [s \in SUBSET (1 .. m) |-> h[s]]  OBVIOUS
  <2>2. step = [s \in SUBSET (1 .. m) |-> step[s]]
    <3> HIDE DEF h
    <3> QED  OBVIOUS
  <2> HIDE DEF h, step
  <2> QED  BY <2>1, <2>2, <1>7
<1>9. KeyByKey(path, output, m, h)
  <2>1. h = [s \in SUBSET (1 .. m) |->
                      IF s = {} THEN output ELSE FieldOf(h[s \ {Max(s)}], path[Max(s)])]
    <3> HIDE DEF h
    <3> QED  BY <1>8
  <2> HIDE DEF h
  <2> QED  BY <2>1, Zenon DEF KeyByKey
<1> HIDE DEF h
<1> QED  BY <1>9 DEF m

LEMMA GoesAllTheWay ==
  ASSUME NEW path, NEW output, NEW n \in Nat
  PROVE  \E f : KeyByKey(path, output, n, f)
<1> DEFINE stuck == {k \in Nat : ~ \E f : KeyByKey(path, output, k, f)}
<1>1. SUFFICES ASSUME stuck # {}  PROVE FALSE  BY Zenon
<1>2. PICK k \in stuck : \A j \in stuck : k <= j  BY <1>1, FirstOne, Zenon
<1>3. CASE k = 0
  <2> DEFINE f == [s \in SUBSET (1 .. 0) |-> output]
  <2>1. \A s \in SUBSET (1 .. 0) : s = {}  OBVIOUS
  <2>2. f = [s \in SUBSET (1 .. 0) |-> IF s = {} THEN output
                                       ELSE FieldOf(f[s \ {Max(s)}], path[Max(s)])]
    BY <2>1, Zenon
  <2> HIDE DEF f
  <2>3. KeyByKey(path, output, 0, f)  BY <2>2, Zenon DEF KeyByKey
  <2> QED  BY <2>3, <1>3
<1>4. CASE k # 0
  <2>1. k - 1 \in Nat /\ (k - 1) + 1 = k /\ ~(k <= k - 1)  BY <1>4
  <2>2. PICK f : KeyByKey(path, output, k - 1, f)  BY <1>2, <2>1
  <2>3. \E h : KeyByKey(path, output, (k - 1) + 1, h)  BY <2>1, <2>2, GoesOneFurther
  <2> QED  BY <2>1, <2>3
<1> QED  BY <1>3, <1>4

\* From the whole output, key by key, to the value that is found.
LEMMA ExtractGoes ==
  ASSUME NEW path \in Seq(STRING), NEW output
  PROVE  \E trail : /\ trail[0] = output /\ trail[Len(path)] = Extract(path, output)
                    /\ DOMAIN trail = 0 .. Len(path)
                    /\ \A n \in 1 .. Len(path) : trail[n] = FieldOf(trail[n - 1], path[n])
<1> DEFINE m == Len(path)
           goes == CHOOSE f : KeyByKey(path, output, m, f)
           trail == [n \in 0 .. m |-> goes[1 .. n]]
<1>1. Extract(path, output) =
           (CHOOSE f : f = [s \in SUBSET DOMAIN path |->
              IF s = {} THEN output
              ELSE FieldOf(f[s \ {Max(s)}], path[Max(s)])])[DOMAIN path]
  BY Zenon DEF Extract, FoldLeft, MapThenFoldSet
<1>2. m \in Nat /\ DOMAIN path = 1 .. m  OBVIOUS
<1>3. Extract(path, output) = goes[1 .. m]  BY <1>1, <1>2, Zenon DEF KeyByKey
<1>4. KeyByKey(path, output, m, goes)
  <2>1. \E f : KeyByKey(path, output, m, f)  BY <1>2, GoesAllTheWay
  <2> QED  BY <2>1, Zenon
<1> HIDE DEF goes, m
<1>5. \A s \in SUBSET (1 .. m) :
        goes[s] = IF s = {} THEN output ELSE FieldOf(goes[s \ {Max(s)}], path[Max(s)])
  BY <1>4, Zenon DEF KeyByKey
<1>6. goes[1 .. 0] = output
  <2>1. 1 .. 0 = {} /\ {} \in SUBSET (1 .. m)  OBVIOUS
  <2> QED  BY <2>1, <1>5
<1>7. ASSUME NEW n \in 1 .. m  PROVE goes[1 .. n] = FieldOf(goes[1 .. (n - 1)], path[n])
  <2>1. n \in Nat \ {0}  BY <1>2
  <2>2. 1 .. n \in SUBSET (1 .. m) /\ n \in 1 .. n  BY <1>2
  <2>3. \A k \in Int : k \in (1 .. n) \ {n} <=> k \in 1 .. (n - 1)  BY <2>1
  <2>4. (1 .. n) \ {n} = 1 .. (n - 1)  BY <2>3
  <2>5. Max(1 .. n) = n  BY <2>1, MaxOfPrefix
  <2> QED  BY <1>5, <2>2, <2>4, <2>5
<1>8. trail[0] = output /\ trail[m] = goes[1 .. m] /\ DOMAIN trail = 0 .. m  BY <1>2, <1>6
<1>9. \A n \in 1 .. m : trail[n] = goes[1 .. n] /\ trail[n - 1] = goes[1 .. (n - 1)]  BY <1>2
<1> HIDE DEF trail
<1>10. \A n \in 1 .. m : trail[n] = FieldOf(trail[n - 1], path[n])  BY <1>7, <1>9
<1> QED  BY <1>3, <1>8, <1>10 DEF m

\* The keys of a value that is found lead from object to object.
LEMMA ObjectsAreObjects ==
  ASSUME NEW v  PROVE  /\ ObjectOf(v) # NoValue => ObjectOf(v) \in DOMAIN Fields
                       /\ ObjectOf(NoValue) = NoValue
BY ValueConstants, Zenon DEF ObjectOf

LEMMA ParsedIsAnObject == ASSUME NEW o PROVE ParsedOutput(o) \in DOMAIN Fields
BY ValueConstants, ObjectsAreObjects, Zenon DEF ParsedOutput

LEMMA FieldIsThere ==
  ASSUME NEW v, NEW key, FieldOf(v, key) # NoValue
  PROVE  /\ v # NoValue /\ FieldOf(v, key) \in Values
         /\ \E o \in DOMAIN Fields : /\ o = ObjectOf(v) /\ key \in DOMAIN Fields[o]
                                     /\ Fields[o][key] = FieldOf(v, key)
<1>1. /\ ObjectOf(v) # NoValue /\ key \in DOMAIN Fields[ObjectOf(v)]
      /\ FieldOf(v, key) = Fields[ObjectOf(v)][key]
  BY Zenon DEF FieldOf
<1>2. ObjectOf(v) \in DOMAIN Fields /\ v # NoValue  BY <1>1, ObjectsAreObjects, Zenon
<1>3. FieldOf(v, key) \in Values
  <2> DEFINE o == ObjectOf(v)
             held == {Fields[o][k] : k \in DOMAIN Fields[o]}
  <2>1. FieldOf(v, key) \in held  BY <1>1, Zenon
  <2>2. held \in {{Fields[p][k] : k \in DOMAIN Fields[p]} : p \in DOMAIN Fields}
    BY <1>2, Zenon
  <2> HIDE DEF held
  <2> QED  BY <2>1, <2>2 DEF Values
<1> QED  BY <1>1, <1>2, <1>3, Zenon

\* Where a value is found at the end of a path, no key on the way failed.
LEMMA FoundIsThere ==
  ASSUME NEW path \in Seq(STRING), NEW output \in DOMAIN Fields,
         Extract(path, output) # NoValue
  PROVE  Extract(path, output) \in Values /\ IsThere(Extract(path, output), path, output)
<1> DEFINE m == Len(path)
<1>1. PICK trail : /\ trail[0] = output /\ trail[m] = Extract(path, output)
                   /\ DOMAIN trail = 0 .. m
                   /\ \A n \in 1 .. m : trail[n] = FieldOf(trail[n - 1], path[n])
  BY ExtractGoes, Zenon
<1>2. m \in Nat /\ DOMAIN path = 1 .. m  OBVIOUS
<1> HIDE DEF m
<1>3. \A n \in 0 .. m : trail[n] # NoValue
  <2> DEFINE lost == {k \in 0 .. m : trail[m - k] = NoValue}
  <2>1. SUFFICES ASSUME lost # {}  PROVE FALSE
    <3> SUFFICES ASSUME NEW n \in 0 .. m, trail[n] = NoValue  PROVE FALSE  OBVIOUS
    <3>1. m - n \in 0 .. m /\ m - (m - n) = n  BY <1>2
    <3>2. m - n \in lost  BY <3>1
    <3> QED  BY <3>2, <2>1
  <2>2. lost \subseteq Nat  BY <1>2
  <2>3. PICK k \in lost : \A j \in lost : k <= j  BY <2>1, <2>2, FirstOne, Zenon
  <2>4. k \in 0 .. m /\ trail[m - k] = NoValue /\ k \in Nat  BY <2>2, <2>3
  <2>5. k # 0
    <3>1. trail[m - 0] # NoValue  BY <1>1, <1>2
    <3> QED  BY <3>1, <2>4
  <2> DEFINE n == m - (k - 1)
  <2>6. n \in 1 .. m /\ n - 1 = m - k /\ k - 1 \in 0 .. m /\ ~(k <= k - 1)
    BY <1>2, <2>4, <2>5
  <2> HIDE DEF n
  <2>7. trail[n] = FieldOf(trail[n - 1], path[n])  BY <1>1, <2>6
  <2>8. trail[n] = NoValue  BY <2>4, <2>6, <2>7, FieldIsThere
  <2>9. k - 1 \in lost  BY <2>6, <2>8 DEF n
  <2> QED  BY <2>3, <2>6, <2>9
<1>4. ASSUME NEW n \in 1 .. m
      PROVE  /\ trail[n] \in Values
             /\ \E o \in DOMAIN Fields : /\ o = ObjectOf(trail[n - 1])
                                         /\ path[n] \in DOMAIN Fields[o]
                                         /\ Fields[o][path[n]] = trail[n]
  <2>1. trail[n] = FieldOf(trail[n - 1], path[n]) /\ trail[n] # NoValue
    <3>1. n \in 0 .. m  BY <1>2
    <3> QED  BY <1>1, <1>3, <3>1
  <2> QED  BY <2>1, FieldIsThere, Zenon
<1>5. trail[0] \in Values  BY <1>1, Zenon DEF Values
<1>6. \A n \in 0 .. m : n = 0 \/ n \in 1 .. m  BY <1>2
<1>7. \A n \in 0 .. m : trail[n] \in Values  BY <1>4, <1>5, <1>6, Zenon
<1> DEFINE way == [n \in 0 .. m |-> trail[n]]
<1>8. way \in [0 .. m -> Values]  BY <1>7
<1>9. /\ way[0] = output /\ way[m] = Extract(path, output)
      /\ \A n \in 1 .. m : way[n] = trail[n] /\ way[n - 1] = trail[n - 1]
  BY <1>1, <1>2
<1> HIDE DEF way
<1>10. \A n \in DOMAIN path : \E o \in DOMAIN Fields :
         /\ o = ObjectOf(way[n - 1])
         /\ path[n] \in DOMAIN Fields[o] /\ Fields[o][path[n]] = way[n]
  BY <1>2, <1>4, <1>9
<1>11. m \in 0 .. m  BY <1>2
<1>12. Extract(path, output) \in Values  BY <1>1, <1>7, <1>11
<1>13. IsThere(Extract(path, output), path, output)
  BY <1>8, <1>9, <1>10, Zenon DEF IsThere, m
<1> QED  BY <1>12, <1>13

\* A condition on a value that was not found is not healthy.
LEMMA HealthyIsFound ==
  ASSUME NEW c, NEW output, c.type \in {"threshold", "contains", "custom"},
         Evaluate(c, output) = "healthy"
  PROVE  /\ Extract(c.path, output) # NoValue
         /\ c.type = "threshold" => /\ Numeric(Extract(c.path, output))
                                    /\ Numeric(c.threshold)
<1> DEFINE v == Extract(c.path, output)
<1>1. CASE c.type = "threshold"
  <2>1. EvalThreshold(c, v) = "healthy"  BY <1>1, Zenon DEF Evaluate
  <2> HIDE DEF v
  <2>2. Numeric(v) /\ Numeric(c.threshold)  BY <2>1, Zenon DEF EvalThreshold
  <2>3. v # NoValue  BY <2>2, ValueConstants, Zenon DEF Numeric
  <2> QED  BY <2>2, <2>3 DEF v
<1>2. CASE c.type = "contains"
  <2>1. EvalContains(c, v) = "healthy"  BY <1>2, Zenon DEF Evaluate
  <2> HIDE DEF v
  <2>2. v # NoValue  BY <2>1, Zenon DEF EvalContains
  <2> QED  BY <1>2, <2>2 DEF v
<1>3. CASE c.type = "custom"
  <2>1. EvalCustom(c, v) = "healthy"  BY <1>3, Zenon DEF Evaluate
  <2> HIDE DEF v
  <2>2. v # NoValue  BY <2>1, Zenon DEF EvalCustom
  <2> QED  BY <1>3, <2>2 DEF v
<1> QED  BY <1>1, <1>2, <1>3

LEMMA RulesHavePaths == ASSUME NEW c \in PlatformRules PROVE c.path \in Seq(STRING)
<1>1. PICK s \in Sampled : c = PlatformCondition(s)  BY Zenon DEF PlatformRules
<1> DEFINE type == IF s.type \in ConditionTypes THEN s.type ELSE "threshold"
           op == IF s.op \in Operators THEN s.op ELSE ""
<1>2. c = [s EXCEPT !.type = type, !.op = op]  BY <1>1, Zenon DEF PlatformCondition
<1> HIDE DEF type, op
<1> QED  BY <1>2, ValueConstants

LEMMA DoubtDoesTrigger == DoubtTriggers
<1> SUFFICES ASSUME NEW c \in PlatformRules, NEW o \in Outputs,
                    c.type \in {"threshold", "contains", "custom"},
                    Evaluate(c, ParsedOutput(o)) = "healthy"
             PROVE  \E v \in Values : /\ IsThere(v, c.path, ParsedOutput(o))
                                      /\ c.type = "threshold" =>
                                           Numeric(v) /\ Numeric(c.threshold)
  BY Zenon DEF DoubtTriggers
<1> DEFINE v == Extract(c.path, ParsedOutput(o))
<1>1. v # NoValue /\ (c.type = "threshold" => Numeric(v) /\ Numeric(c.threshold))
  BY HealthyIsFound
<1>2. v \in Values /\ IsThere(v, c.path, ParsedOutput(o))
  BY <1>1, RulesHavePaths, ParsedIsAnObject, FoundIsThere, Zenon
<1> QED  BY <1>1, <1>2, Zenon

------------------------------------------------------------------------------
(* The runtime and the baseline: whatever replaces the baseline, a drift    *)
(* from the first is on record, being written, or noted as lost; and tasks  *)
(* have ended before the store is closed.                                   *)

Detecting == [at : {"captures"}, saw : Snapshots \cup {NoBaseline}]
DetectSteps == {NotDetecting, DriftFound} \cup Detecting

DriftOnRecord == drifts > 0 \/ driftLost \/ \E c \in DetectCallers : Finds(c)

\* A baseline that the comparison tells from the first.
Parted(b) == b # NoBaseline /\ Differs(baseline.first, b)

RuntimeInv ==
  /\ watched \in Snapshots /\ drifts \in 0 .. 1 /\ driftLost \in BOOLEAN
  /\ baseline \in [first : Snapshots \cup {NoBaseline}, latest : Snapshots \cup {NoBaseline}]
  /\ detector \in [DetectCallers -> DetectSteps]
  /\ taskIs \in [RuntimeTasks -> {"ended", "waits", "runs"}]
  /\ baseline.first = NoBaseline <=> baseline.latest = NoBaseline
  /\ Parted(baseline.latest) => DriftOnRecord
  /\ \A c \in DetectCallers : Captures(c) =>
       /\ detector[c].saw # NoBaseline => baseline.latest # NoBaseline
       /\ Parted(detector[c].saw) => DriftOnRecord
  /\ bootStep = "draining" => \A t \in RuntimeTasks : taskIs[t] = "ended"

USE RuntimeConstants DEF DetectCallers, NotDetecting, DriftFound, Captures, Finds

\* What the comparison does not tell from one that it does not tell from a third it does not tell
\* from the third either.
LEMMA AgreesOn ==
  ASSUME NEW a \in Snapshots, NEW b \in Snapshots, NEW c \in Snapshots
  PROVE  ~Differs(a, a) /\ (Differs(a, c) => Differs(a, b) \/ Differs(b, c))
  BY DEF Differs, Snapshots

LEMMA NoSnapshotIsNone == NoBaseline \notin Snapshots
<1>1. \A s \in Snapshots : s \in [names : Nat, proxy : Nat]  BY DEF Snapshots
<1> QED  BY <1>1

LEMMA RuntimeInitInv == RuntimeInit => RuntimeInv
<1> SUFFICES ASSUME RuntimeInit  PROVE RuntimeInv  OBVIOUS
<1>1. \A c \in DetectCallers : detector[c] = NotDetecting  BY DEF RuntimeInit
<1>2. \A c \in DetectCallers : ~Captures(c)  BY <1>1
<1>3. detector \in [DetectCallers -> DetectSteps]  BY DEF RuntimeInit, DetectSteps
<1>4. baseline.first = NoBaseline /\ baseline.latest = NoBaseline
      /\ baseline \in [first : Snapshots \cup {NoBaseline}, latest : Snapshots \cup {NoBaseline}]
  BY DEF RuntimeInit
<1>5. driftLost \in BOOLEAN  BY Zenon DEF RuntimeInit
<1>6. /\ watched \in Snapshots /\ drifts \in 0 .. 1
      /\ taskIs \in [RuntimeTasks -> {"ended", "waits", "runs"}] /\ bootStep # "draining"
  BY DEF RuntimeInit, Snapshots
<1> QED  BY <1>2, <1>3, <1>4, <1>5, <1>6 DEF RuntimeInv, Parted

\* Steps of the process and of the system: the baseline and what compares with it are left alone.
LEMMA TasksKeepInv ==
  ASSUME RuntimeInv, watched' \in Snapshots, UNCHANGED <<baseline, detector, drifts, driftLost>>,
         taskIs' \in [RuntimeTasks -> {"ended", "waits", "runs"}],
         bootStep' = "draining" => \A t \in RuntimeTasks : taskIs'[t] = "ended"
  PROVE  RuntimeInv'
  BY DEF RuntimeInv, DriftOnRecord, Parted

LEMMA ExitKeepsInv == ASSUME RuntimeInv, ProcessExits PROVE RuntimeInv'
<1>1. detector' = [c \in DetectCallers |-> NotDetecting]  BY DEF ProcessExits
<1>2. DriftOnRecord => DriftOnRecord'
  BY DEF ProcessExits, DriftOnRecord, RuntimeInv
<1>3. /\ driftLost' \in BOOLEAN /\ UNCHANGED <<watched, baseline, drifts>>
      /\ taskIs' \in [RuntimeTasks -> {"ended", "waits", "runs"}] /\ bootStep' = "down"
  BY DEF ProcessExits
<1> QED  BY <1>1, <1>2, <1>3 DEF RuntimeInv, Parted, DetectSteps

LEMMA ReadBaselineKeepsInv ==
  ASSUME RuntimeInv, NEW c \in DetectCallers, GetLatestBaseline(c)
  PROVE  RuntimeInv'
<1>1. PICK saw \in {baseline.latest, NoBaseline} :
        detector' = [detector EXCEPT ![c] = [at |-> "captures", saw |-> saw]]
  BY DEF GetLatestBaseline
<1> DEFINE read == [at |-> "captures", saw |-> saw]
<1>2. /\ detector[c] = NotDetecting /\ detector' = [detector EXCEPT ![c] = read]
      /\ UNCHANGED <<processVars, watched, baseline, drifts, driftLost>>
  BY <1>1 DEF GetLatestBaseline, MayDetect
<1>3. read \in Detecting /\ read.at = "captures" /\ read.saw = saw
  BY DEF Detecting, RuntimeInv
<1> HIDE DEF read
<1>4. detector' \in [DetectCallers -> DetectSteps]
  BY <1>2, <1>3 DEF RuntimeInv, DetectSteps
<1>5. detector'[c] = read /\ \A other \in DetectCallers \ {c} : detector'[other] = detector[other]
  BY <1>2 DEF RuntimeInv
<1>6. DriftOnRecord => DriftOnRecord'  BY <1>2, <1>5 DEF DriftOnRecord
<1>7. \A other \in DetectCallers \ {c} : (Captures(other)' <=> Captures(other))
  BY <1>5
<1>8. UNCHANGED <<taskIs, bootStep>>  BY <1>2 DEF processVars
<1>9. \A b : Parted(b)' <=> Parted(b)  BY <1>2 DEF Parted
<1>10. ASSUME NEW other \in DetectCallers, Captures(other)'
       PROVE  (/\ detector[other].saw # NoBaseline => baseline.latest # NoBaseline
               /\ Parted(detector[other].saw) => DriftOnRecord)'
  <2>1. CASE other = c
    <3>1. detector'[other].saw = saw /\ baseline' = baseline  BY <1>2, <1>3, <1>5, <2>1
    <3>2. Parted(saw) => DriftOnRecord
      <4>1. ~Parted(NoBaseline)  BY DEF Parted
      <4>2. Parted(baseline.latest) => DriftOnRecord  BY DEF RuntimeInv
      <4> QED  BY <1>1, <4>1, <4>2
    <3>3. saw # NoBaseline => baseline.latest # NoBaseline  BY <1>1
    <3>4. Parted(detector[other].saw)' <=> Parted(saw)  BY <1>2, <1>3, <1>5, <1>9, <3>1 DEF Parted
    <3> QED  BY <1>6, <3>1, <3>2, <3>3, <3>4
  <2>2. CASE other # c
    <3>1. detector'[other] = detector[other] /\ baseline' = baseline  BY <1>2, <1>5, <2>2
    <3>2. Captures(other)  BY <1>7, <1>10, <2>2
    <3>3. /\ detector[other].saw # NoBaseline => baseline.latest # NoBaseline
          /\ Parted(detector[other].saw) => DriftOnRecord
      BY <3>2 DEF RuntimeInv
    <3>4. Parted(detector[other].saw)' <=> Parted(detector[other].saw)  BY <1>2, <1>3, <1>5, <1>9, <3>1 DEF Parted
    <3> QED  BY <1>6, <3>1, <3>3, <3>4
  <2> QED  BY <2>1, <2>2
<1>11. Parted(baseline.latest)' => DriftOnRecord'
  BY <1>2, <1>6, <1>9 DEF RuntimeInv
<1> HIDE DEF Captures
<1> QED  BY <1>2, <1>4, <1>8, <1>10, <1>11 DEF RuntimeInv

LEMMA CaptureKeepsInv ==
  ASSUME RuntimeInv, NEW c \in DetectCallers, CaptureBaseline(c)
  PROVE  RuntimeInv'
<1> DEFINE oldest == IF baseline.first = NoBaseline THEN watched ELSE baseline.first
           saw == detector[c].saw
           step == IF saw # NoBaseline /\ Differs(saw, watched) THEN DriftFound ELSE NotDetecting
           new == [first |-> oldest, latest |-> watched]
           replaces == baseline' = new /\ driftLost' = (driftLost \/ Overlooked(c))
<1>1. /\ Captures(c) /\ UNCHANGED <<watched, drifts, taskIs, bootStep>>
      /\ (baseline' = baseline /\ driftLost' = driftLost) \/ replaces
      /\ detector' = [detector EXCEPT ![c] = step]
  BY DEF CaptureBaseline, processVars
<1>2. saw \in Snapshots \cup {NoBaseline}  BY <1>1 DEF RuntimeInv, DetectSteps, Detecting
<1>3. step \in {NotDetecting, DriftFound}  OBVIOUS
<1>4. new.first = oldest /\ new.latest = watched
      /\ new \in [first : Snapshots \cup {NoBaseline}, latest : Snapshots \cup {NoBaseline}]
  BY DEF RuntimeInv
<1>5. detector' \in [DetectCallers -> DetectSteps]
  BY <1>1, <1>3 DEF RuntimeInv, DetectSteps
<1>6. detector'[c] = step /\ \A other \in DetectCallers \ {c} : detector'[other] = detector[other]
  BY <1>1 DEF RuntimeInv
<1>7. /\ driftLost => driftLost'
      /\ driftLost' \in BOOLEAN
      /\ replaces /\ Overlooked(c) => driftLost'
  <2>1. CASE driftLost' = driftLost /\ ~replaces  BY <2>1, Zenon DEF RuntimeInv
  <2>2. CASE replaces  BY <2>2, Zenon
  <2> QED  BY <1>1, <2>1, <2>2, Zenon
<1>8. saw # NoBaseline /\ Differs(saw, watched) => DriftOnRecord'
  BY <1>6 DEF DriftOnRecord
<1> HIDE DEF step, new
<1>9. DriftOnRecord => DriftOnRecord'
  <2>1. ASSUME NEW other \in DetectCallers, Finds(other)  PROVE DriftOnRecord'
    <3>1. other # c  BY <1>1, <2>1
    <3> QED  BY <1>6, <2>1, <3>1 DEF DriftOnRecord
  <2> QED  BY <1>1, <1>7, <2>1 DEF DriftOnRecord
<1>10. ~Captures(c)' /\ \A other \in DetectCallers \ {c} : (Captures(other)' <=> Captures(other))
  BY <1>3, <1>6
<1>11. watched \in Snapshots /\ watched # NoBaseline  BY NoSnapshotIsNone DEF RuntimeInv
<1>12. CASE baseline' = baseline
  <2>1. \A b : Parted(b)' <=> Parted(b)  BY <1>12 DEF Parted
  <2> QED  BY <1>1, <1>5, <1>6, <1>7, <1>9, <1>10, <1>12, <2>1 DEF RuntimeInv
<1>13. CASE replaces
  <2>1. /\ baseline'.first = oldest /\ baseline'.latest = watched /\ oldest # NoBaseline
        /\ Overlooked(c) => driftLost'
    BY <1>4, <1>7, <1>11, <1>13
  <2>2. Parted(baseline.latest)' => DriftOnRecord'
    <3> SUFFICES ASSUME Differs(oldest, watched)  PROVE DriftOnRecord'
      BY <2>1 DEF Parted
    <3>1. /\ baseline.first # NoBaseline /\ oldest = baseline.first
          /\ baseline.first \in Snapshots /\ baseline.latest \in Snapshots
          /\ baseline.latest # NoBaseline
      BY <1>11, AgreesOn DEF RuntimeInv
    <3>2. CASE saw # NoBaseline
      <4>1. saw \in Snapshots  BY <1>2, <3>2
      <4>2. Differs(oldest, saw) \/ Differs(saw, watched)  BY <1>11, <3>1, <4>1, AgreesOn
      <4>3. CASE Differs(oldest, saw)
        <5>1. Parted(detector[c].saw)  BY <3>1, <3>2, <4>3 DEF Parted
        <5> QED  BY <1>1, <1>9, <5>1 DEF RuntimeInv
      <4> QED  BY <1>8, <3>2, <4>2, <4>3
    <3>3. CASE saw = NoBaseline
      <4>1. Differs(oldest, baseline.latest) \/ Differs(baseline.latest, watched)
        BY <1>11, <3>1, AgreesOn
      <4>2. CASE Differs(oldest, baseline.latest)
        BY <1>9, <3>1, <4>2 DEF RuntimeInv, Parted
      <4>3. CASE Differs(baseline.latest, watched)
        <5>1. Overlooked(c)  BY <3>1, <3>3, <4>3 DEF Overlooked
        <5> QED  BY <2>1, <5>1 DEF DriftOnRecord
      <4> QED  BY <4>1, <4>2, <4>3
    <3> QED  BY <3>2, <3>3
  <2>3. \A other \in DetectCallers \ {c} : Captures(other) =>
          (Parted(detector[other].saw)' => DriftOnRecord')
    <3> SUFFICES ASSUME NEW other \in DetectCallers \ {c}, Captures(other),
                        detector[other].saw # NoBaseline, Differs(oldest, detector[other].saw)
                 PROVE  DriftOnRecord'
      BY <1>6, <2>1 DEF Parted
    <3>1. oldest = baseline.first  BY DEF RuntimeInv
    <3>2. Parted(detector[other].saw)  BY <3>1 DEF Parted
    <3> QED  BY <1>9, <3>2 DEF RuntimeInv
  <2> QED
    BY <1>1, <1>4, <1>5, <1>6, <1>7, <1>10, <1>11, <1>13, <2>1, <2>2, <2>3 DEF RuntimeInv
<1> QED  BY <1>1, <1>12, <1>13

LEMMA SaveDriftKeepsInv ==
  ASSUME RuntimeInv, NEW c \in DetectCallers, SaveDrift(c)
  PROVE  RuntimeInv'
<1>1. /\ detector' = [detector EXCEPT ![c] = NotDetecting]
      /\ UNCHANGED <<watched, baseline, taskIs, bootStep>>
      /\ (drifts' = 1 /\ driftLost' = driftLost) \/ (drifts' = drifts /\ driftLost' = TRUE)
  BY DEF SaveDrift, processVars
<1>2. detector' \in [DetectCallers -> DetectSteps]  BY <1>1 DEF RuntimeInv, DetectSteps
<1>3. detector'[c] = NotDetecting
      /\ \A other \in DetectCallers \ {c} : detector'[other] = detector[other]
  BY <1>1 DEF RuntimeInv
<1>4. drifts' \in 0 .. 1 /\ driftLost' \in BOOLEAN
  <2>1. drifts \in 0 .. 1  BY DEF RuntimeInv
  <2>2. drifts' \in 0 .. 1
    <3> HIDE DEF RuntimeInv
    <3> QED  BY <1>1, <2>1
  <2>3. driftLost' \in BOOLEAN  BY <1>1, Zenon DEF RuntimeInv
  <2> QED  BY <2>2, <2>3
<1>5. DriftOnRecord'  BY <1>1 DEF DriftOnRecord
<1>6. \A b : Parted(b)' <=> Parted(b)  BY <1>1 DEF Parted
<1> QED  BY <1>1, <1>2, <1>3, <1>4, <1>5, <1>6 DEF RuntimeInv

LEMMA RuntimeNextInv == RuntimeInv /\ [RuntimeNext]_runtimeVars => RuntimeInv'
<1> SUFFICES ASSUME RuntimeInv, [RuntimeNext]_runtimeVars  PROVE RuntimeInv'  OBVIOUS
<1>0. watched \in Snapshots  BY DEF RuntimeInv
<1>1. CASE \/ OpenLocalStore \/ CheckIdentity \/ PullRemoteConfig
           \/ StartLocalAPI \/ RegisterTasks \/ RegisterUpdateCheck \/ SignalArrives
  <2>1. UNCHANGED <<taskIs, driftVars>> /\ bootStep' # "draining"
    BY <1>1 DEF OpenLocalStore, CheckIdentity, PullRemoteConfig, StartLocalAPI,
                RegisterTasks, RegisterUpdateCheck, SignalArrives, BootGoes
  <2> QED  BY <1>0, <2>1, TasksKeepInv DEF RuntimeInv, driftVars
<1>2. CASE StartRuntimeTasks
  BY <1>0, <1>2, TasksKeepInv DEF StartRuntimeTasks, BootGoes, driftVars
<1>3. CASE StopRuntime
  BY <1>0, <1>3, TasksKeepInv DEF StopRuntime, BootGoes, driftVars, RuntimeInv
<1>4. CASE CloseStore  BY <1>0, <1>4, TasksKeepInv DEF CloseStore, driftVars, RuntimeInv
<1>5. ASSUME NEW t \in RuntimeTasks, TaskTicks(t) \/ TaskReturns(t)  PROVE RuntimeInv'
  <2>1. /\ taskIs[t] # "ended" /\ UNCHANGED <<bootStep, driftVars>>
        /\ taskIs' \in [RuntimeTasks -> {"ended", "waits", "runs"}]
    BY <1>5 DEF TaskTicks, TaskReturns, RuntimeInv
  <2> QED  BY <1>0, <2>1, TasksKeepInv DEF RuntimeInv, driftVars
<1>6. CASE SystemChanges \/ LaunchProcess
  <2>1. watched' \in Snapshots
    BY <1>0, <1>6 DEF SystemChanges, LaunchProcess, Snapshots
  <2>2. UNCHANGED <<taskIs, baseline, detector, drifts, driftLost>>
        /\ bootStep' \in {bootStep, "store"}
    BY <1>6 DEF SystemChanges, LaunchProcess, BootGoes, processVars
  <2> QED  BY <2>1, <2>2, TasksKeepInv DEF RuntimeInv
<1>7. ASSUME NEW c \in DetectCallers,
             GetLatestBaseline(c) \/ CaptureBaseline(c) \/ SaveDrift(c)
      PROVE  RuntimeInv'
  BY <1>7, ReadBaselineKeepsInv, CaptureKeepsInv, SaveDriftKeepsInv
<1>8. CASE UNCHANGED runtimeVars
  BY <1>0, <1>8, TasksKeepInv DEF runtimeVars, RuntimeInv
<1> QED
  BY <1>1, <1>2, <1>3, <1>4, <1>5, <1>6, <1>7, <1>8, ExitKeepsInv DEF RuntimeNext

LEMMA RuntimeInvShows == RuntimeInv => DriftsAreRecorded
  BY DEF RuntimeInv, DriftsAreRecorded, DriftOnRecord, Parted

HIDE RuntimeConstants DEF DetectCallers, NotDetecting, DriftFound, Captures, Finds

------------------------------------------------------------------------------
(* Remediation plans: the layers of Kahn's algorithm put every step behind  *)
(* those it depends on, so the plan is run in an order that does, and       *)
(* undone backwards.                                                        *)

PlanSize == Cardinality(Steps)

\* The layers of the algorithm as far as the n-th.
LayersTo(deps, n, upTo) ==
  upTo = [k \in 0 .. n |-> IF k = 0 THEN {} ELSE {s \in Steps : Ready(s, upTo[k - 1], deps)}]

LEMMA LayersOneFurther ==
  ASSUME NEW deps, NEW n \in Nat, NEW f, LayersTo(deps, n, f)
  PROVE  \E h : LayersTo(deps, n + 1, h)
<1> DEFINE next == {s \in Steps : Ready(s, f[n], deps)}
           h == [k \in 0 .. n + 1 |-> IF k = n + 1 THEN next ELSE f[k]]
           step == [k \in 0 .. n + 1 |->
                      IF k = 0 THEN {} ELSE {s \in Steps : Ready(s, h[k - 1], deps)}]
<1>1. \A k \in 0 .. n : f[k] = IF k = 0 THEN {} ELSE {s \in Steps : Ready(s, f[k - 1], deps)}
  BY Zenon DEF LayersTo
<1> HIDE DEF next
<1>2. \A k \in 0 .. n : h[k] = f[k]  OBVIOUS
<1>3. h[n + 1] = next  OBVIOUS
<1> HIDE DEF h
<1>4. ASSUME NEW k \in 0 .. n + 1  PROVE h[k] = step[k]
  <2>1. CASE k = n + 1
    <3>1. h[k - 1] = f[n] /\ k # 0  BY <2>1, <1>2
    <3>2. step[k] = {s \in Steps : Ready(s, h[k - 1], deps)}  BY <3>1
    <3> QED  BY <2>1, <1>3, <3>1, <3>2 DEF next
  <2>2. CASE k # n + 1
    <3>1. k \in 0 .. n /\ (k # 0 => k - 1 \in 0 .. n)  BY <2>2
    <3>2. h[k] = f[k] /\ (k # 0 => h[k - 1] = f[k - 1])  BY <3>1, <1>2
    <3>3. step[k] = IF k = 0 THEN {} ELSE {s \in Steps : Ready(s, h[k - 1], deps)}  OBVIOUS
    <3> HIDE DEF step
    <3> QED  BY <3>1, <3>2, <3>3, <1>1
  <2> QED  BY <2>1, <2>2
<1>5. h = step
  <2>1. h = [k \in 0 .. n + 1 |-> h[k]]  BY DEF h
  <2>2. step = [k \in 0 .. n + 1 |-> step[k]]  OBVIOUS
  <2> HIDE DEF step
  <2> QED  BY <2>1, <2>2, <1>4
<1>6. LayersTo(deps, n + 1, h)  BY <1>5, Zenon DEF LayersTo
<1> QED  BY <1>6

LEMMA LayersAllTheWay ==
  ASSUME NEW deps, NEW n \in Nat
  PROVE  \E f : LayersTo(deps, n, f)
<1> DEFINE stuck == {k \in Nat : ~ \E f : LayersTo(deps, k, f)}
<1>1. SUFFICES ASSUME stuck # {}  PROVE FALSE  BY Zenon
<1>2. PICK k \in stuck : \A j \in stuck : k <= j  BY <1>1, FirstOne, Zenon
<1>3. CASE k = 0
  <2> DEFINE f == [j \in 0 .. 0 |-> {}]
  <2>1. \A j \in 0 .. 0 : j = 0  OBVIOUS
  <2>2. f = [j \in 0 .. 0 |-> IF j = 0 THEN {} ELSE {s \in Steps : Ready(s, f[j - 1], deps)}]
    BY <2>1, Zenon
  <2> HIDE DEF f
  <2>3. LayersTo(deps, 0, f)  BY <2>2, Zenon DEF LayersTo
  <2> QED  BY <2>3, <1>3
<1>4. CASE k # 0
  <2>1. k - 1 \in Nat /\ (k - 1) + 1 = k /\ ~(k <= k - 1)  BY <1>4
  <2>2. PICK f : LayersTo(deps, k - 1, f)  BY <1>2, <2>1
  <2>3. \E h : LayersTo(deps, (k - 1) + 1, h)  BY <2>1, <2>2, LayersOneFurther
  <2> QED  BY <2>1, <2>3
<1> QED  BY <1>3, <1>4

LEMMA LayersAre ==
  ASSUME NEW deps
  PROVE  /\ PlanSize \in Nat /\ Layers(deps)[0] = {}
         /\ \A k \in 1 .. PlanSize :
              Layers(deps)[k] = {s \in Steps : deps[s] \subseteq Layers(deps)[k - 1]}
<1>1. PlanSize \in Nat  BY RemediationConstants, FS_CardinalityType DEF PlanSize
<1>2. Layers(deps) = CHOOSE f : LayersTo(deps, PlanSize, f)
  BY Zenon DEF Layers, LayersTo, PlanSize
<1>3. \E f : LayersTo(deps, PlanSize, f)  BY <1>1, LayersAllTheWay
<1>4. LayersTo(deps, PlanSize, Layers(deps))  BY <1>2, <1>3, Zenon
<1> HIDE DEF PlanSize
<1>5. \A k \in 0 .. PlanSize : Layers(deps)[k] =
        IF k = 0 THEN {} ELSE {s \in Steps : Ready(s, Layers(deps)[k - 1], deps)}
  BY <1>4, Zenon DEF LayersTo
<1>6. \A k \in 1 .. PlanSize : k \in 0 .. PlanSize /\ k # 0  BY <1>1
<1>7. 0 \in 0 .. PlanSize  BY <1>1
<1> QED  BY <1>1, <1>5, <1>6, <1>7 DEF Ready

LEMMA LayersGrow ==
  ASSUME NEW deps, NEW k \in 1 .. PlanSize
  PROVE  Layers(deps)[k - 1] \subseteq Layers(deps)[k]
<1> DEFINE L == Layers(deps)
           shrinks == {j \in 1 .. PlanSize : ~(L[j - 1] \subseteq L[j])}
<1>0. /\ PlanSize \in Nat /\ L[0] = {}
      /\ \A j \in 1 .. PlanSize : L[j] = {s \in Steps : deps[s] \subseteq L[j - 1]}
  BY LayersAre
<1> HIDE DEF L
<1>1. SUFFICES ASSUME shrinks # {}  PROVE FALSE  BY DEF L
<1>2. shrinks \subseteq Nat  BY <1>0
<1>3. PICK j \in shrinks : \A i \in shrinks : j <= i
  <2> HIDE DEF shrinks
  <2> QED  BY <1>1, <1>2, FirstOne
<1>4. j \in 1 .. PlanSize /\ ~(L[j - 1] \subseteq L[j])  BY <1>3
<1>5. j # 1
  <2>1. L[1 - 1] \subseteq L[1]  BY <1>0
  <2> QED  BY <2>1, <1>4
<1> DEFINE i == j - 1
<1>6. i \in 1 .. PlanSize /\ ~(j <= i) /\ i = j - 1  BY <1>0, <1>4, <1>5
<1> HIDE DEF i
<1>7. L[i - 1] \subseteq L[i]
  <2>1. i \notin shrinks  BY <1>3, <1>6
  <2> QED  BY <2>1, <1>6
<1>8. L[i] = {s \in Steps : deps[s] \subseteq L[i - 1]}  BY <1>0, <1>6
<1>9. L[j] = {s \in Steps : deps[s] \subseteq L[i]}  BY <1>0, <1>4, <1>6
<1>10. L[i] \subseteq L[j]  BY <1>7, <1>8, <1>9
<1> QED  BY <1>10, <1>4, <1>6

LEMMA LayersContain ==
  ASSUME NEW deps, NEW j \in 0 .. PlanSize, NEW k \in 0 .. PlanSize, j <= k
  PROVE  Layers(deps)[j] \subseteq Layers(deps)[k]
<1> DEFINE L == Layers(deps)
           outside == {n \in 0 .. PlanSize : j <= n /\ ~(L[j] \subseteq L[n])}
<1>0. PlanSize \in Nat /\ \A n \in 1 .. PlanSize : L[n - 1] \subseteq L[n]
  BY LayersAre, LayersGrow
<1> HIDE DEF L
<1>1. SUFFICES ASSUME outside # {}  PROVE FALSE  BY DEF L
<1>2. outside \subseteq Nat  BY <1>0
<1>3. PICK n \in outside : \A i \in outside : n <= i
  <2> HIDE DEF outside
  <2> QED  BY <1>1, <1>2, FirstOne
<1>4. n \in 0 .. PlanSize /\ j <= n /\ ~(L[j] \subseteq L[n]) /\ n # j  BY <1>3
<1> DEFINE i == n - 1
<1>5. i \in 0 .. PlanSize /\ j <= i /\ ~(n <= i) /\ n \in 1 .. PlanSize /\ i = n - 1
  BY <1>0, <1>4
<1> HIDE DEF i
<1>6. L[j] \subseteq L[i]
  <2>1. i \notin outside  BY <1>3, <1>5
  <2> QED  BY <2>1, <1>5
<1>7. L[i] \subseteq L[n]  BY <1>0, <1>5
<1> QED  BY <1>4, <1>6, <1>7

\* Each step of a plan without cycles has its layer.
LEMMA LayerIs ==
  ASSUME NEW deps, Acyclic(deps), NEW s \in Steps
  PROVE  /\ LayerOf(s, deps) \in 1 .. PlanSize
         /\ s \in Layers(deps)[LayerOf(s, deps)] /\ s \notin Layers(deps)[LayerOf(s, deps) - 1]
<1> DEFINE L == Layers(deps)
           holding == {k \in 0 .. PlanSize : s \in L[k]}
<1>1. PlanSize \in Nat /\ L[0] = {}  BY LayersAre
<1>2. s \in L[PlanSize]  BY Zenon DEF Acyclic, PlanSize
<1> HIDE DEF L
<1>3. holding # {} /\ holding \subseteq Nat  BY <1>1, <1>2
<1>4. PICK k \in holding : \A j \in holding : k <= j
  <2> HIDE DEF holding
  <2> QED  BY <1>3, FirstOne
<1>5. k \in 0 .. PlanSize /\ s \in L[k] /\ k # 0  BY <1>1, <1>4
<1>6. k \in 1 .. PlanSize /\ k - 1 \in 0 .. PlanSize /\ ~(k <= k - 1)  BY <1>1, <1>5
<1>7. s \notin L[k - 1]  BY <1>4, <1>6
<1>8. \E n \in 1 .. PlanSize : s \in L[n] \ L[n - 1]  BY <1>5, <1>6, <1>7
<1>9. LayerOf(s, deps) = CHOOSE n \in 1 .. PlanSize : s \in L[n] \ L[n - 1]
  BY Zenon DEF LayerOf, PlanSize, L
<1>10. LayerOf(s, deps) \in 1 .. PlanSize /\ s \in L[LayerOf(s, deps)] \ L[LayerOf(s, deps) - 1]
  BY <1>8, <1>9, Zenon
<1> QED  BY <1>10 DEF L

\* A step is in a later layer than those it depends on.
LEMMA LayersAreInOrder ==
  ASSUME NEW deps \in [Steps -> SUBSET Steps], Acyclic(deps),
         NEW s \in Steps, NEW d \in deps[s]
  PROVE  LayerOf(d, deps) < LayerOf(s, deps)
<1> DEFINE L == Layers(deps)
           k == LayerOf(s, deps)
           j == LayerOf(d, deps)
<1>1. d \in Steps  OBVIOUS
<1>2. k \in 1 .. PlanSize /\ s \in L[k]  BY LayerIs
<1>3. j \in 1 .. PlanSize /\ d \notin L[j - 1]  BY <1>1, LayerIs
<1>4. PlanSize \in Nat /\ L[k] = {t \in Steps : deps[t] \subseteq L[k - 1]}  BY <1>2, LayersAre
<1>5. d \in L[k - 1]  BY <1>2, <1>4
<1>6. k <= j => L[k - 1] \subseteq L[j - 1]
  <2>1. k - 1 \in 0 .. PlanSize /\ j - 1 \in 0 .. PlanSize  BY <1>2, <1>3, <1>4
  <2>2. k <= j => k - 1 <= j - 1  BY <1>2, <1>3, <1>4
  <2> HIDE DEF k, j
  <2> QED  BY <2>1, <2>2, LayersContain
<1> HIDE DEF k, j, L
<1>7. ~(k <= j)  BY <1>3, <1>5, <1>6
<1>8. j < k  BY <1>2, <1>3, <1>4, <1>7
<1> QED  BY <1>8 DEF k, j

\* An order of execution has each step once.
LEMMA OrderIs ==
  ASSUME NEW deps, NEW o \in ExecutionOrders(deps)
  PROVE  /\ PlanSize \in Nat /\ o \in [1 .. PlanSize -> Steps] /\ Injective(o)
         /\ o \in Seq(Steps) /\ Len(o) = PlanSize /\ DOMAIN o = 1 .. PlanSize
         /\ \A s \in Steps : \E j \in 1 .. PlanSize : o[j] = s
         /\ \A i, j \in 1 .. PlanSize : i < j => LayerOf(o[i], deps) <= LayerOf(o[j], deps)
<1>1. PlanSize \in Nat  BY LayersAre
<1>2. /\ o \in StepLists /\ Len(o) = PlanSize
      /\ \A i, j \in DOMAIN o : i < j => LayerOf(o[i], deps) <= LayerOf(o[j], deps)
  BY Zenon DEF ExecutionOrders, PlanSize
<1>3. PICK n \in 0 .. PlanSize : o \in [1 .. n -> Steps]
  <2>1. o \in UNION {[1 .. n -> Steps] : n \in 0 .. PlanSize}  BY <1>2, Zenon DEF StepLists, PlanSize
  <2> HIDE DEF PlanSize
  <2> QED  BY <2>1
<1>4. Injective(o)  BY <1>2, Zenon DEF StepLists
<1> HIDE DEF PlanSize
<1>5. n = PlanSize
  <2>1. n \in Nat /\ Len(o) = n  BY <1>1, <1>3
  <2> QED  BY <2>1, <1>2
<1>6. o \in [1 .. PlanSize -> Steps] /\ DOMAIN o = 1 .. PlanSize /\ o \in Seq(Steps)
  BY <1>1, <1>3, <1>5
<1>7. o \in Injection(1 .. PlanSize, Steps)
  BY <1>4, <1>6 DEF Injection, IsInjective, Injective
<1>8. IsFiniteSet(Steps) /\ Cardinality(Steps) = PlanSize
  BY RemediationConstants DEF PlanSize
<1>9. Cardinality(1 .. PlanSize) = PlanSize /\ IsFiniteSet(1 .. PlanSize)
  BY <1>1, FS_Interval
<1>10. o \in Surjection(1 .. PlanSize, Steps)  BY <1>7, <1>8, <1>9, FS_Injection
<1>11. \A s \in Steps : \E j \in 1 .. PlanSize : o[j] = s  BY <1>10 DEF Surjection
<1> QED  BY <1>1, <1>2, <1>4, <1>6, <1>11

\* What a step depends on comes before it.
LEMMA DependenciesComeBefore ==
  ASSUME NEW deps \in [Steps -> SUBSET Steps], Acyclic(deps), NEW o \in ExecutionOrders(deps),
         NEW p \in 1 .. PlanSize, NEW d \in deps[o[p]]
  PROVE  d # o[p] /\ \E j \in 1 .. PlanSize : j < p /\ o[j] = d
<1>1. /\ PlanSize \in Nat /\ o \in [1 .. PlanSize -> Steps]
      /\ \A s \in Steps : \E j \in 1 .. PlanSize : o[j] = s
      /\ \A i, j \in 1 .. PlanSize : i < j => LayerOf(o[i], deps) <= LayerOf(o[j], deps)
  BY OrderIs
<1>2. o[p] \in Steps /\ d \in Steps  BY <1>1
<1>3. PICK j \in 1 .. PlanSize : o[j] = d  BY <1>1, <1>2
<1> DEFINE above == LayerOf(d, deps)
           below == LayerOf(o[p], deps)
<1>4. above < below  BY <1>2, LayersAreInOrder
<1>5. above \in Int /\ below \in Int  BY <1>1, <1>2, LayerIs
<1>6. p < j => below <= above  BY <1>1, <1>3
<1>7. d = o[p] => above = below  OBVIOUS
<1> HIDE DEF above, below
<1>8. ~(p < j) /\ d # o[p]  BY <1>4, <1>5, <1>6, <1>7
<1>9. j < p  BY <1>1, <1>3, <1>8
<1> QED  BY <1>3, <1>8, <1>9

\* The plan is run in the order o: what is finished is its beginning, what is to do the rest.
Follows(o) ==
  /\ o \in ExecutionOrders(needs) /\ Len(finished) + Len(order) = PlanSize
  /\ \A i \in 1 .. Len(finished) : finished[i] = o[i]
  /\ \A i \in 1 .. Len(order) : order[i] = o[Len(finished) + i]

PlanPhases ==
  {"none", "rejected", "generated", "executing", "rolling_back", "failed", "completed"}

PlanInv ==
  /\ needs \in [Steps -> SUBSET Steps] /\ plan \in PlanPhases
  /\ order \in Seq(Steps) /\ finished \in Seq(Steps) /\ undoing \in Seq(Steps)
  /\ plan \in {"none", "rejected", "generated"} =>
       executed = {} /\ finished = <<>> /\ order = <<>>
  /\ plan = "generated" => Acyclic(needs)
  /\ plan \notin {"none", "rejected", "generated"} => Acyclic(needs) /\ \E o : Follows(o)
  /\ plan # "rolling_back" => undoing = <<>>
  /\ plan \notin {"rolling_back", "failed"} => undone = {}
  /\ \A s \in executed : \/ \E i \in 1 .. Len(finished) : finished[i] = s
                         \/ /\ plan \in {"rolling_back", "failed"}
                            /\ order # <<>> /\ order[1] = s
  /\ Len(undoing) <= Len(finished)
  /\ \A i \in 1 .. Len(undoing) : undoing[i] = finished[i]
  /\ \A s \in undone : \E i \in 1 .. Len(finished) : Len(undoing) < i /\ finished[i] = s

LEMMA PlanInitInv == PlanInit => PlanInv
  BY DEF PlanInit, PlanInv, PlanPhases

LEMMA GenerateKeepsPlan ==
  ASSUME PlanInv, NEW deps \in [Steps -> SUBSET Steps], GeneratePlan(deps)
  PROVE  PlanInv'
<1>1. /\ plan = "none" /\ needs' = deps
      /\ (plan' = "generated" /\ Acyclic(deps)) \/ plan' = "rejected"
      /\ UNCHANGED <<order, finished, undoing, executed, undone>>
  BY Zenon DEF GeneratePlan
<1>2. plan' = "generated" => Acyclic(needs')  BY <1>1
<1>3. Acyclic(needs') = Acyclic(needs)'  OBVIOUS
<1> QED  BY <1>1, <1>2 DEF PlanInv, PlanPhases

LEMMA StartKeepsPlan == ASSUME PlanInv, StartPlan PROVE PlanInv'
<1>1. /\ plan = "generated" /\ plan' = "executing" /\ order' \in ExecutionOrders(needs)
      /\ UNCHANGED <<needs, finished, undoing, executed, undone>>
  BY Zenon DEF StartPlan
<1>2. PICK o : o = order'  OBVIOUS
<1>3. o \in Seq(Steps) /\ Len(o) = PlanSize  BY <1>1, <1>2, OrderIs
<1>4. /\ Acyclic(needs) /\ finished = <<>> /\ executed = {} /\ undone = {} /\ undoing = <<>>
  BY <1>1 DEF PlanInv
<1>5. Follows(o)'
  <2>1. (o \in ExecutionOrders(needs))'  BY <1>1, <1>2
  <2>2. PlanSize' = PlanSize /\ PlanSize \in Nat  BY LayersAre DEF PlanSize
  <2> QED  BY <1>1, <1>2, <1>3, <1>4, <2>1, <2>2 DEF Follows
<1>6. Acyclic(needs)'  BY <1>1, <1>4
<1> QED  BY <1>1, <1>2, <1>3, <1>4, <1>5, <1>6 DEF PlanInv, PlanPhases

\* The first step to do is taken from the order: the same order is followed.
LEMMA StepsFollow ==
  ASSUME PlanInv, NEW s \in Steps, StepAtHand(s), order' = Tail(order),
         finished' = Append(finished, s), UNCHANGED needs
  PROVE  /\ order' \in Seq(Steps) /\ finished' \in Seq(Steps)
         /\ Acyclic(needs)' /\ (\E o : Follows(o))'
         /\ Len(finished') = Len(finished) + 1 /\ Len(finished) \in Nat
         /\ \A i \in 1 .. Len(finished) : finished'[i] = finished[i]
         /\ finished'[Len(finished) + 1] = s
<1>1. /\ plan = "executing" /\ order # <<>> /\ order[1] = s  BY DEF StepAtHand
<1>2. PICK o : Follows(o)  BY <1>1 DEF PlanInv
<1>3. order \in Seq(Steps) /\ finished \in Seq(Steps) /\ Acyclic(needs)
  BY <1>1 DEF PlanInv
<1>4. /\ order' \in Seq(Steps) /\ Len(order') = Len(order) - 1 /\ Len(order) \in Nat \ {0}
      /\ \A i \in 1 .. Len(order') : order'[i] = order[i + 1]
  BY <1>1, <1>3
<1>5. /\ finished' \in Seq(Steps) /\ Len(finished') = Len(finished) + 1 /\ Len(finished) \in Nat
      /\ \A i \in 1 .. Len(finished) : finished'[i] = finished[i]
      /\ finished'[Len(finished) + 1] = s
  BY <1>3
<1>6. Acyclic(needs)'  BY <1>3
<1>7. o \in ExecutionOrders(needs)'  BY <1>2 DEF Follows
<1>8. Len(finished') + Len(order') = PlanSize
  BY <1>2, <1>4, <1>5 DEF Follows
<1>9. ASSUME NEW i \in 1 .. Len(finished')  PROVE finished'[i] = o[i]
  <2>1. CASE i \in 1 .. Len(finished)  BY <1>2, <1>5, <2>1 DEF Follows
  <2>2. CASE i = Len(finished) + 1
    <3>1. 1 \in 1 .. Len(order)  BY <1>4
    <3>2. order[1] = o[Len(finished) + 1]  BY <1>2, <3>1 DEF Follows
    <3> QED  BY <1>1, <1>5, <2>2, <3>2
  <2>3. i \in 1 .. Len(finished) \/ i = Len(finished) + 1  BY <1>5
  <2> QED  BY <2>1, <2>2, <2>3
<1>10. ASSUME NEW i \in 1 .. Len(order')  PROVE order'[i] = o[Len(finished') + i]
  <2>3. i + 1 \in 1 .. Len(order)  BY <1>4
  <2>4. i \in Nat /\ Len(finished) + (i + 1) = (Len(finished) + 1) + i
    <3>1. i \in Nat /\ Len(finished) \in Nat  BY <1>4, <1>5
    <3>2. \A a, b \in Nat : a + (b + 1) = (a + 1) + b  OBVIOUS
    <3> QED  BY <3>1, <3>2
  <2>1. i + 1 \in 1 .. Len(order) /\ Len(finished) + (i + 1) = Len(finished') + i
    BY <1>5, <2>3, <2>4
  <2>2. order[i + 1] = o[Len(finished) + (i + 1)]  BY <1>2, <2>1 DEF Follows
  <2> QED  BY <1>4, <2>1, <2>2
<1>11. PlanSize' = PlanSize  BY DEF PlanSize
<1>12. Follows(o)'  BY <1>7, <1>8, <1>9, <1>10, <1>11 DEF Follows
<1> QED  BY <1>4, <1>5, <1>6, <1>12

LEMMA StepKeepsPlan ==
  ASSUME PlanInv, NEW s \in Steps, StepSucceeds(s) \/ StepIsDeclined(s)
  PROVE  PlanInv'
<1>1. /\ StepAtHand(s) /\ order' = Tail(order) /\ finished' = Append(finished, s)
      /\ executed' \subseteq executed \cup {s} /\ UNCHANGED <<needs, plan, undoing, undone>>
  BY DEF StepSucceeds, StepIsDeclined
<1>2. plan = "executing" /\ undoing = <<>> /\ undone = {}  BY <1>1 DEF StepAtHand, PlanInv
<1>3. /\ order' \in Seq(Steps) /\ finished' \in Seq(Steps)
      /\ Acyclic(needs)' /\ (\E o : Follows(o))'
      /\ Len(finished') = Len(finished) + 1 /\ Len(finished) \in Nat
      /\ \A i \in 1 .. Len(finished) : finished'[i] = finished[i]
      /\ finished'[Len(finished) + 1] = s
  BY <1>1, StepsFollow
<1>4. \A t \in executed' : \E i \in 1 .. Len(finished') : finished'[i] = t
  <2> SUFFICES ASSUME NEW t \in executed'
               PROVE  \E i \in 1 .. Len(finished') : finished'[i] = t
    OBVIOUS
  <2>1. CASE t = s
    <3>1. Len(finished) + 1 \in 1 .. Len(finished')  BY <1>3
    <3> QED  BY <1>3, <2>1, <3>1
  <2>2. CASE t \in executed
    <3>1. PICK i \in 1 .. Len(finished) : finished[i] = t  BY <1>2, <2>2 DEF PlanInv
    <3>2. i \in 1 .. Len(finished') /\ finished'[i] = t  BY <1>3, <3>1
    <3> QED  BY <3>2
  <2> QED  BY <1>1, <2>1, <2>2
<1>5. Len(undoing') = 0 /\ undoing' = <<>> /\ undone' = {} /\ plan' = "executing"
  BY <1>1, <1>2
<1> QED  BY <1>1, <1>3, <1>4, <1>5 DEF PlanInv, PlanPhases

LEMMA FailKeepsPlan == ASSUME PlanInv, NEW s \in Steps, StepFails(s) PROVE PlanInv'
<1>1. /\ StepAtHand(s) /\ plan' = "rolling_back" /\ undoing' = finished
      /\ executed' \subseteq executed \cup {s} /\ UNCHANGED <<needs, order, finished, undone>>
  BY DEF StepFails
<1>2. /\ plan = "executing" /\ order # <<>> /\ order[1] = s /\ undone = {}
      /\ Acyclic(needs) /\ finished \in Seq(Steps)
  BY <1>1 DEF StepAtHand, PlanInv
<1>3. PICK o : Follows(o)  BY <1>2 DEF PlanInv
<1>4. Follows(o)'  BY <1>1, <1>3 DEF Follows, PlanSize
<1>5. Acyclic(needs)'  BY <1>1, <1>2
<1> QED  BY <1>1, <1>2, <1>4, <1>5 DEF PlanInv, PlanPhases

\* The plan ends, and the rollback, and nothing else changes.
LEMMA EndKeepsPlan ==
  ASSUME PlanInv, UNCHANGED <<needs, order, finished, undoing, executed, undone>>,
         \/ plan = "none" /\ plan' = "rejected"
         \/ plan = "executing" /\ plan' \in {"failed", "completed"}
         \/ plan = "rolling_back" /\ undoing = <<>> /\ plan' = "failed"
         \/ plan' = plan
  PROVE  PlanInv'
<1>1. Acyclic(needs)' <=> Acyclic(needs)  OBVIOUS
<1>2. \A o : Follows(o)' <=> Follows(o)  BY DEF Follows, PlanSize
<1>3. (\E o : Follows(o)) => (\E o : Follows(o))'  BY <1>2
<1>4. plan = "executing" => \A s \in executed : \E i \in 1 .. Len(finished) : finished[i] = s
  BY DEF PlanInv
<1> QED  BY <1>1, <1>3, <1>4 DEF PlanInv, PlanPhases

LEMMA UndoKeepsPlan == ASSUME PlanInv, UndoStep PROVE PlanInv'
<1> DEFINE n == Len(undoing)
           rest == [i \in 1 .. n - 1 |-> undoing[IF i < n THEN i ELSE i + 1]]
<1>1. /\ plan = "rolling_back" /\ undoing # <<>> /\ undoing' = rest
      /\ undone' \subseteq undone \cup {undoing[n]}
      /\ UNCHANGED <<needs, plan, order, finished, executed>>
  BY DEF UndoStep, NextToUndo
<1>2. /\ undoing \in Seq(Steps) /\ finished \in Seq(Steps) /\ n <= Len(finished)
      /\ Acyclic(needs)
  BY <1>1 DEF PlanInv
<1>3. n \in Nat \ {0} /\ Len(finished) \in Nat  BY <1>1, <1>2
<1>4. \A i \in 1 .. n - 1 : i \in 1 .. n /\ i < n  BY <1>3
<1>5. \A i \in 1 .. n - 1 : rest[i] = undoing[i] /\ undoing[i] \in Steps
  BY <1>2, <1>4
<1>6. rest \in [1 .. n - 1 -> Steps]  BY <1>5
<1> HIDE DEF rest
<1>7. rest \in Seq(Steps) /\ Len(rest) = n - 1  BY <1>3, <1>6
<1>8. \A i \in 1 .. n - 1 : rest[i] = finished[i]  BY <1>4, <1>5 DEF PlanInv
<1>9. undoing[n] = finished[n] /\ n \in 1 .. Len(finished)  BY <1>2, <1>3 DEF PlanInv
<1>10. \A s \in undone' : \E i \in 1 .. Len(finished) : n - 1 < i /\ finished[i] = s
  <2> SUFFICES ASSUME NEW s \in undone'
               PROVE  \E i \in 1 .. Len(finished) : n - 1 < i /\ finished[i] = s
    OBVIOUS
  <2>1. CASE s = undoing[n]  BY <1>3, <1>9, <2>1
  <2>2. CASE s \in undone
    <3>1. PICK i \in 1 .. Len(finished) : n < i /\ finished[i] = s  BY <2>2 DEF PlanInv
    <3> QED  BY <3>1, <1>3
  <2> QED  BY <1>1, <2>1, <2>2
<1>11. PICK o : Follows(o)  BY <1>1 DEF PlanInv
<1>12. Follows(o)'  BY <1>1, <1>11 DEF Follows, PlanSize
<1>13. Acyclic(needs)'  BY <1>1, <1>2
<1>14. n - 1 <= Len(finished)  BY <1>2, <1>3
<1> QED  BY <1>1, <1>7, <1>8, <1>10, <1>12, <1>13, <1>14 DEF PlanInv

LEMMA PlanNextInv == PlanInv /\ [PlanNext]_planVars => PlanInv'
<1> SUFFICES ASSUME PlanInv, [PlanNext]_planVars  PROVE PlanInv'  OBVIOUS
<1>1. CASE RejectPlan \/ PlanIsCancelled \/ CompletePlan \/ EndRollback \/ UNCHANGED planVars
  BY <1>1, EndKeepsPlan DEF RejectPlan, PlanIsCancelled, CompletePlan, EndRollback, planVars
<1> QED
  BY <1>1, GenerateKeepsPlan, StartKeepsPlan, StepKeepsPlan, FailKeepsPlan, UndoKeepsPlan, Zenon
  DEF PlanNext

\* The steps that are passed are a beginning of the order, and so are those yet to be undone.
LEMMA PlanInvShows == PlanInv => DependenciesFirst /\ UndoneBackwards
<1> SUFFICES ASSUME PlanInv  PROVE DependenciesFirst /\ UndoneBackwards  OBVIOUS
<1>1. finished \in Seq(Steps) /\ order \in Seq(Steps) /\ undoing \in Seq(Steps)
  BY DEF PlanInv
<1>2. ASSUME NEW s \in executed, NEW d \in needs[s]
      PROVE  d \in Members(finished) \ {s}
  <2>1. plan \notin {"none", "rejected", "generated"}  BY <1>2 DEF PlanInv
  <2>2. Acyclic(needs) /\ needs \in [Steps -> SUBSET Steps]  BY <2>1 DEF PlanInv
  <2>3. PICK o : Follows(o)  BY <2>1 DEF PlanInv
  <2>4. o \in ExecutionOrders(needs) /\ Len(finished) + Len(order) = PlanSize
    BY <2>3 DEF Follows
  <2>5. /\ PlanSize \in Nat /\ Len(finished) \in Nat /\ Len(order) \in Nat
    BY <1>1, <2>4, OrderIs
  <2>6. PICK p \in 1 .. PlanSize : o[p] = s /\ p <= Len(finished) + 1
    <3>1. CASE \E i \in 1 .. Len(finished) : finished[i] = s
      <4>1. PICK i \in 1 .. Len(finished) : finished[i] = s  BY <3>1
      <4>2. o[i] = s /\ i \in 1 .. PlanSize /\ i <= Len(finished) + 1
        BY <4>1, <2>3, <2>4, <2>5 DEF Follows
      <4> QED  BY <4>2
    <3>2. CASE order # <<>> /\ order[1] = s
      <4>1. 1 \in 1 .. Len(order)  BY <1>1, <3>2
      <4>2. o[Len(finished) + 1] = s  BY <3>2, <4>1, <2>3 DEF Follows
      <4>3. Len(finished) + 1 \in 1 .. PlanSize  BY <4>1, <2>4, <2>5
      <4> QED  BY <4>2, <4>3, <2>5
    <3> QED  BY <3>1, <3>2, <1>2 DEF PlanInv
  <2>7. d # o[p] /\ \E j \in 1 .. PlanSize : j < p /\ o[j] = d
    BY <1>2, <2>2, <2>4, <2>6, DependenciesComeBefore
  <2>8. PICK j \in 1 .. PlanSize : j < p /\ o[j] = d  BY <2>7
  <2>9. j \in 1 .. Len(finished)  BY <2>5, <2>6, <2>8
  <2>10. finished[j] = d /\ j \in DOMAIN finished  BY <2>3, <2>8, <2>9, <1>1 DEF Follows
  <2> QED  BY <2>6, <2>7, <2>10 DEF Members
<1>3. ASSUME NEW s \in undone, NEW t \in Members(undoing), s \in needs[t]  PROVE FALSE
  <2>1. plan \notin {"none", "rejected", "generated"}  BY <1>3 DEF PlanInv
  <2>2. Acyclic(needs) /\ needs \in [Steps -> SUBSET Steps]  BY <2>1 DEF PlanInv
  <2>3. PICK o : Follows(o)  BY <2>1 DEF PlanInv
  <2>4. o \in ExecutionOrders(needs) /\ Len(finished) + Len(order) = PlanSize
    BY <2>3 DEF Follows
  <2>5. /\ PlanSize \in Nat /\ DOMAIN o = 1 .. PlanSize /\ Injective(o)
    BY <2>4, OrderIs
  <2>6. PICK b \in 1 .. Len(finished) : Len(undoing) < b /\ finished[b] = s
    BY <1>3 DEF PlanInv
  <2>7. PICK a \in 1 .. Len(undoing) : undoing[a] = t  BY <1>1, <1>3 DEF Members
  <2>8. Len(undoing) \in Nat /\ Len(finished) \in Nat /\ Len(order) \in Nat  BY <1>1
  <2>9. a \in 1 .. Len(finished) /\ a \in 1 .. PlanSize /\ b \in 1 .. PlanSize /\ a < b
    BY <2>4, <2>5, <2>6, <2>7, <2>8 DEF PlanInv
  <2>10. o[a] = t /\ o[b] = s
    BY <2>3, <2>6, <2>7, <2>9 DEF PlanInv, Follows
  <2>11. \E j \in 1 .. PlanSize : j < a /\ o[j] = s
    BY <1>3, <2>2, <2>4, <2>9, <2>10, DependenciesComeBefore
  <2>12. PICK j \in 1 .. PlanSize : j < a /\ o[j] = s  BY <2>11
  <2>13. j = b  BY <2>5, <2>9, <2>10, <2>12 DEF Injective
  <2> QED  BY <2>5, <2>9, <2>12, <2>13
<1> QED  BY <1>2, <1>3 DEF DependenciesFirst, UndoneBackwards

------------------------------------------------------------------------------
(* Requests to language models: an answer of a tool stands where its call   *)
(* says, in the conversation and in every form it is sent in.               *)

\* How MessagesAt comes by its messages, as far as the n-th.
KeptTo(msgs, places, n, upTo) ==
  upTo = [k \in 0 .. n |->
            IF k = 0 THEN <<>>
            ELSE IF k \in places THEN Append(upTo[k - 1], msgs[k]) ELSE upTo[k - 1]]

LEMMA KeptOneFurther ==
  ASSUME NEW msgs, NEW places, NEW n \in Nat, NEW f, KeptTo(msgs, places, n, f)
  PROVE  \E h : KeptTo(msgs, places, n + 1, h)
<1> DEFINE next == IF n + 1 \in places THEN Append(f[n], msgs[n + 1]) ELSE f[n]
           h == [k \in 0 .. n + 1 |-> IF k = n + 1 THEN next ELSE f[k]]
           step == [k \in 0 .. n + 1 |->
                      IF k = 0 THEN <<>>
                      ELSE IF k \in places THEN Append(h[k - 1], msgs[k]) ELSE h[k - 1]]
<1>1. \A k \in 0 .. n : f[k] =
        IF k = 0 THEN <<>> ELSE IF k \in places THEN Append(f[k - 1], msgs[k]) ELSE f[k - 1]
  BY Zenon DEF KeptTo
<1> HIDE DEF next
<1>2. \A k \in 0 .. n : h[k] = f[k]  OBVIOUS
<1>3. h[n + 1] = next  OBVIOUS
<1> HIDE DEF h
<1>4. ASSUME NEW k \in 0 .. n + 1  PROVE h[k] = step[k]
  <2>1. CASE k = n + 1
    <3>1. h[k - 1] = f[n] /\ k # 0  BY <2>1, <1>2
    <3>2. step[k] = IF k \in places THEN Append(h[k - 1], msgs[k]) ELSE h[k - 1]  BY <3>1
    <3> HIDE DEF step
    <3> QED  BY <2>1, <1>3, <3>1, <3>2 DEF next
  <2>2. CASE k # n + 1
    <3>1. k \in 0 .. n /\ (k # 0 => k - 1 \in 0 .. n)  BY <2>2
    <3>2. h[k] = f[k] /\ (k # 0 => h[k - 1] = f[k - 1])  BY <3>1, <1>2
    <3>3. step[k] = IF k = 0 THEN <<>>
                    ELSE IF k \in places THEN Append(h[k - 1], msgs[k]) ELSE h[k - 1]
      OBVIOUS
    <3> HIDE DEF step
    <3> QED  BY <3>1, <3>2, <3>3, <1>1
  <2> QED  BY <2>1, <2>2
<1>5. h = step
  <2>1. h = [k \in 0 .. n + 1 |-> h[k]]  BY DEF h
  <2>2. step = [k \in 0 .. n + 1 |-> step[k]]  OBVIOUS
  <2> HIDE DEF step
  <2> QED  BY <2>1, <2>2, <1>4
<1>6. KeptTo(msgs, places, n + 1, h)  BY <1>5, Zenon DEF KeptTo
<1> QED  BY <1>6

LEMMA KeptAllTheWay ==
  ASSUME NEW msgs, NEW places, NEW n \in Nat
  PROVE  \E f : KeptTo(msgs, places, n, f)
<1> DEFINE stuck == {k \in Nat : ~ \E f : KeptTo(msgs, places, k, f)}
<1>1. SUFFICES ASSUME stuck # {}  PROVE FALSE  BY Zenon
<1>2. PICK k \in stuck : \A j \in stuck : k <= j  BY <1>1, FirstOne, Zenon
<1>3. CASE k = 0
  <2> DEFINE f == [j \in 0 .. 0 |-> <<>>]
  <2>1. \A j \in 0 .. 0 : j = 0  OBVIOUS
  <2>2. f = [j \in 0 .. 0 |->
               IF j = 0 THEN <<>>
               ELSE IF j \in places THEN Append(f[j - 1], msgs[j]) ELSE f[j - 1]]
    BY <2>1, Zenon
  <2> HIDE DEF f
  <2>3. KeptTo(msgs, places, 0, f)  BY <2>2, Zenon DEF KeptTo
  <2> QED  BY <2>3, <1>3
<1>4. CASE k # 0
  <2>1. k - 1 \in Nat /\ (k - 1) + 1 = k /\ ~(k <= k - 1)  BY <1>4
  <2>2. PICK f : KeptTo(msgs, places, k - 1, f)  BY <1>2, <2>1
  <2>3. \E h : KeptTo(msgs, places, (k - 1) + 1, h)  BY <2>1, <2>2, KeptOneFurther
  <2> QED  BY <2>1, <2>3
<1> QED  BY <1>3, <1>4

\* Without its first message.
AllButFirst(msgs, n, part) ==
  /\ part \in Seq({msgs[i] : i \in DOMAIN msgs}) /\ Len(part) = n - 1
  /\ \A i \in 1 .. n - 1 : part[i] = msgs[i + 1]

LEMMA KeptIsRest ==
  ASSUME NEW S, NEW msgs \in Seq(S), Len(msgs) # 0,
         NEW places, \A i \in DOMAIN msgs : i \in places <=> i # 1
  PROVE  AllButFirst(msgs, Len(msgs), MessagesAt(msgs, places))
<1> DEFINE m == Len(msgs)
           upTo == CHOOSE f : KeptTo(msgs, places, m, f)
           wrong == {k \in Nat : k \in 1 .. m /\ ~AllButFirst(msgs, k, upTo[k])}
<1>1. m \in Nat \ {0} /\ DOMAIN msgs = 1 .. m  OBVIOUS
<1>2. MessagesAt(msgs, places) = upTo[m]  BY Zenon DEF MessagesAt, KeptTo
<1>3. KeptTo(msgs, places, m, upTo)
  <2>1. \E f : KeptTo(msgs, places, m, f)  BY <1>1, KeptAllTheWay
  <2> QED  BY <2>1, Zenon
<1> HIDE DEF m, upTo
<1>4. \A k \in 0 .. m : upTo[k] =
        IF k = 0 THEN <<>>
        ELSE IF k \in places THEN Append(upTo[k - 1], msgs[k]) ELSE upTo[k - 1]
  BY <1>3, Zenon DEF KeptTo
<1>5. SUFFICES ASSUME wrong # {}  PROVE FALSE
  <2>1. m \notin wrong  BY <1>5
  <2> QED  BY <1>1, <1>2, <2>1 DEF m
<1>6. wrong \subseteq Nat  OBVIOUS
<1>7. PICK k \in wrong : \A j \in wrong : k <= j
  <2> HIDE DEF wrong
  <2> QED  BY <1>5, <1>6, FirstOne
<1>8. k \in 1 .. m /\ ~AllButFirst(msgs, k, upTo[k])  BY <1>7
<1>9. CASE k = 1
  <2>1. upTo[0] = <<>> /\ upTo[1] = upTo[0]
    <3>1. 0 \in 0 .. m /\ 1 \in 0 .. m /\ 1 \notin places /\ 1 - 1 = 0  BY <1>1
    <3> QED  BY <1>4, <3>1
  <2>2. upTo[k] = <<>>  BY <2>1, <1>9
  <2>3. 1 .. k - 1 = {} /\ k - 1 = 0  BY <1>9
  <2> QED  BY <1>8, <2>2, <2>3 DEF AllButFirst
<1>10. CASE k # 1
  <2> DEFINE j == k - 1
  <2>1. j \in 1 .. m /\ ~(k <= j) /\ k = j + 1 /\ k \in 0 .. m /\ k # 0 /\ j \in Nat
    BY <1>1, <1>8, <1>10
  <2>2. k \in places  BY <1>1, <1>8, <1>10
  <2>3. upTo[k] = Append(upTo[j], msgs[k])  BY <1>4, <2>1, <2>2
  <2> HIDE DEF j
  <2>4. AllButFirst(msgs, j, upTo[j])
    <3>1. j \notin wrong  BY <1>7, <2>1
    <3> QED  BY <2>1, <3>1
  <2> DEFINE part == upTo[j]
             M == {msgs[i] : i \in DOMAIN msgs}
  <2>5. /\ part \in Seq(M) /\ Len(part) = j - 1 /\ \A i \in 1 .. j - 1 : part[i] = msgs[i + 1]
    BY <2>4 DEF AllButFirst
  <2>6. msgs[k] \in M  BY <1>1, <1>8
  <2> HIDE DEF part, M
  <2>7. /\ Append(part, msgs[k]) \in Seq(M) /\ Len(Append(part, msgs[k])) = j
        /\ \A i \in 1 .. j - 1 : Append(part, msgs[k])[i] = part[i]
        /\ Append(part, msgs[k])[j] = msgs[k]
    BY <2>1, <2>5, <2>6
  <2>8. \A i \in 1 .. k - 1 : i \in 1 .. j - 1 \/ i = j  BY <2>1
  <2>9. \A i \in 1 .. k - 1 : Append(part, msgs[k])[i] = msgs[i + 1]
    BY <2>1, <2>5, <2>7, <2>8
  <2>10. k - 1 = j  BY <2>1
  <2> QED  BY <1>8, <2>3, <2>7, <2>9, <2>10 DEF AllButFirst, part, M
<1> QED  BY <1>9, <1>10

Roles == {"system", "user", "assistant", "tool"}
NoName == ""
CallNames == {"tool", NoName}
CallIds == {<<"gemini-call", i>> : i \in Nat} \cup {<<"id", r, i>> : r \in Nat, i \in Nat}
CallRecords == [id : CallIds, name : CallNames]
Messages == [role : Roles, text : BOOLEAN, calls : Seq(CallRecords),
             to : CallRecords \cup {<<>>}]

\* A message of a conversation by itself: an assistant says or calls something, and only an
\* assistant calls, by different ids.
MessageIsSound(m) ==
  /\ m.calls # <<>> => m.role = "assistant"
  /\ m.role = "assistant" => m.text \/ m.calls # <<>>
  /\ \A k, l \in DOMAIN m.calls : m.calls[k].id = m.calls[l].id => k = l

\* Behind its calls stand their answers, as far as they have come, and each answer behind its call.
AnswersStand(conv) ==
  /\ \A i \in DOMAIN conv : \A k \in DOMAIN conv[i].calls :
       i + k <= Len(conv) => conv[i + k].role = "tool" /\ conv[i + k].to = conv[i].calls[k]
  /\ \A j \in DOMAIN conv : conv[j].role = "tool" =>
       \E i \in DOMAIN conv : i < j /\ j - i \in DOMAIN conv[i].calls

AllAnswered(conv) == \A i \in DOMAIN conv : \A k \in DOMAIN conv[i].calls : i + k <= Len(conv)

\* Only the calls of one message still wait for answers, those to run.
WaitsFor(conv, waits, p) ==
  /\ p \in DOMAIN conv /\ waits \in Seq(CallRecords)
  /\ Len(conv) + Len(waits) = p + Len(conv[p].calls)
  /\ \A k \in 1 .. Len(waits) : waits[k] = conv[p].calls[(Len(conv) - p) + k]
  /\ \A i \in DOMAIN conv \ {p} : \A k \in DOMAIN conv[i].calls : i + k <= Len(conv)

ConversationIsSound(conv) ==
  /\ conv \in Seq(Messages) /\ conv # <<>>
  /\ \A i \in DOMAIN conv : conv[i].role = "system" <=> i = 1
  /\ \A i \in DOMAIN conv : MessageIsSound(conv[i])
  /\ AnswersStand(conv)

RouteInv ==
  /\ routeRounds \in Nat
  /\ routeAt \in {"asking", "trying", "sent", "tools"} => ConversationIsSound(conversation)
  /\ routeAt \in {"asking", "trying", "sent"} => AllAnswered(conversation)
  /\ routeAt = "tools" => \E p \in DOMAIN conversation : WaitsFor(conversation, toRun, p)
  /\ routeAt = "sent" => sentMessages = Converted(Head(toTry))
  /\ routeAt \in {"boot", "idle", "asking", "trying", "sent", "tools", "over"}

LEMMA CallsAreNumbered ==
  ASSUME NEW conv \in Seq(Messages), NEW i \in DOMAIN conv, NEW k \in DOMAIN conv[i].calls
  PROVE  i \in Nat \ {0} /\ k \in Nat \ {0} /\ i \in 1 .. Len(conv) /\ Len(conv) \in Nat
<1>1. conv[i] \in Messages /\ i \in 1 .. Len(conv) /\ Len(conv) \in Nat  OBVIOUS
<1>2. conv[i].calls \in Seq(CallRecords)
  <2> DEFINE m == conv[i]
  <2>1. m \in Messages  BY <1>1
  <2> HIDE DEF m
  <2>2. m.calls \in Seq(CallRecords)  BY <2>1 DEF Messages
  <2> QED  BY <2>2 DEF m
<1>3. DOMAIN conv[i].calls = 1 .. Len(conv[i].calls) /\ Len(conv[i].calls) \in Nat
  <2> DEFINE c == conv[i].calls
  <2>1. c \in Seq(CallRecords)  BY <1>2
  <2> HIDE DEF c
  <2>2. DOMAIN c = 1 .. Len(c) /\ Len(c) \in Nat  BY <2>1
  <2> QED  BY <2>2 DEF c
<1> QED  BY <1>1, <1>3

\* A message that calls nothing and answers nothing.
LEMMA PlainMessages ==
  ASSUME NEW role \in Roles
  PROVE  /\ Message(role) \in Messages /\ Message(role).role = role
         /\ Message(role).calls = <<>> /\ Message(role).text = TRUE
         /\ MessageIsSound(Message(role))
<1>1. Message(role) = [role |-> role, text |-> TRUE, calls |-> <<>>, to |-> <<>>]
  BY DEF Message
<1>2. <<>> \in Seq(CallRecords) /\ DOMAIN <<>> = {}  OBVIOUS
<1>3. /\ Message(role) \in Messages /\ Message(role).role = role
      /\ Message(role).calls = <<>> /\ Message(role).text = TRUE
  BY <1>1, <1>2 DEF Messages
<1> QED  BY <1>2, <1>3 DEF MessageIsSound

\* One message more at the end.
LEMMA ConversationGrows ==
  ASSUME NEW conv, ConversationIsSound(conv), NEW m \in Messages, m.role # "system",
         MessageIsSound(m),
         \A i \in DOMAIN conv : \A k \in DOMAIN conv[i].calls :
           i + k = Len(conv) + 1 => m.role = "tool" /\ m.to = conv[i].calls[k],
         m.role = "tool" =>
           \E i \in DOMAIN conv : (Len(conv) + 1) - i \in DOMAIN conv[i].calls
  PROVE  /\ ConversationIsSound(Append(conv, m)) /\ Len(Append(conv, m)) = Len(conv) + 1
         /\ Len(conv) \in Nat /\ DOMAIN conv = 1 .. Len(conv)
         /\ \A i \in 1 .. Len(conv) : Append(conv, m)[i] = conv[i]
         /\ Append(conv, m)[Len(conv) + 1] = m
<1> DEFINE n == Len(conv)
           longer == Append(conv, m)
<1>1. conv \in Seq(Messages) /\ conv # <<>>  BY DEF ConversationIsSound
<1>2. /\ n \in Nat \ {0} /\ DOMAIN conv = 1 .. n
      /\ longer \in Seq(Messages) /\ longer # <<>> /\ Len(longer) = n + 1
      /\ DOMAIN longer = 1 .. n + 1
      /\ \A i \in 1 .. n : longer[i] = conv[i]
      /\ longer[n + 1] = m
  BY <1>1
<1>3. \A i \in 1 .. n + 1 : i \in 1 .. n \/ i = n + 1  BY <1>2
<1>4. \A i \in 1 .. n : \A k \in DOMAIN conv[i].calls : k \in Nat \ {0}
  BY <1>1, <1>2, CallsAreNumbered
<1> HIDE DEF longer
<1>5. \A i \in DOMAIN longer : longer[i].role = "system" <=> i = 1
  BY <1>2, <1>3 DEF ConversationIsSound
<1>6. \A i \in DOMAIN longer : MessageIsSound(longer[i])
  BY <1>2, <1>3 DEF ConversationIsSound
<1>7. \A k \in DOMAIN m.calls : ~(n + 1 + k <= n + 1)
  <2>1. \A k \in DOMAIN m.calls : k \in Nat \ {0}  BY DEF Messages
  <2> QED  BY <2>1, <1>2
<1>8. ASSUME NEW i \in DOMAIN longer, NEW k \in DOMAIN longer[i].calls,
             i + k <= Len(longer)
      PROVE  longer[i + k].role = "tool" /\ longer[i + k].to = longer[i].calls[k]
  <2>1. i \in 1 .. n /\ longer[i] = conv[i]  BY <1>2, <1>3, <1>7, <1>8
  <2>2. k \in Nat \ {0} /\ k \in DOMAIN conv[i].calls  BY <2>1, <1>4, <1>8
  <2>3. CASE i + k <= n
    <3>1. i + k \in 1 .. n  BY <2>1, <2>2, <2>3, <1>2
    <3>2. conv[i + k].role = "tool" /\ conv[i + k].to = conv[i].calls[k]
      BY <2>1, <2>2, <2>3, <1>2 DEF ConversationIsSound, AnswersStand
    <3> QED  BY <3>1, <3>2, <2>1, <1>2
  <2>4. CASE i + k = n + 1
    <3>1. m.role = "tool" /\ m.to = conv[i].calls[k]  BY <2>1, <2>2, <2>4, <1>2
    <3> QED  BY <3>1, <2>1, <2>4, <1>2
  <2> QED  BY <2>1, <2>2, <2>3, <2>4, <1>2, <1>8
<1>9. ASSUME NEW j \in DOMAIN longer, longer[j].role = "tool"
      PROVE  \E i \in DOMAIN longer : i < j /\ j - i \in DOMAIN longer[i].calls
  <2>1. CASE j \in 1 .. n
    <3>1. PICK i \in DOMAIN conv : i < j /\ j - i \in DOMAIN conv[i].calls
      BY <1>2, <1>9, <2>1 DEF ConversationIsSound, AnswersStand
    <3>2. i \in DOMAIN longer /\ longer[i] = conv[i]  BY <3>1, <1>2
    <3> QED  BY <3>1, <3>2
  <2>2. CASE j = n + 1
    <3>1. PICK i \in DOMAIN conv : (n + 1) - i \in DOMAIN conv[i].calls  BY <1>2, <1>9, <2>2
    <3>2. i \in DOMAIN longer /\ longer[i] = conv[i] /\ i < j  BY <3>1, <2>2, <1>2
    <3> QED  BY <3>1, <3>2, <2>2
  <2> QED  BY <2>1, <2>2, <1>2, <1>3
<1>10. AnswersStand(longer)  BY <1>8, <1>9 DEF AnswersStand
<1>11. ConversationIsSound(longer)  BY <1>2, <1>5, <1>6, <1>10 DEF ConversationIsSound
<1> QED  BY <1>2, <1>11 DEF longer

\* A message without calls is added when all calls are answered.
LEMMA PlainIsAdded ==
  ASSUME NEW conv, ConversationIsSound(conv), AllAnswered(conv),
         NEW role \in {"user", "assistant"}
  PROVE  /\ ConversationIsSound(Append(conv, Message(role)))
         /\ AllAnswered(Append(conv, Message(role)))
<1> DEFINE m == Message(role)
           longer == Append(conv, m)
<1>1. /\ m \in Messages /\ m.role = role /\ m.calls = <<>> /\ MessageIsSound(m)
      /\ m.role \notin {"system", "tool"} /\ DOMAIN m.calls = {}
  BY PlainMessages DEF Roles
<1>2. conv \in Seq(Messages)  BY DEF ConversationIsSound
<1>3. \A i \in DOMAIN conv : \A k \in DOMAIN conv[i].calls :
        i \in Nat /\ k \in Nat /\ i + k <= Len(conv) /\ Len(conv) \in Nat
  BY <1>2, CallsAreNumbered DEF AllAnswered
<1>4. \A i \in DOMAIN conv : \A k \in DOMAIN conv[i].calls : ~(i + k = Len(conv) + 1)
  BY <1>3
<1> HIDE DEF m
<1>5. /\ ConversationIsSound(longer) /\ Len(longer) = Len(conv) + 1
      /\ Len(conv) \in Nat /\ DOMAIN conv = 1 .. Len(conv)
      /\ \A i \in 1 .. Len(conv) : longer[i] = conv[i]
      /\ longer[Len(conv) + 1] = m
  BY <1>1, <1>4, ConversationGrows
<1>6. DOMAIN longer = 1 .. Len(conv) + 1
  <2>1. longer \in Seq(Messages)  BY <1>5 DEF ConversationIsSound
  <2> HIDE DEF longer
  <2> QED  BY <2>1, <1>5
<1> HIDE DEF longer
<1>7. AllAnswered(longer)
  <2> SUFFICES ASSUME NEW i \in DOMAIN longer, NEW k \in DOMAIN longer[i].calls
               PROVE  i + k <= Len(longer)
    BY DEF AllAnswered
  <2>1. i \in 1 .. Len(conv) \/ i = Len(conv) + 1  BY <1>5, <1>6
  <2>2. i \in 1 .. Len(conv)  BY <2>1, <1>1, <1>5
  <2>3. i \in DOMAIN conv /\ k \in DOMAIN conv[i].calls  BY <2>2, <1>5
  <2> QED  BY <2>3, <1>3, <1>5
<1> QED  BY <1>5, <1>7 DEF longer, m

\* A message whose calls wait for their answers.
LEMMA CallsAreAdded ==
  ASSUME NEW conv, ConversationIsSound(conv), AllAnswered(conv),
         NEW m \in Messages, m.role = "assistant", m.calls # <<>>, MessageIsSound(m)
  PROVE  /\ ConversationIsSound(Append(conv, m))
         /\ \E p \in DOMAIN Append(conv, m) : WaitsFor(Append(conv, m), m.calls, p)
<1> DEFINE longer == Append(conv, m)
           p == Len(conv) + 1
<1>1. conv \in Seq(Messages)  BY DEF ConversationIsSound
<1>2. \A i \in DOMAIN conv : \A k \in DOMAIN conv[i].calls :
        i \in Nat /\ k \in Nat /\ i + k <= Len(conv) /\ Len(conv) \in Nat
  BY <1>1, CallsAreNumbered DEF AllAnswered
<1>3. \A i \in DOMAIN conv : \A k \in DOMAIN conv[i].calls : ~(i + k = Len(conv) + 1)
  BY <1>2
<1>4. /\ ConversationIsSound(longer) /\ Len(longer) = Len(conv) + 1
      /\ Len(conv) \in Nat /\ DOMAIN conv = 1 .. Len(conv)
      /\ \A i \in 1 .. Len(conv) : longer[i] = conv[i]
      /\ longer[Len(conv) + 1] = m
  BY <1>3, ConversationGrows
<1>5. DOMAIN longer = 1 .. Len(conv) + 1
  <2>1. longer \in Seq(Messages)  BY <1>4 DEF ConversationIsSound
  <2> HIDE DEF longer
  <2>2. DOMAIN longer = 1 .. Len(longer)  BY <2>1
  <2> QED  BY <2>2, <1>4
<1>6. m.calls \in Seq(CallRecords) /\ Len(m.calls) \in Nat  BY DEF Messages
<1> HIDE DEF longer
<1>7. \A i \in DOMAIN longer \ {p} : i \in DOMAIN conv /\ longer[i] = conv[i]  BY <1>4, <1>5
<1>8. \A i \in DOMAIN longer \ {p} : \A k \in DOMAIN longer[i].calls : i + k <= Len(longer)
  BY <1>2, <1>4, <1>7
<1>9. p \in DOMAIN longer /\ longer[p] = m /\ Len(longer) = p /\ p \in Nat  BY <1>4, <1>5
<1> HIDE DEF p
<1>10. \A k \in 1 .. Len(m.calls) : m.calls[k] = longer[p].calls[(Len(longer) - p) + k]
  BY <1>9, <1>6
<1>11. WaitsFor(longer, m.calls, p)  BY <1>6, <1>8, <1>9, <1>10 DEF WaitsFor
<1> QED  BY <1>4, <1>9, <1>11 DEF longer

\* The answer to the call that waits longest.
LEMMA AnswerIsAdded ==
  ASSUME NEW conv, ConversationIsSound(conv), NEW waits, waits # <<>>,
         NEW p \in DOMAIN conv, WaitsFor(conv, waits, p),
         NEW m \in Messages, m.role = "tool", m.to = Head(waits), m.calls = <<>>,
         MessageIsSound(m)
  PROVE  /\ ConversationIsSound(Append(conv, m))
         /\ p \in DOMAIN Append(conv, m) /\ WaitsFor(Append(conv, m), Tail(waits), p)
<1> DEFINE longer == Append(conv, m)
           n == Len(conv)
<1>1. conv \in Seq(Messages)  BY DEF ConversationIsSound
<1>2. /\ waits \in Seq(CallRecords)
      /\ n + Len(waits) = p + Len(conv[p].calls)
      /\ \A k \in 1 .. Len(waits) : waits[k] = conv[p].calls[(n - p) + k]
      /\ \A i \in DOMAIN conv \ {p} : \A k \in DOMAIN conv[i].calls : i + k <= n
  BY DEF WaitsFor
<1>3. /\ Len(waits) \in Nat \ {0} /\ Head(waits) = waits[1]
      /\ Tail(waits) \in Seq(CallRecords) /\ Len(Tail(waits)) = Len(waits) - 1
      /\ \A k \in 1 .. Len(Tail(waits)) : Tail(waits)[k] = waits[k + 1]
  BY <1>2
<1>4. n \in Nat /\ p \in 1 .. n  BY <1>1
<1>5. DOMAIN conv[p].calls = 1 .. Len(conv[p].calls) /\ Len(conv[p].calls) \in Nat
  <2> DEFINE c == conv[p].calls
  <2>1. conv[p] \in Messages  BY <1>1
  <2>2. c \in Seq(CallRecords)  BY <2>1 DEF Messages
  <2> HIDE DEF c
  <2>3. DOMAIN c = 1 .. Len(c) /\ Len(c) \in Nat  BY <2>2
  <2> QED  BY <2>3 DEF c
<1>6. (n + 1) - p \in DOMAIN conv[p].calls /\ (n + 1) - p = (n - p) + 1
  BY <1>2, <1>3, <1>4, <1>5
<1>7. m.to = conv[p].calls[(n + 1) - p]  BY <1>2, <1>3, <1>6
<1>8. ASSUME NEW i \in DOMAIN conv, NEW k \in DOMAIN conv[i].calls, i + k = n + 1
      PROVE  m.role = "tool" /\ m.to = conv[i].calls[k]
  <2>1. i \in Nat /\ k \in Nat  BY <1>1, CallsAreNumbered
  <2>2. i = p  BY <2>1, <1>2, <1>4, <1>8
  <2>3. k = (n + 1) - p  BY <2>1, <2>2, <1>4, <1>8
  <2> QED  BY <2>2, <2>3, <1>7
<1>9. /\ ConversationIsSound(longer) /\ Len(longer) = n + 1
      /\ DOMAIN conv = 1 .. n
      /\ \A i \in 1 .. n : longer[i] = conv[i]
      /\ longer[n + 1] = m
  <2>1. m.role # "system"  OBVIOUS
  <2>2. \E i \in DOMAIN conv : (n + 1) - i \in DOMAIN conv[i].calls  BY <1>6
  <2> QED  BY <2>1, <2>2, <1>8, ConversationGrows
<1>10. DOMAIN longer = 1 .. n + 1
  <2>1. longer \in Seq(Messages)  BY <1>9 DEF ConversationIsSound
  <2> HIDE DEF longer
  <2>2. DOMAIN longer = 1 .. Len(longer)  BY <2>1
  <2> QED  BY <2>2, <1>9
<1> HIDE DEF longer, n
<1>11. ASSUME NEW i \in DOMAIN longer \ {p}, NEW k \in DOMAIN longer[i].calls
       PROVE  i + k <= Len(longer)
  <2>1. i \in 1 .. n \/ i = n + 1  BY <1>4, <1>10
  <2>2. i \in 1 .. n  BY <2>1, <1>9
  <2>3. i \in DOMAIN conv \ {p} /\ k \in DOMAIN conv[i].calls  BY <2>2, <1>9
  <2>4. i + k <= n /\ i \in Nat /\ k \in Nat  BY <2>3, <1>1, <1>2, CallsAreNumbered
  <2> QED  BY <2>4, <1>4, <1>9
<1>12. p \in DOMAIN longer /\ longer[p] = conv[p]  BY <1>4, <1>9, <1>10
<1>13. Len(longer) + Len(Tail(waits)) = p + Len(longer[p].calls)
  BY <1>2, <1>3, <1>4, <1>9, <1>12
<1>14. ASSUME NEW k \in 1 .. Len(Tail(waits))
       PROVE  Tail(waits)[k] = longer[p].calls[(Len(longer) - p) + k]
  <2>1. k + 1 \in 1 .. Len(waits) /\ (n - p) + (k + 1) = (Len(longer) - p) + k
    BY <1>3, <1>4, <1>9
  <2> QED  BY <2>1, <1>2, <1>3, <1>12
<1>15. WaitsFor(longer, Tail(waits), p)
  BY <1>3, <1>11, <1>12, <1>13, <1>14 DEF WaitsFor
<1> QED  BY <1>9, <1>12, <1>15 DEF longer

\* When nothing waits, all is answered.
LEMMA NothingWaits ==
  ASSUME NEW conv, ConversationIsSound(conv), NEW p \in DOMAIN conv, WaitsFor(conv, <<>>, p)
  PROVE  AllAnswered(conv)
<1>1. conv \in Seq(Messages)  BY DEF ConversationIsSound
<1>2. /\ Len(conv) + Len(<<>>) = p + Len(conv[p].calls)
      /\ \A i \in DOMAIN conv \ {p} : \A k \in DOMAIN conv[i].calls : i + k <= Len(conv)
  BY DEF WaitsFor
<1>3. DOMAIN conv[p].calls = 1 .. Len(conv[p].calls) /\ Len(conv[p].calls) \in Nat
  <2> DEFINE c == conv[p].calls
  <2>1. conv[p] \in Messages  BY <1>1
  <2>2. c \in Seq(CallRecords)  BY <2>1 DEF Messages
  <2> HIDE DEF c
  <2>3. DOMAIN c = 1 .. Len(c) /\ Len(c) \in Nat  BY <2>2
  <2> QED  BY <2>3 DEF c
<1>4. Len(conv) \in Nat /\ p \in 1 .. Len(conv) /\ Len(<<>>) = 0  BY <1>1
<1>5. \A k \in DOMAIN conv[p].calls : p + k <= Len(conv)  BY <1>2, <1>3, <1>4
<1> QED  BY <1>2, <1>5 DEF AllAnswered

\* An assistant's message with calls, and the answer to a call.
MessageOf(role, t, c, to) == [role |-> role, text |-> t, calls |-> c, to |-> to]

LEMMA MessageIsMessage ==
  ASSUME NEW role \in Roles, NEW t \in BOOLEAN, NEW c \in Seq(CallRecords),
         NEW to \in CallRecords \cup {<<>>}
  PROVE  /\ MessageOf(role, t, c, to) \in Messages
         /\ MessageOf(role, t, c, to).role = role /\ MessageOf(role, t, c, to).text = t
         /\ MessageOf(role, t, c, to).calls = c /\ MessageOf(role, t, c, to).to = to
<1> DEFINE lists == Seq(CallRecords)
           aims == CallRecords \cup {<<>>}
<1>1. Messages = [role : Roles, text : BOOLEAN, calls : lists, to : aims]  BY DEF Messages
<1>2. c \in lists /\ to \in aims  OBVIOUS
<1> HIDE DEF lists, aims
<1>3. MessageOf(role, t, c, to) \in [role : Roles, text : BOOLEAN, calls : lists, to : aims]
  BY <1>2, Zenon DEF MessageOf
<1>4. /\ MessageOf(role, t, c, to).role = role /\ MessageOf(role, t, c, to).text = t
      /\ MessageOf(role, t, c, to).calls = c /\ MessageOf(role, t, c, to).to = to
  BY Zenon DEF MessageOf
<1> QED  BY <1>1, <1>3, <1>4, Zenon

IsCallOf(m, c) == m \in Messages /\ m.role = "assistant" /\ m.calls = c /\ MessageIsSound(m)
IsAnswerTo(m, call) ==
  m \in Messages /\ m.role = "tool" /\ m.calls = <<>> /\ m.to = call /\ MessageIsSound(m)

LEMMA MessageWithCalls ==
  ASSUME NEW t \in BOOLEAN, NEW c \in Seq(CallRecords), c # <<>>,
         \A k, l \in DOMAIN c : c[k].id = c[l].id => k = l
  PROVE  IsCallOf(AssistantCalls(t, c), c)
<1> DEFINE m == MessageOf("assistant", t, c, <<>>)
<1>1. AssistantCalls(t, c) = m  BY Zenon DEF AssistantCalls, MessageOf
<1>2. "assistant" \in Roles /\ <<>> \in CallRecords \cup {<<>>}  BY Zenon DEF Roles
<1>3. m \in Messages /\ m.role = "assistant" /\ m.calls = c  BY <1>2, MessageIsMessage
<1> HIDE DEF m
<1>4. MessageIsSound(m)  BY <1>3 DEF MessageIsSound
<1> QED  BY <1>1, <1>3, <1>4, Zenon DEF IsCallOf

LEMMA MessageThatAnswers ==
  ASSUME NEW call \in CallRecords
  PROVE  IsAnswerTo(ToolResult(call), call)
<1> DEFINE m == ToolResult(call)
<1>1. PICK t \in BOOLEAN, c \in Seq(CallRecords) : t = TRUE /\ c = <<>>
  <2>1. <<>> \in Seq(CallRecords)  OBVIOUS
  <2> QED  BY <2>1, Zenon
<1>2. m = MessageOf("tool", t, c, call)  BY <1>1, Zenon DEF ToolResult, MessageOf
<1>3. "tool" \in Roles /\ call \in CallRecords \cup {<<>>}  BY Zenon DEF Roles
<1>4. /\ MessageOf("tool", t, c, call) \in Messages
      /\ MessageOf("tool", t, c, call).role = "tool"
      /\ MessageOf("tool", t, c, call).calls = c /\ MessageOf("tool", t, c, call).to = call
  BY <1>3, MessageIsMessage
<1> HIDE DEF m
<1>5. m \in Messages /\ m.role = "tool" /\ m.calls = <<>> /\ m.to = call
  BY <1>1, <1>2, <1>4, Zenon
<1>6. DOMAIN <<>> = {}  OBVIOUS
<1>7. MessageIsSound(m)  BY <1>5, <1>6 DEF MessageIsSound
<1> QED  BY <1>5, <1>7, Zenon DEF IsAnswerTo, m

\* A conversation in which nothing is called.
LEMMA PlainConversation ==
  ASSUME NEW conv \in Seq(Messages), conv # <<>>,
         \A i \in DOMAIN conv : /\ conv[i].role = "system" <=> i = 1
                                /\ conv[i].role # "tool" /\ conv[i].calls = <<>>
                                /\ MessageIsSound(conv[i])
  PROVE  ConversationIsSound(conv) /\ AllAnswered(conv)
<1>1. \A i \in DOMAIN conv : DOMAIN conv[i].calls = {}  OBVIOUS
<1>2. AnswersStand(conv) /\ AllAnswered(conv)  BY <1>1 DEF AnswersStand, AllAnswered
<1> QED  BY <1>2 DEF ConversationIsSound

LEMMA FirstMessages ==
  ASSUME NEW conv, conv \in {<<Message("system"), Message("user")>>,
           <<Message("system"), Message("user"), Message("assistant"), Message("user")>>}
  PROVE  ConversationIsSound(conv) /\ AllAnswered(conv)
<1> DEFINE s == Message("system")
           u == Message("user")
           a == Message("assistant")
<1>1. /\ s \in Messages /\ s.role = "system" /\ s.calls = <<>> /\ MessageIsSound(s)
      /\ u \in Messages /\ u.role = "user" /\ u.calls = <<>> /\ MessageIsSound(u)
      /\ a \in Messages /\ a.role = "assistant" /\ a.calls = <<>> /\ MessageIsSound(a)
  BY PlainMessages DEF Roles
<1>2. conv = <<s, u>> \/ conv = <<s, u, a, u>>  OBVIOUS
<1> HIDE DEF s, u, a
<1>3. /\ conv \in Seq(Messages) /\ conv # <<>>
      /\ DOMAIN conv \subseteq 1 .. 4 /\ conv[1] = s /\ conv[2] = u
      /\ 3 \in DOMAIN conv => conv[3] = a /\ conv[4] = u
  <2>1. CASE conv = <<s, u>>  BY <1>1, <2>1
  <2>2. CASE conv = <<s, u, a, u>>  BY <1>1, <2>2
  <2> QED  BY <1>2, <2>1, <2>2
<1>4. 4 \in DOMAIN conv => 3 \in DOMAIN conv  BY <1>3
<1>5. \A i \in DOMAIN conv : (i = 1 /\ conv[i] = s) \/ (i # 1 /\ conv[i] \in {u, a})
  BY <1>3, <1>4
<1> QED  BY <1>1, <1>3, <1>5, PlainConversation

LEMMA RouteInitInv == RouteInit => RouteInv
  BY DEF RouteInit, RouteInv

LEMMA CompletesIsReply ==
  ASSUME NEW q, NEW a \in Completes(q)
  PROVE  a.text \in BOOLEAN /\ a.calls \in Nat
<1>1. Completes(q) \subseteq Replies
  BY DEF Completes, OpenAIComplete, OpenRouterComplete, DeepSeekComplete, AnthropicComplete,
         GeminiComplete, OllamaComplete, NotEmpty
<1>2. a \in [text : BOOLEAN, calls : 0 .. MaxToolCalls]  BY <1>1 DEF Replies
<1> QED  BY <1>2, RouteConstants

LEMMA RouteNextInv == ASSUME RouteInv, [RouteNext]_routeVars  PROVE RouteInv'
<1>0. /\ routeRounds \in Nat
      /\ routeAt \in {"asking", "trying", "sent", "tools"} => ConversationIsSound(conversation)
      /\ routeAt \in {"asking", "trying", "sent"} => AllAnswered(conversation)
      /\ routeAt = "tools" => \E p \in DOMAIN conversation : WaitsFor(conversation, toRun, p)
      /\ routeAt = "sent" => sentMessages = Converted(Head(toTry))
      /\ routeAt \in {"boot", "idle", "asking", "trying", "sent", "tools", "over"}
  BY DEF RouteInv
<1>1. CASE InitLLMRouter
  <2>1. routeAt' = "idle" /\ routeRounds' = routeRounds  BY <1>1 DEF InitLLMRouter
  <2> QED  BY <2>1, <1>0 DEF RouteInv
<1>2. CASE StartConversation
  <2>1. /\ routeAt' = "asking" /\ routeRounds' = routeRounds
        /\ conversation' \in
             {<<Message("system"), Message("user")>>,
              <<Message("system"), Message("user"), Message("assistant"), Message("user")>>}
    BY <1>2 DEF StartConversation
  <2>2. ConversationIsSound(conversation') /\ AllAnswered(conversation')
    BY <2>1, FirstMessages
  <2> QED  BY <2>1, <2>2, <1>0 DEF RouteInv
<1>3. CASE CompleteMultimodal
  BY <1>3, <1>0 DEF CompleteMultimodal, RouteInv
<1>4. CASE AskModel
  <2>1. /\ routeAt = "asking" /\ routeAt' = "trying" /\ routeRounds' = routeRounds + 1
        /\ conversation' = conversation \/ conversation' = Append(conversation, Message("user"))
    BY <1>4 DEF AskModel
  <2>2. ConversationIsSound(conversation') /\ AllAnswered(conversation')
    <3>1. ConversationIsSound(conversation) /\ AllAnswered(conversation)  BY <2>1, <1>0
    <3>2. /\ ConversationIsSound(Append(conversation, Message("user")))
          /\ AllAnswered(Append(conversation, Message("user")))
      BY <3>1, PlainIsAdded
    <3> QED  BY <2>1, <3>1, <3>2
  <2> QED  BY <2>1, <2>2, <1>0 DEF RouteInv
<1>5. CASE ProviderFails
  <2>1. /\ routeAt \in {"trying", "sent"} /\ routeAt' = "trying"
        /\ conversation' = conversation /\ routeRounds' = routeRounds
    BY <1>5 DEF ProviderFails
  <2> QED  BY <2>1, <1>0 DEF RouteInv
<1>6. CASE SendRequest
  <2>1. /\ routeAt = "trying" /\ routeAt' = "sent" /\ sentMessages' = Converted(Head(toTry))
        /\ conversation' = conversation /\ toTry' = toTry /\ routeRounds' = routeRounds
    BY <1>6 DEF SendRequest
  <2>2. Converted(Head(toTry))' = Converted(Head(toTry))  BY <2>1 DEF Converted
  <2> QED  BY <2>1, <2>2, <1>0 DEF RouteInv
<1>7. CASE AllProvidersFailed
  BY <1>7, <1>0 DEF AllProvidersFailed, RouteInv
<1>8. CASE ProviderCalls
  <2>1. /\ routeAt = "sent" /\ routeAt' = "tools" /\ routeRounds' = routeRounds
    BY <1>8 DEF ProviderCalls
  <2>2. PICK a \in Completes(Head(toTry)) : \E names \in [1 .. a.calls -> CallNames] :
          /\ a.calls > 0
          /\ toRun' = [i \in 1 .. a.calls |-> [id |-> CallId(Head(toTry).kind, i),
                                               name |-> names[i]]]
          /\ conversation' = Append(conversation, AssistantCalls(a.text, toRun'))
    BY <1>8, Zenon DEF ProviderCalls, CallNames, NoName
  <2>3. PICK names \in [1 .. a.calls -> CallNames] :
          /\ a.calls > 0
          /\ toRun' = [i \in 1 .. a.calls |-> [id |-> CallId(Head(toTry).kind, i),
                                               name |-> names[i]]]
          /\ conversation' = Append(conversation, AssistantCalls(a.text, toRun'))
    BY <2>2, Zenon
  <2>4. a.text \in BOOLEAN /\ a.calls \in Nat \ {0}
    <3>1. a.text \in BOOLEAN /\ a.calls \in Nat  BY CompletesIsReply
    <3> QED  BY <3>1, <2>3
  <2>5. PICK c : c = toRun'  BY Zenon
  <2>6. PICK m : m = AssistantCalls(a.text, c)  BY Zenon
  <2>7. conversation' = Append(conversation, m)  BY <2>3, <2>5, <2>6, Zenon
  <2>8. \A i \in 1 .. a.calls : /\ CallId(Head(toTry).kind, i) \in CallIds
                                /\ \A j \in 1 .. a.calls :
                                     CallId(Head(toTry).kind, i) = CallId(Head(toTry).kind, j) => i = j
    BY <2>4, <1>0 DEF CallId, CallIds
  <2>9. /\ DOMAIN c = 1 .. a.calls
        /\ \A i \in 1 .. a.calls : c[i] = [id |-> CallId(Head(toTry).kind, i), name |-> names[i]]
    BY <2>3, <2>5
  <2>10. \A i \in 1 .. a.calls : /\ c[i] \in CallRecords
                                 /\ c[i].id = CallId(Head(toTry).kind, i)
    <3> TAKE i \in 1 .. a.calls
    <3>1. PICK id : id = CallId(Head(toTry).kind, i)  BY Zenon
    <3>2. id \in CallIds /\ names[i] \in CallNames  BY <2>8, <3>1
    <3>3. c[i] = [id |-> id, name |-> names[i]]  BY <2>9, <3>1
    <3>4. c[i] \in [id : CallIds, name : CallNames] /\ c[i].id = id  BY <3>2, <3>3
    <3> QED  BY <3>1, <3>4 DEF CallRecords
  <2>11. c \in Seq(CallRecords) /\ c # <<>>
    <3>1. c = [i \in 1 .. a.calls |-> c[i]]  BY <2>3, <2>5
    <3>2. c \in [1 .. a.calls -> CallRecords]  BY <3>1, <2>10
    <3> QED  BY <3>2, <2>4
  <2>12. \A k, l \in DOMAIN c : c[k].id = c[l].id => k = l  BY <2>8, <2>9, <2>10
  <2>13. m \in Messages /\ m.role = "assistant" /\ m.calls = c /\ MessageIsSound(m)
    <3>1. PICK t \in BOOLEAN : t = a.text  BY <2>4, Zenon
    <3>2. m = AssistantCalls(t, c)  BY <2>6, <3>1, Zenon
    <3>3. IsCallOf(m, c)  BY <2>11, <2>12, <3>2, MessageWithCalls
    <3> QED  BY <3>3 DEF IsCallOf
  <2>14. ConversationIsSound(conversation) /\ AllAnswered(conversation)  BY <2>1, <1>0
  <2>15. /\ ConversationIsSound(Append(conversation, m))
         /\ \E p \in DOMAIN Append(conversation, m) : WaitsFor(Append(conversation, m), c, p)
    BY <2>11, <2>13, <2>14, CallsAreAdded
  <2> QED  BY <2>1, <2>5, <2>7, <2>15, <1>0 DEF RouteInv
<1>9. CASE ProviderAnswers
  <2>1. routeAt' = "over" /\ routeRounds' = routeRounds  BY <1>9, Zenon DEF ProviderAnswers
  <2> QED  BY <2>1, <1>0 DEF RouteInv
<1>10. CASE ToolAnswers
  <2>1. /\ routeAt = "tools" /\ toRun # <<>> /\ toRun' = Tail(toRun)
        /\ conversation' = Append(conversation, ToolResult(Head(toRun)))
        /\ routeAt' = routeAt /\ routeRounds' = routeRounds
    BY <1>10 DEF ToolAnswers
  <2>2. PICK p \in DOMAIN conversation : WaitsFor(conversation, toRun, p)  BY <2>1, <1>0
  <2>3. Head(toRun) \in CallRecords
    <3>1. toRun \in Seq(CallRecords)  BY <2>2 DEF WaitsFor
    <3> QED  BY <3>1, <2>1
  <2>4. PICK m : m = ToolResult(Head(toRun))  BY Zenon
  <2>5. /\ m \in Messages /\ m.role = "tool" /\ m.calls = <<>> /\ m.to = Head(toRun)
        /\ MessageIsSound(m)
    <3>1. IsAnswerTo(m, Head(toRun))  BY <2>3, <2>4, MessageThatAnswers
    <3> QED  BY <3>1 DEF IsAnswerTo
  <2>6. conversation' = Append(conversation, m)  BY <2>1, <2>4, Zenon
  <2>7. /\ ConversationIsSound(Append(conversation, m))
        /\ p \in DOMAIN Append(conversation, m)
        /\ WaitsFor(Append(conversation, m), Tail(toRun), p)
    BY <2>1, <2>2, <2>5, <1>0, AnswerIsAdded
  <2> QED  BY <2>1, <2>6, <2>7, <1>0 DEF RouteInv
<1>11. CASE RoundIsOver
  <2>1. /\ routeAt = "tools" /\ toRun = <<>> /\ routeAt' = "asking"
        /\ conversation' = conversation /\ routeRounds' = routeRounds
    BY <1>11 DEF RoundIsOver
  <2>2. PICK p \in DOMAIN conversation : WaitsFor(conversation, <<>>, p)  BY <2>1, <1>0
  <2>3. AllAnswered(conversation)  BY <2>1, <2>2, <1>0, NothingWaits
  <2> QED  BY <2>1, <2>3, <1>0 DEF RouteInv
<1>12. CASE ChatContextEnds
  BY <1>12, <1>0 DEF ChatContextEnds, RouteInv
<1>13. CASE UNCHANGED routeVars
  <2>1. /\ routeAt' = routeAt /\ conversation' = conversation /\ toRun' = toRun
        /\ sentMessages' = sentMessages /\ toTry' = toTry /\ routeRounds' = routeRounds
    BY <1>13 DEF routeVars
  <2>2. Converted(Head(toTry))' = Converted(Head(toTry))  BY <2>1 DEF Converted
  <2> QED  BY <2>1, <2>2, <1>0 DEF RouteInv
<1> QED
  BY <1>1, <1>2, <1>3, <1>4, <1>5, <1>6, <1>7, <1>8, <1>9, <1>10, <1>11, <1>12, <1>13
     DEF RouteNext

\* What is sent is the conversation, in a form of its own, without its first message perhaps.
SentBehind(sent, conv, d, by) ==
  /\ Len(sent) = Len(conv) - d /\ DOMAIN sent = 1 .. Len(sent)
  /\ \A i \in 1 .. Len(conv) - d :
       sent[i].calls = CallsOf(conv[i + d], by) /\ sent[i].answers = AnswersOf(conv[i + d], by)

LEMMA SentAsShows ==
  ASSUME NEW role, NEW m, NEW by
  PROVE  /\ SentAs(role, m, by).calls = CallsOf(m, by)
         /\ SentAs(role, m, by).answers = AnswersOf(m, by)
  BY DEF SentAs

LEMMA SentBehindAll ==
  ASSUME NEW conv \in Seq(Messages)
  PROVE  SentBehind(ConvertMessagesToOpenAI(conv), conv, 0, "id")
<1> DEFINE sent == ConvertMessagesToOpenAI(conv)
<1>1. DOMAIN conv = 1 .. Len(conv) /\ Len(conv) \in Nat  OBVIOUS
<1>2. sent = [i \in 1 .. Len(conv) |-> SentAs(conv[i].role, conv[i], "id")]
  BY <1>1 DEF ConvertMessagesToOpenAI
<1>3. DOMAIN sent = 1 .. Len(conv) /\ Len(sent) = Len(conv)  BY <1>1, <1>2
<1>4. \A i \in 1 .. Len(conv) : sent[i] = SentAs(conv[i].role, conv[i], "id")  BY <1>2
<1> HIDE DEF sent
<1>5. \A i \in 1 .. Len(conv) - 0 : i \in 1 .. Len(conv) /\ i + 0 = i  BY <1>1
<1>6. \A i \in 1 .. Len(conv) : /\ sent[i].calls = CallsOf(conv[i], "id")
                                /\ sent[i].answers = AnswersOf(conv[i], "id")
  BY <1>4, SentAsShows
<1> QED  BY <1>1, <1>3, <1>5, <1>6 DEF SentBehind, sent

LEMMA SentBehindRest ==
  ASSUME NEW conv \in Seq(Messages), Len(conv) # 0, NEW kept, AllButFirst(conv, Len(conv), kept),
         NEW by, NEW role, NEW sent, sent = [i \in DOMAIN kept |-> SentAs(role[i], kept[i], by)]
  PROVE  SentBehind(sent, conv, 1, by)
<1>1. Len(conv) \in Nat \ {0}  OBVIOUS
<1>2. /\ Len(kept) = Len(conv) - 1 /\ DOMAIN kept = 1 .. Len(kept)
      /\ \A i \in 1 .. Len(conv) - 1 : kept[i] = conv[i + 1]
  BY <1>1 DEF AllButFirst
<1>3. sent = [i \in 1 .. Len(conv) - 1 |-> SentAs(role[i], kept[i], by)]  BY <1>2
<1>4. DOMAIN sent = 1 .. Len(conv) - 1 /\ Len(sent) = Len(conv) - 1  BY <1>1, <1>3
<1>5. \A i \in 1 .. Len(conv) - 1 : sent[i] = SentAs(role[i], conv[i + 1], by)
  BY <1>2, <1>3
<1>6. \A i \in 1 .. Len(conv) - 1 : /\ sent[i].calls = CallsOf(conv[i + 1], by)
                                    /\ sent[i].answers = AnswersOf(conv[i + 1], by)
  <2> TAKE i \in 1 .. Len(conv) - 1
  <2>1. PICK m, r : m = conv[i + 1] /\ r = role[i]  BY Zenon
  <2>2. sent[i] = SentAs(r, m, by)  BY <1>5, <2>1
  <2> QED  BY <2>1, <2>2, SentAsShows
<1> QED  BY <1>4, <1>6 DEF SentBehind

LEMMA ConvertedIsBehind ==
  ASSUME ConversationIsSound(conversation), NEW q
  PROVE  \E d \in {0, 1}, by \in {"id", "name"} :
           /\ SentBehind(Converted(q), conversation, d, by)
           /\ q.kind # "gemini" => by = "id"
<1> DEFINE conv == conversation
<1>1. /\ conv \in Seq(Messages) /\ Len(conv) # 0
      /\ \A i \in DOMAIN conv : conv[i].role = "system" <=> i = 1
      /\ \A i \in DOMAIN conv : MessageIsSound(conv[i])
  BY DEF ConversationIsSound
<1>2. CASE q.kind = "anthropic"
  <2> DEFINE places == {i \in DOMAIN conv : conv[i].role # "system"}
             kept == MessagesAt(conv, places)
             role == [i \in DOMAIN kept |->
                        IF kept[i].role = "assistant" THEN "assistant" ELSE "user"]
             sent == [i \in DOMAIN kept |-> SentAs(role[i], kept[i], "id")]
  <2>1. \A i \in DOMAIN conv : i \in places <=> i # 1  BY <1>1
  <2> HIDE DEF places
  <2>2. AllButFirst(conv, Len(conv), kept)  BY <1>1, <2>1, KeptIsRest
  <2>3. Converted(q) = sent
    <3>1. Converted(q) = RouterMessagesToAnthropic(conv)  BY <1>2, Zenon DEF Converted
    <3>2. RouterMessagesToAnthropic(conv) = sent  BY DEF RouterMessagesToAnthropic, places
    <3> QED  BY <3>1, <3>2
  <2> HIDE DEF kept, role
  <2>4. SentBehind(sent, conv, 1, "id")  BY <1>1, <2>2, SentBehindRest
  <2> QED  BY <2>3, <2>4
<1>3. CASE q.kind = "gemini"
  <2> DEFINE places == {i \in DOMAIN conv :
                          /\ conv[i].role # "system"
                          /\ conv[i].role = "assistant" => conv[i].text \/ IsCall(conv[i])}
             kept == MessagesAt(conv, places)
             role == [i \in DOMAIN kept |->
                        IF kept[i].role = "assistant" THEN "model" ELSE "user"]
             sent == [i \in DOMAIN kept |-> SentAs(role[i], kept[i], "name")]
  <2>1. \A i \in DOMAIN conv : i \in places <=> i # 1  BY <1>1 DEF IsCall, MessageIsSound
  <2>3. Converted(q) = sent
    <3>1. q.kind # "anthropic"  BY <1>3
    <3>2. Converted(q) = ConvertMessagesToGemini(conv)  BY <1>3, <3>1 DEF Converted
    <3>3. ConvertMessagesToGemini(conv) = GeminiMessages(conv, places)
      BY Zenon DEF ConvertMessagesToGemini
    <3> HIDE DEF places
    <3>4. GeminiMessages(conv, places) = sent  BY DEF GeminiMessages
    <3> QED  BY <3>2, <3>3, <3>4
  <2> HIDE DEF places
  <2>2. AllButFirst(conv, Len(conv), kept)  BY <1>1, <2>1, KeptIsRest
  <2> HIDE DEF kept, role
  <2>4. SentBehind(sent, conv, 1, "name")  BY <1>1, <2>2, SentBehindRest
  <2> QED  BY <2>3, <2>4, <1>3
<1>4. CASE q.kind \notin {"anthropic", "gemini"}
  <2>1. Converted(q) = ConvertMessagesToOpenAI(conv)
    BY <1>4 DEF Converted, ConvertMessagesToOllama
  <2> QED  BY <1>1, <2>1, SentBehindAll
<1> QED  BY <1>2, <1>3, <1>4

LEMMA NoCallsAreSent ==
  ASSUME NEW m \in Messages, NEW by
  PROVE  CallsOf(m, by) # <<>> <=> IsCall(m)
<1>1. m.calls \in Seq(CallRecords)  BY DEF Messages
<1>2. DOMAIN CallsOf(m, by) = DOMAIN m.calls  BY DEF CallsOf
<1>3. m.calls # <<>> => 1 \in DOMAIN m.calls  BY <1>1
<1>4. m.calls = <<>> => CallsOf(m, by) = <<>>
  <2> HAVE m.calls = <<>>
  <2>1. DOMAIN m.calls = {}  OBVIOUS
  <2> QED  BY <2>1 DEF CallsOf
<1>5. DOMAIN <<>> = {}  OBVIOUS
<1> QED  BY <1>2, <1>3, <1>4, <1>5 DEF IsCall

\* A request whose calls and answers are those of the conversation, each call answered in its place.
Paired(sent, conv, by) ==
  /\ \A i \in 1 .. Len(sent) : \A k \in DOMAIN sent[i].calls :
       i + k <= Len(sent) /\ sent[i + k].answers = <<sent[i].calls[k]>>
  /\ \A j \in 1 .. Len(sent) : sent[j].answers # <<>> =>
       \E i \in 1 .. j - 1 : j - i \in DOMAIN sent[i].calls
  /\ by = "id" => \A i \in 1 .. Len(sent) : \A k, l \in DOMAIN sent[i].calls :
       sent[i].calls[k] = sent[i].calls[l] => k = l
  /\ Cardinality({i \in 1 .. Len(sent) : sent[i].calls # <<>>})
       = Cardinality({i \in DOMAIN conv : IsCall(conv[i])})

\* Whatever stands behind a conversation whose calls are answered pairs its requests.
LEMMA SentIsPaired ==
  ASSUME NEW conv, ConversationIsSound(conv), AllAnswered(conv), NEW sent,
         NEW d \in {0, 1}, NEW by, SentBehind(sent, conv, d, by)
  PROVE  Paired(sent, conv, by)
<1> DEFINE n == Len(sent)
<1>1. /\ conv \in Seq(Messages) /\ conv # <<>>
      /\ \A i \in DOMAIN conv : conv[i].role = "system" <=> i = 1
      /\ \A i \in DOMAIN conv : MessageIsSound(conv[i])
      /\ AnswersStand(conv)
  BY DEF ConversationIsSound
<1>2. Len(conv) \in Nat \ {0} /\ DOMAIN conv = 1 .. Len(conv)  BY <1>1
<1>3. /\ n = Len(conv) - d /\ n \in Nat
      /\ \A i \in 1 .. n : /\ sent[i].calls = CallsOf(conv[i + d], by)
                           /\ sent[i].answers = AnswersOf(conv[i + d], by)
  BY <1>2 DEF SentBehind
<1>4. \A i \in 1 .. n : i + d \in DOMAIN conv  BY <1>2, <1>3
<1>5. conv[1].calls = <<>> /\ DOMAIN conv[1].calls = {} /\ 1 \in DOMAIN conv
  BY <1>1, <1>2 DEF MessageIsSound
<1> HIDE DEF n
<1>6. ASSUME NEW i \in 1 .. n
      PROVE  /\ DOMAIN sent[i].calls = DOMAIN conv[i + d].calls
             /\ \A k \in DOMAIN sent[i].calls : sent[i].calls[k] = Reference(conv[i + d].calls[k], by)
  BY <1>3 DEF CallsOf
<1>7. ASSUME NEW i \in 1 .. n, NEW k \in DOMAIN sent[i].calls
      PROVE  i + k <= n /\ sent[i + k].answers = <<sent[i].calls[k]>>
  <2>1. i + d \in DOMAIN conv /\ k \in DOMAIN conv[i + d].calls  BY <1>4, <1>6
  <2>2. k \in Nat \ {0}  BY <2>1, <1>1, CallsAreNumbered
  <2>3. (i + d) + k <= Len(conv)  BY <2>1 DEF AllAnswered
  <2>4. i + k \in 1 .. n /\ (i + k) + d = (i + d) + k  BY <2>2, <2>3, <1>2, <1>3
  <2>5. conv[(i + d) + k].role = "tool" /\ conv[(i + d) + k].to = conv[i + d].calls[k]
    BY <2>1, <2>3, <1>1 DEF AnswersStand
  <2>6. sent[i + k].answers = <<Reference(conv[i + d].calls[k], by)>>
    BY <1>3, <2>4, <2>5 DEF AnswersOf, IsAnswer
  <2> QED  BY <2>4, <2>6, <1>6
<1>8. ASSUME NEW j \in 1 .. n, sent[j].answers # <<>>
      PROVE  \E i \in 1 .. j - 1 : j - i \in DOMAIN sent[i].calls
  <2>1. j + d \in DOMAIN conv /\ conv[j + d].role = "tool"
    BY <1>3, <1>4, <1>8 DEF AnswersOf, IsAnswer
  <2>2. PICK a \in DOMAIN conv : a < j + d /\ (j + d) - a \in DOMAIN conv[a].calls
    BY <2>1, <1>1 DEF AnswersStand
  <2>3. a # 1  BY <2>2, <1>5
  <2> DEFINE i == a - d
  <2>4. i \in 1 .. j - 1 /\ i \in 1 .. n /\ i + d = a /\ j - i = (j + d) - a
    BY <2>2, <2>3, <1>2, <1>3
  <2> HIDE DEF i
  <2>5. j - i \in DOMAIN sent[i].calls  BY <2>2, <2>4, <1>6
  <2> QED  BY <2>4, <2>5
<1>9. ASSUME by = "id", NEW i \in 1 .. n, NEW k \in DOMAIN sent[i].calls,
             NEW l \in DOMAIN sent[i].calls, sent[i].calls[k] = sent[i].calls[l]
      PROVE  k = l
  <2>1. \A call : Reference(call, by) = call.id  BY <1>9 DEF Reference
  <2>2. conv[i + d].calls[k].id = conv[i + d].calls[l].id  BY <1>6, <1>9, <2>1
  <2> QED  BY <2>2, <1>1, <1>4, <1>6 DEF MessageIsSound
<1>10. \A i \in 1 .. n : sent[i].calls # <<>> <=> IsCall(conv[i + d])
  <2>1. \A i \in 1 .. n : conv[i + d] \in Messages  BY <1>1, <1>4
  <2> QED  BY <2>1, <1>3, NoCallsAreSent
<1> DEFINE A == {i \in 1 .. n : sent[i].calls # <<>>}
           B == {i \in DOMAIN conv : IsCall(conv[i])}
           f == [i \in A |-> i + d]
<1>11. Cardinality(A) = Cardinality(B)
  <2>1. IsFiniteSet(A)
    <3>1. IsFiniteSet(1 .. n)  BY <1>3, FS_Interval
    <3> QED  BY <3>1, FS_Subset
  <2>2. \A i \in A : f[i] = i + d /\ f[i] \in B  BY <1>4, <1>10
  <2>3. \A b \in B : b - d \in A /\ f[b - d] = b
    <3> TAKE b \in B
    <3>1. b # 1 \/ d = 0  BY <1>5 DEF IsCall
    <3>2. b - d \in 1 .. n /\ (b - d) + d = b  BY <3>1, <1>2, <1>3
    <3> QED  BY <3>2, <1>10
  <2>4. f \in [A -> B]  BY <2>2
  <2>5. \A i, j \in A : f[i] = f[j] => i = j
    <3> SUFFICES ASSUME NEW i \in A, NEW j \in A, f[i] = f[j]  PROVE i = j  OBVIOUS
    <3>1. i \in Int /\ j \in Int  OBVIOUS
    <3> HIDE DEF A, B, f
    <3>2. i + d = j + d  BY <2>2
    <3> QED  BY <3>1, <3>2
  <2> HIDE DEF A, B, f
  <2>6. f \in Bijection(A, B)
    BY <2>3, <2>4, <2>5 DEF Bijection, Injection, Surjection, IsInjective
  <2>7. ExistsBijection(A, B)  BY <2>6 DEF ExistsBijection
  <2> QED  BY <2>1, <2>7, FS_Bijection
<1> QED  BY <1>7, <1>8, <1>9, <1>11 DEF n, Paired

\* What every provider is sent is paired.
LEMMA RouteInvShows == RouteInv => RequestsArePaired
<1> SUFFICES ASSUME RouteInv, routeAt = "sent"  PROVE RequestsArePaired
  BY DEF RequestsArePaired
<1>1. ConversationIsSound(conversation) /\ AllAnswered(conversation)
      /\ sentMessages = Converted(Head(toTry))
  BY DEF RouteInv
<1>2. PICK d \in {0, 1}, by \in {"id", "name"} :
        /\ SentBehind(sentMessages, conversation, d, by)
        /\ Head(toTry).kind # "gemini" => by = "id"
  <2>1. \E d \in {0, 1}, by \in {"id", "name"} :
          /\ SentBehind(Converted(Head(toTry)), conversation, d, by)
          /\ Head(toTry).kind # "gemini" => by = "id"
    BY <1>1, ConvertedIsBehind
  <2> QED  BY <1>1, <2>1
<1> DEFINE sent == sentMessages
<1>3. /\ \A i \in 1 .. Len(sent) : \A k \in DOMAIN sent[i].calls :
           i + k <= Len(sent) /\ sent[i + k].answers = <<sent[i].calls[k]>>
      /\ \A j \in 1 .. Len(sent) : sent[j].answers # <<>> =>
           \E i \in 1 .. j - 1 : j - i \in DOMAIN sent[i].calls
      /\ by = "id" => \A i \in 1 .. Len(sent) : \A k, l \in DOMAIN sent[i].calls :
           sent[i].calls[k] = sent[i].calls[l] => k = l
      /\ Cardinality({i \in 1 .. Len(sent) : sent[i].calls # <<>>})
           = Cardinality({i \in DOMAIN conversation : IsCall(conversation[i])})
  <2>1. Paired(sent, conversation, by)
    <3>1. PICK conv, msgs : conv = conversation /\ msgs = sent  BY Zenon
    <3>2. ConversationIsSound(conv) /\ AllAnswered(conv) /\ SentBehind(msgs, conv, d, by)
      BY <1>1, <1>2, <3>1
    <3>3. Paired(msgs, conv, by)  BY <3>2, SentIsPaired
    <3> QED  BY <3>1, <3>3
  <2> QED  BY <2>1, Zenon DEF Paired
<1>4. \A j \in 1 .. Len(sent) : sent[j].answers # <<>> =>
        \E i \in 1 .. j - 1 : /\ j - i \in DOMAIN sent[i].calls
                              /\ i + (j - i) <= Len(sent)
                              /\ sent[i + (j - i)].answers = <<sent[i].calls[j - i]>>
  <2> SUFFICES ASSUME NEW j \in 1 .. Len(sent), sent[j].answers # <<>>
               PROVE  \E i \in 1 .. j - 1 :
                        /\ j - i \in DOMAIN sent[i].calls
                        /\ i + (j - i) <= Len(sent)
                        /\ sent[i + (j - i)].answers = <<sent[i].calls[j - i]>>
    OBVIOUS
  <2>1. PICK i \in 1 .. j - 1 : j - i \in DOMAIN sent[i].calls  BY <1>3
  <2>2. Len(sent) \in Nat
    <3>1. conversation \in Seq(Messages)  BY <1>1 DEF ConversationIsSound
    <3>2. Len(conversation) \in Nat  BY <3>1
    <3>3. Len(sent) \in Int /\ (Len(sent) < 0 => 1 .. Len(sent) = {})
      BY <3>2, <1>2 DEF SentBehind
    <3> QED  BY <3>3
  <2>3. i \in 1 .. Len(sent)  BY <2>2
  <2> QED  BY <2>1, <2>3, <1>3
<1> QED  BY <1>2, <1>3, <1>4, Zenon DEF RequestsArePaired

------------------------------------------------------------------------------
(* Tools that change the device: an execution that no other overlapped has  *)
(* done, at each point, what it has come to.                                *)

ExecutionKeys == ConfigKeys \cup Proxies \cup Sources \cup {NoKey, "docker", "other"}
ExecutionRecords ==
  [tool : {NoKey, "config_modify", "proxy_toggle", "cache_rebuild", "file_download",
           "file_rename", "service_restart", "container_reload", "shell_exec"},
   at : {"idle", "begun", "half", "ok", "partial", "error"}, alone : BOOLEAN,
   key : ExecutionKeys, on : BOOLEAN, copy : (SUBSET ConfigKeys) \cup (SUBSET CacheEntries),
   length : 0 .. 2]

KeysAreOfTool(x) ==
  /\ executing[x].tool = "config_modify" => executing[x].copy \subseteq ConfigKeys
  /\ executing[x].tool = "proxy_toggle" => executing[x].key \in Proxies \cup {NoKey}
  /\ executing[x].tool = "file_rename" => executing[x].key \in Sources

NoneBeside(x) ==
  executing[x].alone /\ executing[x].at # "idle" => \A y \in Executors \ {x} : ~Under(y)

DoneSoFar(x) ==
  executing[x].alone =>
    /\ executing[x].at = "ok" => AsAsked(x)
    /\ Runs(x, "proxy_toggle", "half") => proxy.on = executing[x].on
    /\ Runs(x, "file_rename", "begun") => "renamed" \notin paths

DeviceToolInv ==
  /\ executing \in [Executors -> ExecutionRecords]
  /\ \A x \in Executors : KeysAreOfTool(x)
  /\ envFile \subseteq ConfigKeys /\ proxy \in [on : BOOLEAN, server : Proxies \cup {NoKey}]
  /\ cacheDir \subseteq CacheEntries /\ fileLength \in 0 .. 2 /\ shellWork \in 0 .. 2
  /\ paths \subseteq Sources \cup {"renamed"} /\ ("renamed" \notin paths => paths = Sources)
  /\ \A x \in Executors : NoneBeside(x) /\ DoneSoFar(x)

LEMMA TwoPaths == ASSUME NEW a, NEW b, a # b PROVE Cardinality({a, b}) = 2
<1>1. IsFiniteSet({a}) /\ Cardinality({a}) = 1  BY FS_Singleton
<1>2. {a, b} = {a} \cup {b} /\ b \notin {a}  OBVIOUS
<1> QED  BY <1>1, <1>2, FS_AddElement

LEMMA DeviceToolInitInv == DeviceToolInit => DeviceToolInv
<1> SUFFICES ASSUME DeviceToolInit  PROVE DeviceToolInv  OBVIOUS
<1>1. NotExecuting \in ExecutionRecords /\ NotExecuting.at = "idle"
  BY DEF NotExecuting, ExecutionRecords, ExecutionKeys
<1>2. /\ executing \in [Executors -> ExecutionRecords]
      /\ \A x \in Executors : executing[x].at = "idle"
  BY <1>1 DEF DeviceToolInit
<1>3. \A x \in Executors : NoneBeside(x) /\ DoneSoFar(x)
  BY <1>2 DEF NoneBeside, DoneSoFar, Runs
<1>4. \A x \in Executors : KeysAreOfTool(x)
  <2>1. \A x \in Executors : executing[x].tool = "none"
    <3>1. NotExecuting.tool = "none"  BY DEF NotExecuting, NoKey
    <3> QED  BY <3>1, Zenon DEF DeviceToolInit
  <2> QED  BY <2>1 DEF KeysAreOfTool
<1>5. /\ envFile = {} /\ cacheDir = CacheEntries /\ fileLength = 1 /\ shellWork = 0
      /\ paths = Sources /\ proxy = [on |-> FALSE, server |-> NoKey]
  BY Zenon DEF DeviceToolInit
<1> QED  BY <1>2, <1>3, <1>4, <1>5 DEF DeviceToolInv, Sources

\* An execution that begins finds the others idle, or is not alone and leaves none alone.
LEMMA OthersAreOut ==
  ASSUME DeviceToolInv, NEW x \in Executors, NEW call \in ExecutionRecords, ExecutionBegins(x, call)
  PROVE  /\ executing' \in [Executors -> ExecutionRecords]
         /\ executing'[x].at = "begun" /\ executing'[x].tool = call.tool
         /\ executing'[x].key = call.key /\ executing'[x].copy = call.copy
         /\ \A y \in Executors \ {x} :
              (executing'[y].at = "idle" \/ ~executing'[y].alone) /\ KeysAreOfTool(y)'
         /\ \A y \in Executors : NoneBeside(y)'
<1> DEFINE free == \A z \in Executors : ~Under(z)
           mine == [call EXCEPT !.at = "begun", !.alone = free]
           aside(y) == [executing[y] EXCEPT !.alone = FALSE]
<1>1. \A y \in Executors : executing[y] \in ExecutionRecords  BY DEF DeviceToolInv
<1>2. executing' = [y \in Executors |-> IF y = x THEN mine
                                        ELSE IF Under(y) THEN aside(y) ELSE NotExecuting]
  BY Zenon DEF ExecutionBegins
<1>3. PICK b \in BOOLEAN : (b <=> free) /\ mine = [call EXCEPT !.at = "begun", !.alone = b]
  <2>1. free \in BOOLEAN  OBVIOUS
  <2> HIDE DEF free
  <2> QED  BY <2>1, Zenon
<1>4. /\ mine \in ExecutionRecords /\ mine.at = "begun" /\ (mine.alone <=> free)
      /\ mine.tool = call.tool /\ mine.key = call.key /\ mine.copy = call.copy
  <2> HIDE DEF free, mine
  <2> QED  BY <1>3 DEF ExecutionRecords
<1>5. \A y \in Executors :
        /\ aside(y) \in ExecutionRecords /\ ~aside(y).alone /\ aside(y).at = executing[y].at
        /\ aside(y).key = executing[y].key /\ aside(y).tool = executing[y].tool
        /\ aside(y).copy = executing[y].copy
  BY <1>1 DEF ExecutionRecords
<1>6. NotExecuting \in ExecutionRecords /\ NotExecuting.at = "idle" /\ NotExecuting.tool = NoKey
  BY DEF NotExecuting, ExecutionRecords, ExecutionKeys
<1> HIDE DEF mine, aside
<1>7. executing'[x] = mine  BY <1>2
<1>8. \A y \in Executors \ {x} : executing'[y] = IF Under(y) THEN aside(y) ELSE NotExecuting
  BY <1>2
<1>9. executing' \in [Executors -> ExecutionRecords]  BY <1>2, <1>4, <1>5, <1>6
<1>10. ASSUME NEW y \in Executors  PROVE NoneBeside(y)'
  <2>1. CASE y = x
    <3>1. executing'[x].alone => \A z \in Executors \ {x} : executing'[z].at = "idle"
      BY <1>4, <1>6, <1>7, <1>8
    <3> QED  BY <2>1, <3>1 DEF NoneBeside, Under
  <2>2. CASE y # x  BY <1>5, <1>6, <1>8, <2>2 DEF NoneBeside
  <2> QED  BY <2>1, <2>2
<1>11. ASSUME NEW y \in Executors \ {x}  PROVE KeysAreOfTool(y)'
  <2>1. KeysAreOfTool(y)  BY DEF DeviceToolInv
  <2>2. CASE Under(y)  BY <1>5, <1>8, <2>1, <2>2 DEF KeysAreOfTool
  <2>3. CASE ~Under(y)  BY <1>6, <1>8, <2>3 DEF KeysAreOfTool, NoKey
  <2> QED  BY <2>2, <2>3
<1> QED  BY <1>4, <1>5, <1>6, <1>7, <1>8, <1>9, <1>10, <1>11

\* So only what it does itself, later, is done by one that is alone.
LEMMA BeginKeepsDevice ==
  ASSUME DeviceToolInv, NEW x \in Executors, NEW call \in ExecutionRecords, ExecutionBegins(x, call),
         UNCHANGED <<envFile, proxy, cacheDir, fileLength, paths>>, shellWork' \in 0 .. 2,
         call.tool = "config_modify" => call.copy \subseteq ConfigKeys,
         call.tool = "proxy_toggle" => call.key \in Proxies \cup {NoKey},
         call.tool = "file_rename" => call.key \in Sources /\ "renamed" \notin paths
  PROVE  DeviceToolInv'
<1>1. /\ executing' \in [Executors -> ExecutionRecords]
      /\ executing'[x].at = "begun" /\ executing'[x].tool = call.tool
      /\ executing'[x].key = call.key /\ executing'[x].copy = call.copy
      /\ \A y \in Executors \ {x} :
           (executing'[y].at = "idle" \/ ~executing'[y].alone) /\ KeysAreOfTool(y)'
      /\ \A y \in Executors : NoneBeside(y)'
  BY OthersAreOut
<1>2. \A y \in Executors \ {x} : DoneSoFar(y)'  BY <1>1 DEF DoneSoFar, Runs
<1>3. DoneSoFar(x)'  BY <1>1 DEF DoneSoFar, Runs
<1>4. KeysAreOfTool(x)'  BY <1>1 DEF KeysAreOfTool
<1> QED  BY <1>1, <1>2, <1>3, <1>4 DEF DeviceToolInv

\* A step of an execution that is under way: what the others say does not depend on the device.
LEMMA MoveKeepsDevice ==
  ASSUME DeviceToolInv, NEW x \in Executors, Under(x),
         NEW at \in {"begun", "half", "ok", "partial", "error"}, Moves(x, at),
         at = "begun" => executing[x].at = "begun" /\ paths' = paths,
         envFile' \subseteq ConfigKeys, proxy' \in [on : BOOLEAN, server : Proxies \cup {NoKey}],
         cacheDir' \subseteq CacheEntries, fileLength' = fileLength, shellWork' \in 0 .. 2,
         paths' \subseteq Sources \cup {"renamed"}, "renamed" \notin paths' => paths' = Sources,
         at = "ok" /\ executing[x].alone => AsAsked(x)',
         at = "half" /\ executing[x].tool = "proxy_toggle" => proxy'.on = executing[x].on
  PROVE  DeviceToolInv'
<1>1. /\ executing \in [Executors -> ExecutionRecords]
      /\ executing' = [executing EXCEPT ![x].at = at]
  BY Zenon DEF DeviceToolInv, Moves
<1>2. executing' = [executing EXCEPT ![x] = [executing[x] EXCEPT !.at = at]]  BY <1>1
<1>3. /\ [executing[x] EXCEPT !.at = at] \in ExecutionRecords
      /\ [executing[x] EXCEPT !.at = at].at = at
      /\ [executing[x] EXCEPT !.at = at].alone = executing[x].alone
      /\ [executing[x] EXCEPT !.at = at].tool = executing[x].tool
      /\ [executing[x] EXCEPT !.at = at].key = executing[x].key
      /\ [executing[x] EXCEPT !.at = at].on = executing[x].on
      /\ [executing[x] EXCEPT !.at = at].copy = executing[x].copy
  BY <1>1 DEF ExecutionRecords
<1>4. /\ executing' \in [Executors -> ExecutionRecords] /\ executing'[x].at = at
      /\ executing'[x].alone = executing[x].alone /\ executing'[x].tool = executing[x].tool
      /\ executing'[x].key = executing[x].key /\ executing'[x].on = executing[x].on
      /\ executing'[x].copy = executing[x].copy
      /\ \A y \in Executors \ {x} : executing'[y] = executing[y]
  BY <1>1, <1>2, <1>3
<1>5. ASSUME NEW y \in Executors  PROVE NoneBeside(y)'
  <2>1. \A z \in Executors : Under(z)' => Under(z)  BY <1>4 DEF Under
  <2>2. NoneBeside(y)  BY DEF DeviceToolInv
  <2>3. executing'[y].alone /\ executing'[y].at # "idle" =>
          executing[y].alone /\ executing[y].at # "idle"
    BY <1>4 DEF Under
  <2> QED  BY <2>1, <2>2, <2>3 DEF NoneBeside
<1>6. ASSUME NEW y \in Executors \ {x}  PROVE DoneSoFar(y)'
  <2>1. NoneBeside(y)  BY DEF DeviceToolInv
  <2>2. ~executing[y].alone \/ executing[y].at = "idle"  BY <2>1 DEF NoneBeside
  <2> QED  BY <1>4, <2>2 DEF DoneSoFar, Runs
<1>7. DoneSoFar(x)'
  <2>1. executing[x].alone => (executing[x].at = "begun" /\ executing[x].tool = "file_rename"
                                 => "renamed" \notin paths)
    BY DEF DeviceToolInv, DoneSoFar, Runs
  <2> QED  BY <1>4, <2>1 DEF DoneSoFar, Runs
<1>8. ASSUME NEW y \in Executors  PROVE KeysAreOfTool(y)'
  <2>1. KeysAreOfTool(y)  BY DEF DeviceToolInv
  <2> QED  BY <1>4, <2>1 DEF KeysAreOfTool
<1> QED  BY <1>4, <1>5, <1>6, <1>7, <1>8 DEF DeviceToolInv

LEMMA BeginsKeepDevice ==
  ASSUME DeviceToolInv, NEW x \in Executors,
         \/ \E k \in ConfigKeys, on \in BOOLEAN : ConfigModify(x, k, on)
         \/ \E on \in BOOLEAN, s \in Proxies \cup {NoKey} : ProxyToggle(x, on, s)
         \/ CacheRebuild(x) \/ FileDownload(x)
         \/ \E s \in Sources : FileRename(x, s)
         \/ ServiceRestart(x) \/ \E m \in {"docker", "other"} : ContainerReload(x, m)
         \/ ShellExec(x)
  PROVE  DeviceToolInv'
<1> USE DEF ExecutionKeys
<1>0. /\ NotExecuting = [tool |-> NoKey, at |-> "idle", alone |-> TRUE, key |-> NoKey,
                         on |-> FALSE, copy |-> {}, length |-> 0]
      /\ NotExecuting \in ExecutionRecords
  BY DEF NotExecuting, ExecutionRecords
<1>1. ASSUME NEW k \in ConfigKeys, NEW on \in BOOLEAN, ConfigModify(x, k, on)  PROVE DeviceToolInv'
  <2>1. PICK copy \in SUBSET ConfigKeys :
          copy = IF on THEN envFile \cup {k} ELSE envFile \ {k}
    BY DEF DeviceToolInv
  <2> DEFINE call == [NotExecuting EXCEPT !.tool = "config_modify", !.key = k, !.on = on,
                                          !.copy = copy]
  <2>2. call \in ExecutionRecords /\ call.tool = "config_modify" /\ call.copy = copy
    BY <1>0, <2>1 DEF ExecutionRecords
  <2>3. ExecutionBegins(x, call) /\ UNCHANGED deviceState
    BY <1>1, <2>1, Zenon DEF ConfigModify
  <2> HIDE DEF call
  <2>4. shellWork' \in 0 .. 2  BY <2>3 DEF deviceState, DeviceToolInv
  <2>5. UNCHANGED <<envFile, proxy, cacheDir, fileLength, paths>>  BY <2>3 DEF deviceState
  <2> QED  BY <2>2, <2>3, <2>4, <2>5, BeginKeepsDevice
<1>2. ASSUME NEW on \in BOOLEAN, NEW s \in Proxies \cup {NoKey}, ProxyToggle(x, on, s)
      PROVE  DeviceToolInv'
  <2> DEFINE call == [NotExecuting EXCEPT !.tool = "proxy_toggle", !.key = s, !.on = on]
  <2>1. call \in ExecutionRecords /\ call.tool = "proxy_toggle" /\ call.key = s
    BY <1>0 DEF ExecutionRecords
  <2>2. ExecutionBegins(x, call) /\ UNCHANGED deviceState  BY <1>2, Zenon DEF ProxyToggle
  <2> HIDE DEF call
  <2>3. shellWork' \in 0 .. 2  BY <2>2 DEF deviceState, DeviceToolInv
  <2>4. UNCHANGED <<envFile, proxy, cacheDir, fileLength, paths>>  BY <2>2 DEF deviceState
  <2> QED  BY <2>1, <2>2, <2>3, <2>4, BeginKeepsDevice
<1>3. CASE CacheRebuild(x)
  <2> DEFINE call == [NotExecuting EXCEPT !.tool = "cache_rebuild", !.copy = cacheDir]
  <2>0. cacheDir \in SUBSET CacheEntries  BY DEF DeviceToolInv
  <2>1. call \in ExecutionRecords /\ call.tool = "cache_rebuild"
    BY <1>0, <2>0 DEF ExecutionRecords
  <2>2. ExecutionBegins(x, call) /\ UNCHANGED deviceState  BY <1>3, Zenon DEF CacheRebuild
  <2> HIDE DEF call
  <2>3. shellWork' \in 0 .. 2  BY <2>2 DEF deviceState, DeviceToolInv
  <2>4. UNCHANGED <<envFile, proxy, cacheDir, fileLength, paths>>  BY <2>2 DEF deviceState
  <2> QED  BY <2>1, <2>2, <2>3, <2>4, BeginKeepsDevice
<1>4. CASE FileDownload(x)
  <2> DEFINE call == [NotExecuting EXCEPT !.tool = "file_download", !.length = fileLength]
  <2>0. fileLength \in 0 .. 2  BY DEF DeviceToolInv
  <2>1. call \in ExecutionRecords /\ call.tool = "file_download"
    BY <1>0, <2>0 DEF ExecutionRecords
  <2>2. ExecutionBegins(x, call) /\ UNCHANGED deviceState  BY <1>4, Zenon DEF FileDownload
  <2> HIDE DEF call
  <2>3. shellWork' \in 0 .. 2  BY <2>2 DEF deviceState, DeviceToolInv
  <2>4. UNCHANGED <<envFile, proxy, cacheDir, fileLength, paths>>  BY <2>2 DEF deviceState
  <2> QED  BY <2>1, <2>2, <2>3, <2>4, BeginKeepsDevice
<1>5. ASSUME NEW s \in Sources, FileRename(x, s)  PROVE DeviceToolInv'
  <2> DEFINE call == [NotExecuting EXCEPT !.tool = "file_rename", !.key = s]
  <2>1. call \in ExecutionRecords /\ call.tool = "file_rename" /\ call.key = s
    BY <1>0 DEF ExecutionRecords
  <2>2. ExecutionBegins(x, call) /\ UNCHANGED deviceState /\ "renamed" \notin paths
    BY <1>5, Zenon DEF FileRename
  <2> HIDE DEF call
  <2>3. shellWork' \in 0 .. 2  BY <2>2 DEF deviceState, DeviceToolInv
  <2>4. UNCHANGED <<envFile, proxy, cacheDir, fileLength, paths>>  BY <2>2 DEF deviceState
  <2> QED  BY <2>1, <2>2, <2>3, <2>4, BeginKeepsDevice
<1>6. CASE ServiceRestart(x)
  <2> DEFINE call == [NotExecuting EXCEPT !.tool = "service_restart"]
  <2>1. call \in ExecutionRecords /\ call.tool = "service_restart"
    BY <1>0 DEF ExecutionRecords
  <2>2. ExecutionBegins(x, call) /\ UNCHANGED deviceState  BY <1>6, Zenon DEF ServiceRestart
  <2> HIDE DEF call
  <2>3. shellWork' \in 0 .. 2  BY <2>2 DEF deviceState, DeviceToolInv
  <2>4. UNCHANGED <<envFile, proxy, cacheDir, fileLength, paths>>  BY <2>2 DEF deviceState
  <2> QED  BY <2>1, <2>2, <2>3, <2>4, BeginKeepsDevice
<1>7. ASSUME NEW m \in {"docker", "other"}, ContainerReload(x, m)  PROVE DeviceToolInv'
  <2> DEFINE call == [NotExecuting EXCEPT !.tool = "container_reload", !.key = m]
  <2>1. call \in ExecutionRecords /\ call.tool = "container_reload"
    BY <1>0 DEF ExecutionRecords
  <2>2. ExecutionBegins(x, call) /\ UNCHANGED deviceState  BY <1>7, Zenon DEF ContainerReload
  <2> HIDE DEF call
  <2>3. shellWork' \in 0 .. 2  BY <2>2 DEF deviceState, DeviceToolInv
  <2>4. UNCHANGED <<envFile, proxy, cacheDir, fileLength, paths>>  BY <2>2 DEF deviceState
  <2> QED  BY <2>1, <2>2, <2>3, <2>4, BeginKeepsDevice
<1>8. CASE ShellExec(x)
  <2> DEFINE call == [NotExecuting EXCEPT !.tool = "shell_exec"]
  <2>1. call \in ExecutionRecords /\ call.tool = "shell_exec"
    BY <1>0 DEF ExecutionRecords
  <2>2. /\ ExecutionBegins(x, call) /\ shellWork' = 0
        /\ UNCHANGED <<envFile, proxy, cacheDir, fileLength, paths>>
    BY <1>8, Zenon DEF ShellExec
  <2> HIDE DEF call
  <2>3. shellWork' \in 0 .. 2  BY <2>2
  <2> QED  BY <2>1, <2>2, <2>3, BeginKeepsDevice
<1> QED  BY <1>1, <1>2, <1>3, <1>4, <1>5, <1>6, <1>7, <1>8

LEMMA MovedIsSame ==
  ASSUME DeviceToolInv, NEW x \in Executors,
         NEW at \in {"begun", "half", "ok", "partial", "error"}, Moves(x, at)
  PROVE  /\ executing'[x].tool = executing[x].tool /\ executing'[x].key = executing[x].key
         /\ executing'[x].on = executing[x].on /\ executing'[x].copy = executing[x].copy
         /\ executing'[x].length = executing[x].length
<1>1. /\ executing \in [Executors -> ExecutionRecords]
      /\ executing' = [executing EXCEPT ![x].at = at]
  BY Zenon DEF DeviceToolInv, Moves
<1>2. executing'[x] = [executing[x] EXCEPT !.at = at] /\ executing[x] \in ExecutionRecords
  BY <1>1
<1> QED  BY <1>2 DEF ExecutionRecords

LEMMA MovesKeepDevice ==
  ASSUME DeviceToolInv, NEW x \in Executors,
         \/ Fails(x) \/ ConfigTruncated(x) \/ ConfigWritten(x)
         \/ ToggleWindows(x) \/ SetProxyServer(x) \/ ToggleUnix(x)
         \/ EntriesRemoved(x) \/ Uploaded(x) \/ Renamed(x) \/ Restarted(x)
         \/ ReloadDocker(x) \/ ReloadOther(x) \/ RestartContainer(x)
         \/ CommandWorks(x) \/ CommandKilled(x)
  PROVE  DeviceToolInv'
<1>0. executing[x] \in ExecutionRecords  BY DEF DeviceToolInv
<1>1. /\ envFile \subseteq ConfigKeys /\ proxy \in [on : BOOLEAN, server : Proxies \cup {NoKey}]
      /\ cacheDir \subseteq CacheEntries /\ shellWork \in 0 .. 2
      /\ paths \subseteq Sources \cup {"renamed"} /\ ("renamed" \notin paths => paths = Sources)
  BY DEF DeviceToolInv
<1>2. CASE Fails(x) \/ CommandKilled(x)
  <2>1. PICK at \in {"partial", "error"} : Moves(x, at) /\ UNCHANGED deviceState /\ Under(x)
    BY <1>2 DEF Fails, CommandKilled, Runs, Under
  <2>2. UNCHANGED <<envFile, proxy, cacheDir, fileLength, shellWork, paths>>
    BY <2>1 DEF deviceState
  <2> QED  BY <1>1, <2>1, <2>2, MoveKeepsDevice
<1>3. CASE ConfigTruncated(x)
  <2>1. /\ executing[x].tool = "config_modify" /\ Under(x) /\ Moves(x, "half") /\ envFile' = {}
        /\ UNCHANGED <<proxy, cacheDir, fileLength, shellWork, paths>>
    BY <1>3 DEF ConfigTruncated, Runs, Under
  <2> QED  BY <1>1, <2>1, MoveKeepsDevice
<1>4. CASE ConfigWritten(x)
  <2>1. /\ executing[x].tool = "config_modify" /\ Under(x) /\ Moves(x, "ok")
        /\ envFile' = executing[x].copy /\ UNCHANGED <<proxy, cacheDir, fileLength, shellWork, paths>>
    BY <1>4 DEF ConfigWritten, Runs, Under
  <2>2. envFile' \subseteq ConfigKeys
    BY <2>1 DEF DeviceToolInv, KeysAreOfTool
  <2>3. AsAsked(x)'  BY <2>1, MovedIsSame DEF AsAsked
  <2> QED  BY <1>1, <2>1, <2>2, <2>3, MoveKeepsDevice
<1>5. CASE ToggleWindows(x) \/ SetProxyServer(x) \/ ToggleUnix(x)
  <2>1. executing[x].tool = "proxy_toggle" /\ Under(x)
        /\ UNCHANGED <<envFile, cacheDir, fileLength, shellWork, paths>>
    BY <1>5 DEF ToggleWindows, SetProxyServer, ToggleUnix, Runs, Under
  <2>2. executing[x].key \in Proxies \cup {NoKey}  BY <2>1 DEF DeviceToolInv, KeysAreOfTool
  <2>3. executing[x].on \in BOOLEAN  BY <1>0 DEF ExecutionRecords
  <2>4. CASE ToggleWindows(x)
    <3>1. /\ proxy' = [proxy EXCEPT !.on = executing[x].on]
          /\ IF executing[x].on THEN Moves(x, "half") ELSE Moves(x, "ok")
      BY <2>4, Zenon DEF ToggleWindows
    <3>2. /\ proxy' \in [on : BOOLEAN, server : Proxies \cup {NoKey}]
          /\ proxy'.on = executing[x].on
      BY <1>1, <2>3, <3>1
    <3>3. CASE executing[x].on  BY <1>1, <2>1, <3>1, <3>2, <3>3, MoveKeepsDevice
    <3>4. CASE ~executing[x].on
      <4>1. Moves(x, "ok")  BY <3>1, <3>4
      <4>2. AsAsked(x)'  BY <2>1, <3>2, <3>4, <4>1, MovedIsSame DEF AsAsked
      <4> QED  BY <1>1, <2>1, <3>2, <4>1, <4>2, MoveKeepsDevice
    <3> QED  BY <3>3, <3>4
  <2>5. CASE SetProxyServer(x)
    <3>1. Moves(x, "ok") /\ proxy' = [proxy EXCEPT !.server = executing[x].key]
          /\ Runs(x, "proxy_toggle", "half")
      BY <2>5, Zenon DEF SetProxyServer
    <3>2. /\ proxy' \in [on : BOOLEAN, server : Proxies \cup {NoKey}]
          /\ proxy'.on = proxy.on /\ proxy'.server = executing[x].key
      BY <1>1, <2>2, <3>1
    <3>3. executing[x].alone => proxy.on = executing[x].on  BY <3>1 DEF DeviceToolInv, DoneSoFar
    <3>4. executing[x].alone => AsAsked(x)'
      BY <2>1, <3>1, <3>2, <3>3, MovedIsSame DEF AsAsked
    <3> QED  BY <1>1, <2>1, <3>1, <3>2, <3>4, MoveKeepsDevice
  <2>6. CASE ToggleUnix(x)
    <3>1. Moves(x, "ok") /\ proxy' = [on |-> executing[x].on, server |-> executing[x].key]
      BY <2>6, Zenon DEF ToggleUnix
    <3>2. /\ proxy' \in [on : BOOLEAN, server : Proxies \cup {NoKey}]
          /\ proxy'.on = executing[x].on /\ proxy'.server = executing[x].key
      BY <2>2, <2>3, <3>1
    <3>3. AsAsked(x)'  BY <2>1, <3>1, <3>2, MovedIsSame DEF AsAsked
    <3> QED  BY <1>1, <2>1, <3>1, <3>2, <3>3, MoveKeepsDevice
  <2> QED  BY <1>5, <2>4, <2>5, <2>6
<1>6. CASE EntriesRemoved(x)
  <2>1. PICK left \in SUBSET executing[x].copy :
          /\ executing[x].tool = "cache_rebuild" /\ Under(x)
          /\ cacheDir' = cacheDir \ (executing[x].copy \ left)
          /\ Moves(x, IF left = {} THEN "ok" ELSE "partial")
          /\ UNCHANGED <<envFile, proxy, fileLength, shellWork, paths>>
    BY <1>6 DEF EntriesRemoved, Runs, Under
  <2>2. PICK at \in {"ok", "partial"} :
          at = (IF left = {} THEN "ok" ELSE "partial") /\ (at = "ok" => left = {})
    OBVIOUS
  <2>3. Moves(x, at)  BY <2>1, <2>2
  <2>4. at = "ok" => AsAsked(x)'  BY <2>1, <2>2, <2>3, MovedIsSame DEF AsAsked
  <2>5. cacheDir' \subseteq CacheEntries  BY <1>1, <2>1
  <2> QED  BY <1>1, <2>1, <2>2, <2>3, <2>4, <2>5, MoveKeepsDevice
<1>7. CASE Uploaded(x)
  <2>1. PICK at \in {"ok", "error"} :
          at = (IF fileLength = executing[x].length THEN "ok" ELSE "error")
          /\ (at = "ok" => fileLength = executing[x].length)
    OBVIOUS
  <2>2. /\ executing[x].tool = "file_download" /\ Under(x) /\ Moves(x, at)
        /\ object' = IF fileLength >= executing[x].length THEN {executing[x].length} ELSE object
        /\ UNCHANGED <<envFile, proxy, cacheDir, fileLength, shellWork, paths>>
    BY <1>7, <2>1 DEF Uploaded, Runs, Under
  <2>3. executing[x].length \in 0 .. 2  BY <1>0 DEF ExecutionRecords
  <2>4. at = "ok" => object' = {executing[x].length}  BY <2>1, <2>2, <2>3
  <2>5. at = "ok" => AsAsked(x)'  BY <2>2, <2>4, MovedIsSame DEF AsAsked
  <2> QED  BY <1>1, <2>1, <2>2, <2>5, MoveKeepsDevice
<1>8. CASE Renamed(x)
  <2>1. /\ Runs(x, "file_rename", "begun") /\ Under(x) /\ Moves(x, "ok")
        /\ paths' = (paths \ {executing[x].key}) \cup {"renamed"}
        /\ UNCHANGED <<envFile, proxy, cacheDir, fileLength, shellWork>>
    BY <1>8 DEF Renamed, Runs, Under
  <2>2. executing[x].key \in Sources /\ executing[x].tool = "file_rename"
    BY <2>1 DEF DeviceToolInv, KeysAreOfTool, Runs
  <2>3. executing[x].alone => paths = Sources
    <3>1. executing[x].alone => "renamed" \notin paths  BY <2>1 DEF DeviceToolInv, DoneSoFar
    <3> QED  BY <1>1, <3>1
  <2>4. ASSUME executing[x].alone  PROVE AsAsked(x)'
    <3>1. PICK s, t : {s, t} = Sources /\ s # t /\ s = executing[x].key
      BY <2>2 DEF Sources
    <3>2. paths' = {t, "renamed"} /\ t # "renamed" /\ s # "renamed"
      BY <2>1, <2>3, <2>4, <3>1 DEF Sources
    <3>3. Cardinality(paths') = 2 /\ s \notin paths'  BY <3>1, <3>2, TwoPaths
    <3> QED  BY <2>1, <2>2, <3>1, <3>3, MovedIsSame DEF AsAsked
  <2>5. paths' \subseteq Sources \cup {"renamed"} /\ "renamed" \in paths'  BY <1>1, <2>1
  <2> QED  BY <1>1, <2>1, <2>2, <2>4, <2>5, MoveKeepsDevice
<1>9. CASE Restarted(x) \/ RestartContainer(x)
  <2>1. PICK at \in {"ok", "error"} :
          /\ executing[x].tool \in {"service_restart", "container_reload"} /\ Under(x)
          /\ Moves(x, at) /\ (at = "ok" => service' = "new")
          /\ UNCHANGED <<envFile, proxy, cacheDir, fileLength, shellWork, paths>>
    BY <1>9 DEF Restarted, RestartContainer, Runs, Under
  <2>2. at = "ok" => AsAsked(x)'  BY <2>1, MovedIsSame DEF AsAsked
  <2> QED  BY <1>1, <2>1, <2>2, MoveKeepsDevice
<1>10. CASE ReloadDocker(x) \/ ReloadOther(x)
  <2>1. PICK at \in {"ok", "half"} :
          /\ executing[x].tool = "container_reload" /\ Under(x)
          /\ Moves(x, at) /\ (at = "ok" => service' # "down")
          /\ UNCHANGED <<envFile, proxy, cacheDir, fileLength, shellWork, paths>>
    BY <1>10 DEF ReloadDocker, ReloadOther, Runs, Under
  <2>2. at = "ok" => AsAsked(x)'  BY <2>1, MovedIsSame DEF AsAsked
  <2> QED  BY <1>1, <2>1, <2>2, MoveKeepsDevice
<1>11. CASE CommandWorks(x)
  <2>1. /\ executing[x].tool = "shell_exec" /\ executing[x].at = "begun" /\ Under(x)
        /\ UNCHANGED <<envFile, proxy, cacheDir, fileLength, paths>>
    BY <1>11 DEF CommandWorks, Runs, Under
  <2>2. CASE shellWork < 2
    <3>1. shellWork' \in 0 .. 2 /\ Moves(x, "begun")  BY <1>1, <1>11, <2>2 DEF CommandWorks
    <3> QED  BY <1>1, <2>1, <3>1, MoveKeepsDevice
  <2>3. CASE ~(shellWork < 2)
    <3>1. shellWork' = 2 /\ Moves(x, "ok")  BY <1>1, <1>11, <2>3 DEF CommandWorks
    <3>2. AsAsked(x)'  BY <2>1, <3>1, MovedIsSame DEF AsAsked
    <3> QED  BY <1>1, <2>1, <3>1, <3>2, MoveKeepsDevice
  <2> QED  BY <2>2, <2>3
<1> QED  BY <1>2, <1>3, <1>4, <1>5, <1>6, <1>7, <1>8, <1>9, <1>10, <1>11

LEMMA DeviceToolNextInv == DeviceToolInv /\ [DeviceToolNext]_deviceToolVars => DeviceToolInv'
<1> SUFFICES ASSUME DeviceToolInv, [DeviceToolNext]_deviceToolVars  PROVE DeviceToolInv'  OBVIOUS
<1>0. ASSUME UNCHANGED <<executing, envFile, proxy, cacheDir, object, paths, service, shellWork>>,
             fileLength' \in 0 .. 2
      PROVE  DeviceToolInv'
  <2>1. ASSUME NEW x \in Executors  PROVE KeysAreOfTool(x)' /\ NoneBeside(x)' /\ DoneSoFar(x)'
    <3>1. KeysAreOfTool(x)' <=> KeysAreOfTool(x)  BY <1>0 DEF KeysAreOfTool
    <3>2. NoneBeside(x)' <=> NoneBeside(x)  BY <1>0 DEF NoneBeside, Under
    <3>3. AsAsked(x)' <=> AsAsked(x)  BY <1>0 DEF AsAsked
    <3>4. DoneSoFar(x)' <=> DoneSoFar(x)  BY <1>0, <3>3 DEF DoneSoFar, Runs
    <3> QED  BY <3>1, <3>2, <3>4 DEF DeviceToolInv
  <2> QED  BY <1>0, <2>1 DEF DeviceToolInv
<1>1. CASE FileIsWritten
  <2>1. /\ UNCHANGED <<executing, envFile, proxy, cacheDir, object, paths, service, shellWork>>
        /\ fileLength' \in 0 .. 2
    BY <1>1 DEF FileIsWritten
  <2> QED  BY <1>0, <2>1
<1>2. CASE UNCHANGED deviceToolVars
  <2>1. /\ UNCHANGED <<executing, envFile, proxy, cacheDir, object, paths, service, shellWork>>
        /\ fileLength' = fileLength
    BY <1>2 DEF deviceToolVars, deviceState
  <2> QED  BY <1>0, <2>1 DEF DeviceToolInv
<1> QED  BY <1>1, <1>2, BeginsKeepDevice, MovesKeepDevice, Zenon DEF DeviceToolNext

LEMMA DeviceToolInvShows == DeviceToolInv => ReportedIsDone
  BY DEF DeviceToolInv, DoneSoFar, ReportedIsDone

------------------------------------------------------------------------------
(* Types: what the invariants above say nothing of.                         *)

ChatRest == live \subseteq Chats /\ autoEver \subseteq Chats

LEMMA ChatInitTypes == ChatInit => ChatRest
  BY DEF ChatInit, ChatRest

LEMMA ChatNextTypes == ChatRest /\ [ChatNext]_chatVars => ChatRest'
  BY DEF ChatRest, ChatNext, chatVars, StartChat, EndChat, LoopSteps, ModelEnds, ModelCalls, SumUp,
         SummaryEnds, RoundEnds, CallsAreDropped, NextCall, UnknownTool, ReadCall, AutoCall,
         AskApproval, TakeAnswer, QuestionLapses, ToolReturns, ChatApprove, ChatAutoApprove,
         ContextIsOver

LEMMA ChatTypes == ChatsInv /\ ChatRest => ChatTypeOK
  BY DEF ChatsInv, ChatShapes, ChatRest, ChatTypeOK

\* Each send is cancelled once at most, and each cancel tells agent-core or cuts the stream.
DesktopChatRest ==
  /\ busy \in BOOLEAN /\ cancelling \in BOOLEAN
  /\ telling \in Nat /\ cutsDue \in Nat
  /\ telling + cutsDue <= chatSends /\ (busy => telling + cutsDue < chatSends)
  /\ autoApproves \subseteq Sends

LEMMA DesktopChatInitTypes == DesktopChatInit => DesktopChatRest
<1> SUFFICES ASSUME DesktopChatInit  PROVE DesktopChatRest  OBVIOUS
<1>1. busy = FALSE /\ cancelling = FALSE  BY Zenon DEF DesktopChatInit
<1>2. telling = 0 /\ cutsDue = 0 /\ chatSends = 0 /\ autoApproves = {}  BY DEF DesktopChatInit
<1>3. telling + cutsDue <= chatSends /\ telling \in Nat /\ cutsDue \in Nat  BY <1>2
<1> QED  BY <1>1, <1>2, <1>3, Zenon DEF DesktopChatRest

LEMMA DesktopChatNextTypes ==
  DesktopChatInv /\ DesktopChatRest /\ [DesktopChatNext]_desktopChatVars => DesktopChatRest'
<1> SUFFICES ASSUME DesktopChatInv, DesktopChatRest, [DesktopChatNext]_desktopChatVars
             PROVE  DesktopChatRest'
  OBVIOUS
<1> USE DEF DesktopChatRest
<1>1. chatSends \in Nat  BY DEF DesktopChatInv
<1>2. CASE SendChatRequest
  <2>1. telling + cutsDue < chatSends + 1  BY <1>1
  <2>2. telling + cutsDue <= chatSends + 1  BY <1>1
  <2> QED  BY <1>2, <2>1, <2>2, Zenon DEF SendChatRequest
<1>3. ASSUME NEW c \in Sends, SessionEvent(c)  PROVE DesktopChatRest'
  BY <1>3 DEF SessionEvent
<1>4. ASSUME NEW c \in Sends, StreamEnds(c)  PROVE DesktopChatRest'
  BY <1>4 DEF StreamEnds, SafeResolve
<1>5. CASE CancelChatRequest
  <2>1. telling + cutsDue < chatSends  BY <1>5 DEF CancelChatRequest
  <2>2. /\ telling' \in Nat /\ cutsDue' \in Nat /\ telling' + cutsDue' <= chatSends
        /\ UNCHANGED <<chatSends, autoApproves>>
    BY <1>1, <1>5, <2>1 DEF CancelChatRequest
  <2>3. busy' = FALSE /\ cancelling' = TRUE  BY <1>5, Zenon DEF CancelChatRequest
  <2> QED  BY <2>2, <2>3, Zenon
<1>6. CASE CancelTold  BY <1>1, <1>6 DEF CancelTold
<1>7. CASE CutFires  BY <1>1, <1>7 DEF CutFires
<1>8. ASSUME NEW enabled \in BOOLEAN, AutoApproveAsked(enabled)  PROVE DesktopChatRest'
  <2>1. activeSession \in Sends
    BY <1>8, DesktopChatConstants DEF AutoApproveAsked, DesktopChatInv, Sends
  <2> QED  BY <1>8, <2>1 DEF AutoApproveAsked
<1>9. CASE UNCHANGED desktopChatVars  BY <1>9 DEF desktopChatVars
<1> QED  BY <1>2, <1>3, <1>4, <1>5, <1>6, <1>7, <1>8, <1>9 DEF DesktopChatNext

LEMMA DesktopChatTypes == DesktopChatInv /\ DesktopChatRest => DesktopChatTypeOK
  BY DesktopChatConstants DEF DesktopChatInv, DesktopChatRest, DesktopChatTypeOK

RuntimeRest ==
  /\ bootStep \in {"down", "store", "identity", "config", "api", "register", "start", "updater",
                   "up", "stopping", "draining"}
  /\ storeIs \in {"none", "open", "closed"}
  /\ hasToken \in BOOLEAN /\ platformUp \in BOOLEAN
  /\ tasks \subseteq RuntimeTasks

LEMMA RuntimeInitTypes == RuntimeInit => RuntimeRest
  BY DEF RuntimeInit, RuntimeRest

LEMMA RuntimeNextTypes == RuntimeRest /\ [RuntimeNext]_runtimeVars => RuntimeRest'
<1> SUFFICES ASSUME RuntimeRest, [RuntimeNext]_runtimeVars  PROVE RuntimeRest'  OBVIOUS
<1> USE DEF RuntimeRest, BootGoes
<1>1. CASE LaunchProcess \/ OpenLocalStore \/ CheckIdentity \/ PullRemoteConfig \/ StartLocalAPI
  BY <1>1 DEF LaunchProcess, OpenLocalStore, CheckIdentity, PullRemoteConfig, StartLocalAPI
<1>2. CASE RegisterTasks  BY <1>2 DEF RegisterTasks, RuntimeTasks
<1>3. CASE StartRuntimeTasks \/ RegisterUpdateCheck
  BY <1>3 DEF StartRuntimeTasks, RegisterUpdateCheck, RuntimeTasks
<1>4. CASE SignalArrives \/ StopRuntime \/ CloseStore \/ ProcessExits
  BY <1>4 DEF SignalArrives, StopRuntime, CloseStore, ProcessExits
<1>5. CASE SystemChanges \/ UNCHANGED runtimeVars
  BY <1>5 DEF SystemChanges, runtimeVars, processVars
<1>6. ASSUME NEW t \in RuntimeTasks, TaskTicks(t) \/ TaskReturns(t)  PROVE RuntimeRest'
  BY <1>6 DEF TaskTicks, TaskReturns
<1>7. ASSUME NEW c \in DetectCallers, GetLatestBaseline(c) \/ CaptureBaseline(c) \/ SaveDrift(c)
      PROVE  RuntimeRest'
  BY <1>7 DEF GetLatestBaseline, CaptureBaseline, SaveDrift, processVars
<1> QED  BY <1>1, <1>2, <1>3, <1>4, <1>5, <1>6, <1>7 DEF RuntimeNext

LEMMA RuntimeTypes == RuntimeInv /\ RuntimeRest => RuntimeTypeOK
<1> SUFFICES ASSUME RuntimeInv, RuntimeRest  PROVE RuntimeTypeOK  OBVIOUS
<1>1. ASSUME NEW c \in DetectCallers
      PROVE  detector[c] \in {NotDetecting, DriftFound}
               \cup [at : {"captures"}, saw : Snapshots \cup {NoBaseline}]
  BY Zenon DEF RuntimeInv, DetectSteps, Detecting
<1> QED  BY <1>1, Zenon DEF RuntimeInv, RuntimeRest, RuntimeTypeOK

\* The connections and what is written to them.
ToolWires ==
  /\ dialler \in {"dials", "waits"}
  /\ links \in 0 .. MaxLinks
  /\ link \in [Links -> {"unused", "up", "down"}]
  /\ reader \in [Links -> Tools \cup {Idle, "off", "gone"}]
  /\ writer \in [Links -> Tools \cup {Idle, "off", "gone"}]
  /\ sendCh \in Seq(Tools) /\ Len(sendCh) <= SendCapacity

LEMMA ToolInitWires == ToolInit => ToolWires
  BY ToolConstants DEF ToolInit, ToolWires

\* A result goes into the channel, or is dropped.
LEMMA SendKeepsWires ==
  ASSUME ToolWires, NEW t \in Tools, SendToolResult(t), UNCHANGED <<dialler, links, link, writer>>
  PROVE  ToolWires'
<1>1. reader' \in [Links -> Tools \cup {Idle, "off", "gone"}]
  BY DEF SendToolResult, ToolWires
<1>2. sendCh' \in Seq(Tools) /\ Len(sendCh') <= SendCapacity
  <2>1. CASE Len(sendCh) < SendCapacity
    <3>1. sendCh' = Append(sendCh, t) /\ sendCh \in Seq(Tools)  BY <2>1 DEF SendToolResult, ToolWires
    <3> QED  BY <2>1, <3>1, ToolConstants
  <2>2. CASE ~(Len(sendCh) < SendCapacity)
    BY <2>2 DEF SendToolResult, ToolWires
  <2> QED  BY <2>1, <2>2
<1> QED  BY <1>1, <1>2 DEF ToolWires

LEMMA ToolNextWires == ToolWires /\ [ToolNext]_toolVars => ToolWires'
<1> SUFFICES ASSUME ToolWires, [ToolNext]_toolVars  PROVE ToolWires'  OBVIOUS
<1>1. CASE Connect
  BY <1>1, ToolConstants DEF Connect, ToolWires, Links
<1>2. CASE Reconnect
  BY <1>2 DEF Reconnect, ToolWires
<1>3. ASSUME NEW l \in Links,
             \/ Breaks(l) \/ ReadFails(l) \/ WriterWrites(l) \/ PingFails(l)
             \/ \E t \in Tools : ToolStarted(l, t)
      PROVE  ToolWires'
  BY <1>3 DEF Breaks, ReadFails, WriterWrites, PingFails, ToolStarted, ToolWires
<1>4. ASSUME NEW l \in Links, WriterTakes(l)  PROVE ToolWires'
  <2>1. /\ sendCh \in Seq(Tools) /\ sendCh # <<>> /\ Len(sendCh) <= SendCapacity
        /\ sendCh' = Tail(sendCh) /\ writer' = [writer EXCEPT ![l] = Head(sendCh)]
        /\ UNCHANGED <<dialler, links, link, reader>>
    BY <1>4 DEF WriterTakes, ToolWires
  <2>2. Head(sendCh) \in Tools /\ sendCh' \in Seq(Tools) /\ Len(sendCh') <= SendCapacity
    BY <2>1, ToolConstants
  <2> QED  BY <2>1, <2>2 DEF ToolWires
<1>5. ASSUME NEW t \in Tools, CheckExpires(t) \/ CheckDenied(t) \/ Execute(t)  PROVE ToolWires'
  BY <1>5, SendKeepsWires DEF CheckExpires, CheckDenied, Execute
<1>6. ASSUME NEW t \in Tools, CheckApproved(t)  PROVE ToolWires'
  BY <1>6 DEF CheckApproved, ToolWires
<1>7. ASSUME NEW d \in Deciders, NEW t \in Tools, NEW yes \in BOOLEAN, Resolve(d, t, yes)
      PROVE  ToolWires'
  BY <1>7 DEF Resolve, ToolWires
<1>8. ASSUME NEW d \in Deciders, SendAnswer(d)  PROVE ToolWires'
  BY <1>8 DEF SendAnswer, ToolWires
<1>9. CASE UNCHANGED toolVars  BY <1>9 DEF toolVars, ToolWires
<1> QED
  BY <1>1, <1>2, <1>3, <1>4, <1>5, <1>6, <1>7, <1>8, <1>9, Zenon DEF ToolNext

LEMMA ToolTypes == ToolInv /\ ToolWires => ToolTypeOK
<1>1. ASSUME NEW a \in AnswerChannel  PROVE a \in Seq(BOOLEAN) /\ Len(a) <= 1
  <2>1. <<>> \in Seq(BOOLEAN) /\ Len(<<>>) <= 1  OBVIOUS
  <2>2. <<TRUE>> \in Seq(BOOLEAN) /\ Len(<<TRUE>>) <= 1  OBVIOUS
  <2>3. <<FALSE>> \in Seq(BOOLEAN) /\ Len(<<FALSE>>) <= 1  OBVIOUS
  <2>4. a = <<>> \/ a = <<TRUE>> \/ a = <<FALSE>>  BY <1>1 DEF AnswerChannel
  <2> QED  BY <2>1, <2>2, <2>3, <2>4, Zenon
<1>2. ASSUME ToolInv, ToolWires  PROVE ToolTypeOK
  <2>1. answers \in [Tools -> Seq(BOOLEAN)] /\ \A t \in Tools : Len(answers[t]) <= 1
    BY <1>1, <1>2 DEF ToolInv, ToolShapes
  <2> QED  BY <1>2, <2>1 DEF ToolInv, ToolShapes, ToolWires, ToolTypeOK
<1> QED  BY <1>2

\* A chain that awaits a spawn is not over, and every spawn that is due was asked for.
ShellRest ==
  /\ spawning \in [process : 0 .. MaxStarts, chain : 0 .. MaxRequests]
  /\ spawning.chain # 0 => chains[spawning.chain] # Over
  /\ wishes \in 0 .. MaxRequests /\ spawnsDue \in Nat /\ spawnsDue <= wishes + 1
  /\ chains \in [Chains -> 1 .. Over]

ShellFlags ==
  /\ forced \in BOOLEAN /\ throttled \in BOOLEAN /\ retryTimer \in BOOLEAN
  /\ retryActive \in BOOLEAN /\ retryLate \in BOOLEAN /\ hint \in BOOLEAN /\ pointer \in BOOLEAN
  /\ early \in BOOLEAN /\ quitting \in BOOLEAN
  /\ shown \in {"connecting", "online", "offline"} /\ probe \in {"none", "ok", "failed"}

LEMMA ShellInitTypes == ShellInit => ShellRest /\ ShellFlags
<1> SUFFICES ASSUME ShellInit  PROVE ShellRest /\ ShellFlags  OBVIOUS
<1>1. /\ spawning = [process |-> 0, chain |-> 0] /\ spawnsDue \in 0 .. 1 /\ wishes = 0
      /\ chains = [k \in Chains |-> Delays + 1]
  BY Zenon DEF ShellInit, NotSpawning, Over
<1>2. ShellRest  BY <1>1, ShellConstants DEF ShellRest, Over
<1>3. FALSE \in BOOLEAN  OBVIOUS
<1>4. ShellFlags  BY <1>3, Zenon DEF ShellInit, ShellFlags
<1> QED  BY <1>2, <1>4

LEMMA ShellNextFlags == ShellFlags /\ [ShellNext]_shellVars => ShellFlags'
<1> SUFFICES ASSUME ShellFlags, [ShellNext]_shellVars  PROVE ShellFlags'  OBVIOUS
<1> USE DEF ShellFlags, retryVars, statusVars, spawnVars
<1>0. TRUE \in BOOLEAN /\ FALSE \in BOOLEAN /\ "offline" \in {"connecting", "online", "offline"}
  OBVIOUS
<1>1. ASSUME NEW k, NEW n, NEW child, NEW late, TryNext(k, n, child, late)
      PROVE  retryTimer' \in BOOLEAN /\ retryActive' \in BOOLEAN
  BY <1>1 DEF TryNext
<1>2. ASSUME NEW k, ScheduleSpawnsAfterCoreUpdate(k)
      PROVE  retryTimer' \in BOOLEAN /\ retryActive' \in BOOLEAN /\ retryLate' \in BOOLEAN
  BY <1>1, <1>2 DEF ScheduleSpawnsAfterCoreUpdate
<1>3. ASSUME NEW chain, NEW recent \in BOOLEAN, SpawnAgentCore(chain, recent)
      PROVE  throttled' \in BOOLEAN /\ pointer' \in BOOLEAN
  BY <1>3 DEF SpawnAgentCore, PointerAfter
<1>4. ASSUME NEW works \in BOOLEAN, SpawnEnds(works)  PROVE ShellFlags'
  BY <1>1, <1>4 DEF SpawnEnds
<1>5. CASE SpawnFires  BY <1>3, <1>5 DEF SpawnFires
<1>6. ASSUME NEW k \in Chains, RetryFires(k)  PROVE ShellFlags'
  BY <1>1, <1>3, <1>6 DEF RetryFires
<1>7. CASE ThrottleEnds \/ CeilingPasses \/ Quit
  <2>1. CASE ThrottleEnds  BY <2>1 DEF ThrottleEnds
  <2>2. CASE CeilingPasses  BY <2>2 DEF CeilingPasses
  <2>3. CASE Quit
    <3>1. /\ quitting' = TRUE
          /\ UNCHANGED <<forced, throttled, retryTimer, retryActive, retryLate, hint, pointer,
                         early, shown, probe>>
      BY <2>3, Zenon DEF Quit
    <3> QED  BY <3>1
  <2> QED  BY <1>7, <2>1, <2>2, <2>3
<1>8. ASSUME NEW p, CoreEnds(p) \/ ExitNoticed(p)  PROVE ShellFlags'
  <2>1. UNCHANGED <<forced, hint, pointer, early, quitting, probe>>
    BY <1>8, Zenon DEF CoreEnds, ExitNoticed
  <2>2. shown' = shown \/ shown' = "offline"
    BY <1>8, Zenon DEF CoreEnds, ExitNoticed
  <2>3. /\ throttled' = throttled \/ throttled' = FALSE
        /\ \/ UNCHANGED <<retryTimer, retryActive, retryLate>>
           \/ \E k \in Chains : ScheduleSpawnsAfterCoreUpdate(k)
    BY <1>8, Zenon DEF CoreEnds, ExitNoticed
  <2>4. throttled' \in BOOLEAN  BY <2>3
  <2>5. retryTimer' \in BOOLEAN /\ retryActive' \in BOOLEAN /\ retryLate' \in BOOLEAN
    BY <1>2, <2>3
  <2> QED  BY <2>1, <2>2, <2>4, <2>5
<1>9. CASE ProbeSent \/ ProbeAnswered \/ EarlyProbeSent \/ EarlyProbeAnswered
  BY <1>9 DEF ProbeSent, ProbeAnswered, EarlyProbeSent, EarlyProbeAnswered
<1>10. CASE RestartAgentCore \/ AgentUpdateApplied
  BY <1>2, <1>10 DEF RestartAgentCore, AgentUpdateApplied
<1>11. CASE UNCHANGED shellVars  BY <1>11 DEF shellVars
<1> QED
  BY <1>4, <1>5, <1>6, <1>7, <1>8, <1>9, <1>10, <1>11, Zenon DEF ShellNext

\* One delay of a chain is used, or the chain is over.
LEMMA TryNextIsSound ==
  ASSUME chains \in [Chains -> 1 .. Over], NEW k \in Chains, NEW n \in 0 .. Delays,
         NEW child, NEW late, TryNext(k, n, child, late)
  PROVE  /\ chains' \in [Chains -> 1 .. Over]
         /\ \A j \in Chains : j # k => chains'[j] = chains[j]
         /\ ~(child # 0 \/ n = Delays \/ late) => chains'[k] # Over
<1>1. n + 1 \in 1 .. Over /\ Over \in 1 .. Over /\ (n # Delays => n + 1 # Over)
  BY ShellConstants DEF Over
<1>2. \/ chains' = [chains EXCEPT ![k] = Over] /\ (child # 0 \/ n = Delays \/ late)
      \/ chains' = [chains EXCEPT ![k] = n + 1] /\ n # Delays
  BY Zenon DEF TryNext
<1>3. CASE /\ chains' = [chains EXCEPT ![k] = Over]
           /\ child # 0 \/ n = Delays \/ late
  <2>1. /\ chains' \in [Chains -> 1 .. Over]
        /\ \A j \in Chains : j # k => chains'[j] = chains[j]
    BY <1>1, <1>3
  <2> QED  BY <1>3, <2>1, Zenon
<1>4. CASE chains' = [chains EXCEPT ![k] = n + 1] /\ n # Delays  BY <1>1, <1>4
<1> QED  BY <1>2, <1>3, <1>4, Zenon

\* The chain that awaits a spawn is left alone by what is begun meanwhile.
LEMMA ScheduleIsSound ==
  ASSUME ShellRest, NEW k \in Chains, ScheduleSpawnsAfterCoreUpdate(k)
  PROVE  /\ chains' \in [Chains -> 1 .. Over]
         /\ spawning.chain # 0 => chains'[spawning.chain] # Over
<1>1. chains' = chains \/ TryNext(k, 0, 0, FALSE)
  BY Zenon DEF ScheduleSpawnsAfterCoreUpdate
<1>2. CASE chains' = chains  BY <1>2 DEF ShellRest
<1>3. CASE TryNext(k, 0, 0, FALSE)
  <2>1. chains \in [Chains -> 1 .. Over] /\ 0 \in 0 .. Delays  BY ShellConstants DEF ShellRest
  <2>2. /\ chains' \in [Chains -> 1 .. Over]
        /\ \A j \in Chains : j # k => chains'[j] = chains[j]
        /\ Delays # 0 => chains'[k] # Over
    BY <1>3, <2>1, TryNextIsSound
  <2>3. spawning.chain # 0 => spawning.chain \in Chains /\ chains[spawning.chain] # Over
    BY ShellConstants DEF ShellRest, Chains
  <2>4. Delays = 0 => \A j \in Chains : chains[j] = Over  BY <2>1 DEF Over
  <2> QED  BY <2>2, <2>3, <2>4
<1> QED  BY <1>1, <1>2, <1>3

LEMMA SpawnIsSound ==
  ASSUME ShellRest, NEW chain \in 0 .. MaxRequests, NEW recent, SpawnAgentCore(chain, recent)
  PROVE  \/ spawning' = spawning
         \/ /\ spawning' \in [process : 0 .. MaxStarts, chain : 0 .. MaxRequests]
            /\ spawning'.chain = chain
<1>1. spawning' = spawning \/ \E p \in Processes : spawning' = [process |-> p, chain |-> chain]
  BY Zenon DEF SpawnAgentCore
<1> QED  BY <1>1, ShellConstants DEF Processes

LEMMA ShellNextTypes == ShellRest /\ [ShellNext]_shellVars => ShellRest'
<1> SUFFICES ASSUME ShellRest, [ShellNext]_shellVars  PROVE ShellRest'  OBVIOUS
<1>0. /\ chains \in [Chains -> 1 .. Over] /\ wishes \in 0 .. MaxRequests
      /\ spawnsDue \in Nat /\ spawnsDue <= wishes + 1
      /\ spawning.chain # 0 => spawning.chain \in Chains /\ chains[spawning.chain] # Over
      /\ \A k \in Chains : chains[k] # Over => chains[k] \in 0 .. Delays
  BY ShellConstants DEF ShellRest, Over, Chains
<1>1. ASSUME NEW works \in BOOLEAN, SpawnEnds(works)  PROVE ShellRest'
  <2>1. /\ spawning' = [process |-> 0, chain |-> 0] /\ UNCHANGED <<spawnsDue, wishes>>
        /\ \/ spawning.chain = 0 /\ chains' = chains
           \/ /\ spawning.chain # 0
              /\ TryNext(spawning.chain, chains[spawning.chain], keptProcess', retryLate)
    BY <1>1, Zenon DEF SpawnEnds, NotSpawning, retryVars
  <2>2. chains' \in [Chains -> 1 .. Over]  BY <1>0, <2>1, TryNextIsSound
  <2>3. /\ spawning' \in [process : 0 .. MaxStarts, chain : 0 .. MaxRequests]
        /\ spawning'.chain = 0
    BY <2>1, ShellConstants
  <2> QED  BY <1>0, <2>1, <2>2, <2>3 DEF ShellRest
<1>2. CASE SpawnFires
  <2>1. /\ spawnsDue > 0 /\ spawnsDue' = spawnsDue - 1 /\ UNCHANGED <<wishes, chains>>
        /\ SpawnAgentCore(0, throttled)
    BY <1>2, Zenon DEF SpawnFires, retryVars
  <2>2. \/ spawning' = spawning
        \/ /\ spawning' \in [process : 0 .. MaxStarts, chain : 0 .. MaxRequests]
           /\ spawning'.chain = 0
    BY <2>1, SpawnIsSound, ShellConstants
  <2> QED  BY <1>0, <2>1, <2>2 DEF ShellRest
<1>3. ASSUME NEW k \in Chains, RetryFires(k)  PROVE ShellRest'
  <2>1. /\ chains[k] # Over /\ spawning.chain # k /\ UNCHANGED <<spawnsDue, wishes>>
        /\ \/ spawning' = spawning /\ TryNext(k, chains[k], keptProcess, retryLate)
           \/ /\ SpawnAgentCore(k, FALSE)
              /\ \/ spawning' # spawning /\ chains' = chains
                 \/ spawning' = spawning /\ TryNext(k, chains[k], 0, retryLate)
    BY <1>3, Zenon DEF RetryFires, spawnVars
  <2>2. CASE \/ spawning' = spawning /\ TryNext(k, chains[k], keptProcess, retryLate)
             \/ spawning' = spawning /\ TryNext(k, chains[k], 0, retryLate)
    <3>1. /\ chains' \in [Chains -> 1 .. Over]
          /\ \A j \in Chains : j # k => chains'[j] = chains[j]
      BY <1>0, <2>1, <2>2, TryNextIsSound
    <3> QED  BY <1>0, <2>1, <2>2, <3>1 DEF ShellRest
  <2>3. CASE SpawnAgentCore(k, FALSE) /\ spawning' # spawning /\ chains' = chains
    <3>1. k \in 0 .. MaxRequests  BY ShellConstants DEF Chains
    <3>2. /\ spawning' \in [process : 0 .. MaxStarts, chain : 0 .. MaxRequests]
          /\ spawning'.chain = k
      BY <2>3, <3>1, SpawnIsSound
    <3> QED  BY <1>0, <2>1, <2>3, <3>2 DEF ShellRest
  <2> QED  BY <2>1, <2>2, <2>3, Zenon
<1>4. ASSUME UNCHANGED <<spawning, spawnsDue, wishes, chains>>  PROVE ShellRest'
  BY <1>4 DEF ShellRest
<1>5. ASSUME NEW p, CoreEnds(p) \/ ExitNoticed(p)  PROVE ShellRest'
  <2>1. /\ UNCHANGED <<spawning, spawnsDue, wishes>>
        /\ chains' = chains \/ \E k \in Chains : ScheduleSpawnsAfterCoreUpdate(k)
    BY <1>5, Zenon DEF CoreEnds, ExitNoticed, retryVars
  <2>2. /\ chains' \in [Chains -> 1 .. Over]
        /\ spawning.chain # 0 => chains'[spawning.chain] # Over
    BY <1>0, <2>1, ScheduleIsSound
  <2> QED  BY <1>0, <2>1, <2>2 DEF ShellRest
<1>6. CASE AgentUpdateApplied
  <2>1. /\ wishes < MaxRequests /\ wishes' = wishes + 1 /\ UNCHANGED <<spawning, spawnsDue>>
        /\ ScheduleSpawnsAfterCoreUpdate(wishes + 1)
    BY <1>6, Zenon DEF AgentUpdateApplied
  <2>2. wishes + 1 \in Chains  BY <1>0, <2>1, ShellConstants DEF Chains
  <2>3. /\ chains' \in [Chains -> 1 .. Over]
        /\ spawning.chain # 0 => chains'[spawning.chain] # Over
    BY <2>1, <2>2, ScheduleIsSound
  <2> QED  BY <1>0, <2>1, <2>3, ShellConstants DEF ShellRest
<1>7. CASE RestartAgentCore
  <2>1. /\ wishes < MaxRequests /\ wishes' = wishes + 1 /\ spawnsDue' = spawnsDue + 1
        /\ UNCHANGED <<spawning, chains>>
    BY <1>7, Zenon DEF RestartAgentCore, retryVars
  <2> QED  BY <1>0, <2>1, ShellConstants DEF ShellRest
<1>8. CASE \/ ThrottleEnds \/ CeilingPasses \/ ProbeSent \/ ProbeAnswered \/ EarlyProbeSent
           \/ EarlyProbeAnswered \/ Quit \/ UNCHANGED shellVars
  BY <1>4, <1>8, Zenon
     DEF ThrottleEnds, CeilingPasses, ProbeSent, ProbeAnswered, EarlyProbeSent,
         EarlyProbeAnswered, Quit, shellVars, spawnVars, retryVars
<1> QED  BY <1>1, <1>2, <1>3, <1>5, <1>6, <1>7, <1>8, Zenon DEF ShellNext

LEMMA ShellTypes == ShellInv /\ ShellRest /\ ShellFlags => ShellTypeOK
<1> SUFFICES ASSUME ShellInv, ShellRest, ShellFlags  PROVE ShellTypeOK  OBVIOUS
<1>1. \A b \in {forced, throttled, retryTimer, retryActive, retryLate, hint, pointer, early,
              quitting} : b \in BOOLEAN
  BY Zenon DEF ShellFlags
<1>2. keptProcess \in 0 .. MaxStarts /\ spawnsDue \in 0 .. MaxRequests + 1
  BY ShellConstants DEF ShellInv, ShellRest, Processes
<1>3. /\ process \in [Processes -> {"none", "starting", "up", "ending", "exited", "gone"}]
      /\ spawning \in [process : 0 .. MaxStarts, chain : 0 .. MaxRequests]
      /\ wishes \in 0 .. MaxRequests /\ chains \in [Chains -> 1 .. Over]
      /\ shown \in {"connecting", "online", "offline"} /\ probe \in {"none", "ok", "failed"}
  BY Zenon DEF ShellInv, ShellRest, ShellFlags
<1> QED  BY <1>1, <1>2, <1>3, Zenon DEF ShellTypeOK

DeviceToolRest ==
  /\ windows \in BOOLEAN /\ executions \in 0 .. MaxExecutions
  /\ object \subseteq 0 .. 2 /\ service \in {"old", "new", "down"}

LEMMA DeviceToolInitTypes == DeviceToolInit => DeviceToolRest
  BY ExecutionBound DEF DeviceToolInit, DeviceToolRest

LEMMA DeviceToolNextTypes ==
  DeviceToolInv /\ DeviceToolRest /\ [DeviceToolNext]_deviceToolVars => DeviceToolRest'
<1> SUFFICES ASSUME DeviceToolInv, DeviceToolRest, [DeviceToolNext]_deviceToolVars
             PROVE  DeviceToolRest'
  OBVIOUS
<1>1. ASSUME NEW x \in Executors, NEW c, ExecutionBegins(x, c), UNCHANGED <<object, service>>
      PROVE  DeviceToolRest'
  <2>1. executions < MaxExecutions /\ executions' = executions + 1 /\ windows' = windows
    BY <1>1, Zenon DEF ExecutionBegins
  <2>2. executions' \in 0 .. MaxExecutions  BY <2>1, ExecutionBound DEF DeviceToolRest
  <2> QED  BY <1>1, <2>1, <2>2, Zenon DEF DeviceToolRest
<1>2. ASSUME NEW x \in Executors, NEW at, Moves(x, at), UNCHANGED <<object, service>>
      PROVE  DeviceToolRest'
  BY <1>2 DEF Moves, DeviceToolRest
<1>3. ASSUME NEW x \in Executors, NEW at, Moves(x, at), UNCHANGED object,
             service' \in {service, "new", "down"}
      PROVE  DeviceToolRest'
  BY <1>3 DEF Moves, DeviceToolRest
<1>4. ASSUME NEW x \in Executors, Uploaded(x)  PROVE DeviceToolRest'
  <2>1. executing[x].length \in 0 .. 2  BY DEF DeviceToolInv, ExecutionRecords
  <2>2. object' \in {object, {executing[x].length}} /\ UNCHANGED <<windows, executions, service>>
    BY <1>4, Zenon DEF Uploaded, Moves
  <2> QED  BY <2>1, <2>2 DEF DeviceToolRest
<1>5. ASSUME NEW x \in Executors, Fails(x) \/ CommandWorks(x) \/ CommandKilled(x)
      PROVE  DeviceToolRest'
  BY <1>2, <1>5, Zenon DEF Fails, CommandWorks, CommandKilled, deviceState
<1>6. ASSUME NEW x \in Executors, NEW k \in ConfigKeys, NEW on \in BOOLEAN, ConfigModify(x, k, on)
      PROVE  DeviceToolRest'
  BY <1>1, <1>6, Zenon DEF ConfigModify, deviceState
<1>7. ASSUME NEW x \in Executors,
             \/ ConfigTruncated(x) \/ ConfigWritten(x) \/ ToggleWindows(x) \/ SetProxyServer(x)
             \/ ToggleUnix(x) \/ EntriesRemoved(x) \/ Renamed(x)
      PROVE  DeviceToolRest'
  BY <1>2, <1>7, Zenon
     DEF ConfigTruncated, ConfigWritten, ToggleWindows, SetProxyServer, ToggleUnix,
         EntriesRemoved, Renamed
<1>8. ASSUME NEW x \in Executors, NEW on \in BOOLEAN, NEW s, ProxyToggle(x, on, s)
      PROVE  DeviceToolRest'
  BY <1>1, <1>8, Zenon DEF ProxyToggle, deviceState
<1>9. ASSUME NEW x \in Executors,
             CacheRebuild(x) \/ FileDownload(x) \/ ServiceRestart(x) \/ ShellExec(x)
      PROVE  DeviceToolRest'
  BY <1>1, <1>9, Zenon DEF CacheRebuild, FileDownload, ServiceRestart, ShellExec, deviceState
<1>10. ASSUME NEW x \in Executors, NEW s, FileRename(x, s) \/ ContainerReload(x, s)
       PROVE  DeviceToolRest'
  BY <1>1, <1>10, Zenon DEF FileRename, ContainerReload, deviceState
<1>11. ASSUME NEW x \in Executors,
              Restarted(x) \/ ReloadDocker(x) \/ ReloadOther(x) \/ RestartContainer(x)
       PROVE  DeviceToolRest'
  <2>1. service' \in {service, "new", "down"} /\ object' = object /\ \E at : Moves(x, at)
    BY <1>11, Zenon DEF Restarted, ReloadDocker, ReloadOther, RestartContainer
  <2> QED  BY <1>3, <2>1
<1>12. CASE FileIsWritten  BY <1>12 DEF FileIsWritten, DeviceToolRest
<1>13. CASE UNCHANGED deviceToolVars
  BY <1>13 DEF deviceToolVars, deviceState, DeviceToolRest
<1> QED
  BY <1>4, <1>5, <1>6, <1>7, <1>8, <1>9, <1>10, <1>11, <1>12, <1>13, Zenon DEF DeviceToolNext

LEMMA DeviceToolTypes == DeviceToolInv /\ DeviceToolRest => DeviceToolTypeOK
  BY DEF DeviceToolInv, DeviceToolRest, DeviceToolTypeOK, ExecutionRecords

SettingsRest ==
  /\ lastSet \in Settings /\ unsealed \in BOOLEAN
  /\ starts \in 0 .. MaxLoads /\ saves \in 0 .. MaxSaves

LEMMA SettingsInitTypes == ConfigInit => SettingsRest
<1>1. MaxLoads \in Nat /\ MaxSaves \in Nat  BY ConfigConstants, Zenon
<1> SUFFICES ASSUME ConfigInit  PROVE SettingsRest  OBVIOUS
<1>2. lastSet = legacy /\ legacy \in {Nowhere, Legacy}  BY Zenon DEF ConfigInit
<1>3. unsealed = FALSE /\ starts = 0 /\ saves = 0  BY Zenon DEF ConfigInit
<1>4. lastSet \in Settings  BY <1>2, ConfigGiven
<1>5. starts \in 0 .. MaxLoads /\ saves \in 0 .. MaxSaves  BY <1>1, <1>3
<1> QED  BY <1>3, <1>4, <1>5, Zenon DEF SettingsRest

LEMMA SettingsNextTypes == ConfigInv /\ SettingsRest /\ [ConfigNext]_configVars => SettingsRest'
<1> SUFFICES ASSUME ConfigInv, SettingsRest, [ConfigNext]_configVars  PROVE SettingsRest'
  OBVIOUS
<1>0. MaxLoads \in Nat /\ MaxSaves \in Nat  BY ConfigConstants, Zenon
<1>1. Nowhere \in Settings  BY ConfigGiven
<1>2. CASE Unpack \/ ImportCopies \/ UNCHANGED configVars
  BY <1>2 DEF Unpack, ImportCopies, configVars, SettingsRest
<1>3. CASE ImportMerges
  <2>1. lastSet' \in {lastSet, Nowhere} /\ UNCHANGED <<unsealed, starts, saves>>
    BY <1>3, Zenon DEF ImportMerges
  <2> QED  BY <1>1, <2>1 DEF SettingsRest
<1>4. ASSUME NEW p \in AgentProcesses, Stop(p)  PROVE SettingsRest'
  BY <1>4 DEF Stop, SettingsRest
<1>5. ASSUME NEW p, NEW flagged, NEW readKey, NEW k, NEW how, Start(p, flagged, readKey, k, how)
      PROVE  SettingsRest'
  <2>1. /\ lastSet' \in {lastSet, Nowhere} /\ starts < MaxLoads /\ starts' = starts + 1
        /\ saves' = saves
    BY <1>5, Zenon DEF Start
  <2>2. unsealed' \in BOOLEAN
    <3>1. unsealed' = unsealed \/ \E conf : SavesAs(conf, k, how)  BY <1>5, Zenon DEF Start
    <3> QED  BY <3>1 DEF SavesAs, SettingsRest
  <2> QED  BY <1>0, <1>1, <2>1, <2>2 DEF SettingsRest
<1>6. ASSUME NEW p, NEW set, \A f \in DOMAIN set : set[f] \in SettingTexts,
             NEW k, NEW how \in SaveOutcomes, Update(p, set, k, how)
      PROVE  SettingsRest'
  <2>1. saves < MaxSaves /\ saves' = saves + 1 /\ starts' = starts  BY <1>6, Zenon DEF Update
  <2>2. unsealed' \in BOOLEAN
    <3>1. \E conf : SavesAs(conf, k, how)  BY <1>6, Zenon DEF Update
    <3> QED  BY <3>1 DEF SavesAs
  <2>3. lastSet' \in Settings
    <3>1. EmptyText \in SettingTexts  BY DEF SettingTexts
    <3>2. CASE how = "written"
      <4>1. lastSet' = [f \in SettingNames |-> IF f \in DOMAIN set THEN set[f]
                          ELSE IF f \in copies[p].doubt THEN EmptyText ELSE lastSet[f]]
        BY <1>6, <3>2, Zenon DEF Update, EmptyText
      <4> QED  BY <1>6, <3>1, <4>1 DEF SettingsRest, Settings
    <3>3. CASE how = "not opened"
      <4>1. lastSet' = [f \in SettingNames |-> IF f \in DOMAIN set THEN EmptyText ELSE lastSet[f]]
        BY <1>6, <3>3, Zenon DEF Update, EmptyText
      <4> QED  BY <3>1, <4>1 DEF SettingsRest, Settings
    <3>4. CASE how = "cut"  BY <1>1, <1>6, <3>4 DEF Update
    <3> QED  BY <3>2, <3>3, <3>4 DEF SaveOutcomes
  <2> QED  BY <1>0, <2>1, <2>2, <2>3 DEF SettingsRest
<1>7. ASSUME NEW k, NEW how \in SaveOutcomes, PulledConfig(k, how) \/ AppliedUpdate(k, how)
      PROVE  SettingsRest'
  <2>1. PICK set \in {[version |-> "told"], [dist |-> "applied"]} : Update("agent", set, k, how)
    BY <1>7 DEF PulledConfig, AppliedUpdate
  <2>2. \A f \in DOMAIN set : set[f] \in SettingTexts  BY <2>1 DEF SettingTexts
  <2> QED  BY <1>6, <2>1, <2>2
<1>8. ASSUME NEW k, NEW how \in SaveOutcomes, NEW url \in BOOLEAN, NEW mode \in SetupModes,
             SetUp(url, mode, k, how)
      PROVE  SettingsRest'
  <2>1. PICK set \in {[url |-> "chosen", mode |-> mode], [mode |-> mode]} :
          Update("setup", set, k, how)
    BY <1>8 DEF SetUp
  <2>2. mode \in SettingTexts  BY ConfigGiven
  <2>3. \A f \in DOMAIN set : set[f] \in SettingTexts  BY <2>1, <2>2 DEF SettingTexts
  <2> QED  BY <1>6, <2>1, <2>3
<1> QED  BY <1>2, <1>3, <1>4, <1>5, <1>7, <1>8, Zenon DEF ConfigNext

LEMMA SettingsTypes == ConfigInv /\ SettingsRest => ConfigTypeOK
<1>1. SettingValues = SettingTexts  BY Zenon DEF SettingValues, SettingTexts, EmptyText
<1> QED  BY <1>1 DEF ConfigInv, SettingsRest, ConfigTypeOK, Settings, SavedFiles, SettingCopies

\* No round of reasoning is begun beyond those the complexity allows.
DiagRest ==
  /\ stage \in {"parse", "assess", "collect", "layer2", "reason", "iterate", "again", "draft",
                "report", "done"}
  /\ evidence \in [Registered -> {"none", "read", "error"}]
  /\ iteration \in 0 .. 4
  /\ stage \in {"parse", "assess", "collect", "layer2", "reason"} => iteration = 0
  /\ stage \in {"iterate", "again"} => iteration < MaxIterationsByComplexity(diagPlan.complexity)
  /\ wantApproval \subseteq ToolNames /\ asked \subseteq ToolNames

LEMMA DiagInitTypes == DiagInit => DiagRest
  BY DEF DiagInit, DiagRest

LEMMA DiagNextTypes == DiagInv /\ DiagRest /\ [DiagNext]_diagVars => DiagRest'
<1> SUFFICES ASSUME DiagInv, DiagRest, [DiagNext]_diagVars  PROVE DiagRest'  OBVIOUS
<1>1. \A c : MaxIterationsByComplexity(c) \in 1 .. 4  BY DEF MaxIterationsByComplexity
<1>2. CASE StepIntentParse \/ AssessComplexity
  <2>1. /\ UNCHANGED <<evidence, iteration, wantApproval, asked>>
        /\ stage \in {"parse", "assess"} /\ stage' \in {"assess", "collect"}
    BY <1>2 DEF StepIntentParse, AssessComplexity
  <2> QED  BY <2>1 DEF DiagRest
<1>3. ASSUME NEW tools, ExecuteTools(tools)  PROVE evidence' \in [Registered -> {"none", "read", "error"}]
  BY <1>3 DEF ExecuteTools, DiagRest
<1>4. CASE StepEvidenceCollect \/ StepLayer2
  <2>1. /\ UNCHANGED <<diagPlan, iteration, wantApproval, asked>>
        /\ stage \in {"collect", "layer2"} /\ stage' \in {"layer2", "reason"}
        /\ \E tools : ExecuteTools(tools)
    BY <1>4 DEF StepEvidenceCollect, StepLayer2
  <2> QED  BY <1>3, <2>1 DEF DiagRest
<1>5. ASSUME NEW r, Reasons(r), stage \in {"reason", "again"},
             UNCHANGED <<diagPlan, evidence, wantApproval, asked>>
      PROVE  DiagRest'
  <2>1. iteration \in 0 .. 3
    <3>1. stage = "again" => iteration < MaxIterationsByComplexity(diagPlan.complexity)
      BY DEF DiagRest
    <3> QED  BY <1>1, <1>5, <3>1 DEF DiagRest
  <2>2. iteration' = iteration + 1 /\ iteration' \in 0 .. 4  BY <1>5, <2>1 DEF Reasons
  <2>3. \/ stage' = "iterate" /\ iteration' < MaxIterationsByComplexity(diagPlan.complexity)
        \/ stage' = "draft"
    BY <1>5 DEF Reasons
  <2> QED  BY <1>5, <2>2, <2>3 DEF DiagRest
<1>6. ASSUME stage' = "draft", UNCHANGED <<evidence, iteration, wantApproval, asked>>
      PROVE  DiagRest'
  BY <1>6 DEF DiagRest
<1>7. CASE StepReasoning
  BY <1>5, <1>6, <1>7, Zenon DEF StepReasoning
<1>8. CASE RequestSupplementaryEvidence
  <2>1. \/ stage' = "draft" /\ UNCHANGED evidence
        \/ stage' = "again" /\ \E tools : ExecuteTools(tools)
    BY <1>8 DEF RequestSupplementaryEvidence
  <2>2. stage = "iterate" /\ UNCHANGED <<diagPlan, iteration, wantApproval, asked>>
    BY <1>8 DEF RequestSupplementaryEvidence
  <2> QED  BY <1>3, <2>1, <2>2 DEF DiagRest
<1>9. CASE IterateReasoning
  <2>1. /\ stage = "again" /\ UNCHANGED <<diagPlan, evidence, wantApproval, asked>>
        /\ (\E r : Reasons(r)) \/ (stage' = "draft" /\ UNCHANGED iteration)
    BY <1>9, Zenon DEF IterateReasoning
  <2> QED  BY <1>5, <1>6, <2>1
<1>10. CASE Complete
  <2>1. wantApproval' = {} \/ wantApproval' = reasoned.actions \cap Registered
    <3>1. StepActionDraft(reasoned).actions = reasoned.actions \cap Registered
      BY DraftIs DEF DiagInv
    <3> QED  BY <1>10, <3>1 DEF Complete
  <2> QED  BY <1>10, <2>1 DEF Complete, DiagRest, ToolNames
<1>11. CASE SendApprovalRequest \/ ReportCompleted
  BY <1>11 DEF SendApprovalRequest, ReportCompleted, DiagRest
<1>12. CASE UNCHANGED diagVars  BY <1>12 DEF diagVars, DiagRest
<1> QED  BY <1>2, <1>4, <1>7, <1>8, <1>9, <1>10, <1>11, <1>12 DEF DiagNext

LEMMA DiagTypes == DiagInv /\ DiagRest => DiagTypeOK
  BY DiagnosisTools DEF DiagInv, DiagRest, DiagTypeOK

\* No check finds anything wrong once the bound on those is reached.
RuleRest ==
  /\ timers \subseteq RuleItems /\ puts \in 0 .. MaxPuts
  /\ bad \in [RuleItems -> Nat] /\ bad["rule"] + bad["wish"] <= MaxBad

LEMMA RuleInitTypes == RuleInit => RuleRest
<1> SUFFICES ASSUME RuleInit  PROVE RuleRest  OBVIOUS
<1>1. timers = {"rule"} /\ puts = 0 /\ bad = [i \in RuleItems |-> 0]  BY Zenon DEF RuleInit
<1> QED  BY <1>1, RuleBounds DEF RuleRest, RuleItems

LEMMA RuleNextTypes == WatchInv /\ RuleRest /\ [RuleNext]_ruleVars => RuleRest'
<1> SUFFICES ASSUME WatchInv, RuleRest, [RuleNext]_ruleVars  PROVE RuleRest'  OBVIOUS
<1>1. ASSUME UNCHANGED <<puts, bad>>, timers' \subseteq RuleItems  PROVE RuleRest'
  BY <1>1 DEF RuleRest
<1>2. CASE RegisterBuiltin
  <2>1. timers' = {"rule"} /\ UNCHANGED <<puts, bad>>  BY <1>2, Zenon DEF RegisterBuiltin
  <2> QED  BY <1>1, <2>1 DEF RuleItems
<1>3. CASE SyncRule \/ ConfirmDraft
  <2>1. timers' \in {timers \cup {"rule"}, timers \cup {"wish"}} /\ UNCHANGED <<puts, bad>>
    BY <1>3, Zenon DEF SyncRule, ConfirmDraft, RegisterItem, Schedules
  <2> QED  BY <1>1, <2>1 DEF RuleRest, RuleItems
<1>4. CASE SaveRow
  <2>1. (timers' = timers \/ timers' = timers \cup {put[1].of}) /\ UNCHANGED <<puts, bad>>
    BY <1>4, Zenon DEF SaveRow, Schedules
  <2>2. CASE timers' = timers  BY <1>1, <2>1, <2>2 DEF RuleRest
  <2>3. CASE timers' = timers \cup {put[1].of}
    <3>1. put[1].of \in RuleItems
      <4>1. put # <<>>  BY <1>4, Zenon DEF SaveRow
      <4>2. PICK i \in RuleItems, held \in RowRecords, seen \in NotedKinds :
                put = <<[of |-> i, row |-> held, noted |-> seen]>>
        BY <4>1, Zenon DEF WatchInv, PutIsSound, PutIsARow
      <4> QED  BY <4>2
    <3> QED  BY <1>1, <2>1, <2>3, <3>1 DEF RuleRest
  <2> QED  BY <2>1, <2>2, <2>3
<1>5. ASSUME NEW i \in RuleItems, NEW on \in BOOLEAN, ReadRow(i, on)  PROVE RuleRest'
  <2>1. puts < MaxPuts /\ puts' = puts + 1 /\ UNCHANGED <<timers, bad>>
    BY <1>5, Zenon DEF ReadRow
  <2> QED  BY <2>1, RuleBounds DEF RuleRest
<1>6. ASSUME NEW i \in RuleItems, DeleteItem(i) \/ CheckIsFine(i)  PROVE RuleRest'
  <2>1. (timers' = timers \/ timers' = timers \ {i}) /\ UNCHANGED <<puts, bad>>
    BY <1>6, Zenon DEF DeleteItem, CheckIsFine
  <2> QED  BY <1>1, <2>1 DEF RuleRest
<1>7. ASSUME NEW i \in RuleItems, ToolIsUnknown(i) \/ HandleFailure(i) \/ HandleTriggered(i)
      PROVE  RuleRest'
  <2>1. Checked(i) /\ \E severity : FindsWrong(i, severity)
    BY <1>7, Zenon DEF ToolIsUnknown, HandleFailure, HandleTriggered
  <2>2. /\ bad["rule"] + bad["wish"] < MaxBad /\ bad' = [bad EXCEPT ![i] = @ + 1]
        /\ UNCHANGED <<timers, puts>>
    BY <2>1, Zenon DEF Checked, FindsWrong
  <2> QED  BY <2>2, RuleBounds DEF RuleRest, RuleItems
<1>8. ASSUME NEW a \in Drafts, Decompose(a)  PROVE RuleRest'
  <2>1. UNCHANGED <<timers, puts, bad>>  BY <1>8, Zenon DEF Decompose
  <2> QED  BY <2>1 DEF RuleRest
<1>9. CASE UNCHANGED ruleVars  BY <1>9 DEF ruleVars, RuleRest
<1> QED  BY <1>2, <1>3, <1>4, <1>5, <1>6, <1>7, <1>8, <1>9, Zenon DEF RuleNext

LEMMA RuleTypes == WatchInv /\ RuleRest => RuleTypeOK
<1> SUFFICES ASSUME WatchInv, RuleRest  PROVE RuleTypeOK  OBVIOUS
<1> DEFINE bounded == [status : RowStatuses, fails : 0 .. MaxBad + 1, on : BOOLEAN]
<1>1. ASSUME NEW i \in RuleItems
      PROVE  /\ {itemRow[i], checking[i]} \subseteq bounded
             /\ noted[i] \in NotedKinds /\ bad[i] \in 0 .. MaxBad
  <2>1. bad[i] \in 0 .. MaxBad  BY RuleBounds DEF RuleRest, RuleItems
  <2>2. /\ itemRow[i] \in RowRecords /\ checking[i] \in RowRecords /\ noted[i] \in NotedKinds
        /\ itemRow[i].fails <= bad[i] /\ checking[i].fails <= bad[i]
    BY DEF WatchInv
  <2>3. itemRow[i] \in bounded /\ checking[i] \in bounded
    BY <2>1, <2>2, RuleBounds DEF RowRecords
  <2> QED  BY <2>1, <2>2, <2>3
<1>2. tooEarly = FALSE /\ puts \in 0 .. MaxPuts /\ timers \subseteq RuleItems
  BY Zenon DEF WatchInv, RuleRest
<1>3. tooEarly \in BOOLEAN  BY <1>2
<1> QED  BY <1>1, <1>2, <1>3, Zenon DEF RuleTypeOK, RowStatuses, NotedKinds

\* The rounds of a chat that is still to ask, and a conversation that is over is still one of messages.
RouteRest ==
  /\ routeRounds \in 0 .. MaxRounds + 1
  /\ routeAt \in {"boot", "idle"} => routeRounds = 0
  /\ routeAt \in {"asking", "tools"} => routeRounds <= MaxRounds
  /\ conversation = <<>> \/ conversation \in Seq(Messages)

LEMMA RouteInitTypes == RouteInit => RouteRest
<1> SUFFICES ASSUME RouteInit  PROVE RouteRest  OBVIOUS
<1>1. routeRounds = 0 /\ routeAt = "boot" /\ conversation = <<>>  BY Zenon DEF RouteInit
<1> QED  BY <1>1, RouteConstants DEF RouteRest

LEMMA RouteNextTypes == RouteInv /\ RouteRest /\ [RouteNext]_routeVars => RouteRest'
<1> SUFFICES ASSUME RouteInv, RouteRest, [RouteNext]_routeVars  PROVE RouteRest'  OBVIOUS
<1>1. conversation' = <<>> \/ conversation' \in Seq(Messages)
  <2>1. CASE UNCHANGED conversation  BY <2>1, Zenon DEF RouteRest
  <2>2. CASE routeAt' \in {"asking", "trying", "sent", "tools"}
    <3>1. RouteInv'  BY RouteNextInv
    <3>2. conversation' \in Seq(Messages)  BY <2>2, <3>1, Zenon DEF RouteInv, ConversationIsSound
    <3> QED  BY <3>2
  <2>3. UNCHANGED conversation \/ routeAt' \in {"asking", "trying", "sent", "tools"}
    BY Zenon DEF RouteNext, routeVars, InitLLMRouter, StartConversation, CompleteMultimodal, AskModel,
       ProviderFails, SendRequest, AllProvidersFailed, ProviderCalls, ProviderAnswers, ToolAnswers,
       RoundIsOver, ChatContextEnds
  <2> QED  BY <2>1, <2>2, <2>3
<1>2. /\ routeRounds' \in 0 .. MaxRounds + 1
      /\ routeAt' \in {"boot", "idle"} => routeRounds' = 0
      /\ routeAt' \in {"asking", "tools"} => routeRounds' <= MaxRounds
  <2>0. /\ routeRounds \in 0 .. MaxRounds + 1 /\ MaxRounds \in Nat
        /\ routeAt \in {"boot", "idle"} => routeRounds = 0
        /\ routeAt \in {"asking", "tools"} => routeRounds <= MaxRounds
    BY RouteConstants DEF RouteRest
  <2>1. \/ UNCHANGED <<routeAt, routeRounds>>
        \/ routeAt' = "idle" /\ routeAt = "boot" /\ routeRounds' = routeRounds
        \/ routeAt' = "asking" /\ routeAt \in {"idle", "tools"} /\ routeRounds' = routeRounds
        \/ routeAt' \in {"trying", "sent", "over"} /\ routeRounds' = routeRounds
        \/ routeAt = "asking" /\ routeAt' = "trying" /\ routeRounds' = routeRounds + 1
        \/ routeAt' = "tools" /\ routeRounds <= MaxRounds /\ routeRounds' = routeRounds
    BY Zenon DEF RouteNext, routeVars, InitLLMRouter, StartConversation, CompleteMultimodal, AskModel,
       ProviderFails, SendRequest, AllProvidersFailed, ProviderCalls, ProviderAnswers, ToolAnswers,
       RoundIsOver, ChatContextEnds
  <2> QED  BY <2>0, <2>1
<1> QED  BY <1>1, <1>2 DEF RouteRest

LEMMA RouteTypes == RouteInv /\ RouteRest => RouteTypeOK
<1> SUFFICES ASSUME RouteInv, RouteRest  PROVE RouteTypeOK  OBVIOUS
<1>1. ASSUME NEW i \in DOMAIN conversation
      PROVE  conversation[i].role \in Roles /\ conversation[i].text \in BOOLEAN
  <2>1. conversation \in Seq(Messages)  BY <1>1 DEF RouteRest
  <2>2. conversation[i] \in Messages  BY <1>1, <2>1
  <2> QED  BY <2>2, Zenon DEF Messages
<1>2. \A m \in {conversation[i] : i \in DOMAIN conversation} :
        m.role \in {"system", "user", "assistant", "tool"} /\ m.text \in BOOLEAN
  BY <1>1, Zenon DEF Roles
<1> QED  BY <1>2, Zenon DEF RouteTypeOK, RouteInv, RouteRest

LEMMA IsStepList ==
  ASSUME NEW x \in Seq(Steps), Len(x) <= PlanSize,
         \A i, j \in 1 .. Len(x) : x[i] = x[j] => i = j
  PROVE  x \in StepLists
<1>1. Len(x) \in Nat /\ x \in [1 .. Len(x) -> Steps] /\ DOMAIN x = 1 .. Len(x)  OBVIOUS
<1>2. PlanSize \in Nat  BY LayersAre
<1>3. Len(x) \in 0 .. PlanSize  BY <1>1, <1>2
<1>4. x \in UNION {[1 .. n -> Steps] : n \in 0 .. PlanSize}  BY <1>1, <1>3
<1>5. Injective(x)  BY <1>1 DEF Injective
<1> QED  BY <1>4, <1>5, Zenon DEF StepLists, PlanSize

\* What is to do, what is finished and what is to be undone are parts of one order, without repeats.
LEMMA PlanTypes == PlanInv => PlanTypeOK
<1> SUFFICES ASSUME PlanInv  PROVE PlanTypeOK  OBVIOUS
<1>1. PlanSize \in Nat  BY LayersAre
<1>2. /\ order \in Seq(Steps) /\ finished \in Seq(Steps) /\ undoing \in Seq(Steps)
      /\ Len(undoing) <= Len(finished) /\ \A i \in 1 .. Len(undoing) : undoing[i] = finished[i]
  BY DEF PlanInv
<1>3. Len(order) \in Nat /\ Len(finished) \in Nat /\ Len(undoing) \in Nat  BY <1>2
<1>4. /\ order \in StepLists /\ finished \in StepLists
      /\ \A i, j \in 1 .. Len(finished) : finished[i] = finished[j] => i = j
      /\ Len(finished) <= PlanSize
  <2>1. CASE plan \in {"none", "rejected", "generated"}
    <3>1. order = <<>> /\ finished = <<>>  BY <2>1 DEF PlanInv
    <3>2. Len(order) = 0 /\ Len(finished) = 0  BY <3>1
    <3> QED  BY <1>1, <1>2, <3>2, IsStepList
  <2>2. CASE plan \notin {"none", "rejected", "generated"}
    <3>1. PICK o : Follows(o)  BY <2>2 DEF PlanInv
    <3>2. /\ o \in ExecutionOrders(needs) /\ Len(finished) + Len(order) = PlanSize
          /\ \A i \in 1 .. Len(finished) : finished[i] = o[i]
          /\ \A i \in 1 .. Len(order) : order[i] = o[Len(finished) + i]
      BY <3>1 DEF Follows
    <3>3. Injective(o) /\ DOMAIN o = 1 .. PlanSize  BY <3>2, OrderIs
    <3>4. \A i, j \in 1 .. PlanSize : o[i] = o[j] => i = j  BY <3>3 DEF Injective
    <3>5. ASSUME NEW i \in 1 .. Len(finished), NEW j \in 1 .. Len(finished),
                 finished[i] = finished[j]
          PROVE  i = j
      <4>1. i \in 1 .. PlanSize /\ j \in 1 .. PlanSize  BY <1>3, <3>2
      <4> QED  BY <3>2, <3>4, <3>5, <4>1
    <3>6. ASSUME NEW i \in 1 .. Len(order), NEW j \in 1 .. Len(order), order[i] = order[j]
          PROVE  i = j
      <4>1. Len(finished) + i \in 1 .. PlanSize /\ Len(finished) + j \in 1 .. PlanSize
        BY <1>3, <3>2
      <4>2. Len(finished) + i = Len(finished) + j  BY <3>2, <3>4, <3>6, <4>1
      <4> QED  BY <1>3, <4>2
    <3>7. Len(finished) <= PlanSize /\ Len(order) <= PlanSize  BY <1>3, <3>2
    <3> QED  BY <1>2, <3>5, <3>6, <3>7, IsStepList
  <2> QED  BY <2>1, <2>2
<1>5. undoing \in StepLists
  <2>1. Len(undoing) <= PlanSize  BY <1>1, <1>2, <1>3, <1>4
  <2>2. ASSUME NEW i \in 1 .. Len(undoing), NEW j \in 1 .. Len(undoing), undoing[i] = undoing[j]
        PROVE  i = j
    <3>1. i \in 1 .. Len(finished) /\ j \in 1 .. Len(finished)  BY <1>2, <1>3
    <3> QED  BY <1>2, <1>4, <2>2, <3>1
  <2> QED  BY <1>2, <2>1, <2>2, IsStepList
<1>6. executed \subseteq Steps
  <2>1. ASSUME NEW s \in executed  PROVE s \in Steps
    <3>1. \/ \E i \in 1 .. Len(finished) : finished[i] = s
          \/ order # <<>> /\ order[1] = s
      BY DEF PlanInv
    <3> QED  BY <1>2, <3>1
  <2> QED  BY <2>1
<1>7. undone \subseteq Steps
  <2>1. ASSUME NEW s \in undone  PROVE s \in Steps
    <3>1. \E i \in 1 .. Len(finished) : finished[i] = s  BY DEF PlanInv
    <3> QED  BY <1>2, <3>1
  <2> QED  BY <2>1
<1>8. needs \in [Steps -> SUBSET Steps] /\ plan \in PlanPhases  BY DEF PlanInv
<1> QED  BY <1>4, <1>5, <1>6, <1>7, <1>8, Zenon DEF PlanTypeOK, PlanPhases

==============================================================================
