----------------------------- MODULE Enrollment -----------------------------
(***************************************************************************)
(* How an agent becomes a device of the platform: the boot of the agent    *)
(* with its identity file, and one enrolment token with a limited number   *)
(* of uses; and, at the end, the row of a device once there is one.        *)
(*                                                                         *)
(* A handler reads the token, creates the device and saves its copy of the *)
(* whole token with one use more, so a late save also writes back what     *)
(* somebody else changed meanwhile.  An enrolment whose answer is lost     *)
(* goes on without its agent, which enrols again when it is started next.  *)
(***************************************************************************)
EXTENDS Naturals, FiniteSets

CONSTANTS
  Agents,       \* machines on which the agent is installed with this token
  Handlers,     \* slots for enrolment requests that are handled at once
  MaxUses,      \* max_uses of the token
  MaxRows,      \* bound: devices that are ever created
  MaxBoots,     \* bound: how often an agent is started
  NoCopy        \* an idle slot

ASSUME EnrolConstants ==
  /\ MaxUses \in Nat /\ MaxRows \in Nat /\ MaxBoots \in Nat
  /\ NoCopy \notin [agent : Agents, status : {"active"}, used : Nat, row : BOOLEAN]

VARIABLES
  enrolToken,   \* the row of enrollment_tokens
  tokenLate,    \* its expires_at has passed
  devices,      \* how many rows of devices were created
  enrolling,    \* per handler: the agent it serves, its copy of the token, whether the
                \* device is created
  agent,        \* per agent: "off", "boots", "standalone", "offline", "online", or the
                \* handler it waits for
  identified,   \* agents with an identity file
  boots,        \* how often each was started
  tokenRaced    \* history: enrolments overlapped, or a save of the token failed

enrolVars == <<enrolToken, tokenLate, devices, enrolling, agent, identified, boots, tokenRaced>>

EnrolTypeOK ==
  /\ enrolToken \in [status : {"active", "expired"}, used : 0 .. MaxRows]
  /\ tokenLate \in BOOLEAN
  /\ devices \in 0 .. MaxRows
  /\ enrolling \in [Handlers ->
       [agent : Agents, status : {"active"}, used : 0 .. MaxRows, row : BOOLEAN]
         \cup {NoCopy}]
  /\ agent \in [Agents -> Handlers \cup {"off", "boots", "standalone", "offline", "online"}]
  /\ identified \subseteq Agents
  /\ boots \in [Agents -> 0 .. MaxBoots]
  /\ tokenRaced \in BOOLEAN

EnrolInit ==
  /\ enrolToken = [status |-> "active", used |-> 0]
  /\ tokenLate = FALSE
  /\ devices = 0
  /\ enrolling = [h \in Handlers |-> NoCopy]
  /\ agent = [a \in Agents |-> "off"]
  /\ identified = {}
  /\ boots = [a \in Agents |-> 0]
  /\ tokenRaced = FALSE

-----------------------------------------------------------------------------
\* The agent: Bootstrapper.Run decides once, when it is started, how it will run.

\* It is started, or restarted while it runs or waits.
Boot(a) ==
  /\ boots[a] < MaxBoots
  /\ boots' = [boots EXCEPT ![a] = @ + 1]
  /\ agent' = [agent EXCEPT ![a] = "boots"]
  /\ UNCHANGED <<enrolToken, tokenLate, devices, enrolling, identified, tokenRaced>>

\* With an identity it pulls its configuration; without a good answer it stays offline
\* until it is started again.
LoadIdentity(a) ==
  /\ agent[a] = "boots"
  /\ a \in identified
  /\ \E reached \in {"online", "offline"} : agent' = [agent EXCEPT ![a] = reached]
  /\ UNCHANGED <<enrolToken, tokenLate, devices, enrolling, identified, boots, tokenRaced>>

\* A refusal, a timeout of 15 s or an answer it cannot read: standalone until the next start.
EnrolFails(a) ==
  /\ agent[a] \in {"boots"} \cup Handlers
  /\ a \notin identified
  /\ agent' = [agent EXCEPT ![a] = "standalone"]
  /\ UNCHANGED <<enrolToken, tokenLate, devices, enrolling, identified, boots, tokenRaced>>

-----------------------------------------------------------------------------
\* EnrollAgent, between its calls of the database.

\* A slip: one use more than the token allows.
TokenIsValidOnceMore ==
  /\ enrolToken.status = "active"
  /\ enrolToken.used <= MaxUses
  /\ ~tokenLate

TokenIsValid ==
  /\ enrolToken.status = "active"
  /\ enrolToken.used < MaxUses
  /\ ~tokenLate

Enrol(h, a) ==
  /\ agent[a] = "boots"
  /\ a \notin identified
  /\ enrolling[h] = NoCopy
  /\ TokenIsValid
  /\ agent' = [agent EXCEPT ![a] = h]
  /\ enrolling' = [enrolling EXCEPT ![h] =
       [agent |-> a, status |-> enrolToken.status, used |-> enrolToken.used, row |-> FALSE]]
  /\ tokenRaced' = (tokenRaced \/ \E g \in Handlers \ {h} : enrolling[g] # NoCopy)
  /\ UNCHANGED <<enrolToken, tokenLate, devices, identified, boots>>

CreateDevice(h) ==
  /\ enrolling[h] # NoCopy
  /\ ~enrolling[h].row
  /\ devices < MaxRows
  /\ devices' = devices + 1
  /\ enrolling' = [enrolling EXCEPT ![h].row = TRUE]
  /\ UNCHANGED <<enrolToken, tokenLate, agent, identified, boots, tokenRaced>>

CreateFails(h) ==
  /\ enrolling[h] # NoCopy
  /\ ~enrolling[h].row
  /\ enrolling' = [enrolling EXCEPT ![h] = NoCopy]
  /\ UNCHANGED <<enrolToken, tokenLate, devices, agent, identified, boots, tokenRaced>>

\* The answer reaches an agent that still waits, which saves its identity and goes online even
\* if it could not, or is lost.
Answers(h) ==
  LET a == enrolling[h].agent IN
  \/ /\ agent[a] = h
     /\ identified' \in {identified, identified \cup {a}}
     /\ agent' = [agent EXCEPT ![a] = "online"]
  \/ UNCHANGED <<identified, agent>>

\* A slip: the use is counted before the device is there, and whether or not it comes.
CountUseAhead(h) ==
  /\ enrolling[h] # NoCopy
  /\ enrolToken' = [status |-> enrolling[h].status, used |-> enrolling[h].used + 1]
  /\ enrolling' = [enrolling EXCEPT ![h] = NoCopy]
  /\ UNCHANGED <<tokenLate, devices, agent, identified, boots, tokenRaced>>

\* The copy of the token is saved with one use more; the whole row is written, so that
\* what happened to it meanwhile is undone.
CountUse(h) ==
  /\ enrolling[h] # NoCopy
  /\ enrolling[h].row
  /\ enrolToken' = [status |-> enrolling[h].status, used |-> enrolling[h].used + 1]
  /\ enrolling' = [enrolling EXCEPT ![h] = NoCopy]
  /\ Answers(h)
  /\ UNCHANGED <<tokenLate, devices, boots, tokenRaced>>

\* An error of that save is ignored.
CountUseFails(h) ==
  /\ enrolling[h] # NoCopy
  /\ enrolling[h].row
  /\ enrolling' = [enrolling EXCEPT ![h] = NoCopy]
  /\ tokenRaced' = TRUE
  /\ Answers(h)
  /\ UNCHANGED <<enrolToken, tokenLate, devices, boots>>

TokenLapses ==
  /\ ~tokenLate
  /\ tokenLate' = TRUE
  /\ UNCHANGED <<enrolToken, devices, enrolling, agent, identified, boots, tokenRaced>>

\* TokenCleanupWorker, once an hour.
TokenCleanup ==
  /\ enrolToken.status = "active"
  /\ tokenLate \/ enrolToken.used >= MaxUses
  /\ enrolToken' = [enrolToken EXCEPT !.status = "expired"]
  /\ UNCHANGED <<tokenLate, devices, enrolling, agent, identified, boots, tokenRaced>>

EnrolNext ==
  \/ \E a \in Agents : Boot(a) \/ LoadIdentity(a) \/ EnrolFails(a)
  \/ \E h \in Handlers :
       \/ \E a \in Agents : Enrol(h, a)
       \/ CreateDevice(h) \/ CreateFails(h) \/ CountUse(h) \/ CountUseFails(h)
  \/ TokenLapses
  \/ TokenCleanup

EnrolSpec == EnrolInit /\ [][EnrolNext]_enrolVars

-----------------------------------------------------------------------------

\* However enrolments overlap, fail or are repeated, the token never counts more uses than
\* there are devices: nobody is turned away for a use that admitted nothing
\* (enrollment_service.go:136: the use is counted after the device is created).
UsesAdmitted == enrolToken.used <= devices

\* Agents that enrol one after the other, with restarts and lost answers, stay within
\* max_uses (enrollment_service.go:102 and 137; enrolments that overlap do not).
AdmitsAtMost == ~tokenRaced => devices <= MaxUses

-----------------------------------------------------------------------------
(* The row of one device that was enrolled: heartbeats of its agent, which  *)
(* always report "active", and what administrators do to it.  A heartbeat   *)
(* and an edit read the row, change their copy and save all of its columns; *)
(* a deletion is one statement.                                             *)

CONSTANTS
  Savers,   \* slots for heartbeats and edits that are handled at once
  Unsaved   \* an idle slot

VARIABLES
  device,     \* status and deleted_at of the row
  saving,     \* per saver: who it works for, what it read, what it is about to save
  deviceRaced \* history: something was saved from a copy that was out of date

deviceVars == <<device, saving, deviceRaced>>

Services == {"pending_activation", "active", "quarantined", "revoked"}
Row == [status : Services, deleted : BOOLEAN]

ASSUME DeviceConstants == Unsaved \notin [by : {"agent", "admin"}, read : Row, to : Row]

DeviceTypeOK ==
  /\ device \in Row
  /\ saving \in [Savers -> [by : {"agent", "admin"}, read : Row, to : Row] \cup {Unsaved}]
  /\ deviceRaced \in BOOLEAN

\* EnrollAgent creates the row as active.
DeviceInit ==
  /\ device = [status |-> "active", deleted |-> FALSE]
  /\ saving = [s \in Savers |-> Unsaved]
  /\ deviceRaced = FALSE

\* GetByID passes over deleted rows.
ReadsDevice(s, who, copy) ==
  /\ ~device.deleted
  /\ saving[s] = Unsaved
  /\ saving' = [saving EXCEPT ![s] = [by |-> who, read |-> device, to |-> copy]]
  /\ UNCHANGED <<device, deviceRaced>>

\* A slip: what the agent reports is taken over whatever the row says.
IsRevokedNever == FALSE

IsRevoked == device.status = "revoked"

\* The agent of this repository reports "active"; "offline" would keep the status.
Heartbeat(s, reported) ==
  /\ ~IsRevoked
  /\ ReadsDevice(s, "agent",
       [device EXCEPT !.status =
          IF reported # "offline" THEN reported
          ELSE IF @ = "pending_activation" THEN "active" ELSE @])

UpdateDevice(s, status) == ReadsDevice(s, "admin", [device EXCEPT !.status = status])

\* Save writes the whole copy, deleted_at included.
SaveDevice(s) ==
  /\ saving[s] # Unsaved
  /\ device' = saving[s].to
  /\ deviceRaced' = (deviceRaced \/ device # saving[s].read)
  /\ saving' = [saving EXCEPT ![s] = Unsaved]

SaveDeviceFails(s) ==
  /\ saving[s] # Unsaved
  /\ saving' = [saving EXCEPT ![s] = Unsaved]
  /\ UNCHANGED <<device, deviceRaced>>

DeleteDevice ==
  /\ ~device.deleted
  /\ device' = [device EXCEPT !.deleted = TRUE]
  /\ UNCHANGED <<saving, deviceRaced>>

DeviceNext ==
  \/ \E s \in Savers :
       \/ \E reported \in {"active", "offline"} : Heartbeat(s, reported)
       \/ \E status \in Services : UpdateDevice(s, status)
       \/ SaveDevice(s)
       \/ SaveDeviceFails(s)
  \/ DeleteDevice

DeviceSpec == DeviceInit /\ [][DeviceNext]_deviceVars

-----------------------------------------------------------------------------

OutOfService == device.status = "revoked" \/ device.deleted

\* A deleted device never comes back, and a revoked one only when an administrator says so,
\* as long as nothing is saved from a copy that is out of date: the row is not versioned,
\* and a heartbeat that is late undoes both (device_service.go:115, 147).
OutStaysOut ==
  [][(OutOfService /\ ~OutOfService' /\ ~deviceRaced')
       => /\ ~device.deleted
          /\ \E s \in Savers : /\ saving[s] # Unsaved /\ saving'[s] = Unsaved
                               /\ saving[s].by = "admin"]_deviceVars

=============================================================================
