----------------------------- MODULE FileAccess -----------------------------
(***************************************************************************)
(* One request to fetch a file from a device: it is created, approved or   *)
(* denied, sent to the device through session-gateway, and its result is   *)
(* stored.  A handler reads the row, decides, and saves the whole row it   *)
(* read, with no lock and no comparison; saving a row that was deleted     *)
(* meanwhile inserts it again.                                             *)
(***************************************************************************)
EXTENDS Naturals, FiniteSets

CONSTANTS
  Deciding,   \* slots for handlers under way: Approve, Deny, SetResult
  FileApprovers,  \* users with the permission to approve
  Assigned,   \* those the policy lets approve; all of them if it names nobody
  MaxSent,    \* bound of the model: dispatches
  NoRequest

ASSUME FileConstants == Assigned \subseteq FileApprovers
ASSUME FileBounds == MaxSent \in Nat \ {0}

VARIABLES
  file,       \* the row: its status and whether it has a result, or NoRequest
  fileOverdue,    \* ExpiresAt has passed
  handling,   \* per slot: the row it will save, "idle" if free, and what follows the save
  dispatches, \* goroutines that will send the request to the device
  onDevice,   \* file.execute events the device works on
  answering,  \* results on their way to the platform
  sent,       \* history: dispatches that were started
  wasFetched  \* history: the device has read the file

fileVars == <<file, fileOverdue, handling, dispatches, onDevice, answering, sent, wasFetched>>

FileRow == [status : {"pending", "approved", "denied", "expired"}, result : BOOLEAN]
Free == [does |-> "idle"]

FileTypeOK ==
  /\ file \in FileRow \cup {NoRequest}
  /\ fileOverdue \in BOOLEAN /\ wasFetched \in BOOLEAN
  /\ \A h \in Deciding : handling[h] = Free \/ handling[h] \in
       [does : {"approves", "denies", "expires", "answers"}, copy : FileRow]
  /\ dispatches \in 0 .. MaxSent /\ onDevice \in 0 .. MaxSent /\ answering \in 0 .. MaxSent
  /\ sent \in 0 .. MaxSent

FileInit ==
  /\ file = NoRequest
  /\ fileOverdue = FALSE /\ wasFetched = FALSE
  /\ handling = [h \in Deciding |-> Free]
  /\ dispatches = 0 /\ onDevice = 0 /\ answering = 0
  /\ sent = 0

-----------------------------------------------------------------------------

\* A request to browse or preview, and a download under an automatic policy, are approved by
\* whoever makes them.  Bounded by MaxSent, as every start of a dispatch.
CreateRequest ==
  /\ file = NoRequest
  /\ sent = 0
  /\ \E status \in {"pending", "approved"} :
       /\ file' = [status |-> status, result |-> FALSE]
       /\ dispatches' = IF status = "approved" THEN 1 ELSE 0
  /\ sent' = dispatches'
  /\ UNCHANGED <<fileOverdue, handling, onDevice, answering, wasFetched>>

TimeIsOver ==
  /\ ~fileOverdue
  /\ fileOverdue' = TRUE
  /\ UNCHANGED <<file, handling, dispatches, onDevice, answering, sent, wasFetched>>

\* A handler goes on with the row it has read, which has the new status.
Takes(h, does, row) ==
  /\ handling[h] = Free
  /\ handling' = [handling EXCEPT ![h] = [does |-> does, copy |-> row]]
  /\ UNCHANGED <<file, fileOverdue, dispatches, onDevice, answering, sent, wasFetched>>

IsPending == file # NoRequest /\ file.status = "pending"

\* Nobody is asked who tries too late.
ReadToApprove(h, u) ==
  /\ IsPending
  /\ IF fileOverdue THEN Takes(h, "expires", [file EXCEPT !.status = "expired"])
     ELSE u \in Assigned /\ Takes(h, "approves", [file EXCEPT !.status = "approved"])

\* Neither the deadline nor the approver the policy names matters to a denial.
ReadToDeny(h) ==
  /\ IsPending
  /\ Takes(h, "denies", [file EXCEPT !.status = "denied"])

\* SetResult does not look at the status.
ReadToAnswer(h) ==
  /\ answering > 0
  /\ handling[h] = Free
  /\ answering' = answering - 1
  /\ handling' = IF file = NoRequest THEN handling
                 ELSE [handling EXCEPT ![h] = [does |-> "answers",
                                               copy |-> [file EXCEPT !.result = TRUE]]]
  /\ UNCHANGED <<file, fileOverdue, dispatches, onDevice, sent, wasFetched>>

SavesCopy(h) ==
  /\ handling[h] # Free
  /\ file' = handling[h].copy
  /\ handling' = [handling EXCEPT ![h] = Free]
  /\ UNCHANGED <<fileOverdue, onDevice, answering, wasFetched>>

SaveRequest(h) ==
  /\ SavesCopy(h)
  /\ handling[h].does # "approves"
  /\ UNCHANGED <<dispatches, sent>>

\* The dispatch has a context of its own; the answer does not wait for it.
SaveApproved(h) ==
  /\ SavesCopy(h)
  /\ handling[h].does = "approves"
  /\ sent < MaxSent
  /\ dispatches' = dispatches + 1
  /\ sent' = sent + 1

\* A slip: the request is sent although it could not be saved.
SaveRequestFailsOn(h) ==
  /\ handling[h] # Free
  /\ handling' = [handling EXCEPT ![h] = Free]
  /\ IF handling[h].does = "approves" /\ sent < MaxSent
     THEN dispatches' = dispatches + 1 /\ sent' = sent + 1
     ELSE UNCHANGED <<dispatches, sent>>
  /\ UNCHANGED <<file, fileOverdue, onDevice, answering, wasFetched>>

SaveRequestFails(h) ==
  /\ handling[h] # Free
  /\ handling' = [handling EXCEPT ![h] = Free]
  /\ UNCHANGED <<file, fileOverdue, dispatches, onDevice, answering, sent, wasFetched>>

\* ClearHistory deletes what is not pending.
ClearHistory ==
  /\ file # NoRequest
  /\ file.status # "pending"
  /\ file' = NoRequest
  /\ UNCHANGED <<fileOverdue, handling, dispatches, onDevice, answering, sent, wasFetched>>

\* The gateway takes the event, or it is lost: no URL, no gateway, a restart, no device.
DispatchToDevice ==
  /\ dispatches > 0
  /\ dispatches' = dispatches - 1
  /\ onDevice' \in {onDevice, onDevice + 1}
  /\ UNCHANGED <<file, fileOverdue, handling, answering, sent, wasFetched>>

\* handleFileExecute: its result is queued for the gateway, which may lose it.
FetchFile ==
  /\ onDevice > 0
  /\ onDevice' = onDevice - 1
  /\ wasFetched' = TRUE
  /\ answering' \in {answering, answering + 1}
  /\ UNCHANGED <<file, fileOverdue, handling, dispatches, sent>>

FileNext ==
  \/ CreateRequest \/ TimeIsOver \/ ClearHistory \/ DispatchToDevice \/ FetchFile
  \/ \E h \in Deciding :
       \/ \E u \in FileApprovers : ReadToApprove(h, u)
       \/ ReadToDeny(h) \/ ReadToAnswer(h)
       \/ SaveRequest(h) \/ SaveApproved(h) \/ SaveRequestFails(h)

FileSpec == FileInit /\ [][FileNext]_fileVars

-----------------------------------------------------------------------------

\* A request that has been sent to its device, or was fetched there, is never open for a decision
\* again, whatever late copy is saved over it and whether it is cleared and comes back (service.go
\* Approve, Deny, SetResult, ClearHistory).
SentIsDecided == sent > 0 \/ wasFetched => ~IsPending

=============================================================================
