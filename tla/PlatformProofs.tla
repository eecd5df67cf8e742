--------------------------- MODULE PlatformProofs ----------------------------
(****************************************************************************)
(* Proofs about the components of platform-api that share no state with     *)
(* the life of a command task: what holds of them for any number of         *)
(* calls, users, rows and devices, whatever overlaps, fails or expires.     *)
(****************************************************************************)
EXTENDS ApprovalRequest, FileAccess, BatchRun, DeviceBinding, Enrollment,
        PackageBuild, Roles, Marketplace, Accounts, DeviceGroups, TenantProfiles, FeishuBot,
        CommandDraft, FiniteSetTheorems, WellFoundedInduction, TLAPS

------------------------------------------------------------------------------
(* Session approvals: What is reported as executed was granted, for any     *)
(* number of calls and approvers, whatever overlaps, fails or expires.      *)
(* The property is about the row alone, but a call brings its copy back at  *)
(* any time: the invariant says of each copy what the property says of the  *)
(* row.                                                                     *)

\* Statuses that only a granted request reaches.
Granted(row) ==
  row # NoApproval /\ row.status \in StartedStatuses \cup {"approved"} => row.approver \in granted

\* A copy that brings the approval itself names who gives it; any other was read from a row.
CopyOK(copy) ==
  copy # NoApproval =>
    /\ copy.status = "approved" => copy.approver \in Approvers
    /\ copy.status \in StartedStatuses => copy.approver \in granted

ApprovalInv ==
  /\ ApprovalTypeOK
  /\ Granted(approval)
  /\ \A c \in Calls : CopyOK(call[c])

USE DEF StartedStatuses, ApprovalStatuses, Approval

LEMMA ApprovalInitInv == ApprovalInit => ApprovalInv
  BY DEF ApprovalInit, ApprovalInv, ApprovalTypeOK, Granted, CopyOK

\* A call goes on with a copy that is as good as the row it was read from.
LEMMA ReadKeepsInv ==
  ASSUME ApprovalInv, NEW c \in Calls, NEW copy \in Approval, ReadsApproval(c, copy), CopyOK(copy)
  PROVE  ApprovalInv'
<1> USE DEF ApprovalInv, ReadsApproval
<1>1. ApprovalTypeOK'
  BY DEF ApprovalTypeOK
<1>2. Granted(approval)'
  BY DEF Granted
<1>3. \A d \in Calls : CopyOK(call[d])'
  BY DEF CopyOK, ApprovalTypeOK
<1> QED
  BY <1>1, <1>2, <1>3

LEMMA MarkKeepsInv ==
  ASSUME ApprovalInv, NEW c \in Calls, NEW from \in {"approved"} \cup StartedStatuses,
         NEW to \in StartedStatuses, MarkApproval(c, from, to)
  PROVE  ApprovalInv'
<1> DEFINE copy == [approval EXCEPT !.status = to]
<1>1. approval \in Approval /\ copy \in Approval
  BY DEF ApprovalInv, ApprovalTypeOK, MarkApproval
<1>2. copy.status = to /\ copy.approver = approval.approver
  BY <1>1
<1>3. CopyOK(copy)
  BY <1>1, <1>2 DEF ApprovalInv, Granted, CopyOK, MarkApproval
<1>4. ReadsApproval(c, copy)
  BY DEF MarkApproval
<1> QED
  BY <1>1, <1>3, <1>4, ReadKeepsInv

\* A request that is closed, by a denial or because it is too late, needs nobody's grant.
LEMMA CloseApprovalKeepsInv ==
  ASSUME ApprovalInv, NEW c \in Calls, NEW status \in {"denied", "expired"},
         approval # NoApproval, ReadsApproval(c, [approval EXCEPT !.status = status])
  PROVE  ApprovalInv'
<1> DEFINE copy == [approval EXCEPT !.status = status]
<1>1. approval \in Approval /\ copy \in Approval /\ copy.status = status
  BY DEF ApprovalInv, ApprovalTypeOK
<1>2. CopyOK(copy)
  BY <1>1 DEF CopyOK
<1> QED
  BY <1>1, <1>2, ReadKeepsInv

LEMMA ApproveKeepsInv ==
  ASSUME ApprovalInv, NEW c \in Calls, NEW u \in Approvers, ApproveSession(c, u)
  PROVE  ApprovalInv'
<1> DEFINE copy == [status |-> "approved", approver |-> u]
<1>1. copy \in Approval /\ CopyOK(copy)
  BY DEF CopyOK
<1>2. ReadsApproval(c, copy)
  BY DEF ApproveSession
<1> QED
  BY <1>1, <1>2, ReadKeepsInv

\* The save: the row becomes what the copy was, and an approval is recorded with it.
LEMMA SaveKeepsInv ==
  ASSUME ApprovalInv, NEW c \in Calls, UpdateApproval(c)
  PROVE  ApprovalInv'
<1> USE DEF ApprovalInv, UpdateApproval
<1>1. call[c] \in Approval /\ CopyOK(call[c])
  BY DEF ApprovalTypeOK
<1>2. granted \subseteq granted'
  OBVIOUS
<1>3. ApprovalTypeOK'
  BY <1>1 DEF ApprovalTypeOK, CopyOK, BusyCalls
<1>4. Granted(approval)'
  BY <1>1, <1>2 DEF Granted, CopyOK
<1>5. \A d \in Calls : CopyOK(call[d])'
  BY <1>2 DEF CopyOK, ApprovalTypeOK
<1> QED
  BY <1>3, <1>4, <1>5

LEMMA ApprovalNextInv == ApprovalInv /\ [ApprovalNext]_approvalVars => ApprovalInv'
<1> SUFFICES ASSUME ApprovalInv, [ApprovalNext]_approvalVars PROVE ApprovalInv'
  OBVIOUS
<1>1. CASE CreateApprovalRequest
  BY <1>1 DEF ApprovalInv, CreateApprovalRequest, ApprovalTypeOK, Granted, CopyOK
<1>2. ASSUME NEW c \in Calls, ApproveTooLate(c) PROVE ApprovalInv'
  BY <1>2, CloseApprovalKeepsInv DEF ApproveTooLate, ReadsApproval
<1>3. ASSUME NEW c \in Calls, NEW u \in Approvers, ApproveSession(c, u) PROVE ApprovalInv'
  BY <1>3, ApproveKeepsInv
<1>4. ASSUME NEW c \in Calls, DenySession(c) PROVE ApprovalInv'
  BY <1>4, CloseApprovalKeepsInv DEF DenySession
<1>5. ASSUME NEW c \in Calls,
             \/ MarkApprovalExecuting(c) \/ MarkApprovalSucceeded(c)
             \/ MarkApprovalFailed(c) \/ MarkApprovalRolledBack(c)
      PROVE  ApprovalInv'
  BY <1>5, MarkKeepsInv
     DEF MarkApprovalExecuting, MarkApprovalSucceeded, MarkApprovalFailed, MarkApprovalRolledBack
<1>6. ASSUME NEW c \in Calls, UpdateApproval(c) PROVE ApprovalInv'
  BY <1>6, SaveKeepsInv
<1>7. ASSUME NEW c \in Calls, UpdateApprovalFails(c) PROVE ApprovalInv'
  BY <1>7 DEF ApprovalInv, UpdateApprovalFails, ApprovalTypeOK, Granted, CopyOK
<1>8. CASE WorkerExpiresApproval
  BY <1>8 DEF ApprovalInv, WorkerExpiresApproval, WouldExpireApproval, ApprovalTypeOK, Granted,
              CopyOK
<1>9. CASE ApprovalLapses
  BY <1>9 DEF ApprovalInv, ApprovalLapses, ApprovalTypeOK, Granted, CopyOK
<1>10. CASE UNCHANGED approvalVars
  BY <1>10 DEF approvalVars, ApprovalInv, ApprovalTypeOK, Granted, CopyOK
<1> QED
  BY <1>1, <1>2, <1>3, <1>4, <1>5, <1>6, <1>7, <1>8, <1>9, <1>10 DEF ApprovalNext

LEMMA ApprovalInvHolds == ApprovalSpec => []ApprovalInv
  BY ApprovalInitInv, ApprovalNextInv, PTL DEF ApprovalSpec

\* A request reported as executing, executed, failed or rolled back was approved by the user its
\* row names, for every number of overlapping calls (session_service.go ApproveSession,
\* MarkApprovalExecuting and the repository's Save of whole rows).
THEOREM ReportedWasGranted == ApprovalSpec => []ExecutedWasGranted
<1>1. ApprovalInv => ExecutedWasGranted
  BY DEF ApprovalInv, Granted, ExecutedWasGranted
<1> QED
  BY <1>1, ApprovalInvHolds, PTL

\* The step from the row to a copy that was read from it.
Declared(row, copy) ==
  \/ copy.status = row.status
  \/ CanTransitionTo(row.status, copy.status)
  \/ overdue /\ copy.status = "expired"

\* As long as nothing was saved over an open copy, each copy was read from the row there is.
MovesInv ==
  ~overlapped => \A c \in Calls : call[c] # NoApproval => approval # NoApproval /\ Declared(approval, call[c])

LEMMA MovesInitInv == ApprovalInit => MovesInv
  BY DEF ApprovalInit, MovesInv

LEMMA ReadKeepsMoves ==
  ASSUME ApprovalInv, MovesInv, NEW c \in Calls, NEW copy, ReadsApproval(c, copy),
         Declared(approval, copy)
  PROVE  MovesInv'
<1>1. /\ approval # NoApproval /\ call' = [call EXCEPT ![c] = copy]
      /\ UNCHANGED <<approval, overdue, overlapped>>
  BY DEF ReadsApproval
<1>2. call \in [Calls -> Approval \cup {NoApproval}]  BY DEF ApprovalInv, ApprovalTypeOK
<1> QED  BY <1>1, <1>2 DEF MovesInv, Declared

LEMMA CallsKeepMoves ==
  ASSUME ApprovalInv, MovesInv, NEW c \in Calls,
         \/ ApproveTooLate(c)
         \/ \E u \in Approvers : ApproveSession(c, u)
         \/ DenySession(c)
         \/ MarkApprovalExecuting(c)
         \/ MarkApprovalSucceeded(c)
         \/ MarkApprovalFailed(c)
         \/ MarkApprovalRolledBack(c)
  PROVE  MovesInv'
<1> USE DEF Declared, CanTransitionTo
<1>1. approval \in Approval
  BY DEF ApprovalInv, ApprovalTypeOK, ApproveTooLate, ApproveSession, DenySession,
         MarkApprovalExecuting, MarkApprovalSucceeded, MarkApprovalFailed, MarkApprovalRolledBack,
         MarkApproval, ReadsApproval
<1>2. CASE ApproveTooLate(c)  BY <1>1, <1>2, ReadKeepsMoves DEF ApproveTooLate
<1>3. ASSUME NEW u \in Approvers, ApproveSession(c, u) PROVE MovesInv'
  BY <1>1, <1>3, ReadKeepsMoves DEF ApproveSession, CanApprove
<1>4. CASE DenySession(c)  BY <1>1, <1>4, ReadKeepsMoves DEF DenySession, CanDeny
<1>5. CASE MarkApprovalExecuting(c)
  BY <1>1, <1>5, ReadKeepsMoves DEF MarkApprovalExecuting, MarkApproval
<1>6. CASE MarkApprovalSucceeded(c)
  BY <1>1, <1>6, ReadKeepsMoves DEF MarkApprovalSucceeded, MarkApproval
<1>7. CASE MarkApprovalFailed(c)
  BY <1>1, <1>7, ReadKeepsMoves DEF MarkApprovalFailed, MarkApproval
<1>8. CASE MarkApprovalRolledBack(c)
  BY <1>1, <1>8, ReadKeepsMoves DEF MarkApprovalRolledBack, MarkApproval
<1> QED  BY <1>2, <1>3, <1>4, <1>5, <1>6, <1>7, <1>8

\* What is saved without an overlap leaves no other copy open.
LEMMA SaveKeepsMoves ==
  ASSUME ApprovalInv, NEW c \in Calls, UpdateApproval(c)
  PROVE  MovesInv'
<1>1. call' = [call EXCEPT ![c] = NoApproval] /\ overlapped' = (overlapped \/ BusyCalls # {c})
  BY DEF UpdateApproval
<1>2. call \in [Calls -> Approval \cup {NoApproval}]  BY DEF ApprovalInv, ApprovalTypeOK
<1> QED  BY <1>1, <1>2 DEF MovesInv, BusyCalls

LEMMA MovesNextInv == ApprovalInv /\ MovesInv /\ [ApprovalNext]_approvalVars => MovesInv'
<1> SUFFICES ASSUME ApprovalInv, MovesInv, [ApprovalNext]_approvalVars PROVE MovesInv'
  OBVIOUS
<1>1. CASE CreateApprovalRequest  BY <1>1 DEF CreateApprovalRequest, MovesInv
<1>2. ASSUME NEW c \in Calls, UpdateApproval(c) PROVE MovesInv'  BY <1>2, SaveKeepsMoves
<1>3. ASSUME NEW c \in Calls, UpdateApprovalFails(c) PROVE MovesInv'
  BY <1>3 DEF ApprovalInv, ApprovalTypeOK, UpdateApprovalFails, MovesInv, Declared
<1>4. CASE WorkerExpiresApproval  BY <1>4 DEF WorkerExpiresApproval, MovesInv, BusyCalls
<1>5. CASE ApprovalLapses  BY <1>5 DEF ApprovalLapses, MovesInv, Declared
<1>6. CASE UNCHANGED approvalVars  BY <1>6 DEF approvalVars, MovesInv, Declared
<1> QED  BY <1>1, <1>2, <1>3, <1>4, <1>5, <1>6, CallsKeepMoves DEF ApprovalNext

\* The row moves by a save, which finishes a call, or by the workers.
LEMMA MovesShow ==
  ASSUME ApprovalInv, MovesInv, [ApprovalNext]_approvalVars,
         approval # NoApproval, approval'.status # approval.status, ~overlapped'
  PROVE  \/ CanTransitionTo(approval.status, approval'.status)
         \/ overdue /\ approval'.status = "expired"
<1>1. CASE \E c \in Calls : UpdateApproval(c)
  BY <1>1 DEF MovesInv, Declared, UpdateApproval
<1>2. CASE WorkerExpiresApproval
  <2>1. approval \in Approval  BY DEF ApprovalInv, ApprovalTypeOK
  <2> QED  BY <1>2, <2>1 DEF WorkerExpiresApproval
<1>3. CASE approval' = approval  BY <1>3
<1> QED
  BY <1>1, <1>2, <1>3
     DEF ApprovalNext, approvalVars, CreateApprovalRequest, ApproveTooLate, ApproveSession,
         DenySession, MarkApprovalExecuting, MarkApprovalSucceeded, MarkApprovalFailed,
         MarkApprovalRolledBack, MarkApproval, ReadsApproval, UpdateApprovalFails, ApprovalLapses

\* Calls that do not overlap move the row as CanTransitionTo declares, but for the expiry of an
\* overdue request (approval_request.go CanTransitionTo, session_service.go).
LEMMA ApprovalMoves == ApprovalSpec => MovesAsDeclared
<1>1. ApprovalInv /\ MovesInv /\ [ApprovalNext]_approvalVars =>
        [(approval # NoApproval /\ approval'.status # approval.status /\ ~overlapped')
           => \/ CanTransitionTo(approval.status, approval'.status)
              \/ overdue /\ approval'.status = "expired"]_approvalVars
  BY MovesShow
<1>2. ApprovalSpec => []MovesInv
  BY ApprovalInvHolds, MovesInitInv, MovesNextInv, PTL DEF ApprovalSpec
<1> QED  BY <1>1, <1>2, ApprovalInvHolds, PTL DEF ApprovalSpec, MovesAsDeclared
HIDE DEF StartedStatuses, ApprovalStatuses, Approval

------------------------------------------------------------------------------
(* File access: A file request that was sent is never open again, for any   *)
(* number of handlers and dispatches.  What is on its way, to the device,   *)
(* on it or back, shows that the request was sent, and no copy a handler    *)
(* holds is pending: once sent, nothing can bring a pending row back.       *)

OnTheWay == dispatches > 0 \/ onDevice > 0 \/ answering > 0 \/ wasFetched

Counters ==
  /\ sent \in Nat /\ dispatches \in Nat /\ onDevice \in Nat /\ answering \in Nat
  /\ wasFetched \in BOOLEAN

Holding == [does : {"approves", "denies", "expires", "answers"}, copy : FileRow]

HandlerOK(h) == handling[h] # Free => handling[h].copy.status # "pending"

FileInv ==
  /\ Counters
  /\ file \in FileRow \cup {NoRequest}
  /\ handling \in [Deciding -> Holding \cup {Free}]
  /\ \A h \in Deciding : HandlerOK(h)
  /\ OnTheWay => sent > 0
  /\ sent > 0 => ~IsPending

USE DEF FileRow, Holding, Counters, OnTheWay, IsPending

LEMMA FileInitInv == FileInit => FileInv
<1> SUFFICES ASSUME FileInit PROVE FileInv
  OBVIOUS
<1> USE DEF FileInit
<1>1. handling \in [Deciding -> Holding \cup {Free}] /\ \A h \in Deciding : HandlerOK(h)
  BY DEF HandlerOK
<1>2. ~OnTheWay
  OBVIOUS
<1>3. wasFetched \in BOOLEAN
  OBVIOUS
<1>4. /\ sent \in Nat /\ dispatches \in Nat /\ onDevice \in Nat /\ answering \in Nat
      /\ ~(sent > 0)
  OBVIOUS
<1> QED
  BY <1>1, <1>2, <1>3, <1>4 DEF FileInv

\* A handler reads a row and goes on with a copy that is decided.
LEMMA TakesKeepsInv ==
  ASSUME FileInv, NEW h \in Deciding, NEW does \in {"approves", "denies", "expires", "answers"},
         NEW row \in FileRow, row.status # "pending",
         handling' = [handling EXCEPT ![h] = [does |-> does, copy |-> row]],
         answering' \in Nat, answering' > 0 => sent > 0,
         UNCHANGED <<file, dispatches, onDevice, sent, wasFetched>>
  PROVE  FileInv'
<1>1. \A g \in Deciding : HandlerOK(g)'
  BY DEF FileInv, HandlerOK
<1> QED
  BY <1>1 DEF FileInv

\* A handler is through, and the row is one that was decided, or as it was.
LEMMA EndsKeepsInv ==
  ASSUME FileInv, NEW h \in Deciding, handling' = [handling EXCEPT ![h] = Free],
         file' \in FileRow \cup {NoRequest},
         file' = file \/ (file' \in FileRow /\ file'.status # "pending"),
         sent' \in Nat, dispatches' \in Nat,
         sent' # sent \/ dispatches' # dispatches => sent' > 0 /\ ~IsPending',
         UNCHANGED <<onDevice, answering, wasFetched>>
  PROVE  FileInv'
<1>1. \A g \in Deciding : HandlerOK(g)'
  BY DEF FileInv, HandlerOK
<1>2. sent' > 0 => ~IsPending'
  BY DEF FileInv
<1>3. OnTheWay' => sent' > 0
  BY DEF FileInv
<1> QED
  BY <1>1, <1>2, <1>3 DEF FileInv

LEMMA FileNextInv == FileInv /\ [FileNext]_fileVars => FileInv'
<1> SUFFICES ASSUME FileInv, [FileNext]_fileVars PROVE FileInv'
  OBVIOUS
<1>1. CASE CreateRequest
  <2>1. PICK status \in {"pending", "approved"} :
          /\ file' = [status |-> status, result |-> FALSE]
          /\ dispatches' = IF status = "approved" THEN 1 ELSE 0
    BY <1>1 DEF CreateRequest
  <2>2. sent' = dispatches' /\ UNCHANGED <<handling, onDevice, answering, wasFetched>> /\ sent = 0
    BY <1>1 DEF CreateRequest
  <2> QED
    BY <2>1, <2>2 DEF FileInv, HandlerOK
<1>2. CASE TimeIsOver
  BY <1>2 DEF FileInv, TimeIsOver, HandlerOK
<1>3. CASE ClearHistory
  BY <1>3 DEF FileInv, ClearHistory, HandlerOK
<1>4. CASE DispatchToDevice
  BY <1>4 DEF FileInv, DispatchToDevice, HandlerOK
<1>5. CASE FetchFile
  BY <1>5 DEF FileInv, FetchFile, HandlerOK
<1>6. ASSUME NEW h \in Deciding, NEW u \in FileApprovers, ReadToApprove(h, u) PROVE FileInv'
  <2>1. file \in FileRow
    BY <1>6 DEF ReadToApprove, FileInv
  <2>2. CASE fileOverdue
    BY <1>6, <2>1, <2>2, TakesKeepsInv DEF ReadToApprove, Takes, FileInv
  <2>3. CASE ~fileOverdue
    BY <1>6, <2>1, <2>3, TakesKeepsInv DEF ReadToApprove, Takes, FileInv
  <2> QED
    BY <2>2, <2>3
<1>7. ASSUME NEW h \in Deciding, ReadToDeny(h) PROVE FileInv'
  <2> DEFINE row == [file EXCEPT !.status = "denied"]
  <2>1. row \in FileRow /\ row.status # "pending"
    BY <1>7 DEF ReadToDeny, FileInv
  <2>2. Takes(h, "denies", row)
    BY <1>7 DEF ReadToDeny
  <2> HIDE DEF row
  <2> QED
    BY <2>1, <2>2, TakesKeepsInv DEF Takes, FileInv
<1>8. ASSUME NEW h \in Deciding, ReadToAnswer(h) PROVE FileInv'
  <2>1. answering' \in Nat /\ sent > 0
    BY <1>8 DEF ReadToAnswer, FileInv
  <2>2. CASE file = NoRequest
    BY <1>8, <2>1, <2>2 DEF ReadToAnswer, FileInv, HandlerOK
  <2>3. CASE file # NoRequest
    <3> DEFINE row == [file EXCEPT !.result = TRUE]
    <3>1. row \in FileRow /\ row.status # "pending"
      BY <2>1, <2>3 DEF FileInv
    <3>2. /\ handling' = [handling EXCEPT ![h] = [does |-> "answers", copy |-> row]]
          /\ UNCHANGED <<file, dispatches, onDevice, sent, wasFetched>>
      BY <1>8, <2>3 DEF ReadToAnswer
    <3> HIDE DEF row
    <3> QED
      BY <2>1, <3>1, <3>2, TakesKeepsInv
  <2> QED
    BY <2>2, <2>3
<1>9. ASSUME NEW h \in Deciding, SavesCopy(h)
      PROVE  /\ file' \in FileRow /\ file'.status # "pending"
             /\ handling' = [handling EXCEPT ![h] = Free]
             /\ UNCHANGED <<onDevice, answering, wasFetched>>
  BY <1>9 DEF SavesCopy, FileInv, HandlerOK
<1>10. ASSUME NEW h \in Deciding, SaveRequest(h) PROVE FileInv'
  BY <1>9, <1>10, EndsKeepsInv DEF SaveRequest, FileInv
<1>11. ASSUME NEW h \in Deciding, SaveApproved(h) PROVE FileInv'
  <2>1. SavesCopy(h) /\ sent' = sent + 1 /\ dispatches' = dispatches + 1
    BY <1>11 DEF SaveApproved
  <2>2. sent' \in Nat /\ dispatches' \in Nat /\ sent' > 0
    BY <2>1 DEF FileInv
  <2> QED
    BY <1>9, <2>1, <2>2, EndsKeepsInv
<1>12. ASSUME NEW h \in Deciding, SaveRequestFails(h) PROVE FileInv'
  BY <1>12, EndsKeepsInv DEF SaveRequestFails, FileInv
<1>13. CASE UNCHANGED fileVars
  BY <1>13 DEF fileVars, FileInv, HandlerOK
<1> QED
  BY <1>1, <1>2, <1>3, <1>4, <1>5, <1>6, <1>7, <1>8, <1>10, <1>11, <1>12, <1>13 DEF FileNext

\* A request that was sent to its device, or fetched there, is not open for a decision, however
\* handlers overlap and saves fail (file_access/service.go Approve, Deny, SetResult, ClearHistory).
THEOREM SentStaysDecided == FileSpec => []SentIsDecided
<1>1. FileInv => SentIsDecided
  BY DEF FileInv, SentIsDecided
<1> QED
  BY <1>1, FileInitInv, FileNextInv, PTL DEF FileSpec

HIDE DEF FileRow, Holding, Counters, OnTheWay, IsPending

------------------------------------------------------------------------------
(* Batch runs: A batch row claims no success that did not happen, for a     *)
(* group, a wave and a threshold of any size.  The invariant is a balance:  *)
(* the devices dispatched so far are those the run has counted and those    *)
(* of the wave it waits for, and those that succeeded, will answer late,    *)
(* or still belong to the wave are different devices among them.            *)

Places == {"none", "starts", "wave", "waits", "between", "closes", "ended"}
Rows == [status : BatchStatuses, completed : Nat, failed : Nat]
Runners == [at : Places, next : Nat, ok : Nat, bad : Nat]
Waves == [ok : Nat, bad : Nat, open : Nat]

BatchShapes ==
  /\ batchRow \in Rows
  /\ runner \in Runners
  /\ stop \in {"none", "open", "closed", "done"}
  /\ wave \in Waves
  /\ late \in Nat
  /\ succeeded \in Nat

\* No device is counted twice.
Balance ==
  /\ runner.next <= GroupSize
  /\ succeeded + late + wave.open <= runner.next
  /\ runner.ok + wave.ok <= succeeded

\* Where the run stands between two of its steps; once its context has ended it counts no more.
Between ==
  /\ runner.at \in {"none", "starts"} => runner.next = 0 /\ runner.ok = 0 /\ runner.bad = 0
  /\ runner.at \in {"none", "starts", "wave", "between"} => wave = NoWave
  /\ runner.at \in {"wave", "between"} => runner.next < GroupSize
  /\ runner.at \in {"wave", "between"} /\ stop # "done" => runner.ok + runner.bad = runner.next
  /\ runner.at = "waits" /\ stop # "done" =>
       runner.ok + runner.bad + wave.ok + wave.bad + wave.open = runner.next
  /\ runner.at = "closes" /\ stop # "done" /\ runner.bad = 0 => runner.ok = GroupSize

BatchInv == BatchShapes /\ Balance /\ Between /\ CountsAreTrue

USE BatchConstants

\* Two fields replaced at once.
LEMMA RowCounts ==
  ASSUME NEW row \in Rows, NEW x \in Nat, NEW y \in Nat
  PROVE  [row EXCEPT !.completed = x, !.failed = y] = [status |-> row.status, completed |-> x, failed |-> y]
<1> DEFINE c == [row EXCEPT !.completed = x]
<1>1. c = [status |-> row.status, completed |-> x, failed |-> row.failed] /\ c \in Rows
  BY DEF Rows
<1>2. [c EXCEPT !.failed = y] = [row EXCEPT !.completed = x, !.failed = y]
  OBVIOUS
<1> HIDE DEF c
<1>3. [c EXCEPT !.failed = y] = [status |-> c.status, completed |-> c.completed, failed |-> y]
  BY <1>1 DEF Rows
<1> QED
  BY <1>1, <1>2, <1>3

LEMMA RunnerDispatches ==
  ASSUME NEW r \in Runners, NEW x \in Places, NEW y \in Nat
  PROVE  [r EXCEPT !.at = x, !.next = y] = [at |-> x, next |-> y, ok |-> r.ok, bad |-> r.bad]
<1> DEFINE c == [r EXCEPT !.at = x]
<1>1. c = [at |-> x, next |-> r.next, ok |-> r.ok, bad |-> r.bad] /\ c \in Runners
  BY DEF Runners
<1>2. [c EXCEPT !.next = y] = [r EXCEPT !.at = x, !.next = y]
  OBVIOUS
<1> HIDE DEF c
<1>3. [c EXCEPT !.next = y] = [at |-> c.at, next |-> y, ok |-> c.ok, bad |-> c.bad]
  BY <1>1 DEF Runners
<1> QED
  BY <1>1, <1>2, <1>3

LEMMA RunnerFails ==
  ASSUME NEW r \in Runners, NEW x \in Places, NEW y \in Nat
  PROVE  [r EXCEPT !.at = x, !.bad = y] = [at |-> x, next |-> r.next, ok |-> r.ok, bad |-> y]
<1> DEFINE c == [r EXCEPT !.at = x]
<1>1. c = [at |-> x, next |-> r.next, ok |-> r.ok, bad |-> r.bad] /\ c \in Runners
  BY DEF Runners
<1>2. [c EXCEPT !.bad = y] = [r EXCEPT !.at = x, !.bad = y]
  OBVIOUS
<1> HIDE DEF c
<1>3. [c EXCEPT !.bad = y] = [at |-> c.at, next |-> c.next, ok |-> c.ok, bad |-> y]
  BY <1>1 DEF Runners
<1> QED
  BY <1>1, <1>2, <1>3

LEMMA RunnerCounts ==
  ASSUME NEW r \in Runners, NEW x \in Nat, NEW y \in Nat, NEW a \in Places
  PROVE  /\ [r EXCEPT !.ok = x, !.bad = y, !.at = a]
              = [at |-> a, next |-> r.next, ok |-> x, bad |-> y]
         /\ [r EXCEPT !.at = a, !.ok = x, !.bad = y]
              = [at |-> a, next |-> r.next, ok |-> x, bad |-> y]
<1> DEFINE c == [r EXCEPT !.ok = x]
           d == [r EXCEPT !.at = a]
<1>1. /\ c = [at |-> r.at, next |-> r.next, ok |-> x, bad |-> r.bad] /\ c \in Runners
      /\ d = [at |-> a, next |-> r.next, ok |-> r.ok, bad |-> r.bad] /\ d \in Runners
  BY DEF Runners
<1>2. /\ [c EXCEPT !.bad = y, !.at = a] = [r EXCEPT !.ok = x, !.bad = y, !.at = a]
      /\ [d EXCEPT !.ok = x, !.bad = y] = [r EXCEPT !.at = a, !.ok = x, !.bad = y]
  OBVIOUS
<1> HIDE DEF c, d
<1>3. [c EXCEPT !.bad = y, !.at = a] = [at |-> a, next |-> c.next, ok |-> c.ok, bad |-> y]
  <2> DEFINE e == [c EXCEPT !.bad = y]
  <2>1. e = [at |-> c.at, next |-> c.next, ok |-> c.ok, bad |-> y] /\ e \in Runners
    BY <1>1 DEF Runners
  <2>2. [e EXCEPT !.at = a] = [c EXCEPT !.bad = y, !.at = a]
    OBVIOUS
  <2> HIDE DEF e
  <2>3. [e EXCEPT !.at = a] = [at |-> a, next |-> e.next, ok |-> e.ok, bad |-> e.bad]
    BY <2>1 DEF Runners
  <2> QED
    BY <2>1, <2>2, <2>3
<1>4. [d EXCEPT !.ok = x, !.bad = y] = [at |-> d.at, next |-> d.next, ok |-> x, bad |-> y]
  <2> DEFINE e == [d EXCEPT !.ok = x]
  <2>1. e = [at |-> d.at, next |-> d.next, ok |-> x, bad |-> d.bad] /\ e \in Runners
    BY <1>1 DEF Runners
  <2>2. [e EXCEPT !.bad = y] = [d EXCEPT !.ok = x, !.bad = y]
    OBVIOUS
  <2> HIDE DEF e
  <2>3. [e EXCEPT !.bad = y] = [at |-> e.at, next |-> e.next, ok |-> e.ok, bad |-> y]
    BY <2>1 DEF Runners
  <2> QED
    BY <2>1, <2>2, <2>3
<1> QED
  BY <1>1, <1>2, <1>3, <1>4

LEMMA WaveSucceeds ==
  ASSUME NEW w \in Waves, NEW x \in Nat, NEW y \in Nat
  PROVE  [w EXCEPT !.open = x, !.ok = y] = [ok |-> y, bad |-> w.bad, open |-> x]
<1> DEFINE c == [w EXCEPT !.open = x]
<1>1. c = [ok |-> w.ok, bad |-> w.bad, open |-> x] /\ c \in Waves
  BY DEF Waves
<1>2. [c EXCEPT !.ok = y] = [w EXCEPT !.open = x, !.ok = y]
  OBVIOUS
<1> HIDE DEF c
<1>3. [c EXCEPT !.ok = y] = [ok |-> y, bad |-> c.bad, open |-> c.open]
  BY <1>1 DEF Waves
<1> QED
  BY <1>1, <1>2, <1>3

LEMMA WaveFails ==
  ASSUME NEW w \in Waves, NEW x \in Nat, NEW y \in Nat
  PROVE  [w EXCEPT !.open = x, !.bad = y] = [ok |-> w.ok, bad |-> y, open |-> x]
<1> DEFINE c == [w EXCEPT !.open = x]
<1>1. c = [ok |-> w.ok, bad |-> w.bad, open |-> x] /\ c \in Waves
  BY DEF Waves
<1>2. [c EXCEPT !.bad = y] = [w EXCEPT !.open = x, !.bad = y]
  OBVIOUS
<1> HIDE DEF c
<1>3. [c EXCEPT !.bad = y] = [ok |-> c.ok, bad |-> y, open |-> c.open]
  BY <1>1 DEF Waves
<1> QED
  BY <1>1, <1>2, <1>3

USE DEF Rows, Runners, Waves, Places

LEMMA BatchInitInv == BatchInit => BatchInv
  BY DEF BatchInit, BatchInv, BatchShapes, Balance, Between, CountsAreTrue, NoWave, BatchStatuses

LEMMA WaveSizeFits ==
  ASSUME BatchShapes, runner.next < GroupSize
  PROVE  WaveSize \in Nat \ {0} /\ runner.next + WaveSize <= GroupSize
  BY DEF WaveSize, BatchShapes

\* A save that claims no more than what succeeded keeps the row true.
LEMMA SavesKeepTrue ==
  ASSUME BatchInv, UNCHANGED succeeded,
         NEW status \in BatchStatuses, NEW ok \in Nat, NEW bad \in Nat,
         Saves([status |-> status, completed |-> ok, failed |-> bad]),
         stop # "done" => ok <= succeeded /\ (status = "completed" => succeeded = GroupSize)
  PROVE  /\ batchRow' \in Rows
         /\ CountsAreTrue'
<1> DEFINE r == [status |-> status, completed |-> ok, failed |-> bad]
<1>1. CASE stop # "done" /\ batchRow' = r
  BY <1>1 DEF CountsAreTrue
<1>2. CASE UNCHANGED batchRow
  BY <1>2 DEF BatchInv, BatchShapes, CountsAreTrue
<1> QED
  BY <1>1, <1>2 DEF Saves

LEMMA CreateKeepsInv == ASSUME BatchInv, CreateBatchTask PROVE BatchInv'
<1> USE DEF CreateBatchTask
<1>1. BatchShapes' /\ runner'.at # "none"
  BY DEF BatchInv, BatchShapes, BatchStatuses
<1>2. runner'.next = 0 /\ runner'.ok = 0 /\ runner'.bad = 0 /\ runner'.at \in {"starts", "ended"}
  BY DEF BatchInv, BatchShapes, Between
<1>3. Balance' /\ Between'
  BY <1>1, <1>2 DEF BatchInv, BatchShapes, Balance, Between, NoWave
<1>4. CountsAreTrue'
  BY DEF BatchInv, BatchShapes, CountsAreTrue
<1> QED
  BY <1>1, <1>3, <1>4 DEF BatchInv

LEMMA CancelKeepsInv == ASSUME BatchInv, CancelBatch \/ ContextEnds PROVE BatchInv'
  BY DEF BatchInv, CancelBatch, ContextEnds, BatchShapes, Balance, Between, CountsAreTrue

LEMMA StartKeepsInv == ASSUME BatchInv, StartRun PROVE BatchInv'
<1> USE DEF StartRun
<1>0. /\ runner.at = "starts" /\ runner.next = 0 /\ runner.ok = 0 /\ runner.bad = 0
      /\ wave = NoWave /\ UNCHANGED <<wave, late, succeeded>>
  BY DEF BatchInv, Between
<1>1. CASE /\ Saves([batchRow EXCEPT !.status = "running"]) /\ stop # "done"
           /\ runner' = [runner EXCEPT !.at = "wave"] /\ UNCHANGED stop
  <2>1. [batchRow EXCEPT !.status = "running"]
          = [status |-> "running", completed |-> batchRow.completed, failed |-> batchRow.failed]
    BY DEF BatchInv, BatchShapes
  <2>2. /\ batchRow' \in Rows
        /\ CountsAreTrue'
    <3> DEFINE c == batchRow.completed
               f == batchRow.failed
    <3>1. c \in Nat /\ f \in Nat /\ c <= succeeded
      BY DEF BatchInv, BatchShapes, CountsAreTrue
    <3>2. "running" \in BatchStatuses
      BY DEF BatchStatuses
    <3>3. Saves([status |-> "running", completed |-> c, failed |-> f])
      BY <1>1, <2>1
    <3> HIDE DEF c, f
    <3> QED
      BY <1>0, <3>1, <3>2, <3>3, SavesKeepTrue
  <2>3. BatchShapes' /\ Balance' /\ Between'
    BY <1>0, <1>1, <2>2 DEF BatchInv, BatchShapes, Balance, Between, NoWave
  <2> QED
    BY <2>2, <2>3 DEF BatchInv
<1>2. CASE Final("failed", 0, 0) /\ runner' = [runner EXCEPT !.at = "ended"]
  <2>1. /\ batchRow' \in Rows
        /\ CountsAreTrue'
    BY <1>0, <1>2, SavesKeepTrue DEF Final, BatchStatuses, BatchInv, BatchShapes
  <2>2. BatchShapes' /\ Balance' /\ Between'
    BY <1>0, <1>2, <2>1 DEF Final, BatchInv, BatchShapes, Balance, Between
  <2> QED
    BY <2>1, <2>2 DEF BatchInv
<1>3. CASE runner' = [runner EXCEPT !.at = "ended"] /\ UNCHANGED <<batchRow, stop>>
  BY <1>0, <1>3 DEF BatchInv, BatchShapes, Balance, Between, CountsAreTrue
<1> QED
  BY <1>1, <1>2, <1>3

LEMMA StopsKeepsInv == ASSUME BatchInv, StopsRun PROVE BatchInv'
  BY DEF StopsRun, Final, Saves, BatchInv, BatchShapes, Balance, Between, CountsAreTrue

LEMMA DispatchKeepsInv == ASSUME BatchInv, DispatchWave PROVE BatchInv'
<1> USE DEF DispatchWave
<1>1. WaveSize \in Nat \ {0} /\ runner.next + WaveSize <= GroupSize
  BY WaveSizeFits DEF BatchInv, Between
<1>2. runner' = [at |-> "waits", next |-> runner.next + WaveSize,
                 ok |-> runner.ok, bad |-> runner.bad]
  <2>1. runner.next + WaveSize \in Nat /\ "waits" \in Places /\ runner \in Runners
    BY <1>1 DEF BatchInv, BatchShapes
  <2> QED
    BY <2>1, RunnerDispatches
<1>3. wave = NoWave /\ wave' = [ok |-> 0, bad |-> 0, open |-> WaveSize]
  BY DEF BatchInv, Between, NoWave
<1> QED
  BY <1>1, <1>2, <1>3 DEF BatchInv, BatchShapes, Balance, Between, CountsAreTrue, NoWave

LEMMA DispatchFailsKeepsInv == ASSUME BatchInv, DispatchWaveFails PROVE BatchInv'
<1> USE DEF DispatchWaveFails
<1> DEFINE bad == runner.bad + WaveSize
<1>1. WaveSize \in Nat \ {0}
  BY WaveSizeFits DEF BatchInv, Between
<1>2. /\ batchRow' \in Rows
      /\ CountsAreTrue'
  <2>1. [batchRow EXCEPT !.completed = runner.ok, !.failed = bad]
          = [status |-> batchRow.status, completed |-> runner.ok, failed |-> bad]
    <3>1. batchRow \in Rows /\ runner.ok \in Nat /\ bad \in Nat
      BY <1>1 DEF BatchInv, BatchShapes
    <3> QED
      BY <3>1, RowCounts
  <2>2. /\ batchRow.status \in BatchStatuses /\ runner.ok \in Nat /\ bad \in Nat
        /\ runner.ok <= succeeded /\ (batchRow.status = "completed" => succeeded = GroupSize)
    BY <1>1 DEF BatchInv, BatchShapes, Balance, CountsAreTrue
  <2> QED
    BY <2>1, <2>2, SavesKeepTrue
<1>3. runner' = [at |-> "closes", next |-> runner.next, ok |-> runner.ok, bad |-> bad]
  <2>1. bad \in Nat /\ "closes" \in Places /\ runner \in Runners
    BY <1>1 DEF BatchInv, BatchShapes
  <2> QED
    BY <2>1, RunnerFails
<1>4. BatchShapes' /\ Balance' /\ Between'
  BY <1>1, <1>2, <1>3 DEF BatchInv, BatchShapes, Balance, Between
<1> QED
  BY <1>2, <1>4 DEF BatchInv

LEMMA DelayKeepsInv == ASSUME BatchInv, InterBatchDelay PROVE BatchInv'
  BY DEF InterBatchDelay, BatchInv, BatchShapes, Balance, Between, CountsAreTrue

\* What a wave may add to the totals.
LEMMA WaveResultsFit ==
  ASSUME BatchShapes, NEW r \in WaveResults
  PROVE  /\ r.ok \in Nat /\ r.bad \in Nat /\ r.ok <= wave.ok
         /\ stop # "done" => r.ok + r.bad = wave.ok + wave.bad + wave.open
  BY DEF WaveResults, BatchShapes

LEMMA WaveEndsKeepsInv == ASSUME BatchInv, WaveEnds PROVE BatchInv'
<1>0. PICK r \in WaveResults :
        LET ok == runner.ok + r.ok
            bad == runner.bad + r.bad
        IN IF BelowThreshold(ok, bad)
           THEN /\ Final("paused", ok, bad)
                /\ runner' = [runner EXCEPT !.at = "ended", !.ok = ok, !.bad = bad]
           ELSE /\ Saves([batchRow EXCEPT !.completed = ok, !.failed = bad])
                /\ runner' = [runner EXCEPT !.ok = ok, !.bad = bad,
                               !.at = IF runner.next < GroupSize THEN "between" ELSE "closes"]
                /\ UNCHANGED stop
  BY DEF WaveEnds
<1> DEFINE ok == runner.ok + r.ok
           bad == runner.bad + r.bad
<1>1. runner.at = "waits" /\ wave' = NoWave /\ late' = late + wave.open /\ UNCHANGED succeeded
  BY DEF WaveEnds
<1>2. /\ ok \in Nat /\ bad \in Nat /\ ok <= succeeded
      /\ stop # "done" => ok + bad = runner.next
  BY <1>1, WaveResultsFit DEF BatchInv, BatchShapes, Balance, Between
<1>3. CASE BelowThreshold(ok, bad)
  <2>1. Final("paused", ok, bad)
        /\ runner' = [runner EXCEPT !.at = "ended", !.ok = ok, !.bad = bad]
    BY <1>0, <1>3
  <2> HIDE DEF ok, bad
  <2>2. /\ batchRow' \in Rows
        /\ CountsAreTrue'
    BY <1>1, <1>2, <2>1, SavesKeepTrue DEF Final, BatchStatuses
  <2>3. runner' = [at |-> "ended", next |-> runner.next, ok |-> ok, bad |-> bad]
    <3>1. runner \in Runners /\ "ended" \in Places
      BY DEF BatchInv, BatchShapes
    <3> QED
      BY <1>2, <2>1, <3>1, RunnerCounts
  <2>4. BatchShapes' /\ Balance' /\ Between'
    BY <1>1, <1>2, <2>1, <2>2, <2>3 DEF Final, BatchInv, BatchShapes, Balance, Between, NoWave
  <2> QED
    BY <2>2, <2>4 DEF BatchInv
<1>4. CASE ~BelowThreshold(ok, bad)
  <2>1. /\ Saves([batchRow EXCEPT !.completed = ok, !.failed = bad])
        /\ runner' = [runner EXCEPT !.ok = ok, !.bad = bad,
                       !.at = IF runner.next < GroupSize THEN "between" ELSE "closes"]
        /\ UNCHANGED stop
    BY <1>0, <1>4
  <2> HIDE DEF ok, bad
  <2>2. /\ batchRow' \in Rows
        /\ CountsAreTrue'
    <3>1. [batchRow EXCEPT !.completed = ok, !.failed = bad]
            = [status |-> batchRow.status, completed |-> ok, failed |-> bad]
      <4>1. batchRow \in Rows
        BY DEF BatchInv, BatchShapes
      <4> QED
        BY <1>2, <4>1, RowCounts
    <3>2. /\ batchRow.status \in BatchStatuses
          /\ batchRow.status = "completed" => succeeded = GroupSize
      BY DEF BatchInv, BatchShapes, CountsAreTrue
    <3> QED
      BY <1>1, <1>2, <2>1, <3>1, <3>2, SavesKeepTrue
  <2>3. runner' = [at |-> IF runner.next < GroupSize THEN "between" ELSE "closes",
                   next |-> runner.next, ok |-> ok, bad |-> bad]
    <3> DEFINE at == IF runner.next < GroupSize THEN "between" ELSE "closes"
    <3>1. runner \in Runners /\ at \in Places
      BY DEF BatchInv, BatchShapes
    <3>2. runner' = [runner EXCEPT !.ok = ok, !.bad = bad, !.at = at]
      BY <2>1
    <3> HIDE DEF at
    <3>3. runner' = [at |-> at, next |-> runner.next, ok |-> ok, bad |-> bad]
      BY <1>2, <3>1, <3>2, RunnerCounts
    <3> QED
      BY <3>3 DEF at
  <2>4. BatchShapes'
    <3>1. runner' \in Runners
      BY <1>2, <2>3 DEF BatchInv, BatchShapes
    <3>2. wave' \in Waves /\ late' \in Nat /\ succeeded' \in Nat
      BY <1>1 DEF BatchInv, BatchShapes, NoWave
    <3> QED
      BY <2>1, <2>2, <3>1, <3>2 DEF BatchInv, BatchShapes
  <2>5. Balance'
    BY <1>1, <1>2, <2>3 DEF BatchInv, BatchShapes, Balance, NoWave
  <2>6. Between'
    BY <1>1, <1>2, <2>1, <2>3 DEF BatchInv, BatchShapes, Balance, Between
  <2> QED
    BY <2>2, <2>4, <2>5, <2>6 DEF BatchInv
<1> QED
  BY <1>3, <1>4

LEMMA CloseKeepsInv == ASSUME BatchInv, CloseRun PROVE BatchInv'
<1> USE DEF CloseRun
<1> DEFINE status ==
      IF runner.bad = 0 THEN "completed" ELSE IF runner.ok > 0 THEN "partial_done" ELSE "failed"
<1>1. /\ batchRow' \in Rows
      /\ CountsAreTrue'
  <2>1. status \in BatchStatuses /\ runner.ok \in Nat /\ runner.bad \in Nat
    BY DEF BatchStatuses, BatchInv, BatchShapes
  <2>2. stop # "done" =>
          runner.ok <= succeeded /\ (status = "completed" => succeeded = GroupSize)
    BY DEF BatchInv, BatchShapes, Balance, Between
  <2>3. Saves([status |-> status, completed |-> runner.ok, failed |-> runner.bad])
    BY DEF Final
  <2> HIDE DEF status
  <2> QED
    BY <2>1, <2>2, <2>3, SavesKeepTrue
<1>2. BatchShapes' /\ Balance' /\ Between'
  BY <1>1 DEF Final, BatchInv, BatchShapes, Balance, Between
<1> QED
  BY <1>1, <1>2 DEF BatchInv

LEMMA LostKeepsInv == ASSUME BatchInv, RunIsLost PROVE BatchInv'
  BY DEF RunIsLost, BatchInv, BatchShapes, Balance, Between, CountsAreTrue, NoWave

\* A device that answers moves from the open ones to the others; a claim once true stays true,
\* because no more than GroupSize devices can succeed.
LEMMA AnswerKeepsInv == ASSUME BatchInv, DeviceAnswers PROVE BatchInv'
<1> USE DEF DeviceAnswers
<1>1. runner.at \in {"waits", "closes", "ended"}
  BY DEF BatchInv, BatchShapes, Between, NoWave
<1>2. wave \in Waves /\ wave.open > 0 /\ wave.open - 1 \in Nat /\ wave.ok + 1 \in Nat
      /\ wave.bad + 1 \in Nat
  BY DEF BatchInv, BatchShapes
<1>3. \/ /\ wave' = [ok |-> wave.ok + 1, bad |-> wave.bad, open |-> wave.open - 1]
         /\ succeeded' = succeeded + 1
      \/ /\ wave' = [ok |-> wave.ok, bad |-> wave.bad + 1, open |-> wave.open - 1]
         /\ succeeded' = succeeded
  BY <1>2, WaveSucceeds, WaveFails
<1>4. BatchShapes'
  BY <1>2, <1>3 DEF BatchInv, BatchShapes
<1>5. Balance'
  BY <1>2, <1>3 DEF BatchInv, BatchShapes, Balance
<1>6. Between'
  BY <1>1, <1>2, <1>3 DEF BatchInv, BatchShapes, Between
<1>7. CountsAreTrue'
  BY <1>3, <1>4, <1>5 DEF BatchInv, BatchShapes, Balance, CountsAreTrue
<1> QED
  BY <1>4, <1>5, <1>6, <1>7 DEF BatchInv

LEMMA LateAnswerKeepsInv == ASSUME BatchInv, DeviceAnswersLate PROVE BatchInv'
  BY DEF DeviceAnswersLate, BatchInv, BatchShapes, Balance, Between, CountsAreTrue

LEMMA BatchNextInv == BatchInv /\ [BatchNext]_batchVars => BatchInv'
<1> SUFFICES ASSUME BatchInv, [BatchNext]_batchVars PROVE BatchInv'
  OBVIOUS
<1>1. CASE UNCHANGED batchVars
  BY <1>1 DEF batchVars, BatchInv, BatchShapes, Balance, Between, CountsAreTrue
<1>2. CASE BatchNext
  BY <1>2, CreateKeepsInv, CancelKeepsInv, StartKeepsInv, StopsKeepsInv, DispatchKeepsInv,
     DispatchFailsKeepsInv, DelayKeepsInv, WaveEndsKeepsInv, CloseKeepsInv, LostKeepsInv,
     AnswerKeepsInv, LateAnswerKeepsInv DEF BatchNext
<1> QED
  BY <1>1, <1>2

\* However a run is cancelled, overdue, refused by the database or lost, its row never claims a
\* success that did not happen (batch_service.go:192-231, 240-277).
THEOREM CountsStayTrue == BatchSpec => []CountsAreTrue
<1>1. BatchInv => CountsAreTrue
  BY DEF BatchInv
<1> QED
  BY BatchInitInv, BatchNextInv, <1>1, PTL DEF BatchSpec

HIDE BatchConstants DEF Rows, Runners, Waves, Places

------------------------------------------------------------------------------
(* Bindings: DeviceBinding implements BindingLife for each device code,     *)
(* whatever overlaps or fails, for any number of devices, packages and      *)
(* requests. Every statement is mapped to a step of the life of the code    *)
(* it is made for, or to none; the invariant only says what rows and        *)
(* requests are.                                                            *)

BindingRow == [package : Packages, status : {"active", "revoked"}]

\* A request that will write a binding names its device, and the package it will name there.
RequestOK(req) ==
  req # Nothing =>
    /\ req.step \in {"create", "move", "revoke"} => req.dev \in Devices
    /\ req.step \in {"create", "move"} => req.to \in Packages

LifeInv ==
  /\ binding \in [Devices -> BindingRow \cup {Nothing}]
  /\ package \subseteq Packages
  /\ request \in [Requests -> Request \cup {Nothing}]
  /\ \A r \in Requests : RequestOK(request[r])

LifeStep == \A d \in Devices : [Life(d)!LifeNext]_(StatusOf(d))

USE DEF BindingRow

LEMMA LifeInitInv == BindingInit => LifeInv
  BY DEF BindingInit, LifeInv, RequestOK

-----------------------------------------------------------------------------
\* Requests come and go on; only what follows changes a binding.

LEMMA BeginKeepsInv ==
  ASSUME LifeInv, NEW r \in Requests, NEW req \in Request, RequestOK(req), Begins(r, req)
  PROVE  LifeInv' /\ binding' = binding
  BY DEF LifeInv, Begins, RequestOK

LEMMA EndKeepsInv ==
  ASSUME LifeInv, NEW r \in Requests, Ends(r), package' \subseteq Packages,
         binding' \in [Devices -> BindingRow \cup {Nothing}]
  PROVE  LifeInv'
  BY DEF LifeInv, Ends, RequestOK

LEMMA GoKeepsInv ==
  ASSUME LifeInv, NEW r \in Requests, request[r] # Nothing,
         NEW step \in CallSteps \ {"create", "move", "revoke"}, Goes(r, step),
         package' = package, binding' \in [Devices -> BindingRow \cup {Nothing}]
  PROVE  LifeInv'
<1>1. request[r] \in Request
  BY DEF LifeInv
<1>2. request' \in [Requests -> Request \cup {Nothing}] /\ RequestOK(request'[r])
  BY <1>1 DEF LifeInv, Goes, Request, RequestOK
<1>3. \A o \in Requests : RequestOK(request'[o])
  BY <1>2 DEF LifeInv, Goes
<1> QED
  BY <1>2, <1>3 DEF LifeInv, RequestOK

LEMMA SameBinding == binding' = binding => LifeStep
  BY DEF LifeStep, StatusOf

-----------------------------------------------------------------------------
\* The four statements that change bindings.

LEMMA CreateIsBind ==
  ASSUME LifeInv, NEW r \in Requests, CreateBinding(r)
  PROVE  LifeInv' /\ LifeStep
<1> DEFINE dev == request[r].dev
           row == [package |-> request[r].to, status |-> "active"]
<1>1. dev \in Devices /\ row \in BindingRow /\ row.status = "active"
  BY DEF LifeInv, RequestOK, CreateBinding
<1>2. binding[dev] = Nothing /\ binding' = [binding EXCEPT ![dev] = row]
  BY DEF CreateBinding
<1> HIDE DEF dev, row
<1>3. binding' \in [Devices -> BindingRow \cup {Nothing}]
  BY <1>1, <1>2 DEF LifeInv
<1>4. LifeInv'
  BY <1>3, GoKeepsInv DEF CreateBinding, CallSteps
<1>5. ASSUME NEW d \in Devices PROVE [Life(d)!LifeNext]_(StatusOf(d))
  BY <1>1, <1>2 DEF LifeInv, StatusOf, Life!LifeNext, Life!Bind
<1> QED
  BY <1>4, <1>5 DEF LifeStep

LEMMA RevokeIsUnbind ==
  ASSUME LifeInv, NEW r \in Requests, RevokeBinding(r)
  PROVE  LifeInv' /\ LifeStep
<1> DEFINE dev == request[r].dev
<1>1. dev \in Devices
  BY DEF LifeInv, RequestOK, RevokeBinding
<1>2. binding' = [binding EXCEPT ![dev] =
                    IF @ = Nothing THEN @ ELSE [@ EXCEPT !.status = "revoked"]]
  BY DEF RevokeBinding
<1> HIDE DEF dev
<1>3. binding' \in [Devices -> BindingRow \cup {Nothing}]
  BY <1>1, <1>2 DEF LifeInv
<1>4. LifeInv'
  BY <1>3, GoKeepsInv DEF RevokeBinding, CallSteps
<1>5. ASSUME NEW d \in Devices PROVE [Life(d)!LifeNext]_(StatusOf(d))
  <2>1. CASE d = dev /\ binding[d] # Nothing
    <3>1. binding[d] \in BindingRow /\ binding'[d] = [binding[d] EXCEPT !.status = "revoked"]
      BY <1>1, <1>2, <2>1 DEF LifeInv
    <3>2. binding[d].status \in {"active", "revoked"} /\ binding'[d].status = "revoked"
      BY <3>1
    <3>3. StatusOf(d) = binding[d].status
      BY <2>1 DEF StatusOf
    <3>4. StatusOf(d)' \in {"none", "revoked"}
      BY <3>2 DEF StatusOf
    <3> QED
      BY <3>2, <3>3, <3>4 DEF Life!LifeNext, Life!Unbind, Life!Purge
  <2>2. CASE d # dev \/ binding[d] = Nothing
    BY <1>1, <1>2, <2>2 DEF LifeInv, StatusOf
  <2> QED
    BY <2>1, <2>2
<1> QED
  BY <1>4, <1>5 DEF LifeStep

\* A migration leaves the life of its binding as it is.
LEMMA MoveIsNothing ==
  ASSUME LifeInv, NEW r \in Requests, UpdateBindingPackage(r)
  PROVE  LifeInv' /\ LifeStep
<1> DEFINE dev == request[r].dev
           to == request[r].to
<1>1. dev \in Devices /\ to \in Packages
  BY DEF LifeInv, RequestOK, UpdateBindingPackage
<1>2. binding' = [binding EXCEPT ![dev] =
                    IF @ = Nothing THEN @ ELSE [@ EXCEPT !.package = to]]
  BY DEF UpdateBindingPackage
<1> HIDE DEF dev, to
<1>0. Nothing \notin BindingRow
  BY BindingConstants
<1>3. binding' \in [Devices -> BindingRow \cup {Nothing}]
  BY <1>1, <1>2 DEF LifeInv
<1>4. LifeInv'
  BY <1>3, GoKeepsInv DEF UpdateBindingPackage, CallSteps
<1>5. ASSUME NEW d \in Devices PROVE [Life(d)!LifeNext]_(StatusOf(d))
  <2>1. CASE d = dev /\ binding[d] # Nothing
    <3>1. binding[d] \in BindingRow /\ binding'[d] = [binding[d] EXCEPT !.package = to]
      BY <1>1, <1>2, <2>1 DEF LifeInv
    <3>2. binding'[d] \in BindingRow /\ binding'[d].status = binding[d].status
      BY <1>1, <3>1
    <3> QED
      BY <1>0, <2>1, <3>2 DEF StatusOf
  <2>2. CASE d # dev \/ binding[d] = Nothing
    BY <1>1, <1>2, <2>2 DEF LifeInv, StatusOf
  <2> QED
    BY <2>1, <2>2
<1> QED
  BY <1>4, <1>5 DEF LifeStep

LEMMA DeleteIsPurge ==
  ASSUME LifeInv, NEW r \in Requests, DeleteByPackage(r)
  PROVE  LifeInv' /\ LifeStep
<1> DEFINE from == request[r].from
<1>1. binding' = [d \in Devices |->
         IF binding[d] # Nothing /\ binding[d].package = from THEN Nothing ELSE binding[d]]
  BY DEF DeleteByPackage
<1> HIDE DEF from
<1>2. binding' \in [Devices -> BindingRow \cup {Nothing}]
  BY <1>1 DEF LifeInv
<1>3. LifeInv'
  BY <1>2, GoKeepsInv DEF DeleteByPackage, CallSteps
<1>4. ASSUME NEW d \in Devices PROVE [Life(d)!LifeNext]_(StatusOf(d))
  BY <1>1 DEF LifeInv, StatusOf, Life!LifeNext, Life!Purge
<1> QED
  BY <1>3, <1>4 DEF LifeStep

-----------------------------------------------------------------------------

LEMMA BindingNextLife ==
  ASSUME LifeInv, [BindingNext]_bindingVars
  PROVE  LifeInv' /\ LifeStep
<1>1. ASSUME NEW d \in Devices, RegisterDevice(d) PROVE LifeInv' /\ LifeStep
  BY <1>1, SameBinding DEF RegisterDevice, LifeInv, RequestOK
<1>2. ASSUME NEW r \in Requests, NEW d \in Devices, NEW p \in Packages, ActivateAuto(r, d, p)
      PROVE  LifeInv' /\ LifeStep
  <2> DEFINE req == [step |-> "create", dev |-> d, from |-> Nothing, to |-> p]
  <2>1. req \in Request /\ RequestOK(req)
    BY DEF Request, CallSteps, RequestOK
  <2>2. Begins(r, req)
    BY <1>2 DEF ActivateAuto
  <2> QED
    BY <2>1, <2>2, BeginKeepsInv, SameBinding
<1>3. ASSUME NEW r \in Requests, NEW d \in Devices, NEW p \in Packages, Migrate(r, d, p)
      PROVE  LifeInv' /\ LifeStep
  <2> DEFINE req == [step |-> "move", dev |-> d, from |-> binding[d].package, to |-> p]
  <2>1. req \in Request /\ RequestOK(req)
    BY <1>3 DEF Request, CallSteps, RequestOK, Migrate, LifeInv
  <2>2. Begins(r, req)
    BY <1>3 DEF Migrate
  <2> QED
    BY <2>1, <2>2, BeginKeepsInv, SameBinding
<1>4. ASSUME NEW r \in Requests, NEW d \in Devices, UnbindDevice(r, d) PROVE LifeInv' /\ LifeStep
  <2> DEFINE req == [step |-> "revoke", dev |-> d, from |-> binding[d].package, to |-> Nothing]
  <2>1. req \in Request /\ RequestOK(req)
    BY <1>4 DEF Request, CallSteps, RequestOK, UnbindDevice, LifeInv
  <2>2. Begins(r, req)
    BY <1>4 DEF UnbindDevice
  <2> QED
    BY <2>1, <2>2, BeginKeepsInv, SameBinding
<1>5. ASSUME NEW r \in Requests, NEW p \in Packages, DeleteUnusedPackage(r, p)
      PROVE  LifeInv' /\ LifeStep
  <2> DEFINE req == [step |-> "purge", dev |-> Nothing, from |-> p, to |-> Nothing]
  <2>1. req \in Request /\ RequestOK(req)
    BY DEF Request, CallSteps, RequestOK
  <2>2. Begins(r, req)
    BY <1>5 DEF DeleteUnusedPackage
  <2> QED
    BY <2>1, <2>2, BeginKeepsInv, SameBinding
<1>6. ASSUME NEW r \in Requests,
             \/ CreateBindingDuplicate(r) \/ CountBinding(r) \/ UncountBinding(r)
             \/ EnterPackage(r) \/ RemovePackage(r)
      PROVE  LifeInv' /\ LifeStep
  <2>1. Ends(r) /\ binding' = binding /\ package' \subseteq package
    BY <1>6 DEF CreateBindingDuplicate, CountBinding, UncountBinding, EnterPackage, RemovePackage
  <2> QED
    BY <2>1, EndKeepsInv, SameBinding DEF LifeInv
<1>7. ASSUME NEW r \in Requests, LeavePackage(r) PROVE LifeInv' /\ LifeStep
  BY <1>7, GoKeepsInv, SameBinding DEF LeavePackage, LifeInv, CallSteps
<1>8. ASSUME NEW r \in Requests, CallFails(r) PROVE LifeInv' /\ LifeStep
  BY <1>8, GoKeepsInv, EndKeepsInv, SameBinding DEF CallFails, LifeInv, CallSteps
<1>9. ASSUME NEW p \in Packages, NEW q \in Quotas, UpdateMaxDevices(p, q)
      PROVE  LifeInv' /\ LifeStep
  BY <1>9, SameBinding DEF UpdateMaxDevices, LifeInv, RequestOK
<1>10. CASE UNCHANGED bindingVars
  BY <1>10, SameBinding DEF bindingVars, LifeInv, RequestOK
<1> QED
  BY <1>1, <1>2, <1>3, <1>4, <1>5, <1>6, <1>7, <1>8, <1>9, <1>10,
     CreateIsBind, RevokeIsUnbind, MoveIsNothing, DeleteIsPurge
     DEF BindingNext, BindManual

\* Every device code is bound at most once and, once unbound, stays so until its package is deleted
\* (device_binding_service.go bindDevice, Unbind, the migration of a heartbeat, and DeletePackage).
THEOREM BindingImplementsLife == BindingSpec => ImplementsLife
<1>1. BindingInit => \A d \in Devices : Life(d)!LifeInit
  BY DEF BindingInit, StatusOf, Life!LifeInit
<1>2. LifeInv /\ [BindingNext]_bindingVars => LifeInv' /\ LifeStep
  BY BindingNextLife
<1>3. LifeInv /\ [BindingNext]_bindingVars
        => [\A d \in Devices : [Life(d)!LifeNext]_(StatusOf(d))]_bindingVars
  BY <1>2 DEF LifeStep
<1> QED
  BY <1>1, <1>2, <1>3, LifeInitInv, PTL DEF BindingSpec, ImplementsLife


-----------------------------------------------------------------------------
(* The counts: while no statement failed and no device was dealt with       *)
(* twice at once, each request knows what it found, and the count of a      *)
(* package is that of the devices whose requests have counted them.         *)

ActiveIn(d, p) == IsActive(d) /\ binding[d].package = p

\* A request that has counted its device no longer, or not yet, with a package.
StillCounts(q, p) == q.step \in {"uncount", "leave"} /\ q.from = p
NotYetCounts(q, p) == q.step \in {"count", "leave", "enter"} /\ q.to = p

DealsWith(r, d) == request[r] # Nothing /\ request[r].dev = d

Counted(d, p) ==
  \/ \E r \in Requests : DealsWith(r, d) /\ StillCounts(request[r], p)
  \/ ActiveIn(d, p) /\ ~\E r \in Requests : DealsWith(r, d) /\ NotYetCounts(request[r], p)

CountedIn(p) == {d \in Devices : Counted(d, p)}

\* What a request under way may rely on.
FoundSo(q) ==
  /\ q.step \in {"purge", "remove"} =>
       q.dev = Nothing /\ \A d \in Devices : ~ActiveIn(d, q.from)
  /\ q.step \notin {"purge", "remove"} => q.dev \in Devices
  /\ q.step \in {"create", "uncount"} => ~IsActive(q.dev)
  /\ q.step \in {"count", "leave", "enter"} => q.to \in Packages /\ ActiveIn(q.dev, q.to)
  /\ q.step \in {"revoke", "move"} => ActiveIn(q.dev, q.from)
  /\ q.step \in {"move", "leave", "enter"} => q.to # q.from
  /\ q.step \in {"revoke", "uncount", "move", "leave"} => q.from \in Packages
  /\ q.step \in {"create", "move"} => q.to \in Packages

\* A device has one request, and the deletion of a package has no other beside it.
OneEach ==
  \A r, o \in Pending : r # o => request[r].dev # request[o].dev /\ request[r].dev # Nothing

CountsInv ==
  /\ LifeInv
  /\ bound \in [Packages -> Nat]
  /\ overlap # "same" /\ ~again =>
       /\ OneEach
       /\ \A r \in Pending : FoundSo(request[r])
       /\ \A p \in Packages : bound[p] = Cardinality(CountedIn(p))

\* Requests that come one after the other: the device that is about to be bound is looked ahead to.
ComingTo(p) ==
  {d \in Devices : \E r \in Requests :
     DealsWith(r, d) /\ request[r].step = "create" /\ request[r].to = p}

QuotaInv ==
  /\ quota \in [Packages -> Quotas]
  /\ \A r \in Pending : request[r].step = "move" => request[r].to \in movedTo
  /\ overlap = "none" => \A r, o \in Pending : r = o
  /\ overlap = "none" /\ ~again =>
       \A p \in Packages \ movedTo :
         \E q \in Quotas : Cardinality(BoundTo(p) \cup ComingTo(p)) <= q

LEMMA CountsInitInv == BindingInit => CountsInv
<1> SUFFICES ASSUME BindingInit PROVE CountsInv
  OBVIOUS
<1>1. Pending = {} /\ \A d \in Devices : ~IsActive(d)  BY DEF BindingInit, Pending, IsActive
<1>2. \A p \in Packages : CountedIn(p) = {}
  BY <1>1 DEF CountedIn, Counted, DealsWith, ActiveIn, Pending
<1>3. bound \in [Packages -> Nat] /\ \A p \in Packages : bound[p] = 0  BY DEF BindingInit
<1>4. \A p \in Packages : bound[p] = Cardinality(CountedIn(p))  BY <1>2, <1>3, FS_EmptySet
<1> QED  BY <1>1, <1>3, <1>4, LifeInitInv DEF CountsInv, OneEach

\* A step of one request is about its device: the others are counted as they were.
LEMMA OnlyItsDevice ==
  ASSUME LifeInv, OneEach, NEW r \in Pending, NEW q, request' = [request EXCEPT ![r] = q],
         NEW d \in Devices, d = request[r].dev, q = Nothing \/ q.dev = d,
         \A e \in Devices : e # d => binding'[e] = binding[e],
         NEW p
  PROVE  /\ \A e \in Devices : e # d => (Counted(e, p)' <=> Counted(e, p))
         /\ Counted(d, p) <=>
              \/ StillCounts(request[r], p)
              \/ ActiveIn(d, p) /\ ~NotYetCounts(request[r], p)
         /\ Counted(d, p)' <=>
              \/ q # Nothing /\ StillCounts(q, p)
              \/ ActiveIn(d, p)' /\ ~(q # Nothing /\ NotYetCounts(q, p))
<1>1. r \in Requests /\ request[r] # Nothing  BY DEF Pending
<1>2. \A o \in Requests : o # r => request'[o] = request[o]  BY DEF LifeInv
<1>3. request'[r] = q  BY <1>1 DEF LifeInv
<1>4. \A o \in Requests : o # r => ~DealsWith(o, d) /\ ~DealsWith(o, d)'
  BY <1>1, <1>2 DEF OneEach, DealsWith, Pending
<1>5. ASSUME NEW e \in Devices, e # d PROVE Counted(e, p)' <=> Counted(e, p)
  <2>1. ActiveIn(e, p)' <=> ActiveIn(e, p)  BY <1>5 DEF ActiveIn, IsActive
  <2>2. ~DealsWith(r, e) /\ ~DealsWith(r, e)'  BY <1>3, <1>5 DEF DealsWith
  <2>3. \A o \in Requests : o # r =>
          /\ DealsWith(o, e)' <=> DealsWith(o, e)
          /\ StillCounts(request[o], p)' <=> StillCounts(request[o], p)
          /\ NotYetCounts(request[o], p)' <=> NotYetCounts(request[o], p)
    BY <1>2 DEF DealsWith, StillCounts, NotYetCounts
  <2> QED  BY <2>1, <2>2, <2>3 DEF Counted
<1>6. Counted(d, p) <=> StillCounts(request[r], p) \/ (ActiveIn(d, p) /\ ~NotYetCounts(request[r], p))
  BY <1>1, <1>4 DEF Counted, DealsWith
<1>7. Counted(d, p)' <=>
        \/ q # Nothing /\ StillCounts(q, p)
        \/ ActiveIn(d, p)' /\ ~(q # Nothing /\ NotYetCounts(q, p))
  <2>1. StillCounts(request[r], p)' <=> StillCounts(q, p)  BY <1>3 DEF StillCounts
  <2>2. NotYetCounts(request[r], p)' <=> NotYetCounts(q, p)  BY <1>3 DEF NotYetCounts
  <2>3. DealsWith(r, d)' <=> q # Nothing  BY <1>3 DEF DealsWith
  <2> QED  BY <1>1, <1>4, <2>1, <2>2, <2>3 DEF Counted
<1> QED  BY <1>5, <1>6, <1>7

\* What that means for the number of devices that a package counts.
LEMMA OneMoreOrLess ==
  ASSUME NEW p \in Packages, NEW d \in Devices,
         \A e \in Devices : e # d => (Counted(e, p)' <=> Counted(e, p))
  PROVE  /\ Cardinality(CountedIn(p)) \in Nat
         /\ (Counted(d, p)' <=> Counted(d, p)) =>
              Cardinality(CountedIn(p)') = Cardinality(CountedIn(p))
         /\ Counted(d, p)' /\ ~Counted(d, p) =>
              Cardinality(CountedIn(p)') = Cardinality(CountedIn(p)) + 1
         /\ ~Counted(d, p)' /\ Counted(d, p) =>
              /\ Cardinality(CountedIn(p)) > 0
              /\ Cardinality(CountedIn(p)') = Cardinality(CountedIn(p)) - 1
<1> DEFINE S == CountedIn(p)
<1>1. IsFiniteSet(S)  BY BindingConstants, FS_Subset DEF CountedIn
<1>2. Cardinality(S) \in Nat  BY <1>1, FS_CardinalityType
<1>3. ASSUME Counted(d, p)' <=> Counted(d, p) PROVE CountedIn(p)' = S  BY <1>3 DEF CountedIn
<1>4. ASSUME Counted(d, p)', ~Counted(d, p) PROVE CountedIn(p)' = S \cup {d} /\ d \notin S
  BY <1>4 DEF CountedIn
<1>5. ASSUME ~Counted(d, p)', Counted(d, p) PROVE CountedIn(p)' = S \ {d} /\ d \in S
  BY <1>5 DEF CountedIn
<1>6. d \notin S => Cardinality(S \cup {d}) = Cardinality(S) + 1  BY <1>1, FS_AddElement
<1>7. d \in S => Cardinality(S \ {d}) = Cardinality(S) - 1  BY <1>1, FS_RemoveElement
<1>8. d \in S => Cardinality(S) # 0  BY <1>1, FS_EmptySet
<1>9. (Counted(d, p)' <=> Counted(d, p)) =>
        Cardinality(CountedIn(p)') = Cardinality(CountedIn(p))
  BY <1>3
<1>10. Counted(d, p)' /\ ~Counted(d, p) =>
         Cardinality(CountedIn(p)') = Cardinality(CountedIn(p)) + 1
  BY <1>4, <1>6
<1>11. ~Counted(d, p)' /\ Counted(d, p) =>
         /\ Cardinality(CountedIn(p)) > 0
         /\ Cardinality(CountedIn(p)') = Cardinality(CountedIn(p)) - 1
  <2> SUFFICES ASSUME ~Counted(d, p)', Counted(d, p)
               PROVE  /\ Cardinality(S) > 0
                      /\ Cardinality(CountedIn(p)') = Cardinality(S) - 1
    OBVIOUS
  <2>1. CountedIn(p)' = S \ {d} /\ d \in S  BY <1>5
  <2> HIDE DEF S
  <2> QED  BY <1>2, <1>7, <1>8, <2>1
<1> QED  BY <1>2, <1>9, <1>10, <1>11

Careful == overlap # "same" /\ ~again

Tidy ==
  /\ OneEach
  /\ \A r \in Pending : FoundSo(request[r])
  /\ \A p \in Packages : bound[p] = Cardinality(CountedIn(p))

\* A step that counts its device where it is counted, and finds what its next step relies on.
LEMMA StepStaysTidy ==
  ASSUME LifeInv, Tidy, bound \in [Packages -> Nat], NEW r \in Pending, NEW q,
         request' = [request EXCEPT ![r] = q],
         NEW d \in Devices, d = request[r].dev, q = Nothing \/ (q.dev = d /\ FoundSo(q)'),
         \A e \in Devices : e # d => binding'[e] = binding[e],
         \A p \in Packages :
           LET before == \/ StillCounts(request[r], p)
                         \/ ActiveIn(d, p) /\ ~NotYetCounts(request[r], p)
               after  == \/ q # Nothing /\ StillCounts(q, p)
                         \/ ActiveIn(d, p)' /\ ~(q # Nothing /\ NotYetCounts(q, p))
           IN \/ (after <=> before) /\ bound'[p] = bound[p]
              \/ after /\ ~before /\ bound'[p] = bound[p] + 1
              \/ ~after /\ before /\ bound'[p] = (IF bound[p] > 0 THEN bound[p] - 1 ELSE bound[p])
  PROVE  Tidy'
<1>1. r \in Requests /\ request[r] # Nothing  BY DEF Pending
<1>2. OneEach  BY DEF Tidy
<1>3. request'[r] = q /\ \A o \in Requests : o # r => request'[o] = request[o]
  BY <1>1 DEF LifeInv
<1>4. OneEach'
  <2>1. ASSUME NEW a \in Pending', NEW b \in Pending', a # b
        PROVE  request'[a].dev # request'[b].dev /\ request'[a].dev # Nothing
    BY <1>1, <1>2, <1>3, <2>1 DEF OneEach, Pending
  <2> QED  BY <2>1 DEF OneEach
<1>5. ASSUME NEW o \in Pending' PROVE FoundSo(request[o])'
  <2>1. CASE o = r
    <3>1. q # Nothing  BY <1>3, <2>1 DEF Pending
    <3>2. FoundSo(q)'  BY <3>1
    <3> QED  BY <1>3, <2>1, <3>2 DEF FoundSo
  <2>2. CASE o # r
    <3>1. o \in Pending /\ request'[o] = request[o]  BY <1>3, <2>2 DEF Pending
    <3>2. FoundSo(request[o])  BY <3>1 DEF Tidy
    <3>3. request[o].dev # d /\ request[o].dev # Nothing  BY <1>2, <2>2, <3>1 DEF OneEach
    <3>4. request[o].dev \in Devices /\ request[o].step \notin {"purge", "remove"}
      BY <3>2, <3>3 DEF FoundSo
    <3>5. binding'[request[o].dev] = binding[request[o].dev]  BY <3>3, <3>4
    <3> QED  BY <3>1, <3>2, <3>4, <3>5 DEF FoundSo, ActiveIn, IsActive
  <2> QED  BY <2>1, <2>2
<1>6. ASSUME NEW p \in Packages PROVE bound'[p] = Cardinality(CountedIn(p)')
  <2> DEFINE n == Cardinality(CountedIn(p))
  <2>1. bound[p] = n /\ n \in Nat  BY DEF Tidy
  <2>2. /\ \A e \in Devices : e # d => (Counted(e, p)' <=> Counted(e, p))
        /\ Counted(d, p) <=>
             StillCounts(request[r], p) \/ (ActiveIn(d, p) /\ ~NotYetCounts(request[r], p))
        /\ Counted(d, p)' <=>
             \/ q # Nothing /\ StillCounts(q, p)
             \/ ActiveIn(d, p)' /\ ~(q # Nothing /\ NotYetCounts(q, p))
    <3>1. q = Nothing \/ q.dev = d  OBVIOUS
    <3> QED  BY <1>2, <3>1, OnlyItsDevice
  <2>3. \/ (Counted(d, p)' <=> Counted(d, p)) /\ bound'[p] = n
        \/ Counted(d, p)' /\ ~Counted(d, p) /\ bound'[p] = n + 1
        \/ ~Counted(d, p)' /\ Counted(d, p) /\ bound'[p] = (IF n > 0 THEN n - 1 ELSE n)
    BY <2>1, <2>2
  <2>4. /\ (Counted(d, p)' <=> Counted(d, p)) => Cardinality(CountedIn(p)') = n
        /\ Counted(d, p)' /\ ~Counted(d, p) => Cardinality(CountedIn(p)') = n + 1
        /\ ~Counted(d, p)' /\ Counted(d, p) => n > 0 /\ Cardinality(CountedIn(p)') = n - 1
    BY <2>2, OneMoreOrLess
  <2> HIDE DEF n
  <2> QED  BY <2>1, <2>3, <2>4
<1> QED  BY <1>4, <1>5, <1>6 DEF Tidy

\* The last step of a request, if it leaves its binding alone.
LEMMA EndStaysTidy ==
  ASSUME LifeInv, Tidy, bound \in [Packages -> Nat], NEW r \in Pending, binding' = binding,
         request' = [request EXCEPT ![r] = Nothing], NEW d \in Devices, d = request[r].dev,
         \A p \in Packages :
           LET before == \/ StillCounts(request[r], p)
                         \/ ActiveIn(d, p) /\ ~NotYetCounts(request[r], p)
           IN \/ (ActiveIn(d, p) <=> before) /\ bound'[p] = bound[p]
              \/ ActiveIn(d, p) /\ ~before /\ bound'[p] = bound[p] + 1
              \/ ~ActiveIn(d, p) /\ before
                   /\ bound'[p] = (IF bound[p] > 0 THEN bound[p] - 1 ELSE bound[p])
  PROVE  Tidy'
<1>1. PICK q : q = Nothing  OBVIOUS
<1>2. \A p : ActiveIn(d, p)' <=> ActiveIn(d, p)  BY DEF ActiveIn, IsActive
<1>3. \A p \in Packages :
        LET before == \/ StillCounts(request[r], p)
                      \/ ActiveIn(d, p) /\ ~NotYetCounts(request[r], p)
            after  == \/ q # Nothing /\ StillCounts(q, p)
                      \/ ActiveIn(d, p)' /\ ~(q # Nothing /\ NotYetCounts(q, p))
        IN \/ (after <=> before) /\ bound'[p] = bound[p]
           \/ after /\ ~before /\ bound'[p] = bound[p] + 1
           \/ ~after /\ before /\ bound'[p] = (IF bound[p] > 0 THEN bound[p] - 1 ELSE bound[p])
  BY <1>1, <1>2
<1> QED  BY <1>1, <1>3, StepStaysTidy

\* A request that is tidy keeps its three names on the way.
LEMMA GoesOn ==
  ASSUME LifeInv, NEW r \in Pending, NEW step \in CallSteps, Goes(r, step)
  PROVE  \E q \in Request :
           /\ q.step = step /\ q.dev = request[r].dev
           /\ q.from = request[r].from /\ q.to = request[r].to
           /\ request' = [request EXCEPT ![r] = q]
<1> DEFINE q == [request[r] EXCEPT !.step = step]
<1>1. request[r] \in Request  BY DEF Pending, LifeInv
<1>2. /\ q \in Request /\ q.step = step /\ q.dev = request[r].dev
      /\ q.from = request[r].from /\ q.to = request[r].to
  BY <1>1 DEF Request
<1>3. request' = [request EXCEPT ![r] = q]  BY DEF Goes
<1> QED  BY <1>2, <1>3

LEMMA CreateStaysTidy ==
  ASSUME LifeInv, Tidy, bound \in [Packages -> Nat], NEW r \in Requests, CreateBinding(r)
  PROVE  Tidy'
<1>0. PICK d, p : d = request[r].dev /\ p = request[r].to  OBVIOUS
<1> DEFINE row == [package |-> p, status |-> "active"]
<1>1. r \in Pending /\ request[r].step = "create"  BY DEF CreateBinding, Pending
<1>2. FoundSo(request[r])  BY <1>0, <1>1 DEF Tidy
<1>3. d \in Devices /\ p \in Packages /\ ~IsActive(d)  BY <1>0, <1>1, <1>2 DEF FoundSo
<1>4. PICK q \in Request :
        /\ q.step = "count" /\ q.dev = d /\ q.from = request[r].from /\ q.to = p
        /\ request' = [request EXCEPT ![r] = q]
  BY <1>0, <1>1, GoesOn DEF CreateBinding, CallSteps
<1>5. row \in BindingRow /\ row # Nothing /\ row.package = p /\ row.status = "active"
  BY <1>0, <1>3, BindingConstants
<1>6. binding' = [binding EXCEPT ![d] = row] /\ bound' = bound  BY <1>0 DEF CreateBinding
<1> HIDE DEF row
<1>7. binding'[d] = row /\ \A e \in Devices : e # d => binding'[e] = binding[e]
  BY <1>0, <1>3, <1>6 DEF LifeInv
<1>8. ActiveIn(d, p)' /\ IsActive(d)' /\ \A x \in Packages : x # p => ~ActiveIn(d, x)'
  BY <1>0, <1>5, <1>7 DEF ActiveIn, IsActive
<1>9. FoundSo(q)'  BY <1>0, <1>3, <1>4, <1>8 DEF FoundSo
<1>10. \A x \in Packages :
        /\ ~StillCounts(request[r], x) /\ ~ActiveIn(d, x)
        /\ ~StillCounts(q, x) /\ ~(ActiveIn(d, x)' /\ ~NotYetCounts(q, x))
  BY <1>0, <1>1, <1>3, <1>4, <1>8 DEF StillCounts, NotYetCounts, ActiveIn
<1>11. q # Nothing  BY BindingConstants
<1> QED
  BY <1>0, <1>1, <1>3, <1>4, <1>6, <1>7, <1>9, <1>10, <1>11, StepStaysTidy

LEMMA RevokeStaysTidy ==
  ASSUME LifeInv, Tidy, bound \in [Packages -> Nat], NEW r \in Requests, RevokeBinding(r)
  PROVE  Tidy'
<1>0. PICK d, p : d = request[r].dev /\ p = request[r].from  OBVIOUS
<1>1. r \in Pending /\ request[r].step = "revoke"  BY DEF RevokeBinding, Pending
<1>2. FoundSo(request[r])  BY <1>0, <1>1 DEF Tidy
<1>3. d \in Devices /\ p \in Packages /\ ActiveIn(d, p)  BY <1>0, <1>1, <1>2 DEF FoundSo
<1>4. PICK q \in Request :
        /\ q.step = "uncount" /\ q.dev = d /\ q.from = p /\ q.to = request[r].to
        /\ request' = [request EXCEPT ![r] = q]
  BY <1>0, <1>1, GoesOn DEF RevokeBinding, CallSteps
<1>5. binding' = [binding EXCEPT ![d] =
                    IF @ = Nothing THEN @ ELSE [@ EXCEPT !.status = "revoked"]] /\ bound' = bound
  BY <1>0 DEF RevokeBinding
<1>6. binding[d] \in BindingRow /\ binding[d] # Nothing
  BY <1>0, <1>3 DEF ActiveIn, IsActive, LifeInv
<1>7. binding'[d].status = "revoked" /\ \A e \in Devices : e # d => binding'[e] = binding[e]
  BY <1>0, <1>3, <1>5, <1>6 DEF LifeInv
<1>8. ~IsActive(d)'  BY <1>0, <1>7 DEF IsActive
<1>9. FoundSo(q)'  BY <1>0, <1>3, <1>4, <1>8 DEF FoundSo
<1>10. q # Nothing  BY BindingConstants
<1>11. \A x \in Packages :
         /\ ~StillCounts(request[r], x) /\ ~NotYetCounts(request[r], x) /\ ~ActiveIn(d, x)'
         /\ StillCounts(q, x) <=> ActiveIn(d, x)
  BY <1>0, <1>1, <1>3, <1>4, <1>8 DEF StillCounts, NotYetCounts, ActiveIn
<1> QED  BY <1>0, <1>1, <1>3, <1>4, <1>5, <1>7, <1>9, <1>10, <1>11, StepStaysTidy

LEMMA MoveStaysTidy ==
  ASSUME LifeInv, Tidy, bound \in [Packages -> Nat], NEW r \in Requests, UpdateBindingPackage(r)
  PROVE  Tidy'
<1>0. PICK d, from, to : d = request[r].dev /\ from = request[r].from /\ to = request[r].to
  OBVIOUS
<1>1. r \in Pending /\ request[r].step = "move"  BY DEF UpdateBindingPackage, Pending
<1>2. FoundSo(request[r])  BY <1>0, <1>1 DEF Tidy
<1>3. d \in Devices /\ from \in Packages /\ to \in Packages /\ ActiveIn(d, from) /\ to # from
  BY <1>0, <1>1, <1>2 DEF FoundSo
<1>4. PICK q \in Request :
        /\ q.step = "leave" /\ q.dev = d /\ q.from = from /\ q.to = to
        /\ request' = [request EXCEPT ![r] = q]
  BY <1>0, <1>1, GoesOn DEF UpdateBindingPackage, CallSteps
<1>5. binding' = [binding EXCEPT ![d] = IF @ = Nothing THEN @ ELSE [@ EXCEPT !.package = to]]
      /\ bound' = bound
  BY <1>0 DEF UpdateBindingPackage
<1>6. binding[d] \in BindingRow /\ binding[d] # Nothing /\ binding[d].status = "active"
  BY <1>0, <1>3 DEF ActiveIn, IsActive, LifeInv
<1>7. /\ binding'[d] \in BindingRow /\ binding'[d].package = to /\ binding'[d].status = "active"
      /\ \A e \in Devices : e # d => binding'[e] = binding[e]
  BY <1>0, <1>3, <1>5, <1>6 DEF LifeInv
<1>8. ActiveIn(d, to)' /\ \A x \in Packages : x # to => ~ActiveIn(d, x)'
  BY <1>0, <1>7, BindingConstants DEF IsActive, ActiveIn
<1>9. FoundSo(q)'  BY <1>0, <1>3, <1>4, <1>8 DEF FoundSo
<1>10. q # Nothing  BY BindingConstants
<1>11. \A x \in Packages :
         /\ ~StillCounts(request[r], x) /\ ~NotYetCounts(request[r], x)
         /\ ~(ActiveIn(d, x)' /\ ~NotYetCounts(q, x))
         /\ StillCounts(q, x) <=> ActiveIn(d, x)
  BY <1>0, <1>1, <1>3, <1>4, <1>8 DEF StillCounts, NotYetCounts, ActiveIn
<1> QED  BY <1>0, <1>1, <1>3, <1>4, <1>5, <1>7, <1>9, <1>10, <1>11, StepStaysTidy

\* The statements that count.
LEMMA CountsStayTidy ==
  ASSUME LifeInv, Tidy, bound \in [Packages -> Nat], NEW r \in Requests,
         \/ CreateBindingDuplicate(r) \/ CountBinding(r) \/ UncountBinding(r)
         \/ LeavePackage(r) \/ EnterPackage(r)
  PROVE  Tidy'
<1>0. PICK d, from, to : d = request[r].dev /\ from = request[r].from /\ to = request[r].to
  OBVIOUS
<1> USE DEF StillCounts, NotYetCounts
<1>1. /\ r \in Pending /\ request[r].step \in {"create", "count", "uncount", "leave", "enter"}
      /\ binding' = binding
  BY DEF CreateBindingDuplicate, CountBinding, UncountBinding, LeavePackage, EnterPackage, Pending
<1>2. FoundSo(request[r])  BY <1>0, <1>1 DEF Tidy
<1>3. d \in Devices  BY <1>0, <1>1, <1>2 DEF FoundSo
<1>4. \A x : ActiveIn(d, x)' <=> ActiveIn(d, x)  BY <1>0, <1>1 DEF ActiveIn, IsActive
<1>5. CASE CreateBindingDuplicate(r)
  <2>1. request[r].step = "create" /\ ~IsActive(d) /\ bound' = bound
        /\ request' = [request EXCEPT ![r] = Nothing]
    BY <1>0, <1>2, <1>5 DEF CreateBindingDuplicate, FoundSo, Ends
  <2>2. \A x : ~ActiveIn(d, x)  BY <1>0, <2>1 DEF ActiveIn
  <2> QED  BY <1>0, <1>1, <1>3, <2>1, <2>2, EndStaysTidy
<1>6. CASE CountBinding(r)
  <2>1. request[r].step = "count" /\ to \in Packages /\ ActiveIn(d, to)
        /\ bound' = [bound EXCEPT ![to] = @ + 1] /\ request' = [request EXCEPT ![r] = Nothing]
    BY <1>0, <1>2, <1>6 DEF CountBinding, FoundSo, Ends
  <2>2. \A x : ActiveIn(d, x) <=> x = to  BY <1>0, <2>1 DEF ActiveIn
  <2> QED  BY <1>0, <1>1, <1>3, <2>1, <2>2, EndStaysTidy
<1>7. CASE UncountBinding(r)
  <2>1. request[r].step = "uncount" /\ from \in Packages /\ ~IsActive(d)
        /\ bound' = [bound EXCEPT ![from] = IF @ > 0 THEN @ - 1 ELSE @]
        /\ request' = [request EXCEPT ![r] = Nothing]
    BY <1>0, <1>2, <1>7 DEF UncountBinding, FoundSo, Ends, DecrementBoundCount
  <2>2. \A x : ~ActiveIn(d, x)  BY <1>0, <2>1 DEF ActiveIn
  <2> QED  BY <1>0, <1>1, <1>3, <2>1, <2>2, EndStaysTidy
<1>8. CASE LeavePackage(r)
  <2>1. request[r].step = "leave" /\ from \in Packages /\ to \in Packages /\ ActiveIn(d, to)
        /\ to # from /\ bound' = [bound EXCEPT ![from] = IF @ > 0 THEN @ - 1 ELSE @]
    BY <1>0, <1>2, <1>8 DEF LeavePackage, FoundSo, DecrementBoundCount
  <2>2. PICK q \in Request :
          /\ q.step = "enter" /\ q.dev = d /\ q.from = from /\ q.to = to
          /\ request' = [request EXCEPT ![r] = q]
    BY <1>0, <1>1, <1>8, GoesOn DEF LeavePackage, CallSteps
  <2>3. \A x : ActiveIn(d, x) <=> x = to  BY <1>0, <2>1 DEF ActiveIn
  <2>4. q # Nothing  BY BindingConstants
  <2>5. FoundSo(q)'  BY <1>0, <1>3, <1>4, <2>1, <2>2 DEF FoundSo
  <2>6. \A x \in Packages :
          /\ StillCounts(request[r], x) <=> x = from
          /\ ~(ActiveIn(d, x) /\ ~NotYetCounts(request[r], x))
          /\ ~StillCounts(q, x) /\ ~(ActiveIn(d, x)' /\ ~NotYetCounts(q, x))
    BY <1>0, <1>4, <2>1, <2>2, <2>3
  <2>7. \A x \in Packages :
          bound'[x] = IF x = from THEN (IF bound[x] > 0 THEN bound[x] - 1 ELSE bound[x]) ELSE bound[x]
    BY <2>1
  <2>8. \A x \in Packages :
          LET before == \/ StillCounts(request[r], x)
                        \/ ActiveIn(d, x) /\ ~NotYetCounts(request[r], x)
              after  == \/ q # Nothing /\ StillCounts(q, x)
                        \/ ActiveIn(d, x)' /\ ~(q # Nothing /\ NotYetCounts(q, x))
          IN \/ (after <=> before) /\ bound'[x] = bound[x]
             \/ after /\ ~before /\ bound'[x] = bound[x] + 1
             \/ ~after /\ before /\ bound'[x] = (IF bound[x] > 0 THEN bound[x] - 1 ELSE bound[x])
    <3> HIDE DEF StillCounts, NotYetCounts
    <3> QED  BY <2>4, <2>6, <2>7
  <2>9. q = Nothing \/ (q.dev = d /\ FoundSo(q)')  BY <2>2, <2>5
  <2> HIDE DEF StillCounts, NotYetCounts
  <2> QED  BY <1>0, <1>1, <1>3, <2>2, <2>8, <2>9, StepStaysTidy
<1>9. CASE EnterPackage(r)
  <2>1. request[r].step = "enter" /\ to \in Packages /\ ActiveIn(d, to)
        /\ bound' = [bound EXCEPT ![to] = @ + 1] /\ request' = [request EXCEPT ![r] = Nothing]
    BY <1>0, <1>2, <1>9 DEF EnterPackage, FoundSo, Ends
  <2>2. \A x : ActiveIn(d, x) <=> x = to  BY <1>0, <2>1 DEF ActiveIn
  <2> QED  BY <1>0, <1>1, <1>3, <2>1, <2>2, EndStaysTidy
<1> QED  BY <1>0, <1>5, <1>6, <1>7, <1>8, <1>9

\* A request that counts nothing, neither before nor after its step.
Quiet(q) == q = Nothing \/ q.step \in {"create", "revoke", "move", "purge", "remove"}

LEMMA QuietStep ==
  ASSUME LifeInv, NEW r \in Requests, NEW q, request' = [request EXCEPT ![r] = q],
         Quiet(request[r]), Quiet(q), NEW p,
         \A d \in Devices : ActiveIn(d, p)' <=> ActiveIn(d, p)
  PROVE  CountedIn(p)' = CountedIn(p)
<1>1. request'[r] = q /\ \A o \in Requests : o # r => request'[o] = request[o]  BY DEF LifeInv
<1>2. ASSUME NEW d \in Devices, NEW o \in Requests
      PROVE  /\ DealsWith(o, d)' /\ StillCounts(request[o], p)'
                  <=> DealsWith(o, d) /\ StillCounts(request[o], p)
             /\ DealsWith(o, d)' /\ NotYetCounts(request[o], p)'
                  <=> DealsWith(o, d) /\ NotYetCounts(request[o], p)
  BY <1>1 DEF DealsWith, StillCounts, NotYetCounts, Quiet
<1>3. \A d \in Devices : Counted(d, p)' <=> Counted(d, p)  BY <1>2 DEF Counted
<1> QED  BY <1>3 DEF CountedIn

LEMMA DeletionStaysTidy ==
  ASSUME LifeInv, Tidy, NEW r \in Requests, DeleteByPackage(r) \/ RemovePackage(r)
  PROVE  Tidy'
<1>1. r \in Pending /\ request[r].step \in {"purge", "remove"} /\ bound' = bound
  BY DEF DeleteByPackage, RemovePackage, Pending
<1>2. FoundSo(request[r])  BY <1>1 DEF Tidy
<1>3. request[r].dev = Nothing /\ \A d \in Devices : ~ActiveIn(d, request[r].from)
  BY <1>1, <1>2 DEF FoundSo
<1>4. \A o \in Pending : o = r  BY <1>1, <1>3 DEF Tidy, OneEach
<1>5. \A x : \A d \in Devices : ActiveIn(d, x)' <=> ActiveIn(d, x)
  BY <1>3 DEF ActiveIn, IsActive, DeleteByPackage, RemovePackage
<1>6. PICK q :
        /\ request' = [request EXCEPT ![r] = q]
        /\ q = Nothing \/ /\ q.step = "remove" /\ q.dev = request[r].dev
                          /\ q.from = request[r].from
  <2>1. CASE DeleteByPackage(r)  BY <1>1, <2>1, GoesOn DEF DeleteByPackage, CallSteps
  <2>2. CASE RemovePackage(r)  BY <2>2 DEF RemovePackage, Ends
  <2> QED  BY <2>1, <2>2
<1>7. request'[r] = q /\ \A o \in Requests : o # r => request'[o] = Nothing
  BY <1>4, <1>6 DEF LifeInv, Pending
<1>8. OneEach'  BY <1>7 DEF OneEach, Pending
<1>9. \A o \in Pending' : FoundSo(request[o])'
  <2> SUFFICES ASSUME NEW o \in Pending' PROVE FoundSo(request[o])'
    OBVIOUS
  <2>1. o = r /\ q # Nothing  BY <1>7 DEF Pending
  <2>2. request'[o].step = "remove" /\ request'[o].dev = Nothing
        /\ request'[o].from = request[r].from
    BY <1>3, <1>6, <1>7, <2>1
  <2>3. \A d \in Devices : ~ActiveIn(d, request[o].from)'  BY <1>3, <1>5, <2>2 DEF ActiveIn, IsActive
  <2> QED  BY <2>2, <2>3 DEF FoundSo
<1>10. Quiet(request[r]) /\ Quiet(q)  BY <1>1, <1>6 DEF Quiet
<1>11. \A p \in Packages : CountedIn(p)' = CountedIn(p)
  BY <1>5, <1>6, <1>10, QuietStep DEF ActiveIn, IsActive
<1> QED  BY <1>1, <1>8, <1>9, <1>11 DEF Tidy

LEMMA BeginStaysTidy ==
  ASSUME LifeInv, Tidy, NEW r \in Requests, NEW q \in Request, Begins(r, q), FoundSo(q),
         overlap' # "same", q.step \in {"create", "revoke", "move", "purge"}
  PROVE  Tidy'
<1>1. request[r] = Nothing /\ request' = [request EXCEPT ![r] = q] /\ UNCHANGED <<binding, bound>>
  BY DEF Begins
<1>2. \A o \in Pending : request[o].dev # q.dev /\ request[o].dev # Nothing /\ q.dev # Nothing
  BY DEF Begins
<1>3. request'[r] = q /\ \A o \in Requests : o # r => request'[o] = request[o]
  BY <1>1 DEF LifeInv
<1>4. OneEach'
  <2>1. ASSUME NEW a \in Pending', NEW b \in Pending', a # b
        PROVE  request'[a].dev # request'[b].dev /\ request'[a].dev # Nothing
    BY <1>2, <1>3, <2>1 DEF Pending, Tidy, OneEach
  <2> QED  BY <2>1 DEF OneEach
<1>5. \A o \in Pending' : FoundSo(request[o])'
  <2> SUFFICES ASSUME NEW o \in Pending' PROVE FoundSo(request[o])'
    OBVIOUS
  <2>1. FoundSo(request'[o])  BY <1>3 DEF Pending, Tidy
  <2> QED  BY <1>1, <2>1 DEF FoundSo, ActiveIn, IsActive
<1>6. \A p \in Packages : CountedIn(p)' = CountedIn(p)
  <2>1. \A d \in Devices, p \in Packages : ActiveIn(d, p)' <=> ActiveIn(d, p)
    BY <1>1 DEF ActiveIn, IsActive
  <2>2. Quiet(request[r]) /\ Quiet(q)  BY <1>1 DEF Quiet
  <2> QED  BY <1>1, <2>1, <2>2, QuietStep
<1> QED  BY <1>1, <1>4, <1>5, <1>6 DEF Tidy

\* A step goes on with a request or ends it, or begins one; what was careless stays so.
LEMMA PendingGrows ==
  ASSUME LifeInv, [BindingNext]_bindingVars
  PROVE  \/ /\ Pending' \subseteq Pending
            /\ \A r \in Pending' : request'[r] = request[r] \/ request'[r].step \in CallSteps \ {"move"}
            /\ overlap' = overlap \/ overlap' = "same"
            /\ movedTo' = movedTo /\ again' = again
         \/ \E r \in Requests, q \in Request :
              /\ Begins(r, q)
              /\ movedTo \subseteq movedTo' /\ (q.step = "move" => q.to \in movedTo')
              /\ again => again'
<1>1. ASSUME NEW r \in Requests, NEW d \in Devices, NEW p \in Packages, ActivateAuto(r, d, p)
      PROVE  \E q \in Request : Begins(r, q) /\ movedTo' = movedTo /\ q.step # "move" /\ again' = again
  <2> DEFINE q == [step |-> "create", dev |-> d, from |-> Nothing, to |-> p]
  <2>1. q \in Request /\ q.step # "move"  BY DEF Request, CallSteps
  <2>2. Begins(r, q)  BY <1>1 DEF ActivateAuto
  <2> HIDE DEF q
  <2> QED  BY <1>1, <2>1, <2>2 DEF ActivateAuto
<1>2. ASSUME NEW r \in Requests, NEW d \in Devices, NEW p \in Packages, Migrate(r, d, p)
      PROVE  \E q \in Request :
               /\ Begins(r, q) /\ movedTo \subseteq movedTo' /\ q.to \in movedTo' /\ again' = again
  <2> DEFINE q == [step |-> "move", dev |-> d, from |-> binding[d].package, to |-> p]
  <2>1. q \in Request /\ q.to = p  BY <1>2 DEF Request, CallSteps, Migrate, LifeInv
  <2>2. Begins(r, q)  BY <1>2 DEF Migrate
  <2> HIDE DEF q
  <2> QED  BY <1>2, <2>1, <2>2 DEF Migrate
<1>3. ASSUME NEW r \in Requests, NEW d \in Devices, UnbindDevice(r, d)
      PROVE  \E q \in Request :
               /\ Begins(r, q) /\ movedTo' = movedTo /\ q.step # "move" /\ (again => again')
  <2> DEFINE q == [step |-> "revoke", dev |-> d, from |-> binding[d].package, to |-> Nothing]
  <2>1. binding[d] \in BindingRow  BY <1>3 DEF UnbindDevice, LifeInv
  <2>2. q \in Request /\ q.step # "move"  BY <2>1 DEF Request, CallSteps
  <2>3. Begins(r, q)  BY <1>3 DEF UnbindDevice
  <2> HIDE DEF q
  <2> QED  BY <1>3, <2>2, <2>3 DEF UnbindDevice
<1>4. ASSUME NEW r \in Requests, NEW p \in Packages, DeleteUnusedPackage(r, p)
      PROVE  \E q \in Request : Begins(r, q) /\ movedTo' = movedTo /\ q.step # "move" /\ again' = again
  <2> DEFINE q == [step |-> "purge", dev |-> Nothing, from |-> p, to |-> Nothing]
  <2>1. q \in Request /\ q.step # "move"  BY DEF Request, CallSteps
  <2>2. Begins(r, q)  BY <1>4 DEF DeleteUnusedPackage
  <2> HIDE DEF q
  <2> QED  BY <1>4, <2>1, <2>2 DEF DeleteUnusedPackage
<1>5. ASSUME NEW r \in Requests, request[r] # Nothing,
             Ends(r) \/ \E step \in CallSteps \ {"move"} : Goes(r, step)
      PROVE  /\ Pending' \subseteq Pending
             /\ \A o \in Pending' :
                  request'[o] = request[o] \/ request'[o].step \in CallSteps \ {"move"}
  <2>1. CASE Ends(r)  BY <2>1 DEF LifeInv, Pending, Ends
  <2>2. ASSUME NEW step \in CallSteps \ {"move"}, Goes(r, step)
        PROVE  /\ Pending' \subseteq Pending
               /\ \A o \in Pending' :
                    request'[o] = request[o] \/ request'[o].step \in CallSteps \ {"move"}
    <3>1. PICK q \in Request : q.step = step /\ request' = [request EXCEPT ![r] = q]
      BY <1>5, <2>2, GoesOn DEF Pending
    <3> QED  BY <1>5, <2>2, <3>1 DEF LifeInv, Pending
  <2> QED  BY <1>5, <2>1, <2>2
<1>6. ASSUME NEW r \in Requests,
             \/ CreateBinding(r) \/ CreateBindingDuplicate(r) \/ CountBinding(r)
             \/ RevokeBinding(r) \/ UncountBinding(r) \/ UpdateBindingPackage(r)
             \/ LeavePackage(r) \/ EnterPackage(r) \/ CallFails(r)
             \/ DeleteByPackage(r) \/ RemovePackage(r)
      PROVE  /\ Pending' \subseteq Pending
             /\ \A o \in Pending' :
                  request'[o] = request[o] \/ request'[o].step \in CallSteps \ {"move"}
             /\ overlap' = overlap \/ overlap' = "same"
             /\ movedTo' = movedTo /\ again' = again
  <2>1. request[r] # Nothing /\ (Ends(r) \/ \E step \in CallSteps \ {"move"} : Goes(r, step))
    BY <1>6
       DEF CallSteps, CreateBinding, CreateBindingDuplicate, CountBinding, RevokeBinding,
           UncountBinding, UpdateBindingPackage, LeavePackage, EnterPackage, CallFails,
           DeleteByPackage, RemovePackage
  <2>2. /\ overlap' = overlap \/ overlap' = "same"
        /\ movedTo' = movedTo /\ again' = again
    BY <1>6
       DEF CreateBinding, CreateBindingDuplicate, CountBinding, RevokeBinding,
           UncountBinding, UpdateBindingPackage, LeavePackage, EnterPackage, CallFails,
           DeleteByPackage, RemovePackage
  <2> QED  BY <1>5, <2>1, <2>2
<1>7. ASSUME UNCHANGED <<request, overlap, movedTo, again>>
      PROVE  /\ Pending' \subseteq Pending
             /\ \A o \in Pending' :
                  request'[o] = request[o] \/ request'[o].step \in CallSteps \ {"move"}
             /\ overlap' = overlap \/ overlap' = "same"
             /\ movedTo' = movedTo /\ again' = again
  BY <1>7 DEF Pending
<1> DEFINE Goal ==
      \/ /\ Pending' \subseteq Pending
         /\ \A r \in Pending' : request'[r] = request[r] \/ request'[r].step \in CallSteps \ {"move"}
         /\ overlap' = overlap \/ overlap' = "same"
         /\ movedTo' = movedTo /\ again' = again
      \/ \E r \in Requests, q \in Request :
           /\ Begins(r, q)
           /\ movedTo \subseteq movedTo' /\ (q.step = "move" => q.to \in movedTo')
           /\ again => again'
<1>8. ASSUME NEW r \in Requests, NEW d \in Devices,
             \/ \E p \in Packages : ActivateAuto(r, d, p) \/ BindManual(r, d, p)
             \/ \E p \in Packages : Migrate(r, d, p)
             \/ UnbindDevice(r, d)
      PROVE  Goal
  <2>1. CASE \E p \in Packages : ActivateAuto(r, d, p) \/ BindManual(r, d, p)
    <3>1. PICK p \in Packages : ActivateAuto(r, d, p)  BY <2>1 DEF BindManual
    <3> QED  BY <1>1, <3>1
  <2>2. CASE \E p \in Packages : Migrate(r, d, p)
    <3>1. PICK p \in Packages : Migrate(r, d, p)  BY <2>2
    <3>2. PICK q \in Request :
            /\ Begins(r, q) /\ movedTo \subseteq movedTo' /\ q.to \in movedTo' /\ again' = again
      BY <1>2, <3>1
    <3> QED  BY <3>2
  <2>3. CASE UnbindDevice(r, d)
    <3>1. PICK q \in Request :
            Begins(r, q) /\ movedTo' = movedTo /\ q.step # "move" /\ (again => again')
      BY <1>3, <2>3
    <3> QED  BY <3>1
  <2> QED  BY <1>8, <2>1, <2>2, <2>3
<1>9. ASSUME NEW r \in Requests, NEW p \in Packages, DeleteUnusedPackage(r, p) PROVE Goal
  BY <1>4, <1>9
<1>10. ASSUME NEW r \in Requests,
              \/ CreateBinding(r) \/ CreateBindingDuplicate(r) \/ CountBinding(r)
              \/ RevokeBinding(r) \/ UncountBinding(r) \/ UpdateBindingPackage(r)
              \/ LeavePackage(r) \/ EnterPackage(r) \/ CallFails(r)
              \/ DeleteByPackage(r) \/ RemovePackage(r)
       PROVE  Goal
  BY <1>6, <1>10
<1>11. ASSUME UNCHANGED <<request, overlap, movedTo, again>> PROVE Goal  BY <1>7, <1>11
<1>12. ASSUME NEW d \in Devices, RegisterDevice(d) PROVE Goal  BY <1>11, <1>12 DEF RegisterDevice
<1>13. ASSUME NEW p \in Packages, NEW q \in Quotas, UpdateMaxDevices(p, q) PROVE Goal
  BY <1>11, <1>13 DEF UpdateMaxDevices
<1>14. ASSUME UNCHANGED bindingVars PROVE Goal  BY <1>11, <1>14 DEF bindingVars
<1>15. Goal
  <2> HIDE DEF Goal
  <2> QED  BY <1>8, <1>9, <1>10, <1>12, <1>13, <1>14 DEF BindingNext
<1> QED  BY <1>15

\* What no beginning of a request changes, and which statements change a count or a quota.
LEMMA CountsAndQuotas ==
  ASSUME [BindingNext]_bindingVars
  PROVE  /\ \/ bound' = bound
            \/ \E r \in Requests :
                 CountBinding(r) \/ UncountBinding(r) \/ LeavePackage(r) \/ EnterPackage(r)
         /\ quota' = quota \/ \E p \in Packages, q \in Quotas : UpdateMaxDevices(p, q)
<1>1. ASSUME NEW r \in Requests, NEW d \in Devices,
             \/ \E p \in Packages :
                  ActivateAuto(r, d, p) \/ BindManual(r, d, p) \/ Migrate(r, d, p)
             \/ UnbindDevice(r, d)
      PROVE  UNCHANGED <<bound, quota>>
  BY <1>1 DEF ActivateAuto, BindManual, Migrate, UnbindDevice, Begins
<1>2. ASSUME NEW r \in Requests, NEW p \in Packages, DeleteUnusedPackage(r, p)
      PROVE  UNCHANGED <<bound, quota>>
  BY <1>2 DEF DeleteUnusedPackage, Begins
<1>3. ASSUME NEW r \in Requests,
             \/ CreateBinding(r) \/ CreateBindingDuplicate(r) \/ RevokeBinding(r)
             \/ UpdateBindingPackage(r) \/ CallFails(r) \/ DeleteByPackage(r) \/ RemovePackage(r)
      PROVE  UNCHANGED <<bound, quota>>
  BY <1>3 DEF CreateBinding, CreateBindingDuplicate, RevokeBinding, UpdateBindingPackage, CallFails,
              DeleteByPackage, RemovePackage
<1>4. ASSUME NEW r \in Requests,
             CountBinding(r) \/ UncountBinding(r) \/ LeavePackage(r) \/ EnterPackage(r)
      PROVE  quota' = quota
  BY <1>4 DEF CountBinding, UncountBinding, LeavePackage, EnterPackage
<1>5. ASSUME NEW p \in Packages, NEW q \in Quotas, UpdateMaxDevices(p, q) PROVE bound' = bound
  BY <1>5 DEF UpdateMaxDevices
<1>6. CASE \E d \in Devices : RegisterDevice(d)  BY <1>6 DEF RegisterDevice
<1>7. CASE UNCHANGED bindingVars  BY <1>7 DEF bindingVars
<1> QED  BY <1>1, <1>2, <1>3, <1>4, <1>5, <1>6, <1>7 DEF BindingNext

LEMMA CountsNextInv == CountsInv /\ [BindingNext]_bindingVars => CountsInv'
<1> SUFFICES ASSUME CountsInv, [BindingNext]_bindingVars PROVE CountsInv'
  OBVIOUS
<1>1. LifeInv /\ LifeInv' /\ bound \in [Packages -> Nat]  BY BindingNextLife DEF CountsInv
<1>2. bound' \in [Packages -> Nat]
  <2>1. ASSUME NEW p PROVE [bound EXCEPT ![p] = @ + 1] \in [Packages -> Nat]
    <3>1. CASE p \in Packages  BY <1>1, <3>1
    <3>2. CASE p \notin Packages  BY <1>1, <3>2
    <3> QED  BY <3>1, <3>2
  <2>2. ASSUME NEW p PROVE [bound EXCEPT ![p] = IF @ > 0 THEN @ - 1 ELSE @] \in [Packages -> Nat]
    <3>1. CASE p \in Packages  BY <1>1, <3>1
    <3>2. CASE p \notin Packages  BY <1>1, <3>2
    <3> QED  BY <3>1, <3>2
  <2>3. CASE \E r \in Requests :
                CountBinding(r) \/ UncountBinding(r) \/ LeavePackage(r) \/ EnterPackage(r)
    BY <2>1, <2>2, <2>3
       DEF CountBinding, UncountBinding, DecrementBoundCount, LeavePackage, EnterPackage
  <2>4. CASE bound' = bound  BY <1>1, <2>4
  <2> QED  BY <2>3, <2>4, CountsAndQuotas
<1>3. ASSUME Careful' PROVE Tidy'
  <2>0. Tidy
    <3>1. Careful
      <4>1. CASE overlap' = overlap \/ overlap' = "same"
        BY <1>1, <1>3, <4>1, PendingGrows DEF Careful, Begins
      <4>2. ASSUME NEW r \in Requests, NEW q, Begins(r, q) PROVE overlap = "same" => overlap' = "same"
        BY <4>2 DEF Begins
      <4> QED  BY <1>1, <1>3, <4>1, <4>2, PendingGrows DEF Careful
    <3> QED  BY <3>1 DEF CountsInv, Careful, Tidy
  <2>1. ASSUME NEW r \in Requests, NEW d \in Devices, NEW p \in Packages, ActivateAuto(r, d, p)
        PROVE  Tidy'
    <3> DEFINE q == [step |-> "create", dev |-> d, from |-> Nothing, to |-> p]
    <3>1. q \in Request /\ q.step = "create" /\ q.dev = d /\ q.to = p  BY DEF Request, CallSteps
    <3>2. Begins(r, q) /\ ~IsActive(d)  BY <2>1 DEF ActivateAuto, MayBind
    <3> HIDE DEF q
    <3>3. FoundSo(q)  BY <3>1, <3>2 DEF FoundSo
    <3> QED  BY <1>1, <1>3, <2>0, <3>1, <3>2, <3>3, BeginStaysTidy DEF Careful
  <2>2. ASSUME NEW r \in Requests, NEW d \in Devices, NEW p \in Packages, Migrate(r, d, p)
        PROVE  Tidy'
    <3> DEFINE q == [step |-> "move", dev |-> d, from |-> binding[d].package, to |-> p]
    <3>1. q.step = "move" /\ q.dev = d /\ q.to = p /\ q.from = binding[d].package  OBVIOUS
    <3>2. Begins(r, q) /\ ActiveIn(d, q.from) /\ q.to # q.from /\ q.from \in Packages
      BY <1>1, <2>2 DEF Migrate, ActiveIn, LifeInv
    <3>4. q \in Request  BY <3>2 DEF Request, CallSteps
    <3> HIDE DEF q
    <3>3. FoundSo(q)  BY <3>1, <3>2 DEF FoundSo
    <3> QED  BY <1>1, <1>3, <2>0, <3>1, <3>2, <3>3, <3>4, BeginStaysTidy DEF Careful
  <2>3. ASSUME NEW r \in Requests, NEW d \in Devices, UnbindDevice(r, d) PROVE Tidy'
    <3> DEFINE q == [step |-> "revoke", dev |-> d, from |-> binding[d].package, to |-> Nothing]
    <3>1. q.step = "revoke" /\ q.dev = d /\ q.from = binding[d].package  OBVIOUS
    <3>2. Begins(r, q) /\ IsActive(d) /\ binding[d] \in BindingRow
      BY <1>1, <1>3, <2>3 DEF UnbindDevice, LifeInv, Careful
    <3>4. q \in Request /\ q.from \in Packages  BY <3>2 DEF Request, CallSteps
    <3> HIDE DEF q
    <3>3. FoundSo(q)  BY <3>1, <3>2, <3>4 DEF FoundSo, ActiveIn
    <3> QED  BY <1>1, <1>3, <2>0, <3>1, <3>2, <3>3, <3>4, BeginStaysTidy DEF Careful
  <2>4. ASSUME NEW r \in Requests, NEW p \in Packages, DeleteUnusedPackage(r, p) PROVE Tidy'
    <3> DEFINE q == [step |-> "purge", dev |-> Nothing, from |-> p, to |-> Nothing]
    <3>1. q \in Request /\ q.step = "purge" /\ q.dev = Nothing /\ q.from = p
      BY DEF Request, CallSteps
    <3>2. Begins(r, q) /\ BoundTo(p) = {}  BY <2>4 DEF DeleteUnusedPackage
    <3> HIDE DEF q
    <3>3. FoundSo(q)  BY <3>1, <3>2 DEF FoundSo, ActiveIn, BoundTo
    <3> QED  BY <1>1, <1>3, <2>0, <3>1, <3>2, <3>3, BeginStaysTidy DEF Careful
  <2>5. ASSUME UNCHANGED <<binding, bound, request>> PROVE Tidy'
    <3>1. \A p : CountedIn(p)' = CountedIn(p)
      BY <2>5 DEF CountedIn, Counted, DealsWith, StillCounts, NotYetCounts, ActiveIn, IsActive
    <3>2. Pending' = Pending /\ OneEach'  BY <2>0, <2>5 DEF Pending, OneEach, Tidy
    <3>3. \A r \in Pending : FoundSo(request[r])'
      BY <2>0, <2>5 DEF Tidy, FoundSo, ActiveIn, IsActive
    <3> QED  BY <2>0, <2>5, <3>1, <3>2, <3>3 DEF Tidy
  <2>6. \A r \in Requests : ~CallFails(r)  BY <1>3 DEF CallFails, Careful
  <2> QED
    BY <1>1, <2>0, <2>1, <2>2, <2>3, <2>4, <2>5, <2>6, CreateStaysTidy, RevokeStaysTidy,
       MoveStaysTidy, CountsStayTidy, DeletionStaysTidy
       DEF BindingNext, bindingVars, BindManual, RegisterDevice, UpdateMaxDevices
<1> QED  BY <1>1, <1>2, <1>3 DEF CountsInv, Careful, Tidy

\* A set of numbers that is not empty has a least one.
LEMMA LeastOne ==
  ASSUME NEW S, S \subseteq Nat, S # {}
  PROVE  \E x \in S : \A y \in S : x <= y
<1> DEFINE R == {ss \in Nat \X Nat : ss[1] < ss[2]}
<1>1. IsWellFoundedOn(R, Nat)  BY NatLessThanWellFounded DEF OpToRel
<1>2. \E x \in S : \A y \in S : <<y, x>> \notin R
  <2> HIDE DEF R
  <2> QED  BY <1>1, WFMin
<1>3. PICK x \in S : \A y \in S : <<y, x>> \notin R  BY <1>2
<1>4. ASSUME NEW y \in S PROVE x <= y
  <2>1. <<y, x>> \notin R  BY <1>3
  <2>2. <<y, x>> \in Nat \X Nat /\ (<<y, x>>)[1] = y /\ (<<y, x>>)[2] = x  OBVIOUS
  <2>3. ~(y < x)  BY <2>1, <2>2
  <2> QED  BY <2>3
<1> QED  BY <1>4

Near(p) == BoundTo(p) \cup ComingTo(p)

LEMMA QuotaInitInv == BindingInit => QuotaInv
<1> SUFFICES ASSUME BindingInit PROVE QuotaInv
  OBVIOUS
<1>1. PICK q \in Quotas : TRUE  BY BindingConstants
<1>2. q \in Nat  BY BindingConstants
<1>3. \A p \in Packages : BoundTo(p) \cup ComingTo(p) = {}
  BY DEF BindingInit, BoundTo, IsActive, ComingTo, DealsWith
<1>4. \A p \in Packages : Cardinality(BoundTo(p) \cup ComingTo(p)) <= q
  BY <1>2, <1>3, FS_EmptySet
<1>5. quota \in [Packages -> Quotas]
  <2>1. \E x \in Quotas : \A other \in Quotas : x <= other
    <3>1. Quotas \in SUBSET Nat /\ Quotas # {}  BY BindingConstants
    <3> QED  BY <3>1, LeastOne
  <2>2. (CHOOSE x \in Quotas : \A other \in Quotas : x <= other) \in Quotas  BY <2>1
  <2> QED  BY <2>2 DEF BindingInit
<1>6. Pending = {}  BY DEF BindingInit, Pending
<1> QED  BY <1>1, <1>4, <1>5, <1>6 DEF QuotaInv

\* A step that brings no device nearer to a package keeps within its quota.
LEMMA NoneNearer ==
  ASSUME NEW p, Near(p)' \subseteq Near(p), NEW q \in Quotas, Cardinality(Near(p)) <= q
  PROVE  Cardinality(Near(p)') <= q
<1>1. IsFiniteSet(Near(p))  BY BindingConstants, FS_Subset DEF Near, BoundTo, ComingTo
<1>2. Cardinality(Near(p)') <= Cardinality(Near(p))  BY <1>1, FS_Subset
<1>3. IsFiniteSet(Near(p)')  BY <1>1, FS_Subset
<1>4. Cardinality(Near(p)) \in Nat /\ Cardinality(Near(p)') \in Nat  BY <1>1, <1>3, FS_CardinalityType
<1>5. q \in Nat  BY BindingConstants
<1> QED  BY <1>2, <1>4, <1>5

\* The request of a device to be bound is admitted while the package is not full.
LEMMA AdmittedIsNear ==
  ASSUME CountsInv, QuotaInv, NEW r \in Requests, NEW d \in Devices, NEW p \in Packages,
         ActivateAuto(r, d, p), Pending = {}, overlap # "same", ~again
  PROVE  Cardinality(Near(p)') <= quota[p]
<1> DEFINE q == [step |-> "create", dev |-> d, from |-> Nothing, to |-> p]
<1>1. bound[p] < quota[p]  BY DEF ActivateAuto, MayBind
<1>2. \A o \in Requests : request[o] = Nothing  BY DEF Pending
<1>3. CountedIn(p) = BoundTo(p)
  BY <1>2 DEF CountedIn, Counted, DealsWith, ActiveIn, BoundTo
<1>4. bound[p] = Cardinality(BoundTo(p))  BY <1>3 DEF CountsInv
<1>5. request' = [request EXCEPT ![r] = q] /\ binding' = binding  BY DEF ActivateAuto, Begins
<1>6. q.dev = d  OBVIOUS
<1>7. request'[r] = q /\ \A o \in Requests : o # r => request'[o] = Nothing
  BY <1>2, <1>5 DEF CountsInv, LifeInv
<1> HIDE DEF q
<1>8. ComingTo(p)' \subseteq {d}  BY <1>6, <1>7 DEF ComingTo, DealsWith
<1>9. BoundTo(p)' = BoundTo(p)  BY <1>5 DEF BoundTo, IsActive
<1>10. IsFiniteSet(BoundTo(p))  BY BindingConstants, FS_Subset DEF BoundTo
<1>11. /\ IsFiniteSet(BoundTo(p) \cup {d})
       /\ Cardinality(BoundTo(p) \cup {d}) <= Cardinality(BoundTo(p)) + 1
  BY <1>10, FS_AddElement, FS_CardinalityType
<1>12. Near(p)' \subseteq BoundTo(p) \cup {d}  BY <1>8, <1>9 DEF Near
<1>13. Cardinality(Near(p)') <= Cardinality(BoundTo(p) \cup {d}) /\ IsFiniteSet(Near(p)')
  BY <1>11, <1>12, FS_Subset
<1>14. /\ Cardinality(Near(p)') \in Nat /\ Cardinality(BoundTo(p) \cup {d}) \in Nat
       /\ Cardinality(BoundTo(p)) \in Nat
  BY <1>10, <1>11, <1>13, FS_CardinalityType
<1>15. quota[p] \in Nat  BY BindingConstants DEF QuotaInv
<1> QED  BY <1>1, <1>4, <1>11, <1>13, <1>14, <1>15

\* Any other step brings no device nearer to a package that none is migrated to.
LEMMA OthersNotNearer ==
  ASSUME LifeInv, QuotaInv, [BindingNext]_bindingVars, NEW p \in Packages, p \notin movedTo',
         ~\E r \in Requests, d \in Devices : ActivateAuto(r, d, p)
  PROVE  Near(p)' \subseteq Near(p)
<1>1. ASSUME NEW d \in Devices, d \in BoundTo(p)' PROVE d \in Near(p)
  <2>1. CASE binding' = binding  BY <1>1, <2>1 DEF Near, BoundTo, IsActive
  <2>2. ASSUME NEW r \in Requests, CreateBinding(r) PROVE d \in Near(p)
    <3> DEFINE row == [package |-> request[r].to, status |-> "active"]
    <3>1. binding' = [binding EXCEPT ![request[r].dev] = row]  BY <2>2 DEF CreateBinding
    <3>2. row.package = request[r].to  OBVIOUS
    <3> HIDE DEF row
    <3>3. CASE d = request[r].dev
      <4>1. p = request[r].to /\ request[r] # Nothing /\ request[r].step = "create"
        BY <1>1, <2>2, <3>1, <3>2, <3>3 DEF LifeInv, BoundTo, CreateBinding
      <4> QED  BY <3>3, <4>1 DEF Near, ComingTo, DealsWith
    <3>4. CASE d # request[r].dev  BY <1>1, <3>1, <3>4 DEF LifeInv, Near, BoundTo, IsActive
    <3> QED  BY <3>3, <3>4
  <2>3. ASSUME NEW r \in Requests, RevokeBinding(r) PROVE d \in Near(p)
    <3>1. binding' = [binding EXCEPT ![request[r].dev] =
                        IF @ = Nothing THEN @ ELSE [@ EXCEPT !.status = "revoked"]]
      BY <2>3 DEF RevokeBinding
    <3>2. CASE d = request[r].dev
      <4>1. binding[d] # Nothing => ([binding[d] EXCEPT !.status = "revoked"]).status = "revoked"
        BY DEF LifeInv
      <4> QED  BY <1>1, <3>1, <3>2, <4>1 DEF LifeInv, BoundTo, IsActive
    <3>3. CASE d # request[r].dev  BY <1>1, <3>1, <3>3 DEF LifeInv, Near, BoundTo, IsActive
    <3> QED  BY <3>2, <3>3
  <2>4. ASSUME NEW r \in Requests, UpdateBindingPackage(r) PROVE d \in Near(p)
    <3>1. /\ binding' = [binding EXCEPT ![request[r].dev] =
                           IF @ = Nothing THEN @ ELSE [@ EXCEPT !.package = request[r].to]]
          /\ request[r].to \in movedTo /\ movedTo' = movedTo
      BY <2>4 DEF UpdateBindingPackage, QuotaInv, Pending
    <3>2. CASE d = request[r].dev
      <4>1. binding[d] # Nothing =>
              ([binding[d] EXCEPT !.package = request[r].to]).package = request[r].to
        BY DEF LifeInv
      <4> QED  BY <1>1, <3>1, <3>2, <4>1 DEF LifeInv, BoundTo, IsActive
    <3>3. CASE d # request[r].dev  BY <1>1, <3>1, <3>3 DEF LifeInv, Near, BoundTo, IsActive
    <3> QED  BY <3>2, <3>3
  <2>5. ASSUME NEW r \in Requests, DeleteByPackage(r) PROVE d \in Near(p)
    BY <1>1, <2>5 DEF DeleteByPackage, Near, BoundTo, IsActive
  <2> QED
    BY <2>1, <2>2, <2>3, <2>4, <2>5
       DEF BindingNext, bindingVars, RegisterDevice, ActivateAuto, BindManual, Migrate, UnbindDevice,
           Begins, CreateBindingDuplicate, CountBinding, UncountBinding, LeavePackage,
           EnterPackage, CallFails, DeleteUnusedPackage, RemovePackage, UpdateMaxDevices
<1>2. ASSUME NEW d \in Devices, d \in ComingTo(p)' PROVE d \in Near(p)
  <2>1. PICK r \in Requests :
          /\ request'[r] # Nothing /\ request'[r].dev = d
          /\ request'[r].step = "create" /\ request'[r].to = p
    BY <1>2 DEF ComingTo, DealsWith
  <2>2. ASSUME request'[r] = request[r] PROVE d \in Near(p)
    BY <2>1, <2>2 DEF Near, ComingTo, DealsWith
  <2>3. ASSUME NEW o \in Requests, NEW step \in CallSteps \ {"create"}, request[o] # Nothing,
               Goes(o, step)
        PROVE  d \in Near(p)
    <3>1. PICK q \in Request : q.step = step /\ request' = [request EXCEPT ![o] = q]
      BY <2>3, GoesOn DEF Pending
    <3>2. o # r  BY <2>1, <2>3, <3>1 DEF LifeInv
    <3> QED  BY <2>2, <3>1, <3>2 DEF LifeInv
  <2>4. ASSUME NEW o \in Requests, Ends(o) PROVE d \in Near(p)
    BY <2>1, <2>2, <2>4 DEF LifeInv, Ends
  <2>5. ASSUME NEW o \in Requests, NEW q, Begins(o, q), q.step # "create" \/ q.to # p
        PROVE  d \in Near(p)
    BY <2>1, <2>2, <2>5 DEF LifeInv, Begins
  <2>6. ASSUME NEW o \in Requests, NEW e \in Devices, NEW x \in Packages, ActivateAuto(o, e, x)
        PROVE  d \in Near(p)
    <3> DEFINE q == [step |-> "create", dev |-> e, from |-> Nothing, to |-> x]
    <3>1. q.to = x  OBVIOUS
    <3>2. Begins(o, q) /\ x # p  BY <2>6 DEF ActivateAuto
    <3> HIDE DEF q
    <3> QED  BY <2>5, <3>1, <3>2
  <2>7. ASSUME NEW o \in Requests, NEW e \in Devices,
               UnbindDevice(o, e) \/ \E x \in Packages : Migrate(o, e, x)
        PROVE  d \in Near(p)
    BY <2>5, <2>7 DEF UnbindDevice, Migrate
  <2>8. ASSUME NEW o \in Requests, NEW x \in Packages, DeleteUnusedPackage(o, x) PROVE d \in Near(p)
    BY <2>5, <2>8 DEF DeleteUnusedPackage
  <2>9. ASSUME NEW o \in Requests, CallFails(o) PROVE d \in Near(p)
    BY <2>3, <2>4, <2>9 DEF CallFails, CallSteps
  <2> QED
    BY <2>2, <2>3, <2>4, <2>6, <2>7, <2>8, <2>9
       DEF BindingNext, bindingVars, RegisterDevice, BindManual, CreateBinding,
           CreateBindingDuplicate, CountBinding, RevokeBinding, UncountBinding,
           UpdateBindingPackage, LeavePackage, EnterPackage, DeleteByPackage, RemovePackage,
           UpdateMaxDevices, CallSteps
<1> QED  BY <1>1, <1>2 DEF Near, BoundTo, ComingTo

LEMMA QuotaNextInv == CountsInv /\ QuotaInv /\ [BindingNext]_bindingVars => QuotaInv'
<1> SUFFICES ASSUME CountsInv, QuotaInv, [BindingNext]_bindingVars PROVE QuotaInv'
  OBVIOUS
<1>1. LifeInv  BY DEF CountsInv
<1>2. quota' \in [Packages -> Quotas]
  BY CountsAndQuotas DEF QuotaInv, UpdateMaxDevices
<1>3. \A q : \A r \in Requests : Begins(r, q) =>
        /\ \A o \in Pending' : (o = r /\ request'[o] = q) \/ (o \in Pending /\ request'[o] = request[o])
        /\ overlap' = "none" => overlap = "none" /\ Pending = {}
  BY <1>1 DEF Begins, Pending, LifeInv
<1>4. \A r \in Pending' : request'[r].step = "move" => request'[r].to \in movedTo'
  BY <1>1, <1>3, PendingGrows DEF QuotaInv
<1>5. overlap' = "none" => \A r, o \in Pending' : r = o
  BY <1>1, <1>3, PendingGrows DEF QuotaInv
<1>6. ASSUME overlap' = "none", ~again', NEW p \in Packages, p \notin movedTo'
      PROVE  \E q \in Quotas : Cardinality(BoundTo(p)' \cup ComingTo(p)') <= q
  <2>1. overlap = "none" /\ ~again /\ p \notin movedTo
    BY <1>1, <1>3, <1>6, PendingGrows
  <2>2. CASE \E r \in Requests, d \in Devices : ActivateAuto(r, d, p)
    <3>1. PICK r \in Requests, d \in Devices : ActivateAuto(r, d, p)  BY <2>2
    <3>2. Pending = {}  BY <1>3, <1>6, <3>1 DEF ActivateAuto
    <3>3. Cardinality(Near(p)') <= quota[p]  BY <2>1, <3>1, <3>2, AdmittedIsNear
    <3> QED  BY <3>3 DEF Near, QuotaInv
  <2>3. CASE ~\E r \in Requests, d \in Devices : ActivateAuto(r, d, p)
    <3>1. Near(p)' \subseteq Near(p)  BY <1>1, <1>6, <2>3, OthersNotNearer
    <3>2. PICK q \in Quotas : Cardinality(Near(p)) <= q  BY <2>1 DEF QuotaInv, Near
    <3> QED  BY <3>1, <3>2, NoneNearer DEF Near
  <2> QED  BY <2>2, <2>3
<1> QED  BY <1>2, <1>4, <1>5, <1>6 DEF QuotaInv

LEMMA CountsInvShows == CountsInv => CountsMatch
<1> SUFFICES ASSUME CountsInv, Pending = {}, overlap # "same", ~again, NEW p \in package
             PROVE  bound[p] = Cardinality(BoundTo(p))
  BY DEF CountsMatch
<1>1. p \in Packages  BY DEF CountsInv, LifeInv
<1>2. CountedIn(p) = BoundTo(p)
  BY DEF CountedIn, Counted, DealsWith, ActiveIn, BoundTo, Pending
<1> QED  BY <1>1, <1>2 DEF CountsInv

LEMMA QuotaInvShows == CountsInv /\ QuotaInv => QuotaKept
<1> SUFFICES ASSUME CountsInv, QuotaInv, overlap = "none", ~again, NEW p \in package \ movedTo
             PROVE  \E q \in Quotas : Cardinality(BoundTo(p)) <= q
  BY DEF QuotaKept
<1>1. p \in Packages  BY DEF CountsInv, LifeInv
<1>2. PICK q \in Quotas : Cardinality(BoundTo(p) \cup ComingTo(p)) <= q  BY <1>1 DEF QuotaInv
<1>3. IsFiniteSet(BoundTo(p) \cup ComingTo(p))  BY BindingConstants, FS_Subset DEF BoundTo, ComingTo
<1>4. /\ IsFiniteSet(BoundTo(p))
      /\ Cardinality(BoundTo(p)) <= Cardinality(BoundTo(p) \cup ComingTo(p))
  BY <1>3, FS_Subset
<1>5. /\ Cardinality(BoundTo(p)) \in Nat /\ Cardinality(BoundTo(p) \cup ComingTo(p)) \in Nat
      /\ q \in Nat
  BY <1>3, <1>4, FS_CardinalityType, BindingConstants
<1> QED  BY <1>2, <1>4, <1>5

HIDE DEF BindingRow

------------------------------------------------------------------------------
(* Enrolment: The count of a token never passes the devices it admitted,    *)
(* and enrolments that do not overlap stay within its limit, for any number *)
(* of agents, restarts and requests.  The invariant says of each request    *)
(* what its copy of the token will count, and of the only one at work that  *)
(* nobody has written the row since it was read.                            *)

Busy(h) == enrolling[h] # NoCopy

\* The devices of this request.
Its(h) == IF enrolling[h].row THEN 1 ELSE 0

\* The copy counts no more than the devices, once its own is there with that one counted, too.
CopyAdmitted == \A h \in Handlers : Busy(h) => enrolling[h].used + Its(h) <= devices

\* A request that works alone.
AloneOnToken(h) ==
  /\ \A g \in Handlers : Busy(g) => g = h
  /\ enrolling[h].used = enrolToken.used
  /\ enrolling[h].used < MaxUses
  /\ devices = enrolToken.used + Its(h)

TurnOnToken ==
  /\ (\A h \in Handlers : ~Busy(h)) => devices = enrolToken.used /\ devices <= MaxUses
  /\ \A h \in Handlers : Busy(h) => AloneOnToken(h)

EnrolInv ==
  /\ EnrolTypeOK
  /\ UsesAdmitted
  /\ CopyAdmitted
  /\ ~tokenRaced => TurnOnToken

\* What a handler may hold.
TokenCopy == [agent : Agents, status : {"active"}, used : 0 .. MaxRows, row : BOOLEAN]

USE EnrolConstants DEF Busy, Its, TokenCopy

LEMMA EnrolInitInv == EnrolInit => EnrolInv
<1> SUFFICES ASSUME EnrolInit PROVE EnrolInv  OBVIOUS
<1>1. EnrolTypeOK
  <2>1. enrolToken \in [status : {"active", "expired"}, used : 0 .. MaxRows]  BY DEF EnrolInit
  <2>2. devices \in 0 .. MaxRows  BY DEF EnrolInit
  <2>6. tokenLate \in BOOLEAN /\ tokenRaced \in BOOLEAN  BY Zenon DEF EnrolInit
  <2>3. enrolling \in [Handlers -> TokenCopy \cup {NoCopy}]  BY DEF EnrolInit
  <2>4. agent \in [Agents -> Handlers \cup {"off", "boots", "standalone", "offline", "online"}]
    BY DEF EnrolInit
  <2>5. identified \subseteq Agents /\ boots \in [Agents -> 0 .. MaxBoots]  BY DEF EnrolInit
  <2> QED  BY <2>1, <2>2, <2>3, <2>4, <2>5, <2>6 DEF EnrolTypeOK
<1>2. \A h \in Handlers : ~Busy(h)  BY DEF EnrolInit
<1>3. enrolToken.used = 0 /\ devices = 0  BY DEF EnrolInit
<1> QED  BY <1>1, <1>2, <1>3 DEF EnrolInv, UsesAdmitted, CopyAdmitted, TurnOnToken

\* The agents, the clock and the clean-up leave the requests and the count alone.
LEMMA AgentKeepsInv ==
  ASSUME EnrolInv, EnrolTypeOK',
         UNCHANGED <<devices, enrolling, tokenRaced>>, enrolToken'.used = enrolToken.used
  PROVE  EnrolInv'
  BY DEF EnrolInv, UsesAdmitted, CopyAdmitted, TurnOnToken, AloneOnToken

LEMMA AgentKeepsTypes ==
  ASSUME EnrolInv,
         \/ \E a \in Agents : Boot(a) \/ LoadIdentity(a) \/ EnrolFails(a)
         \/ TokenLapses
         \/ TokenCleanup
  PROVE  EnrolInv'
<1> USE DEF EnrolInv, EnrolTypeOK
<1>1. CASE \E a \in Agents : Boot(a) \/ LoadIdentity(a) \/ EnrolFails(a)
  <2>1. PICK a \in Agents : Boot(a) \/ LoadIdentity(a) \/ EnrolFails(a)  BY <1>1
  <2>2. EnrolTypeOK'  BY <2>1 DEF Boot, LoadIdentity, EnrolFails
  <2> QED  BY <2>1, <2>2, AgentKeepsInv DEF Boot, LoadIdentity, EnrolFails
<1>2. CASE TokenLapses  BY <1>2, AgentKeepsInv DEF TokenLapses
<1>3. CASE TokenCleanup
  <2>1. EnrolTypeOK'  BY <1>3 DEF TokenCleanup
  <2> QED  BY <1>3, <2>1, AgentKeepsInv DEF TokenCleanup
<1> QED  BY <1>1, <1>2, <1>3

LEMMA EnrolKeepsInv == ASSUME EnrolInv, NEW h \in Handlers, NEW a \in Agents, Enrol(h, a) PROVE EnrolInv'
<1> USE DEF EnrolInv, EnrolTypeOK
<1> DEFINE copy == [agent |-> a, status |-> enrolToken.status, used |-> enrolToken.used, row |-> FALSE]
<1>1. copy \in TokenCopy /\ copy # NoCopy
  <2>1. copy \in TokenCopy  BY DEF Enrol, TokenIsValid
  <2>2. copy \in [agent : Agents, status : {"active"}, used : Nat, row : BOOLEAN]  BY <2>1
  <2> QED  BY <2>1, <2>2
<1>2. copy.used = enrolToken.used /\ ~copy.row /\ enrolToken.used < MaxUses  BY DEF Enrol, TokenIsValid
<1>3. /\ enrolling[h] = NoCopy /\ enrolling' = [enrolling EXCEPT ![h] = copy]
      /\ agent' = [agent EXCEPT ![a] = h]
      /\ tokenRaced' = (tokenRaced \/ \E g \in Handlers \ {h} : enrolling[g] # NoCopy)
      /\ UNCHANGED <<enrolToken, tokenLate, devices, identified, boots>>
  BY DEF Enrol
<1> HIDE DEF copy
<1>4. EnrolTypeOK'  BY <1>1, <1>3
<1>5. UsesAdmitted'  BY <1>3 DEF UsesAdmitted
<1>6. CopyAdmitted'  BY <1>2, <1>3 DEF CopyAdmitted, UsesAdmitted
<1>7. ASSUME ~tokenRaced' PROVE TurnOnToken'
  <2>1. \A g \in Handlers : ~Busy(g)  BY <1>3, <1>7
  <2>2. devices = enrolToken.used /\ devices <= MaxUses  BY <1>3, <1>7, <2>1 DEF TurnOnToken
  <2>3. \A g \in Handlers : Busy(g)' => g = h  BY <1>3, <2>1
  <2>4. Busy(h)' /\ AloneOnToken(h)'  BY <1>1, <1>2, <1>3, <2>2, <2>3 DEF AloneOnToken
  <2> QED  BY <2>3, <2>4 DEF TurnOnToken
<1> QED  BY <1>4, <1>5, <1>6, <1>7

LEMMA CreateDeviceKeepsInv ==
  ASSUME EnrolInv, NEW h \in Handlers, CreateDevice(h) \/ CreateFails(h)
  PROVE  EnrolInv'
<1> USE DEF EnrolInv, EnrolTypeOK
<1>1. enrolling[h] \in TokenCopy /\ ~enrolling[h].row  BY DEF CreateDevice, CreateFails
<1>2. CASE CreateDevice(h)
  <2> DEFINE copy == [enrolling[h] EXCEPT !.row = TRUE]
  <2>1. /\ copy \in TokenCopy /\ copy # NoCopy /\ copy.row
        /\ copy.used = enrolling[h].used
    <3>1. copy \in TokenCopy /\ copy.row /\ copy.used = enrolling[h].used  BY <1>1
    <3>2. copy \in [agent : Agents, status : {"active"}, used : Nat, row : BOOLEAN]  BY <3>1
    <3> HIDE DEF copy
    <3> QED  BY <3>1, <3>2
  <2>2. /\ enrolling' = [enrolling EXCEPT ![h] = copy]
        /\ devices < MaxRows /\ devices' = devices + 1 /\ Busy(h)
        /\ UNCHANGED <<enrolToken, tokenLate, agent, identified, boots, tokenRaced>>
    BY <1>2 DEF CreateDevice
  <2> HIDE DEF copy
  <2>3. EnrolTypeOK'  BY <2>1, <2>2
  <2>4. UsesAdmitted'  BY <2>2 DEF UsesAdmitted
  <2>5. CopyAdmitted'
    <3>1. enrolling[h].used <= devices  BY <1>1, <2>2 DEF CopyAdmitted
    <3> QED  BY <2>1, <2>2, <3>1 DEF CopyAdmitted
  <2>6. ASSUME ~tokenRaced' PROVE TurnOnToken'
    <3>1. AloneOnToken(h)  BY <2>2, <2>6 DEF TurnOnToken
    <3>2. AloneOnToken(h)'  BY <1>1, <2>1, <2>2, <3>1 DEF AloneOnToken
    <3>3. \A g \in Handlers : Busy(g)' => g = h  BY <3>2 DEF AloneOnToken
    <3> QED  BY <2>1, <2>2, <3>2, <3>3 DEF TurnOnToken
  <2> QED  BY <2>3, <2>4, <2>5, <2>6
<1>3. CASE CreateFails(h)
  <2>1. /\ enrolling' = [enrolling EXCEPT ![h] = NoCopy] /\ Busy(h)
        /\ UNCHANGED <<enrolToken, tokenLate, devices, agent, identified, boots, tokenRaced>>
    BY <1>3 DEF CreateFails
  <2>2. EnrolTypeOK' /\ UsesAdmitted' /\ CopyAdmitted'  BY <2>1 DEF UsesAdmitted, CopyAdmitted
  <2>3. ASSUME ~tokenRaced' PROVE TurnOnToken'
    <3>1. AloneOnToken(h)  BY <2>1, <2>3 DEF TurnOnToken
    <3>2. \A g \in Handlers : ~Busy(g)'  BY <2>1, <3>1 DEF AloneOnToken
    <3>3. devices = enrolToken.used /\ devices <= MaxUses  BY <1>1, <3>1 DEF AloneOnToken
    <3> QED  BY <2>1, <3>2, <3>3 DEF TurnOnToken
  <2> QED  BY <2>2, <2>3
<1> QED  BY <1>2, <1>3

LEMMA AnswersTyped ==
  ASSUME EnrolInv, NEW h \in Handlers, Busy(h), Answers(h)
  PROVE  /\ agent' \in [Agents -> Handlers \cup {"off", "boots", "standalone", "offline", "online"}]
         /\ identified' \subseteq Agents
<1>1. enrolling[h].agent \in Agents  BY DEF EnrolInv, EnrolTypeOK
<1> QED  BY <1>1 DEF EnrolInv, EnrolTypeOK, Answers

LEMMA CountKeepsInv ==
  ASSUME EnrolInv, NEW h \in Handlers, CountUse(h) \/ CountUseFails(h)
  PROVE  EnrolInv'
<1> USE DEF EnrolInv, EnrolTypeOK
<1>1. Busy(h) /\ enrolling[h] \in TokenCopy /\ enrolling[h].row  BY DEF CountUse, CountUseFails
<1>2. enrolling' = [enrolling EXCEPT ![h] = NoCopy] /\ UNCHANGED <<devices, tokenLate, boots>>
  BY DEF CountUse, CountUseFails
<1>3. /\ agent' \in [Agents -> Handlers \cup {"off", "boots", "standalone", "offline", "online"}]
      /\ identified' \subseteq Agents
  BY <1>1, AnswersTyped DEF CountUse, CountUseFails
<1>4. enrolling[h].used + 1 <= devices  BY <1>1 DEF CopyAdmitted
<1>5. CASE CountUse(h)
  <2>1. /\ enrolToken' = [status |-> enrolling[h].status, used |-> enrolling[h].used + 1]
        /\ UNCHANGED tokenRaced
    BY <1>5 DEF CountUse
  <2>2. EnrolTypeOK'
    <3>1. enrolToken' \in [status : {"active", "expired"}, used : 0 .. MaxRows]  BY <1>1, <1>4, <2>1
    <3> QED  BY <1>2, <1>3, <2>1, <3>1
  <2>3. UsesAdmitted' /\ CopyAdmitted'  BY <1>2, <1>4, <2>1 DEF UsesAdmitted, CopyAdmitted
  <2>4. ASSUME ~tokenRaced' PROVE TurnOnToken'
    <3>1. AloneOnToken(h)  BY <1>1, <2>1, <2>4 DEF TurnOnToken
    <3>2. \A g \in Handlers : ~Busy(g)'  BY <1>2, <3>1 DEF AloneOnToken
    <3>3. devices' = enrolToken'.used /\ devices' <= MaxUses  BY <1>1, <1>2, <2>1, <3>1 DEF AloneOnToken
    <3> QED  BY <3>2, <3>3 DEF TurnOnToken
  <2> QED  BY <2>2, <2>3, <2>4
<1>6. CASE CountUseFails(h)
  <2>1. tokenRaced' /\ UNCHANGED enrolToken  BY <1>6 DEF CountUseFails
  <2> QED  BY <1>2, <1>3, <2>1 DEF UsesAdmitted, CopyAdmitted
<1> QED  BY <1>5, <1>6

LEMMA EnrolNextInv == EnrolInv /\ [EnrolNext]_enrolVars => EnrolInv'
<1> SUFFICES ASSUME EnrolInv, [EnrolNext]_enrolVars PROVE EnrolInv'  OBVIOUS
<1>1. CASE UNCHANGED enrolVars  BY <1>1, AgentKeepsInv DEF enrolVars, EnrolInv, EnrolTypeOK
<1>2. ASSUME NEW h \in Handlers,
             \/ \E a \in Agents : Enrol(h, a)
             \/ CreateDevice(h) \/ CreateFails(h) \/ CountUse(h) \/ CountUseFails(h)
      PROVE  EnrolInv'
  BY <1>2, EnrolKeepsInv, CreateDeviceKeepsInv, CountKeepsInv
<1>3. CASE EnrolNext  BY <1>2, <1>3, AgentKeepsTypes DEF EnrolNext
<1> QED  BY <1>1, <1>3

LEMMA EnrolInvShows == EnrolInv => UsesAdmitted /\ AdmitsAtMost
<1> SUFFICES ASSUME EnrolInv, ~tokenRaced PROVE devices <= MaxUses  BY DEF EnrolInv, AdmitsAtMost
<1>1. CASE \A h \in Handlers : ~Busy(h)  BY <1>1 DEF EnrolInv, TurnOnToken
<1>2. CASE \E h \in Handlers : Busy(h)
  <2>1. PICK h \in Handlers : Busy(h)  BY <1>2
  <2> QED  BY <2>1 DEF EnrolInv, EnrolTypeOK, TurnOnToken, AloneOnToken
<1> QED  BY <1>1, <1>2

HIDE EnrolConstants DEF Busy, Its, TokenCopy

------------------------------------------------------------------------------
(* Devices: a device that is out of service stays out, as long as nothing   *)
(* is saved from a copy that is out of date.  A save that is in time writes *)
(* over the row it read, and no copy was read from a deleted row, nor one   *)
(* of a heartbeat from a revoked row.                                       *)

SaverOK(w) == w # Unsaved => ~w.read.deleted /\ (w.by = "agent" => w.read.status # "revoked")

DeviceInv == DeviceTypeOK /\ \A s \in Savers : SaverOK(saving[s])

LEMMA DeviceInitInv == DeviceInit => DeviceInv
<1> SUFFICES ASSUME DeviceInit PROVE DeviceInv
  OBVIOUS
<1>1. device \in Row  BY DEF DeviceInit, Row, Services
<1>2. deviceRaced \in BOOLEAN  BY DEF DeviceInit
<1>3. saving \in [Savers -> [by : {"agent", "admin"}, read : Row, to : Row] \cup {Unsaved}]
  BY DEF DeviceInit
<1>4. \A s \in Savers : SaverOK(saving[s])  BY DEF DeviceInit, SaverOK
<1> QED  BY <1>1, <1>2, <1>3, <1>4 DEF DeviceInv, DeviceTypeOK

LEMMA DeviceReadKeepsInv ==
  ASSUME DeviceInv, NEW s \in Savers, NEW who \in {"agent", "admin"}, NEW copy \in Row,
         ReadsDevice(s, who, copy), who = "agent" => ~IsRevoked
  PROVE  DeviceInv'
<1> DEFINE w == [by |-> who, read |-> device, to |-> copy]
<1>1. device \in Row  BY DEF DeviceInv, DeviceTypeOK
<1>2. w \in [by : {"agent", "admin"}, read : Row, to : Row]  BY <1>1
<1>3. w.read = device /\ w.by = who  OBVIOUS
<1>4. saving' = [saving EXCEPT ![s] = w] /\ ~device.deleted /\ UNCHANGED <<device, deviceRaced>>
  BY DEF ReadsDevice
<1>5. SaverOK(w)  BY <1>3, <1>4 DEF SaverOK, IsRevoked
<1> HIDE DEF w
<1>6. DeviceTypeOK'  BY <1>2, <1>4 DEF DeviceInv, DeviceTypeOK
<1>7. \A t \in Savers : SaverOK(saving'[t])  BY <1>4, <1>5 DEF DeviceInv, DeviceTypeOK
<1> QED  BY <1>6, <1>7 DEF DeviceInv, SaverOK

LEMMA DeviceNextInv == DeviceInv /\ [DeviceNext]_deviceVars => DeviceInv'
<1> SUFFICES ASSUME DeviceInv, [DeviceNext]_deviceVars PROVE DeviceInv'
  OBVIOUS
<1>0. device \in Row  BY DEF DeviceInv, DeviceTypeOK
<1>1. ASSUME NEW s \in Savers, NEW reported \in {"active", "offline"}, Heartbeat(s, reported)
      PROVE  DeviceInv'
  <2>1. [device EXCEPT !.status =
          IF reported # "offline" THEN reported
          ELSE IF @ = "pending_activation" THEN "active" ELSE @] \in Row
    BY <1>0 DEF Row, Services
  <2> QED  BY <1>1, <2>1, DeviceReadKeepsInv DEF Heartbeat
<1>2. ASSUME NEW s \in Savers, NEW status \in Services, UpdateDevice(s, status) PROVE DeviceInv'
  <2>1. [device EXCEPT !.status = status] \in Row  BY <1>0 DEF Row
  <2> QED  BY <1>2, <2>1, DeviceReadKeepsInv DEF UpdateDevice
<1>3. ASSUME NEW s \in Savers, SaveDevice(s) PROVE DeviceInv'
  <2>1. saving[s] \in [by : {"agent", "admin"}, read : Row, to : Row]
    BY <1>3 DEF DeviceInv, DeviceTypeOK, SaveDevice
  <2>2. saving[s].to \in Row  BY <2>1
  <2>3. /\ device' = saving[s].to /\ deviceRaced' = (deviceRaced \/ device # saving[s].read)
        /\ saving' = [saving EXCEPT ![s] = Unsaved]
    BY <1>3 DEF SaveDevice
  <2>4. deviceRaced' \in BOOLEAN  BY <2>3
  <2>5. DeviceTypeOK'  BY <2>2, <2>3, <2>4 DEF DeviceInv, DeviceTypeOK
  <2>6. \A t \in Savers : SaverOK(saving'[t])  BY <2>3 DEF DeviceInv, DeviceTypeOK, SaverOK
  <2> QED  BY <2>5, <2>6 DEF DeviceInv, SaverOK
<1>4. ASSUME NEW s \in Savers, SaveDeviceFails(s) PROVE DeviceInv'
  BY <1>4 DEF DeviceInv, DeviceTypeOK, SaverOK, SaveDeviceFails
<1>5. CASE DeleteDevice
  <2>1. [device EXCEPT !.deleted = TRUE] \in Row  BY <1>0 DEF Row
  <2> QED  BY <1>5, <2>1 DEF DeviceInv, DeviceTypeOK, SaverOK, DeleteDevice
<1>6. CASE UNCHANGED deviceVars  BY <1>6 DEF deviceVars, DeviceInv, DeviceTypeOK, SaverOK
<1> QED  BY <1>1, <1>2, <1>3, <1>4, <1>5, <1>6 DEF DeviceNext

LEMMA OutShows ==
  ASSUME DeviceInv, [DeviceNext]_deviceVars, OutOfService, ~OutOfService', ~deviceRaced'
  PROVE  /\ ~device.deleted
         /\ \E s \in Savers : saving[s] # Unsaved /\ saving'[s] = Unsaved /\ saving[s].by = "admin"
<1>0. device \in Row  BY DEF DeviceInv, DeviceTypeOK
<1>1. ~DeleteDevice
  <2>1. ([device EXCEPT !.deleted = TRUE]).deleted  BY <1>0 DEF Row
  <2> QED  BY <2>1 DEF DeleteDevice, OutOfService
<1>2. PICK s \in Savers : SaveDevice(s)
  BY <1>1 DEF DeviceNext, deviceVars, Heartbeat, UpdateDevice, ReadsDevice, SaveDeviceFails,
              OutOfService
<1>3. device = saving[s].read /\ saving[s] # Unsaved /\ saving' = [saving EXCEPT ![s] = Unsaved]
  BY <1>2 DEF SaveDevice
<1>4. saving[s].by \in {"agent", "admin"} /\ SaverOK(saving[s]) /\ saving'[s] = Unsaved
  BY <1>3 DEF DeviceInv, DeviceTypeOK
<1> QED  BY <1>3, <1>4 DEF SaverOK, OutOfService

\* A device that was deleted never returns, and one that was revoked only by an administrator,
\* unless a copy out of date is saved (device_service.go, UpdateDevice and DeleteDevice).
LEMMA DevicesStayOut == DeviceSpec => OutStaysOut
<1>1. DeviceInv /\ [DeviceNext]_deviceVars =>
        [(OutOfService /\ ~OutOfService' /\ ~deviceRaced')
           => /\ ~device.deleted
              /\ \E s \in Savers : /\ saving[s] # Unsaved /\ saving'[s] = Unsaved
                                   /\ saving[s].by = "admin"]_deviceVars
  BY OutShows
<1> QED  BY <1>1, DeviceInitInv, DeviceNextInv, PTL DEF DeviceSpec, OutStaysOut

------------------------------------------------------------------------------
(* Accounts: the person of a deleted account is given a token only by a     *)
(* call that had read the account before: Login and RefreshAccessToken look *)
(* for a live row when they begin.                                          *)

Session == [access : {"none", "valid", "over"}, refresh : {"none", "valid", "over"}]

AccountsInv ==
  /\ consoleSession \in Session
  /\ doing = [c \in Callers |-> doing[c]]
  /\ \A c \in Callers : doing[c].op \in {"login", "refresh"} => doing[c].row.row = "live"

LEMMA AccountsInitInv == AccountsInit => AccountsInv
  BY DEF AccountsInit, AccountsInv, Session, NoCall

LEMMA StartsKeepsInv ==
  ASSUME AccountsInv, NEW c \in Callers, NEW op, NEW row, NEW api, StartsCall(c, op, row, api),
         UNCHANGED consoleSession, op \in {"login", "refresh"} => row.row = "live"
  PROVE  AccountsInv'
<1> DEFINE w == [op |-> op, row |-> row, api |-> api]
<1>1. w.op = op /\ w.row = row  OBVIOUS
<1>2. doing' = [doing EXCEPT ![c] = w]  BY DEF StartsCall
<1> HIDE DEF w
<1> QED  BY <1>1, <1>2 DEF AccountsInv

LEMMA WritesKeepsInv ==
  ASSUME AccountsInv, NEW c \in Callers, NEW op, Writes(c, op), consoleSession' \in Session
  PROVE  AccountsInv'
<1>1. NoCall.op = "none"  BY DEF NoCall
<1>2. doing' = [doing EXCEPT ![c] = NoCall]  BY DEF Writes
<1> QED  BY <1>1, <1>2 DEF AccountsInv

LEMMA AccountsNextInv == AccountsInv /\ [AccountsNext]_accountsVars => AccountsInv'
<1> SUFFICES ASSUME AccountsInv, [AccountsNext]_accountsVars PROVE AccountsInv'
  OBVIOUS
<1>0. consoleSession \in Session /\ [access |-> "valid", refresh |-> "valid"] \in Session
  BY DEF AccountsInv, Session
<1>1. ASSUME NEW c \in Callers,
             \/ CreateUser(c)
             \/ \E p \in Passwords : Login(c, p)
             \/ RefreshAccessToken(c)
             \/ \E p, q \in Passwords : ChangePassword(c, p, q)
             \/ UpdateUser(c) \/ DeleteUser(c) \/ ValidateApiToken(c) \/ RevokeApiToken(c)
      PROVE  AccountsInv'
  <2>1. ASSUME NEW op, NEW row, NEW api, StartsCall(c, op, row, api),
               op \in {"login", "refresh"} => row.row = "live"
        PROVE  AccountsInv'
    BY <2>1, StartsKeepsInv DEF StartsCall
  <2>2. CASE CreateUser(c)  BY <2>1, <2>2 DEF CreateUser
  <2>3. CASE \E p \in Passwords : Login(c, p)  BY <2>1, <2>3 DEF Login, Live
  <2>4. CASE RefreshAccessToken(c)  BY <2>1, <2>4 DEF RefreshAccessToken, Live
  <2>5. CASE \E p, q \in Passwords : ChangePassword(c, p, q)  BY <2>1, <2>5 DEF ChangePassword
  <2>6. CASE UpdateUser(c)  BY <2>1, <2>6 DEF UpdateUser
  <2>7. CASE DeleteUser(c)  BY <2>1, <2>7 DEF DeleteUser
  <2>8. CASE ValidateApiToken(c)  BY <2>1, <2>8 DEF ValidateApiToken
  <2>9. CASE RevokeApiToken(c)  BY <2>1, <2>9 DEF RevokeApiToken
  <2> QED  BY <1>1, <2>2, <2>3, <2>4, <2>5, <2>6, <2>7, <2>8, <2>9
<1>2. ASSUME NEW c \in Callers,
             \/ AccountCallFails(c) \/ UserCreated(c) \/ LoggedIn(c) \/ Refreshed(c)
             \/ PasswordChanged(c) \/ UserUpdated(c) \/ UserDeleted(c) \/ ApiTokenUsed(c)
             \/ ApiTokenRevoked(c)
      PROVE  AccountsInv'
  BY <1>0, <1>2, WritesKeepsInv
     DEF AccountCallFails, UserCreated, LoggedIn, Refreshed, PasswordChanged, UserUpdated,
         UserDeleted, ApiTokenUsed, ApiTokenRevoked
<1>3. CASE CreateApiToken  BY <1>3 DEF AccountsInv, CreateApiToken
<1>4. CASE TokensLapse
  <2>1. [consoleSession EXCEPT !.access = "over"] \in Session  BY <1>0 DEF Session
  <2>2. [consoleSession EXCEPT !.refresh = "over"] \in Session  BY <1>0 DEF Session
  <2> QED  BY <1>0, <1>4, <2>1, <2>2 DEF AccountsInv, TokensLapse
<1>5. CASE UNCHANGED accountsVars  BY <1>5 DEF AccountsInv, accountsVars
<1> QED  BY <1>1, <1>2, <1>3, <1>4, <1>5 DEF AccountsNext

LEMMA DeletedShows ==
  ASSUME AccountsInv, [AccountsNext]_accountsVars,
         consoleSession.access = "over", consoleSession'.access = "valid"
  PROVE  \E c \in Callers : doing[c].op \in {"login", "refresh"} /\ doing[c].row.row = "live"
<1>1. consoleSession' # consoleSession  OBVIOUS
<1>2. ~TokensLapse
  <2>1. ([consoleSession EXCEPT !.refresh = "over"]).access = consoleSession.access
    BY DEF AccountsInv, Session
  <2> QED  BY <1>1, <2>1 DEF TokensLapse
<1>3. PICK c \in Callers : LoggedIn(c) \/ Refreshed(c)
  <2>1. AccountsNext  BY <1>1 DEF accountsVars
  <2>2. ~CreateApiToken  BY <1>1 DEF CreateApiToken
  <2>3. ASSUME NEW c \in Callers
        PROVE  /\ ~AccountCallFails(c) /\ ~CreateUser(c) /\ ~UserCreated(c)
               /\ \A p \in Passwords : ~Login(c, p)
               /\ ~RefreshAccessToken(c)
               /\ \A p, q \in Passwords : ~ChangePassword(c, p, q)
               /\ ~PasswordChanged(c) /\ ~UpdateUser(c) /\ ~UserUpdated(c) /\ ~DeleteUser(c)
               /\ ~UserDeleted(c) /\ ~ValidateApiToken(c) /\ ~ApiTokenUsed(c)
               /\ ~RevokeApiToken(c) /\ ~ApiTokenRevoked(c)
    BY <1>1
       DEF AccountCallFails, CreateUser, UserCreated, Login, RefreshAccessToken, ChangePassword,
           PasswordChanged, UpdateUser, UserUpdated, DeleteUser, UserDeleted, ValidateApiToken,
           ApiTokenUsed, RevokeApiToken, ApiTokenRevoked, StartsCall
  <2> QED  BY <1>2, <2>1, <2>2, <2>3 DEF AccountsNext
<1>4. doing[c].op \in {"login", "refresh"}  BY <1>3 DEF LoggedIn, Refreshed, Writes
<1> QED  BY <1>4 DEF AccountsInv

\* Once an account is deleted and its access token over, only a call that had read the account
\* before gives the person another token (auth_service.go Login, RefreshAccessToken).
LEMMA DeletedGetNoTokens == AccountsInit /\ [][AccountsNext]_accountsVars => DeletedIsShutOut
<1>1. AccountsInv /\ [AccountsNext]_accountsVars =>
        [user.row = "gone" /\ consoleSession.access = "over" /\ consoleSession'.access = "valid"
           => \E c \in Callers : doing[c].op \in {"login", "refresh"} /\ doing[c].row.row = "live"
        ]_accountsVars
  BY DeletedShows
<1> QED  BY <1>1, AccountsInitInv, AccountsNextInv, PTL DEF DeletedIsShutOut

------------------------------------------------------------------------------
(* Batch tasks on a group: between the dispatch of a task and the run of    *)
(* its goroutine the members come and go, and the history of that time is   *)
(* kept along with them.                                                    *)

GroupCounts == {0} \cup {Cardinality(ds) : ds \in SUBSET GroupDevices}

GroupJob == [at : {"none", "listed", "pending", "starts", "running", "failed"},
             group : 0 .. MaxGroups, total : GroupCounts, sends : SUBSET GroupDevices,
             might : SUBSET GroupDevices, must : SUBSET GroupDevices,
             refused : {"none", "read", "write"}]

GroupTaskInv ==
  /\ groupJob \in GroupJob
  /\ groupJob.at = "starts" =>
       groupJob.must \subseteq MembersOf(groupJob.group) /\ MembersOf(groupJob.group) \subseteq groupJob.might
  /\ TaskReachesItsGroup

LEMMA GroupTaskInitInv == GroupInit => GroupTaskInv
  BY GroupConstants
     DEF GroupInit, GroupTaskInv, NoJob, GroupJob, GroupCounts, TaskReachesItsGroup

\* A change of the members is noted in what the task may and must send to.
LEMMA SeenKeepsInv ==
  ASSUME GroupTaskInv, NEW rows, memberRows' = rows, groupJob' = SeenByTask(rows)
  PROVE  GroupTaskInv'
<1> DEFINE now == {d \in GroupDevices : <<groupJob.group, d>> \in rows}
<1>1. CASE groupJob.at = "starts"
  <2>1. groupJob' = [groupJob EXCEPT !.might = @ \union now, !.must = @ \intersect now]
    BY <1>1 DEF SeenByTask
  <2>2. groupJob' \in GroupJob  BY <2>1 DEF GroupTaskInv, GroupJob
  <2>3. /\ groupJob'.at = groupJob.at /\ groupJob'.group = groupJob.group
        /\ groupJob'.might = groupJob.might \union now
        /\ groupJob'.must = groupJob.must \intersect now
    BY <2>1 DEF GroupTaskInv, GroupJob
  <2>4. MembersOf(groupJob.group)' = now  BY <2>3 DEF MembersOf
  <2> QED  BY <1>1, <2>2, <2>3, <2>4 DEF GroupTaskInv, TaskReachesItsGroup
<1>2. CASE groupJob.at # "starts"
  BY <1>2 DEF SeenByTask, GroupTaskInv, TaskReachesItsGroup
<1> QED  BY <1>1, <1>2

LEMMA GroupTaskNextInv == GroupTaskInv /\ [GroupNext]_groupVars => GroupTaskInv'
<1> SUFFICES ASSUME GroupTaskInv, [GroupNext]_groupVars  PROVE GroupTaskInv'  OBVIOUS
<1>0. \A g : MembersOf(g) \in SUBSET GroupDevices  BY DEF MembersOf
<1>1. ASSUME UNCHANGED <<memberRows, groupJob>>  PROVE GroupTaskInv'
  BY <1>1 DEF GroupTaskInv, TaskReachesItsGroup, MembersOf
<1>2. ASSUME NEW g \in Groups, DeleteGroup(g)  PROVE GroupTaskInv'
  BY <1>2, SeenKeepsInv DEF DeleteGroup
<1>3. ASSUME NEW g \in Groups, NEW ds, AddMembers(g, ds)  PROVE GroupTaskInv'
  BY <1>3, SeenKeepsInv DEF AddMembers
<1>4. ASSUME NEW g \in Groups, NEW d, RemoveMember(g, d)  PROVE GroupTaskInv'
  BY <1>4, SeenKeepsInv DEF RemoveMember
<1>5. ASSUME NEW g \in Groups, ListForTask(g)  PROVE GroupTaskInv'
  <2>1. g \in 0 .. MaxGroups  BY DEF Groups
  <2> QED  BY <1>0, <1>5, <2>1 DEF ListForTask, GroupTaskInv, GroupJob, TaskReachesItsGroup
<1>6. CASE InsertTask
  BY <1>6 DEF InsertTask, GroupTaskInv, GroupJob, GroupCounts, TaskReachesItsGroup
<1>7. CASE DispatchTask
  BY <1>0, <1>7 DEF DispatchTask, GroupTaskInv, GroupJob, TaskReachesItsGroup, MembersOf
<1>8. /\ Targets \in SUBSET GroupDevices
      /\ groupJob.at = "starts" => groupJob.must \subseteq Targets /\ Targets \subseteq groupJob.might
  BY <1>0 DEF Targets, GroupTaskInv
<1>12. CASE RunTask
  <2> DEFINE targets == Targets
             count == Cardinality(targets)
  <2>1. PICK refused \in {"none", "write"} :
          groupJob' = [groupJob EXCEPT !.at = "running", !.sends = targets, !.refused = refused,
                         !.total = IF refused = "write" THEN @ ELSE count]
    BY <1>12 DEF RunTask
  <2>2. targets \in SUBSET GroupDevices /\ count \in GroupCounts  BY <1>8 DEF GroupCounts
  <2>3. groupJob.must \subseteq targets /\ targets \subseteq groupJob.might  BY <1>8, <1>12 DEF RunTask
  <2>4. count = Cardinality(targets)  OBVIOUS
  <2> HIDE DEF targets, count
  <2>5. groupJob' \in GroupJob  BY <2>1, <2>2 DEF GroupTaskInv, GroupJob
  <2>6. /\ groupJob'.at = "running" /\ groupJob'.sends = targets /\ groupJob'.refused = refused
        /\ groupJob'.must = groupJob.must /\ groupJob'.might = groupJob.might
        /\ refused = "none" => groupJob'.total = count
    BY <2>1 DEF GroupTaskInv, GroupJob
  <2> QED  BY <2>3, <2>4, <2>5, <2>6 DEF GroupTaskInv, TaskReachesItsGroup
<1>13. CASE NobodyToReach
  <2>1. PICK refused \in {"none", "read"} :
          /\ refused = "none" => Targets = {}
          /\ groupJob' = [groupJob EXCEPT !.at = "failed", !.refused = refused]
    BY <1>13 DEF NobodyToReach
  <2>2. groupJob' \in GroupJob  BY <2>1 DEF GroupTaskInv, GroupJob
  <2>3. /\ groupJob'.at = "failed" /\ groupJob'.refused = refused
        /\ groupJob'.must = groupJob.must
    BY <2>1 DEF GroupTaskInv, GroupJob
  <2>4. refused = "none" => groupJob.must = {}  BY <1>8, <1>13, <2>1 DEF NobodyToReach
  <2> QED  BY <2>2, <2>3, <2>4 DEF GroupTaskInv, TaskReachesItsGroup
<1>9. CASE CreateGroup \/ OpenList \/ CountGroups \/ ShowPage
  BY <1>1, <1>9 DEF CreateGroup, OpenList, CountGroups, ShowPage
<1>10. ASSUME NEW e \in GroupEdits, SaveGroup(e) \/ SaveGroupFails(e) \/ \E g \in Groups, fs \in SUBSET GroupFields : ReadGroup(e, g, fs)
       PROVE GroupTaskInv'
  BY <1>1, <1>10 DEF SaveGroup, SaveGroupFails, ReadGroup
<1>11. CASE UNCHANGED groupVars  BY <1>1, <1>11 DEF groupVars
<1> QED
  BY <1>2, <1>3, <1>4, <1>5, <1>6, <1>7, <1>9, <1>10, <1>11, <1>12, <1>13 DEF GroupNext

------------------------------------------------------------------------------
(* The Feishu bot: a chat whose requests do not overlap is served by one    *)
(* request at a time, and that request is the only one that may leave       *)
(* memory, Redis and what was ordered apart, for as long as it takes.       *)

BotRequest == [at : {"idle", "lookup", "fill", "found", "store", "remove", "track", "keep", "ask",
                     "route", "push"},
               kind : {None, "bind", "unbind", "talk", "event"}, chat : BotChats \cup {None},
               device : BotDevices \cup {None}, session : ChatSessions \cup {None},
               found : [device : BotDevices \cup {None}, session : ChatSessions \cup {None}],
               to : BotChats \cup {None}, known : BOOLEAN]

BotRows ==
  /\ hasRedis \in BOOLEAN
  /\ bindings \in [BotChats -> [device : BotDevices \cup {None},
                                session : ChatSessions \cup {None}]]
  /\ sessions \in [ChatSessions -> BotChats \cup {None}]
  /\ storedBindings \in [BotChats -> BotDevices \cup {None}]
  /\ storedSessions \in [ChatSessions -> BotChats \cup {None}]
  /\ created \in [ChatSessions -> [chat : BotChats, device : BotDevices] \cup {Unbound}]
  /\ ordered \in [BotChats -> BotDevices \cup {None}]
  /\ clean \in [BotChats -> BOOLEAN]

\* A session that has been created belongs to a chat.
OfChat(s, c) == created[s] # Unbound /\ created[s].chat = c

\* What a request of the bot may count on, wherever it is.
ServesWell(r) ==
  /\ serving[r].at = "idle" => serving[r] = NotAsked
  /\ serving[r].at \in {"lookup", "fill", "found", "store", "remove", "track", "keep"} =>
       serving[r].chat \in BotChats /\ ~serving[r].known
  /\ ~hasRedis => serving[r].at \notin {"lookup", "fill", "store", "remove", "keep", "ask"}
  /\ serving[r].kind = "bind" => serving[r].device # None
  /\ serving[r].at \in {"track", "keep"} =>
       serving[r].session \in ChatSessions /\ OfChat(serving[r].session, serving[r].chat)
  /\ serving[r].at \in {"ask", "route", "push"} =>
       serving[r].chat = None /\ serving[r].session \in ChatSessions
       /\ created[serving[r].session] # Unbound
  /\ serving[r].at \in {"ask", "route"} => ~serving[r].known
  /\ serving[r].at = "push" /\ serving[r].known => OfChat(serving[r].session, serving[r].to)

\* Whoever remembers the chat of a session remembers the one that asked.
SessionsKnown ==
  \A s \in ChatSessions :
    /\ sessions[s] # None => OfChat(s, sessions[s])
    /\ storedSessions[s] # None => OfChat(s, storedSessions[s])

\* The device a chat asks, as GetBinding finds it.
DeviceAsked(c) == IF bindings[c] # Unbound THEN bindings[c].device ELSE storedBindings[c]

\* How far the request r of chat c may be from what was ordered.
Along(r, c) ==
  LET q == serving[r] IN
  /\ q.at # "remove" => ordered[c] = DeviceAsked(c)
  /\ q.at \notin {"store", "remove"} /\ hasRedis => ordered[c] = storedBindings[c]
  /\ q.at \in {"lookup", "fill"} => bindings[c] = Unbound
  /\ q.at \in {"fill", "found"} => q.found.device = ordered[c]
  /\ q.at = "fill" => q.found.device # None
  /\ q.at = "store" => bindings[c] # Unbound /\ q.device = ordered[c]
  /\ q.at = "remove" => bindings[c] = Unbound /\ ordered[c] = None

Settled(c) == ordered[c] = DeviceAsked(c) /\ (hasRedis => ordered[c] = storedBindings[c])

CleanChat(c) ==
  clean[c] =>
    /\ \A r \in BotRequests : \A q \in BotRequests :
         serving[r].chat = c /\ serving[q].chat = c => r = q
    /\ \A r \in BotRequests : serving[r].chat = c => Along(r, c)
    /\ (\A r \in BotRequests : serving[r].chat # c) => Settled(c)

NoStrayKeys == ~hasRedis => \A c \in BotChats : storedBindings[c] = None

BotInv ==
  /\ BotRows
  /\ serving \in [BotRequests -> BotRequest]
  /\ \A r \in BotRequests : ServesWell(r)
  /\ SessionsKnown
  /\ NoStrayKeys
  /\ \A c \in BotChats : CleanChat(c)

\* A request that has been served.
LEMMA ServedIs ==
  /\ NotAsked \in BotRequest /\ NotAsked.at = "idle" /\ NotAsked.chat = None
  /\ NotAsked.kind # "bind"
  /\ \A r : Served(r) <=> Becomes(r, NotAsked)
<1>1. NotAsked \in BotRequest  BY DEF NotAsked, BotRequest, Unbound
<1>2. NotAsked.at = "idle" /\ NotAsked.chat = None /\ NotAsked.kind # "bind"
  BY DEF NotAsked, None
<1> QED  BY <1>1, <1>2 DEF Served

LEMMA IdleServesWell ==
  ASSUME NEW r, serving[r] = NotAsked
  PROVE  ServesWell(r)
<1>1. serving[r].at = "idle" /\ serving[r].kind # "bind"  BY ServedIs
<1> QED  BY <1>1 DEF ServesWell

LEMMA IdleServesWellNext ==
  ASSUME NEW r, serving'[r] = NotAsked
  PROVE  ServesWell(r)'
<1>1. serving'[r].at = "idle" /\ serving'[r].kind # "bind"  BY ServedIs
<1> QED  BY <1>1 DEF ServesWell

LEMMA BotInitInv == BotInit => BotInv
<1> SUFFICES ASSUME BotInit  PROVE BotInv  OBVIOUS
<1> USE BotIds DEF BotInit, NewChatBridge, Unbound
<1>1. BotRows  BY DEF BotRows
<1>2. serving \in [BotRequests -> BotRequest]  BY DEF NotAsked, BotRequest
<1>3. \A r \in BotRequests : serving[r] = NotAsked  OBVIOUS
<1>4. \A r \in BotRequests : ServesWell(r)  BY <1>3, IdleServesWell
<1>5. SessionsKnown /\ NoStrayKeys  BY DEF SessionsKnown, NoStrayKeys
<1>6. \A c \in BotChats : CleanChat(c)
  <2>1. None \notin BotChats  OBVIOUS
  <2>2. \A r \in BotRequests : \A c \in BotChats : serving[r].chat # c  BY <1>3, <2>1, ServedIs
  <2> QED  BY <2>2 DEF CleanChat, Settled, DeviceAsked
<1> QED  BY <1>1, <1>2, <1>4, <1>5, <1>6 DEF BotInv

\* What becomes of a request.
LEMMA BecomesIs ==
  ASSUME serving \in [BotRequests -> BotRequest], NEW r \in BotRequests, NEW now \in BotRequest,
         Becomes(r, now)
  PROVE  /\ serving' \in [BotRequests -> BotRequest]
         /\ serving'[r] = now
         /\ \A q \in BotRequests : q # r => serving'[q] = serving[q]
  BY DEF Becomes

LEMMA ReachesIs ==
  ASSUME serving \in [BotRequests -> BotRequest], NEW r \in BotRequests,
         NEW place \in {"found", "store", "remove", "track", "keep", "route"}, Reaches(r, place)
  PROVE  \E now \in BotRequest :
           /\ Becomes(r, now)
           /\ now.at = place /\ now.chat = serving[r].chat /\ now.device = serving[r].device
           /\ now.kind = serving[r].kind
           /\ now.session = serving[r].session /\ now.found = serving[r].found
           /\ now.to = serving[r].to /\ now.known = serving[r].known
<1> DEFINE now == [serving[r] EXCEPT !.at = place]
<1>0. serving[r] \in BotRequest  OBVIOUS
<1>1. now \in BotRequest  BY <1>0 DEF BotRequest
<1>2. /\ now.at = place /\ now.chat = serving[r].chat /\ now.device = serving[r].device
      /\ now.kind = serving[r].kind
      /\ now.session = serving[r].session /\ now.found = serving[r].found
      /\ now.to = serving[r].to /\ now.known = serving[r].known
  BY <1>0 DEF BotRequest
<1>3. Becomes(r, now)  BY DEF Reaches
<1> HIDE DEF now
<1> QED  BY <1>1, <1>2, <1>3

\* The steps of one request leave the others with what they count on.
LEMMA OthersServeWell ==
  ASSUME NEW q \in BotRequests, ServesWell(q), serving'[q] = serving[q], UNCHANGED hasRedis,
         serving[q] \in BotRequest,
         \A s \in ChatSessions : created[s] # Unbound => created'[s] = created[s]
  PROVE  ServesWell(q)'
  BY DEF ServesWell, OfChat, BotRequest

\* A chat that a step does not touch is as clean as it was.
LEMMA OtherChatsClean ==
  ASSUME NEW c \in BotChats, CleanChat(c), NEW r \in BotRequests, UNCHANGED hasRedis,
         \A q \in BotRequests : q # r => serving'[q] = serving[q],
         serving[r].chat # c, serving'[r].chat # c,
         bindings'[c] = bindings[c], storedBindings'[c] = storedBindings[c],
         ordered'[c] = ordered[c], clean'[c] => clean[c]
  PROVE  CleanChat(c)'
<1> SUFFICES ASSUME clean'[c]
             PROVE  /\ \A p \in BotRequests : \A q \in BotRequests :
                         serving'[p].chat = c /\ serving'[q].chat = c => p = q
                    /\ \A q \in BotRequests : serving'[q].chat = c => Along(q, c)'
                    /\ (\A q \in BotRequests : serving'[q].chat # c) => Settled(c)'
  BY DEF CleanChat
<1>1. \A p \in BotRequests : \A q \in BotRequests :
        serving'[p].chat = c /\ serving'[q].chat = c => p = q
  BY DEF CleanChat
<1>2. ASSUME NEW q \in BotRequests, serving'[q].chat = c  PROVE Along(q, c)'
  <2>1. q # r /\ serving'[q] = serving[q]  BY <1>2
  <2>2. Along(q, c)  BY <1>2, <2>1 DEF CleanChat
  <2> QED  BY <2>1, <2>2 DEF Along, DeviceAsked
<1>3. ASSUME \A q \in BotRequests : serving'[q].chat # c  PROVE Settled(c)'
  <2>1. \A q \in BotRequests : serving[q].chat # c  BY <1>3
  <2>2. Settled(c)  BY <2>1 DEF CleanChat
  <2> QED  BY <2>2 DEF Settled, DeviceAsked
<1> QED  BY <1>1, <1>2, <1>3

\* A step of a request of chat c: what is left to show is what it does to its own chat.
LEMMA ChatStepKeepsInv ==
  ASSUME BotInv, NEW r \in BotRequests, NEW now \in BotRequest, Becomes(r, now),
         NEW c \in BotChats, serving[r].chat = c, now.chat \in {c, None},
         BotRows', UNCHANGED hasRedis, SessionsKnown', NoStrayKeys', ServesWell(r)',
         \A s \in ChatSessions : created[s] # Unbound => created'[s] = created[s],
         \A d \in BotChats \ {c} : /\ bindings'[d] = bindings[d]
                                   /\ storedBindings'[d] = storedBindings[d]
                                   /\ ordered'[d] = ordered[d] /\ clean'[d] = clean[d],
         clean'[c] => clean[c],
         clean'[c] /\ Along(r, c) /\ now.chat = c => Along(r, c)',
         clean'[c] /\ Along(r, c) /\ now.chat # c => Settled(c)'
  PROVE  BotInv'
<1>1. /\ serving' \in [BotRequests -> BotRequest]
      /\ serving'[r] = now
      /\ \A q \in BotRequests : q # r => serving'[q] = serving[q]
  BY BecomesIs DEF BotInv
<1>2. \A q \in BotRequests : ServesWell(q)'
  BY <1>1, OthersServeWell DEF BotInv
<1>3. None \notin BotChats  BY BotIds
<1>4. ASSUME NEW d \in BotChats, d # c  PROVE CleanChat(d)'
  BY <1>1, <1>3, <1>4, OtherChatsClean DEF BotInv
<1>5. CleanChat(c)'
  <2> SUFFICES ASSUME clean'[c]
               PROVE  /\ \A p \in BotRequests : \A q \in BotRequests :
                           serving'[p].chat = c /\ serving'[q].chat = c => p = q
                      /\ \A q \in BotRequests : serving'[q].chat = c => Along(q, c)'
                      /\ (\A q \in BotRequests : serving'[q].chat # c) => Settled(c)'
    BY DEF CleanChat
  <2>1. CleanChat(c) /\ clean[c]  BY DEF BotInv
  <2>2. Along(r, c)  BY <2>1 DEF CleanChat
  <2>3. \A q \in BotRequests : q # r => serving[q].chat # c  BY <2>1 DEF CleanChat
  <2>4. \A q \in BotRequests : q # r => serving'[q].chat # c  BY <1>1, <2>3
  <2>5. \A q \in BotRequests : serving'[q].chat = c => Along(q, c)'
    BY <1>1, <2>2, <2>4
  <2>6. (\A q \in BotRequests : serving'[q].chat # c) => Settled(c)'
    BY <1>1, <2>2
  <2> QED  BY <2>4, <2>5, <2>6
<1> QED  BY <1>1, <1>2, <1>4, <1>5 DEF BotInv

\* A step of a request that serves an event.
LEMMA EventStepKeepsInv ==
  ASSUME BotInv, NEW r \in BotRequests, NEW now \in BotRequest, Becomes(r, now),
         serving[r].chat = None, now.chat = None, ServesWell(r)', SessionsKnown',
         sessions' \in [ChatSessions -> BotChats \cup {None}],
         UNCHANGED <<hasRedis, bindings, storedBindings, storedSessions, created, ordered, clean>>
  PROVE  BotInv'
<1>1. /\ serving' \in [BotRequests -> BotRequest]
      /\ serving'[r] = now
      /\ \A q \in BotRequests : q # r => serving'[q] = serving[q]
  BY BecomesIs DEF BotInv
<1>2. \A q \in BotRequests : ServesWell(q)'
  BY <1>1, OthersServeWell DEF BotInv
<1>3. None \notin BotChats  BY BotIds
<1>4. ASSUME NEW d \in BotChats  PROVE CleanChat(d)'
  BY <1>1, <1>3, OtherChatsClean DEF BotInv
<1>5. BotRows' /\ NoStrayKeys'  BY DEF BotInv, BotRows, NoStrayKeys
<1> QED  BY <1>1, <1>2, <1>4, <1>5 DEF BotInv

\* The lookup in Redis, and what memory is made to hold.
LEMMA GetBindingKeepsInv ==
  ASSUME BotInv, NEW r \in BotRequests, GetBinding(r)
  PROVE  BotInv'
<1>0. PICK c : c = serving[r].chat  OBVIOUS
<1>1. /\ serving[r] \in BotRequest /\ ServesWell(r) /\ c \in BotChats /\ serving[r].at = "lookup"
      /\ serving \in [BotRequests -> BotRequest] /\ BotRows /\ ~serving[r].known /\ hasRedis
  BY <1>0 DEF BotInv, GetBinding, ServesWell
<1>3. SessionsKnown' /\ NoStrayKeys'
  BY DEF BotInv, GetBinding, SessionsKnown, NoStrayKeys, OfChat, bridgeMemory, bridgeKeys
<1>4. CASE Reaches(r, "found") /\ Misses(r)
  <2>1. PICK now \in BotRequest :
          Becomes(r, now) /\ now.at = "found" /\ now.chat = c /\ now.known = serving[r].known
          /\ now.kind = serving[r].kind /\ now.device = serving[r].device
    BY <1>0, <1>1, <1>4, ReachesIs
  <2>2. serving'[r] = now  BY <1>1, <2>1, BecomesIs
  <2>3. ServesWell(r)'  BY <1>1, <2>1, <2>2 DEF ServesWell
  <2>4. BotRows' /\ ~clean'[c] /\ \A d \in BotChats \ {c} : clean'[d] = clean[d]
    BY <1>0, <1>1, <1>4 DEF Misses, BotRows, GetBinding, bridgeMemory, bridgeKeys
  <2> QED
    BY <1>0, <1>1, <1>3, <2>1, <2>3, <2>4, ChatStepKeepsInv
       DEF GetBinding, bridgeMemory, bridgeKeys
<1>5. ASSUME NEW dev, dev = storedBindings[c], UNCHANGED clean,
             Becomes(r, [serving[r] EXCEPT !.at = IF dev = None THEN "found" ELSE "fill",
                                           !.found = [device |-> dev, session |-> None]])
      PROVE  BotInv'
  <2> DEFINE place == IF dev = None THEN "found" ELSE "fill"
             found == [device |-> dev, session |-> None]
             now == [serving[r] EXCEPT !.at = place, !.found = found]
  <2>1. place \in {"found", "fill"} /\ (place = "fill" => dev # None)  OBVIOUS
  <2>2. found \in [device : BotDevices \cup {None}, session : ChatSessions \cup {None}]
        /\ found.device = dev
    BY <1>1, <1>5 DEF BotRows
  <2>3. Becomes(r, now)  BY <1>5
  <2> HIDE DEF place, found
  <2>4. now \in BotRequest  BY <1>1, <2>1, <2>2 DEF BotRequest
  <2>5. now.at = place /\ now.chat = c /\ now.found = found /\ now.known = serving[r].known
      /\ now.kind = serving[r].kind /\ now.device = serving[r].device
    BY <1>0, <1>1 DEF BotRequest
  <2> HIDE DEF now
  <2>6. serving'[r] = now  BY <1>1, <2>3, <2>4, BecomesIs
  <2>7. ServesWell(r)'  BY <1>1, <2>1, <2>5, <2>6 DEF ServesWell, GetBinding
  <2>8. BotRows'  BY <1>1, <1>5 DEF BotRows, GetBinding, bridgeMemory, bridgeKeys
  <2>9. ASSUME Along(r, c)  PROVE Along(r, c)'
    <3>1. UNCHANGED <<hasRedis, bindings, storedBindings, ordered>>
      BY DEF GetBinding, bridgeMemory, bridgeKeys
    <3>2. bindings[c] = Unbound /\ ordered[c] = storedBindings[c]
      BY <1>1, <2>9 DEF Along
    <3> QED
      BY <1>1, <1>5, <2>1, <2>2, <2>5, <2>6, <3>1, <3>2 DEF Along, DeviceAsked
  <2> QED
    BY <1>0, <1>1, <1>3, <1>5, <2>3, <2>4, <2>5, <2>7, <2>8, <2>9, ChatStepKeepsInv
       DEF GetBinding, bridgeMemory, bridgeKeys
<1> QED  BY <1>0, <1>4, <1>5 DEF GetBinding

LEMMA FillBindingKeepsInv ==
  ASSUME BotInv, NEW r \in BotRequests, FillBinding(r)
  PROVE  BotInv'
<1>0. PICK c : c = serving[r].chat  OBVIOUS
<1>1. /\ serving[r] \in BotRequest /\ ServesWell(r) /\ c \in BotChats /\ serving[r].at = "fill"
      /\ serving \in [BotRequests -> BotRequest] /\ BotRows /\ ~serving[r].known
  BY <1>0 DEF BotInv, FillBinding, ServesWell
<1>2. PICK now \in BotRequest :
        /\ Becomes(r, now) /\ now.at = "found" /\ now.chat = c
        /\ now.known = serving[r].known /\ now.found = serving[r].found
        /\ now.kind = serving[r].kind /\ now.device = serving[r].device
  BY <1>0, <1>1, ReachesIs DEF FillBinding
<1>3. serving'[r] = now  BY <1>1, <1>2, BecomesIs
<1>4. ServesWell(r)'  BY <1>1, <1>2, <1>3 DEF ServesWell
<1>5. /\ bindings' = [bindings EXCEPT ![c] = serving[r].found]
      /\ UNCHANGED <<hasRedis, sessions, storedBindings, storedSessions, created, ordered, clean>>
  BY <1>0 DEF FillBinding, bridgeKeys, botHistory
<1>6. serving[r].found \in [device : BotDevices \cup {None}, session : ChatSessions \cup {None}]
  BY <1>1 DEF BotRequest
<1>7. BotRows'  BY <1>1, <1>5, <1>6 DEF BotRows
<1>8. SessionsKnown' /\ NoStrayKeys'  BY <1>5 DEF BotInv, SessionsKnown, NoStrayKeys, OfChat
<1>9. bindings'[c] = serving[r].found /\ \A d \in BotChats \ {c} : bindings'[d] = bindings[d]
  BY <1>1, <1>5 DEF BotRows
<1>10. ASSUME Along(r, c)  PROVE Along(r, c)'
  <2>1. serving[r].found.device = ordered[c] /\ serving[r].found.device # None
        /\ (hasRedis => ordered[c] = storedBindings[c])
    BY <1>1, <1>10 DEF Along
  <2>2. bindings'[c] # Unbound  BY <1>9, <2>1 DEF Unbound
  <2> QED  BY <1>2, <1>3, <1>5, <1>9, <2>1, <2>2 DEF Along, DeviceAsked
<1> QED
  BY <1>0, <1>1, <1>2, <1>4, <1>5, <1>7, <1>8, <1>9, <1>10, ChatStepKeepsInv

LEMMA NothingToDoKeepsInv ==
  ASSUME BotInv, NEW r \in BotRequests, NothingToDo(r)
  PROVE  BotInv'
<1>0. PICK c : c = serving[r].chat  OBVIOUS
<1>1. /\ serving[r] \in BotRequest /\ c \in BotChats /\ serving[r].at = "found"
      /\ serving \in [BotRequests -> BotRequest] /\ BotRows
  BY <1>0 DEF BotInv, NothingToDo, ServesWell
<1>2. Becomes(r, NotAsked)
      /\ UNCHANGED <<hasRedis, bindings, sessions, storedBindings, storedSessions, created,
                     ordered, clean>>
  BY ServedIs DEF NothingToDo, bridgeMemory, bridgeKeys, botHistory
<1>3. serving'[r] = NotAsked  BY <1>1, <1>2, BecomesIs, ServedIs
<1>4. ServesWell(r)'  BY <1>3, IdleServesWellNext
<1>5. BotRows'  BY <1>1, <1>2 DEF BotRows
<1>6. SessionsKnown' /\ NoStrayKeys'  BY <1>2 DEF BotInv, SessionsKnown, NoStrayKeys, OfChat
<1>7. Along(r, c) => Settled(c)'  BY <1>1, <1>2 DEF Along, Settled, DeviceAsked
<1>8. None # c  BY <1>1, BotIds
<1> QED
  BY <1>0, <1>1, <1>2, <1>4, <1>5, <1>6, <1>7, <1>8, ServedIs, ChatStepKeepsInv

\* Bind and unbind: memory first, then Redis.
LEMMA BindChatKeepsInv ==
  ASSUME BotInv, NEW r \in BotRequests, BindChat(r)
  PROVE  BotInv'
<1>0. PICK c : c = serving[r].chat  OBVIOUS
<1>1. PICK dev : dev = serving[r].device  OBVIOUS
<1>2. /\ serving[r] \in BotRequest /\ ServesWell(r) /\ c \in BotChats /\ serving[r].at = "found"
      /\ serving \in [BotRequests -> BotRequest] /\ BotRows /\ ~serving[r].known
      /\ dev \in BotDevices \cup {None} /\ hasRedis \in BOOLEAN
  BY <1>0, <1>1 DEF BotInv, BindChat, ServesWell, BotRequest, BotRows
<1>3. /\ bindings' = [bindings EXCEPT ![c] = [device |-> dev, session |-> None]]
      /\ ordered' = [ordered EXCEPT ![c] = dev]
      /\ UNCHANGED <<hasRedis, sessions, storedBindings, storedSessions, created, clean>>
      /\ IF hasRedis THEN Reaches(r, "store") ELSE Served(r)
  BY <1>0, <1>1 DEF BindChat, Orders, bridgeKeys
<1>4. BotRows'  BY <1>2, <1>3 DEF BotRows
<1>5. SessionsKnown' /\ NoStrayKeys'  BY <1>3 DEF BotInv, SessionsKnown, NoStrayKeys, OfChat
<1>6. /\ bindings'[c] = [device |-> dev, session |-> None] /\ ordered'[c] = dev
      /\ \A d \in BotChats \ {c} : bindings'[d] = bindings[d] /\ ordered'[d] = ordered[d]
  BY <1>2, <1>3 DEF BotRows
<1>7. CASE hasRedis
  <2>1. PICK now \in BotRequest :
          /\ Becomes(r, now) /\ now.at = "store" /\ now.chat = c
          /\ now.known = serving[r].known /\ now.device = dev
          /\ now.kind = serving[r].kind
    BY <1>0, <1>1, <1>2, <1>3, <1>7, ReachesIs
  <2>2. serving'[r] = now  BY <1>2, <2>1, BecomesIs
  <2>3. ServesWell(r)'  BY <1>1, <1>2, <1>3, <1>7, <2>1, <2>2 DEF ServesWell
  <2>4. clean[c] /\ Along(r, c) => Along(r, c)'
    <3>1. dev # None  BY <1>1, <1>2 DEF BindChat, ServesWell
    <3>2. bindings'[c] # Unbound  BY <1>6, <3>1 DEF Unbound
    <3> QED  BY <1>1, <1>2, <1>6, <2>1, <2>2, <3>1, <3>2 DEF Along, DeviceAsked
  <2> QED
    BY <1>0, <1>2, <1>3, <1>4, <1>5, <1>6, <2>1, <2>3, <2>4, ChatStepKeepsInv
<1>8. CASE ~hasRedis
  <2>1. Becomes(r, NotAsked)  BY <1>3, <1>8, ServedIs
  <2>2. serving'[r] = NotAsked  BY <1>2, <2>1, BecomesIs, ServedIs
  <2>3. ServesWell(r)'  BY <2>2, IdleServesWellNext
  <2>4. Settled(c)'
    <3>1. storedBindings'[c] = None  BY <1>2, <1>3, <1>8 DEF BotInv, NoStrayKeys
    <3> QED  BY <1>3, <1>6, <1>8, <3>1 DEF Settled, DeviceAsked, Unbound
  <2>5. None # c  BY <1>2, BotIds
  <2> QED
    BY <1>0, <1>2, <1>3, <1>4, <1>5, <1>6, <2>1, <2>3, <2>4, <2>5, ServedIs, ChatStepKeepsInv
<1> QED  BY <1>7, <1>8

LEMMA BindStoreKeepsInv ==
  ASSUME BotInv, NEW r \in BotRequests, BindStore(r)
  PROVE  BotInv'
<1>0. PICK c : c = serving[r].chat  OBVIOUS
<1>1. PICK dev : dev = serving[r].device  OBVIOUS
<1>2. /\ serving[r] \in BotRequest /\ ServesWell(r) /\ c \in BotChats /\ serving[r].at = "store"
      /\ serving \in [BotRequests -> BotRequest] /\ BotRows /\ hasRedis
      /\ dev \in BotDevices \cup {None}
  BY <1>0, <1>1 DEF BotInv, BindStore, ServesWell, BotRequest
<1>3. Becomes(r, NotAsked)
      /\ UNCHANGED <<hasRedis, bindings, sessions, storedSessions, created, ordered>>
  BY ServedIs DEF BindStore
<1>4. serving'[r] = NotAsked  BY <1>2, <1>3, BecomesIs, ServedIs
<1>5. ServesWell(r)'  BY <1>4, IdleServesWellNext
<1>6. SessionsKnown' /\ NoStrayKeys'
  BY <1>2, <1>3 DEF BotInv, SessionsKnown, NoStrayKeys, OfChat
<1>7. None # c  BY <1>2, BotIds
<1>8. CASE storedBindings' = [storedBindings EXCEPT ![c] = dev] /\ UNCHANGED clean
  <2>1. BotRows'  BY <1>2, <1>3, <1>8 DEF BotRows
  <2>2. storedBindings'[c] = dev
        /\ \A d \in BotChats \ {c} : storedBindings'[d] = storedBindings[d]
    BY <1>2, <1>8 DEF BotRows
  <2>3. Along(r, c) => Settled(c)'
    BY <1>1, <1>2, <1>3, <2>2 DEF Along, Settled, DeviceAsked
  <2> QED
    BY <1>0, <1>2, <1>3, <1>5, <1>6, <1>7, <1>8, <2>1, <2>2, <2>3, ServedIs, ChatStepKeepsInv
<1>9. CASE Misses(r) /\ UNCHANGED storedBindings
  <2>1. BotRows' /\ ~clean'[c] /\ \A d \in BotChats \ {c} : clean'[d] = clean[d]
    BY <1>0, <1>2, <1>3, <1>9 DEF Misses, BotRows
  <2> QED
    BY <1>0, <1>2, <1>3, <1>5, <1>6, <1>7, <1>9, <2>1, ServedIs, ChatStepKeepsInv
<1> QED  BY <1>0, <1>1, <1>8, <1>9 DEF BindStore

LEMMA UnbindChatKeepsInv ==
  ASSUME BotInv, NEW r \in BotRequests, UnbindChat(r)
  PROVE  BotInv'
<1>0. PICK c : c = serving[r].chat  OBVIOUS
<1>1. /\ serving[r] \in BotRequest /\ ServesWell(r) /\ c \in BotChats /\ serving[r].at = "found"
      /\ serving \in [BotRequests -> BotRequest] /\ BotRows /\ ~serving[r].known
      /\ hasRedis \in BOOLEAN /\ serving[r].kind = "unbind"
  BY <1>0 DEF BotInv, UnbindChat, ServesWell, BotRows
<1>2. PICK forgot : sessions' = [s \in ChatSessions |-> IF s = forgot THEN None ELSE sessions[s]]
  BY DEF UnbindChat
<1>3. /\ bindings' = [bindings EXCEPT ![c] = Unbound]
      /\ ordered' = [ordered EXCEPT ![c] = None]
      /\ UNCHANGED <<hasRedis, storedBindings, storedSessions, created, clean>>
      /\ IF hasRedis THEN Reaches(r, "remove") ELSE Served(r)
  BY <1>0 DEF UnbindChat, Orders, bridgeKeys
<1>4. Unbound \in [device : BotDevices \cup {None}, session : ChatSessions \cup {None}]
  BY DEF Unbound
<1>5. BotRows'
  BY <1>1, <1>2, <1>3, <1>4 DEF BotRows
<1>6. SessionsKnown' /\ NoStrayKeys'
  BY <1>2, <1>3 DEF BotInv, SessionsKnown, NoStrayKeys, OfChat
<1>7. /\ bindings'[c] = Unbound /\ ordered'[c] = None
      /\ \A d \in BotChats \ {c} : bindings'[d] = bindings[d] /\ ordered'[d] = ordered[d]
  BY <1>1, <1>3 DEF BotRows
<1>8. CASE hasRedis
  <2>1. PICK now \in BotRequest :
          /\ Becomes(r, now) /\ now.at = "remove" /\ now.chat = c
          /\ now.known = serving[r].known /\ now.kind = "unbind"
    BY <1>0, <1>1, <1>3, <1>8, ReachesIs
  <2>2. serving'[r] = now  BY <1>1, <2>1, BecomesIs
  <2>3. ServesWell(r)'  BY <1>1, <1>3, <1>8, <2>1, <2>2 DEF ServesWell
  <2>4. Along(r, c)'  BY <1>7, <2>1, <2>2 DEF Along, DeviceAsked
  <2> QED
    BY <1>0, <1>1, <1>3, <1>5, <1>6, <1>7, <2>1, <2>3, <2>4, ChatStepKeepsInv
<1>9. CASE ~hasRedis
  <2>1. Becomes(r, NotAsked)  BY <1>3, <1>9, ServedIs
  <2>2. serving'[r] = NotAsked  BY <1>1, <2>1, BecomesIs, ServedIs
  <2>3. ServesWell(r)'  BY <2>2, IdleServesWellNext
  <2>4. storedBindings'[c] = None  BY <1>1, <1>3, <1>9 DEF BotInv, NoStrayKeys
  <2>5. Settled(c)'  BY <1>3, <1>7, <1>9, <2>4 DEF Settled, DeviceAsked
  <2>6. None # c  BY <1>1, BotIds
  <2> QED
    BY <1>0, <1>1, <1>3, <1>5, <1>6, <1>7, <2>1, <2>3, <2>5, <2>6, ServedIs, ChatStepKeepsInv
<1> QED  BY <1>8, <1>9

LEMMA UnbindStoreKeepsInv ==
  ASSUME BotInv, NEW r \in BotRequests, UnbindStore(r)
  PROVE  BotInv'
<1>0. PICK c : c = serving[r].chat  OBVIOUS
<1>1. /\ serving[r] \in BotRequest /\ ServesWell(r) /\ c \in BotChats /\ serving[r].at = "remove"
      /\ serving \in [BotRequests -> BotRequest] /\ BotRows /\ hasRedis
  BY <1>0 DEF BotInv, UnbindStore, ServesWell
<1>2. Becomes(r, NotAsked)
      /\ UNCHANGED <<hasRedis, bindings, sessions, storedSessions, created, ordered>>
  BY ServedIs DEF UnbindStore
<1>3. serving'[r] = NotAsked  BY <1>1, <1>2, BecomesIs, ServedIs
<1>4. ServesWell(r)'  BY <1>3, IdleServesWellNext
<1>5. SessionsKnown' /\ NoStrayKeys'
  BY <1>1, <1>2 DEF BotInv, SessionsKnown, NoStrayKeys, OfChat
<1>6. None # c  BY <1>1, BotIds
<1>7. CASE storedBindings' = [storedBindings EXCEPT ![c] = None] /\ UNCHANGED clean
  <2>1. BotRows'  BY <1>1, <1>2, <1>7 DEF BotRows
  <2>2. storedBindings'[c] = None
        /\ \A d \in BotChats \ {c} : storedBindings'[d] = storedBindings[d]
    BY <1>1, <1>7 DEF BotRows
  <2>3. Along(r, c) => Settled(c)'
    BY <1>1, <1>2, <2>2 DEF Along, Settled, DeviceAsked
  <2> QED
    BY <1>0, <1>1, <1>2, <1>4, <1>5, <1>6, <1>7, <2>1, <2>2, <2>3, ServedIs, ChatStepKeepsInv
<1>8. CASE Misses(r) /\ UNCHANGED storedBindings
  <2>1. BotRows' /\ ~clean'[c] /\ \A d \in BotChats \ {c} : clean'[d] = clean[d]
    BY <1>0, <1>1, <1>2, <1>8 DEF Misses, BotRows
  <2> QED
    BY <1>0, <1>1, <1>2, <1>4, <1>5, <1>6, <1>8, <2>1, ServedIs, ChatStepKeepsInv
<1> QED  BY <1>0, <1>7, <1>8 DEF UnbindStore

\* Sessions: what is remembered of a session is the chat it was created for.
LEMMA HandleConversationKeepsInv ==
  ASSUME BotInv, NEW r \in BotRequests, HandleConversation(r)
  PROVE  BotInv'
<1>0. PICK c : c = serving[r].chat  OBVIOUS
<1>1. /\ serving[r] \in BotRequest /\ ServesWell(r) /\ c \in BotChats /\ serving[r].at = "found"
      /\ serving \in [BotRequests -> BotRequest] /\ BotRows /\ ~serving[r].known
      /\ serving[r].kind = "talk"
  BY <1>0 DEF BotInv, HandleConversation, ServesWell
<1>2. /\ UNCHANGED <<hasRedis, bindings, sessions, storedBindings, storedSessions, ordered, clean>>
  BY DEF HandleConversation, bridgeMemory, bridgeKeys, botHistory
<1>3. None # c  BY <1>1, BotIds
<1>4. NoStrayKeys'  BY <1>2 DEF BotInv, NoStrayKeys
<1>5. CASE Served(r) /\ UNCHANGED created
  <2>1. Becomes(r, NotAsked)  BY <1>5, ServedIs
  <2>2. serving'[r] = NotAsked  BY <1>1, <2>1, BecomesIs, ServedIs
  <2>3. ServesWell(r)'  BY <2>2, IdleServesWellNext
  <2>4. BotRows' /\ SessionsKnown'  BY <1>1, <1>2, <1>5 DEF BotRows, BotInv, SessionsKnown, OfChat
  <2>5. Along(r, c) => Settled(c)'  BY <1>1, <1>2 DEF Along, Settled, DeviceAsked
  <2> QED
    BY <1>0, <1>1, <1>2, <1>3, <1>4, <1>5, <2>1, <2>3, <2>4, <2>5, ServedIs, ChatStepKeepsInv
<1>6. ASSUME NEW s \in ChatSessions, created[s] = Unbound,
             created' = [created EXCEPT ![s] = [chat |-> serving[r].chat,
                                                device |-> serving[r].found.device]],
             Becomes(r, [serving[r] EXCEPT !.at = "track", !.session = s])
      PROVE  BotInv'
  <2> DEFINE row == [chat |-> c, device |-> serving[r].found.device]
             now == [serving[r] EXCEPT !.at = "track", !.session = s]
  <2>1. row \in [chat : BotChats, device : BotDevices] /\ row.chat = c
    BY <1>1 DEF BotRequest, HandleConversation
  <2>2. row # Unbound
    <3>1. "chat" \in DOMAIN row  OBVIOUS
    <3>2. "chat" \notin DOMAIN Unbound  BY DEF Unbound
    <3> QED  BY <3>1, <3>2
  <2>3. created' = [created EXCEPT ![s] = row]  BY <1>0, <1>6
  <2>4. now \in BotRequest  BY <1>1 DEF BotRequest
  <2>5. /\ now.at = "track" /\ now.session = s /\ now.chat = c /\ ~now.known /\ now.kind = "talk"
    BY <1>0, <1>1 DEF BotRequest
  <2>6. Becomes(r, now)  BY <1>6
  <2> HIDE DEF row, now
  <2>7. created'[s] = row /\ \A t \in ChatSessions : t # s => created'[t] = created[t]
    BY <1>1, <2>3 DEF BotRows
  <2>8. serving'[r] = now  BY <1>1, <2>4, <2>6, BecomesIs
  <2>9. ServesWell(r)'
    BY <1>1, <2>1, <2>2, <2>5, <2>7, <2>8 DEF ServesWell, OfChat
  <2>10. BotRows'
    BY <1>1, <1>2, <2>1, <2>3 DEF BotRows
  <2>11. \A t \in ChatSessions : created[t] # Unbound => created'[t] = created[t]
    BY <1>6, <2>7
  <2>12. SessionsKnown'  BY <1>2, <2>11 DEF BotInv, SessionsKnown, OfChat
  <2>13. Along(r, c) => Along(r, c)'
    BY <1>1, <1>2, <2>5, <2>8 DEF Along, DeviceAsked
  <2> QED
    BY <1>0, <1>1, <1>2, <1>4, <2>4, <2>5, <2>6, <2>9, <2>10, <2>11, <2>12, <2>13,
       ChatStepKeepsInv
<1> QED  BY <1>5, <1>6 DEF HandleConversation

LEMMA TrackSessionKeepsInv ==
  ASSUME BotInv, NEW r \in BotRequests, TrackSession(r)
  PROVE  BotInv'
<1>0. PICK c : c = serving[r].chat  OBVIOUS
<1>1. PICK s : s = serving[r].session  OBVIOUS
<1>2. /\ serving[r] \in BotRequest /\ ServesWell(r) /\ c \in BotChats /\ serving[r].at = "track"
      /\ serving \in [BotRequests -> BotRequest] /\ BotRows /\ ~serving[r].known
      /\ s \in ChatSessions /\ OfChat(s, c) /\ hasRedis \in BOOLEAN
  BY <1>0, <1>1 DEF BotInv, TrackSession, ServesWell, BotRows
<1>3. PICK t : t = IF bindings[c] = Unbound THEN None ELSE s  OBVIOUS
<1>4. /\ sessions' = [sessions EXCEPT ![s] = c]
      /\ bindings' = [bindings EXCEPT ![c].session = t]
      /\ UNCHANGED <<hasRedis, storedBindings, storedSessions, created, ordered, clean>>
      /\ IF hasRedis THEN Reaches(r, "keep") ELSE Served(r)
  BY <1>0, <1>1, <1>3 DEF TrackSession, bridgeKeys, botHistory
<1>5. t \in ChatSessions \cup {None}  BY <1>2, <1>3
<1>6. bindings[c] \in [device : BotDevices \cup {None}, session : ChatSessions \cup {None}]
  BY <1>2 DEF BotRows
<1>7. /\ bindings'[c] = [bindings[c] EXCEPT !.session = t]
      /\ \A d \in BotChats \ {c} : bindings'[d] = bindings[d]
  BY <1>2, <1>4 DEF BotRows
<1>8. BotRows'
  BY <1>2, <1>4, <1>5, <1>6 DEF BotRows
<1>9. SessionsKnown' /\ NoStrayKeys'
  BY <1>2, <1>4 DEF BotInv, BotRows, SessionsKnown, NoStrayKeys, OfChat
<1>10. bindings'[c].device = bindings[c].device /\ bindings'[c].session = t
  BY <1>6, <1>7
<1>11. (bindings'[c] = Unbound) <=> (bindings[c] = Unbound)
  <2>1. CASE bindings[c] = Unbound
    <3>1. t = None  BY <1>3, <2>1
    <3>2. bindings'[c] = [Unbound EXCEPT !.session = None]  BY <1>7, <2>1, <3>1
    <3> QED  BY <2>1, <3>2 DEF Unbound
  <2>2. CASE bindings[c] # Unbound
    <3>1. t = s /\ t # None  BY <1>2, <1>3, <2>2, BotIds
    <3> QED  BY <1>10, <2>2, <3>1 DEF Unbound
  <2> QED  BY <2>1, <2>2
<1>12. Along(r, c) => Settled(c)'
  BY <1>2, <1>4, <1>10, <1>11 DEF Along, Settled, DeviceAsked
<1>13. CASE hasRedis
  <2>1. PICK now \in BotRequest :
          /\ Becomes(r, now) /\ now.at = "keep" /\ now.chat = c /\ now.session = s
          /\ now.known = serving[r].known /\ now.kind = serving[r].kind
          /\ now.device = serving[r].device
    BY <1>0, <1>1, <1>2, <1>4, <1>13, ReachesIs
  <2>2. serving'[r] = now  BY <1>2, <2>1, BecomesIs
  <2>3. ServesWell(r)'  BY <1>2, <1>4, <1>13, <2>1, <2>2 DEF ServesWell, OfChat
  <2>4. Along(r, c) => Along(r, c)'  BY <1>12, <2>1, <2>2 DEF Along, Settled
  <2> QED
    BY <1>0, <1>2, <1>4, <1>7, <1>8, <1>9, <2>1, <2>3, <2>4, ChatStepKeepsInv
<1>14. CASE ~hasRedis
  <2>1. Becomes(r, NotAsked)  BY <1>4, <1>14, ServedIs
  <2>2. serving'[r] = NotAsked  BY <1>2, <2>1, BecomesIs, ServedIs
  <2>3. ServesWell(r)'  BY <2>2, IdleServesWellNext
  <2>4. None # c  BY <1>2, BotIds
  <2> QED
    BY <1>0, <1>2, <1>4, <1>7, <1>8, <1>9, <1>12, <2>1, <2>3, <2>4, ServedIs, ChatStepKeepsInv
<1> QED  BY <1>13, <1>14

LEMMA TrackStoreKeepsInv ==
  ASSUME BotInv, NEW r \in BotRequests, TrackStore(r)
  PROVE  BotInv'
<1>0. PICK c : c = serving[r].chat  OBVIOUS
<1>1. PICK s : s = serving[r].session  OBVIOUS
<1>2. /\ serving[r] \in BotRequest /\ c \in BotChats /\ serving[r].at = "keep"
      /\ serving \in [BotRequests -> BotRequest] /\ BotRows /\ s \in ChatSessions /\ OfChat(s, c)
  BY <1>0, <1>1 DEF BotInv, TrackStore, ServesWell
<1>3. /\ storedSessions' \in {storedSessions, [storedSessions EXCEPT ![s] = c]}
      /\ UNCHANGED <<hasRedis, bindings, sessions, storedBindings, created, ordered, clean>>
      /\ Becomes(r, NotAsked)
  BY <1>0, <1>1, ServedIs DEF TrackStore, bridgeMemory, botHistory
<1>4. serving'[r] = NotAsked  BY <1>2, <1>3, BecomesIs, ServedIs
<1>5. ServesWell(r)'  BY <1>4, IdleServesWellNext
<1>6. BotRows'
  <2>1. storedSessions' \in [ChatSessions -> BotChats \cup {None}]
    BY <1>2, <1>3 DEF BotRows
  <2> QED  BY <1>2, <1>3, <2>1 DEF BotRows
<1>7. SessionsKnown'
  <2>1. \A t \in ChatSessions : storedSessions'[t] = storedSessions[t]
                                \/ (t = s /\ storedSessions'[t] = c)
    BY <1>2, <1>3 DEF BotRows
  <2> QED  BY <1>2, <1>3, <2>1 DEF BotInv, SessionsKnown, OfChat
<1>8. NoStrayKeys'  BY <1>3 DEF BotInv, NoStrayKeys
<1>9. Along(r, c) => Settled(c)'  BY <1>2, <1>3 DEF Along, Settled, DeviceAsked
<1>10. None # c  BY <1>2, BotIds
<1> QED
  BY <1>0, <1>2, <1>3, <1>5, <1>6, <1>7, <1>8, <1>9, <1>10, ServedIs, ChatStepKeepsInv

\* Events: they read what is remembered, and change none of the bindings.
LEMMA EventKeepsInv ==
  ASSUME BotInv, NEW r \in BotRequests, NEW s \in ChatSessions, HandleEventPush(r, s)
  PROVE  BotInv'
<1> DEFINE place == IF sessions[s] # None THEN "push" ELSE IF hasRedis THEN "ask" ELSE "route"
           now == [NotAsked EXCEPT !.kind = "event", !.session = s, !.known = sessions[s] # None,
                                   !.to = sessions[s], !.at = place]
<1>1. /\ serving[r] = NotAsked /\ BotRows /\ serving \in [BotRequests -> BotRequest]
      /\ created[s] # Unbound /\ SessionsKnown
  BY DEF BotInv, HandleEventPush, ServesWell
<1>2. sessions[s] \in BotChats \cup {None} /\ (sessions[s] # None) \in BOOLEAN
  BY <1>1 DEF BotRows
<1>3. /\ place \in {"push", "ask", "route"} /\ (place = "push" <=> sessions[s] # None)
      /\ (place = "ask" => hasRedis)
  OBVIOUS
<1>4. Becomes(r, now)  BY DEF HandleEventPush
<1> HIDE DEF place
<1>5. now \in BotRequest
  <2>1. PICK known \in BOOLEAN : known = (sessions[s] # None)  BY Zenon
  <2>2. now = [NotAsked EXCEPT !.kind = "event", !.session = s, !.known = known,
                               !.to = sessions[s], !.at = place]
    BY <2>1
  <2> HIDE DEF now
  <2>3. now = [at |-> place, kind |-> "event", chat |-> None, device |-> None, session |-> s,
               found |-> Unbound, to |-> sessions[s], known |-> known]
    BY <2>2 DEF NotAsked
  <2>4. place \in {"push", "ask", "route"}  BY <1>3
  <2>5. Unbound \in [device : BotDevices \cup {None}, session : ChatSessions \cup {None}]
    BY DEF Unbound
  <2> QED  BY <1>2, <2>1, <2>3, <2>4, <2>5 DEF BotRequest
<1>6. /\ now.at = place /\ now.session = s /\ now.to = sessions[s] /\ now.kind = "event"
      /\ (now.known <=> sessions[s] # None) /\ now.chat = None
  BY <1>3, ServedIs DEF BotRequest
<1> HIDE DEF now
<1>7. serving'[r] = now  BY <1>1, <1>4, <1>5, BecomesIs
<1>8. UNCHANGED <<hasRedis, bindings, sessions, storedBindings, storedSessions, created, ordered,
                  clean>>
  BY DEF HandleEventPush, bridgeMemory, bridgeKeys, botHistory
<1>9. ServesWell(r)'
  <2>1. sessions[s] # None => OfChat(s, sessions[s])  BY <1>1 DEF SessionsKnown
  <2> QED  BY <1>1, <1>3, <1>6, <1>7, <1>8, <2>1 DEF ServesWell, OfChat
<1>10. SessionsKnown'  BY <1>1, <1>8 DEF SessionsKnown, OfChat
<1> QED
  BY <1>1, <1>4, <1>5, <1>6, <1>8, <1>9, <1>10, ServedIs, EventStepKeepsInv DEF BotRows

LEMMA ChatForSessionKeepsInv ==
  ASSUME BotInv, NEW r \in BotRequests, ChatForSession(r)
  PROVE  BotInv'
<1>0. PICK s : s = serving[r].session  OBVIOUS
<1>1. /\ serving[r] \in BotRequest /\ ServesWell(r) /\ BotRows /\ serving[r].at = "ask"
      /\ serving \in [BotRequests -> BotRequest] /\ SessionsKnown
      /\ s \in ChatSessions /\ created[s] # Unbound /\ serving[r].chat = None /\ ~serving[r].known
  BY <1>0 DEF BotInv, ChatForSession, ServesWell
<1>2. UNCHANGED <<hasRedis, bindings, storedBindings, storedSessions, created, ordered, clean>>
  BY DEF ChatForSession, bridgeKeys, botHistory
<1>3. CASE Reaches(r, "route") /\ UNCHANGED sessions
  <2>1. PICK now \in BotRequest :
          /\ Becomes(r, now) /\ now.at = "route" /\ now.chat = None /\ now.session = s
          /\ now.known = serving[r].known /\ now.kind = serving[r].kind
          /\ now.device = serving[r].device
    BY <1>0, <1>1, <1>3, ReachesIs
  <2>2. serving'[r] = now  BY <1>1, <2>1, BecomesIs
  <2>3. ServesWell(r)'  BY <1>1, <1>2, <2>1, <2>2 DEF ServesWell
  <2>4. SessionsKnown'  BY <1>1, <1>2, <1>3 DEF SessionsKnown, OfChat
  <2> QED  BY <1>1, <1>2, <1>3, <2>1, <2>3, <2>4, EventStepKeepsInv DEF BotRows
<1>4. ASSUME NEW c, c = storedSessions[s], c # None, sessions' = [sessions EXCEPT ![s] = c],
             Becomes(r, [serving[r] EXCEPT !.at = "push", !.known = TRUE, !.to = c])
      PROVE  BotInv'
  <2> DEFINE now == [serving[r] EXCEPT !.at = "push", !.known = TRUE, !.to = c]
  <2>1. c \in BotChats /\ OfChat(s, c)  BY <1>1, <1>4 DEF BotRows, SessionsKnown
  <2>2. now \in BotRequest  BY <1>1, <2>1 DEF BotRequest
  <2>3. /\ now.at = "push" /\ now.chat = None /\ now.session = s /\ now.to = c
        /\ now.kind = serving[r].kind /\ now.device = serving[r].device
    BY <1>0, <1>1 DEF BotRequest
  <2>4. Becomes(r, now)  BY <1>4
  <2> HIDE DEF now
  <2>5. serving'[r] = now  BY <1>1, <2>2, <2>4, BecomesIs
  <2>6. ServesWell(r)'  BY <1>1, <1>2, <2>1, <2>3, <2>5 DEF ServesWell, OfChat
  <2>7. SessionsKnown'
    <3>1. sessions'[s] = c /\ \A t \in ChatSessions : t # s => sessions'[t] = sessions[t]
      BY <1>1, <1>4 DEF BotRows
    <3> QED  BY <1>1, <1>2, <2>1, <3>1 DEF SessionsKnown, OfChat
  <2>8. sessions' \in [ChatSessions -> BotChats \cup {None}]  BY <1>1, <1>4, <2>1 DEF BotRows
  <2> QED  BY <1>1, <1>2, <2>2, <2>3, <2>4, <2>6, <2>7, <2>8, EventStepKeepsInv
<1> QED  BY <1>0, <1>3, <1>4 DEF ChatForSession

LEMMA ToldKeepsInv ==
  ASSUME BotInv, NEW r \in BotRequests, ChatForDevice(r) \/ PushToChat(r)
  PROVE  BotInv'
<1>1. /\ serving[r] \in BotRequest /\ ServesWell(r) /\ BotRows
      /\ serving[r].at \in {"route", "push"} /\ serving[r].chat = None
      /\ serving \in [BotRequests -> BotRequest] /\ SessionsKnown
  BY DEF BotInv, ChatForDevice, PushToChat, ServesWell
<1>2. UNCHANGED <<hasRedis, bindings, sessions, storedBindings, storedSessions, created, ordered,
                  clean>>
  BY DEF ChatForDevice, PushToChat, bridgeMemory, bridgeKeys, botHistory
<1>3. SessionsKnown'  BY <1>1, <1>2 DEF SessionsKnown, OfChat
<1>4. CASE Served(r)
  <2>1. Becomes(r, NotAsked)  BY <1>4, ServedIs
  <2>2. serving'[r] = NotAsked  BY <1>1, <2>1, BecomesIs, ServedIs
  <2>3. ServesWell(r)'  BY <2>2, IdleServesWellNext
  <2> QED  BY <1>1, <1>2, <1>3, <2>1, <2>3, ServedIs, EventStepKeepsInv DEF BotRows
<1>5. ASSUME NEW c \in BotChats, serving[r].at = "route",
             Becomes(r, [serving[r] EXCEPT !.at = "push", !.to = c])
      PROVE  BotInv'
  <2> DEFINE now == [serving[r] EXCEPT !.at = "push", !.to = c]
  <2>0. serving[r] \in BotRequest /\ c \in BotChats \cup {None}  BY <1>1
  <2>1. now \in BotRequest  BY <2>0 DEF BotRequest
  <2>2. /\ now.at = "push" /\ now.chat = None /\ now.session = serving[r].session
        /\ now.known = serving[r].known
        /\ now.kind = serving[r].kind /\ now.device = serving[r].device
    BY <1>1 DEF BotRequest
  <2>3. Becomes(r, now)  BY <1>5
  <2> HIDE DEF now
  <2>4. serving'[r] = now  BY <1>1, <2>1, <2>3, BecomesIs
  <2>5. ServesWell(r)'  BY <1>1, <1>2, <1>5, <2>2, <2>4 DEF ServesWell
  <2> QED  BY <1>1, <1>2, <1>3, <2>1, <2>2, <2>3, <2>5, EventStepKeepsInv DEF BotRows
<1> QED  BY <1>4, <1>5 DEF ChatForDevice, PushToChat

\* A message: from here on its request serves the chat.
LEMMA HandleMessageKeepsInv ==
  ASSUME BotInv, NEW r \in BotRequests, NEW c \in BotChats, NEW kind,
         NEW dev \in BotDevices \cup {None}, HandleMessage(r, c, kind, dev)
  PROVE  BotInv'
<1> DEFINE seen == bindings[c]
           place == IF seen = Unbound /\ hasRedis THEN "lookup" ELSE "found"
           now == [[NotAsked EXCEPT !.kind = kind, !.chat = c, !.device = dev, !.found = seen]
                     EXCEPT !.at = place]
<1>1. /\ serving[r] = NotAsked /\ BotRows /\ serving \in [BotRequests -> BotRequest]
      /\ SessionsKnown /\ kind \in {"bind", "unbind", "talk"} /\ None \notin BotChats
      /\ (kind = "bind" => dev # None)
  BY BotIds DEF BotInv, HandleMessage, ServesWell
<1>2. seen \in [device : BotDevices \cup {None}, session : ChatSessions \cup {None}]
  BY <1>1 DEF BotRows
<1>3. /\ place \in {"lookup", "found"}
      /\ (place = "lookup" => bindings[c] = Unbound /\ hasRedis)
      /\ (place = "found" => bindings[c] # Unbound \/ ~hasRedis)
  OBVIOUS
<1>4. Becomes(r, now)  BY DEF HandleMessage
<1>5. seen = bindings[c]  OBVIOUS
<1> HIDE DEF seen, place
<1>6. now \in BotRequest
  <2> DEFINE from == [NotAsked EXCEPT !.kind = kind]
             by == [from EXCEPT !.chat = c]
             to == [by EXCEPT !.device = dev]
             asks == [to EXCEPT !.found = seen]
  <2>1. kind \in {None, "bind", "unbind", "talk", "event"}  BY <1>1
  <2>2. from \in BotRequest  BY <2>1, ServedIs DEF BotRequest
  <2> HIDE DEF from
  <2>3. by \in BotRequest  BY <2>2 DEF BotRequest
  <2> HIDE DEF by
  <2>4. to \in BotRequest  BY <2>3 DEF BotRequest
  <2> HIDE DEF to
  <2>5. asks \in BotRequest  BY <1>2, <2>4 DEF BotRequest
  <2>6. now = [asks EXCEPT !.at = place]  BY Zenon DEF asks, to, by, from
  <2> HIDE DEF asks, now
  <2> QED  BY <1>3, <2>5, <2>6 DEF BotRequest
<1>7. /\ now.at = place /\ now.chat = c /\ now.kind = kind /\ now.device = dev
      /\ now.found = seen /\ now.known = NotAsked.known
  BY ServedIs DEF BotRequest
<1>8. ~NotAsked.known  BY DEF NotAsked
<1> HIDE DEF now
<1>9. /\ serving' \in [BotRequests -> BotRequest] /\ serving'[r] = now
      /\ \A q \in BotRequests : q # r => serving'[q] = serving[q]
  BY <1>1, <1>4, <1>6, BecomesIs
<1>10. /\ UNCHANGED <<hasRedis, bindings, sessions, storedBindings, storedSessions, created,
                      ordered>>
       /\ clean' = [clean EXCEPT ![c] = @ /\ \A q \in BotRequests : serving[q].chat # c]
  BY DEF HandleMessage, bridgeMemory, bridgeKeys
<1>11. /\ clean' \in [BotChats -> BOOLEAN]
       /\ \A d \in BotChats \ {c} : clean'[d] = clean[d]
       /\ clean'[c] => clean[c] /\ \A q \in BotRequests : serving[q].chat # c
  BY <1>1, <1>10 DEF BotRows
<1>12. BotRows' /\ SessionsKnown' /\ NoStrayKeys'
  BY <1>1, <1>10, <1>11 DEF BotRows, SessionsKnown, OfChat, BotInv, NoStrayKeys
<1>13. \A q \in BotRequests : ServesWell(q)'
  <2>1. ServesWell(r)'  BY <1>1, <1>3, <1>7, <1>8, <1>9, <1>10 DEF ServesWell
  <2> QED  BY <1>9, <1>10, <2>1, OthersServeWell DEF BotInv
<1>14. ASSUME NEW d \in BotChats, d # c  PROVE CleanChat(d)'
  <2>1. serving[r].chat # d /\ serving'[r].chat # d  BY <1>1, <1>7, <1>9, <1>14, ServedIs
  <2> QED  BY <1>9, <1>10, <1>11, <1>14, <2>1, OtherChatsClean DEF BotInv
<1>15. CleanChat(c)'
  <2> SUFFICES ASSUME clean'[c]
               PROVE  /\ \A p \in BotRequests : \A q \in BotRequests :
                           serving'[p].chat = c /\ serving'[q].chat = c => p = q
                      /\ \A q \in BotRequests : serving'[q].chat = c => Along(q, c)'
                      /\ (\A q \in BotRequests : serving'[q].chat # c) => Settled(c)'
    BY DEF CleanChat
  <2>1. clean[c] /\ \A q \in BotRequests : serving[q].chat # c  BY <1>11
  <2>2. \A q \in BotRequests : q # r => serving'[q].chat # c  BY <1>9, <2>1
  <2>3. Settled(c)  BY <2>1 DEF BotInv, CleanChat
  <2>4. ~hasRedis => storedBindings[c] = None  BY DEF BotInv, NoStrayKeys
  <2>5. place = "found" => seen.device = ordered[c]
    BY <1>3, <1>5, <2>3, <2>4 DEF Settled, DeviceAsked, Unbound
  <2>6. Along(r, c)'
    BY <1>3, <1>7, <1>9, <1>10, <2>3, <2>5 DEF Along, Settled, DeviceAsked
  <2> QED  BY <1>7, <1>9, <2>2, <2>6
<1> QED  BY <1>9, <1>12, <1>13, <1>14, <1>15 DEF BotInv

\* What expires, and what a restart leaves.
LEMMA KeyExpiresKeepsInv ==
  ASSUME BotInv, NEW s \in ChatSessions, SessionKeyExpires(s)
  PROVE  BotInv'
<1>1. /\ UNCHANGED <<hasRedis, bindings, sessions, storedBindings, serving, created, ordered, clean>>
      /\ storedSessions' = [storedSessions EXCEPT ![s] = None]
  BY DEF SessionKeyExpires, bridgeMemory, botHistory
<1>2. BotRows' /\ NoStrayKeys'  BY <1>1 DEF BotInv, BotRows, NoStrayKeys
<1>3. SessionsKnown'  BY <1>1 DEF BotInv, BotRows, SessionsKnown, OfChat
<1>4. \A r \in BotRequests : ServesWell(r)'  BY <1>1 DEF BotInv, ServesWell, OfChat
<1>5. \A c \in BotChats : CleanChat(c)'
  BY <1>1 DEF BotInv, CleanChat, Along, Settled, DeviceAsked
<1> QED  BY <1>1, <1>2, <1>3, <1>4, <1>5 DEF BotInv

LEMMA BotRestartKeepsInv == ASSUME BotInv, Restart PROVE BotInv'
<1>1. /\ bindings' = [c \in BotChats |-> Unbound] /\ sessions' = [s \in ChatSessions |-> None]
      /\ serving' = [r \in BotRequests |-> NotAsked]
      /\ clean' = [c \in BotChats |-> clean[c] /\ \A r \in BotRequests : serving[r].chat # c]
      /\ UNCHANGED <<hasRedis, storedBindings, storedSessions, created>>
      /\ ordered' = IF hasRedis THEN ordered ELSE [c \in BotChats |-> None]
  BY DEF Restart, bridgeKeys
<1>2. serving' \in [BotRequests -> BotRequest]  BY <1>1, ServedIs
<1>3. \A r \in BotRequests : serving'[r] = NotAsked  BY <1>1
<1>4. \A r \in BotRequests : ServesWell(r)'  BY <1>3, IdleServesWellNext
<1>5. BotRows' /\ SessionsKnown' /\ NoStrayKeys'
  <2>1. Unbound \in [device : BotDevices \cup {None}, session : ChatSessions \cup {None}]
    BY DEF Unbound
  <2>2. SessionsKnown' /\ NoStrayKeys'  BY <1>1 DEF BotInv, SessionsKnown, NoStrayKeys, OfChat
  <2>3. bindings' \in [BotChats -> [device : BotDevices \cup {None},
                                    session : ChatSessions \cup {None}]]
    BY <1>1, <2>1
  <2>4. ordered' \in [BotChats -> BotDevices \cup {None}]  BY <1>1 DEF BotInv, BotRows
  <2> QED  BY <1>1, <2>2, <2>3, <2>4 DEF BotInv, BotRows
<1>6. ASSUME NEW c \in BotChats  PROVE CleanChat(c)'
  <2> SUFFICES ASSUME clean'[c]  PROVE Settled(c)'
    BY <1>3, <1>6, ServedIs, BotIds DEF CleanChat
  <2>1. clean[c] /\ \A r \in BotRequests : serving[r].chat # c  BY <1>1
  <2>2. Settled(c)  BY <2>1 DEF BotInv, CleanChat
  <2>3. ~hasRedis => storedBindings[c] = None  BY DEF BotInv, NoStrayKeys
  <2> QED  BY <1>1, <2>2, <2>3 DEF Settled, DeviceAsked
<1> QED  BY <1>2, <1>4, <1>5, <1>6 DEF BotInv

LEMMA BotNextInv == BotInv /\ [BotNext]_botVars => BotInv'
<1> SUFFICES ASSUME BotInv, [BotNext]_botVars  PROVE BotInv'  OBVIOUS
<1>1. ASSUME NEW r \in BotRequests,
             \/ GetBinding(r) \/ FillBinding(r) \/ NothingToDo(r)
             \/ BindChat(r) \/ BindStore(r) \/ UnbindChat(r) \/ UnbindStore(r)
             \/ HandleConversation(r) \/ TrackSession(r) \/ TrackStore(r)
      PROVE  BotInv'
  BY <1>1, GetBindingKeepsInv, FillBindingKeepsInv, NothingToDoKeepsInv, BindChatKeepsInv,
     BindStoreKeepsInv, UnbindChatKeepsInv, UnbindStoreKeepsInv, HandleConversationKeepsInv,
     TrackSessionKeepsInv, TrackStoreKeepsInv
<1>2. ASSUME NEW r \in BotRequests, NEW c \in BotChats, NEW k, NEW d \in BotDevices \cup {None},
             HandleMessage(r, c, k, d)
      PROVE  BotInv'
  BY <1>2, HandleMessageKeepsInv
<1>3. ASSUME NEW r \in BotRequests,
             ChatForSession(r) \/ ChatForDevice(r) \/ PushToChat(r)
             \/ \E s \in ChatSessions : HandleEventPush(r, s)
      PROVE  BotInv'
  BY <1>3, ChatForSessionKeepsInv, ToldKeepsInv, EventKeepsInv
<1>4. ASSUME NEW s \in ChatSessions, SessionKeyExpires(s)  PROVE BotInv'
  BY <1>4, KeyExpiresKeepsInv
<1>5. CASE Restart  BY <1>5, BotRestartKeepsInv
<1>6. CASE UNCHANGED botVars
  BY <1>6 DEF botVars, bridgeMemory, bridgeKeys, botHistory, BotInv, BotRows, ServesWell, OfChat,
              SessionsKnown, NoStrayKeys, CleanChat, Along, Settled, DeviceAsked
<1> QED  BY <1>1, <1>2, <1>3, <1>4, <1>5, <1>6 DEF BotNext

LEMMA BotInvShows == BotInv => ChatAsksItsDevice /\ AskerIsTold
<1> SUFFICES ASSUME BotInv  PROVE ChatAsksItsDevice /\ AskerIsTold  OBVIOUS
<1>1. ChatAsksItsDevice
  BY DEF BotInv, CleanChat, Settled, DeviceAsked, ChatAsksItsDevice
<1>2. AskerIsTold  BY DEF BotInv, ServesWell, OfChat, AskerIsTold
<1> QED  BY <1>1, <1>2

------------------------------------------------------------------------------
(* Commands from a sentence: what is drafted is the line of the one object  *)
(* that has one, if there is one, and never a thought; the model is told    *)
(* the shell of the device, and asked twice only in other words.            *)

\* The greatest of bounded numbers.
LEMMA GreatestOne ==
  ASSUME NEW n \in Nat, NEW S, S \subseteq 0 .. n, S # {}
  PROVE  \E x \in S : \A y \in S : x >= y
<1> DEFINE R == {n - x : x \in S}
<1>1. R \subseteq Nat /\ R # {}
  <2>1. \A x \in S : n - x \in Nat  OBVIOUS
  <2> QED  BY <2>1
<1>2. PICK r \in R : \A q \in R : r <= q
  <2> HIDE DEF R
  <2> QED  BY <1>1, LeastOne
<1>3. PICK x \in S : r = n - x  OBVIOUS
<1>4. ASSUME NEW y \in S  PROVE x >= y
  <2>1. r <= n - y  BY <1>2
  <2> QED  BY <1>3, <2>1
<1> QED  BY <1>4

LEMMA MinIsThere ==
  ASSUME NEW S, S \subseteq Nat, S # {}
  PROVE  Min(S) \in S /\ \A y \in S : Min(S) <= y
<1>1. \E x \in S : \A y \in S : x <= y  BY LeastOne
<1> QED  BY <1>1 DEF Min

LEMMA MaxIsThere ==
  ASSUME NEW n \in Nat, NEW S, S \subseteq 0 .. n, S # {}
  PROVE  Max(S) \in S /\ \A y \in S : Max(S) >= y
<1>1. \E x \in S : \A y \in S : x >= y  BY GreatestOne
<1> QED  BY <1>1 DEF Max

DraftSources == {"none", "message", "delta", "text"}
Risks == {"absent", "given", "evaluated"}
DraftRecords == [at : {"idle", "asked", "posted", "said", "drafted", "refused"},
                 from : DraftSources, text : Texts \cup {NoDraft.text},
                 command : CommandValues \cup {"raw"}, risk : Risks]

\* What DraftIsTheLine says of the text.
HasItsLine(t, command) ==
  /\ command = "line" => \E i \in DOMAIN t.pieces :
       IsObject(t.pieces[i]) /\ "line" \in {t.pieces[i].command, t.pieces[i].cmd}
  /\ \A i \in DOMAIN t.pieces :
       /\ IsObject(t.pieces[i]) /\ t.pieces[i].command = "line"
       /\ \A j \in DOMAIN t.pieces \ {i} : ~IsObject(t.pieces[j])
       => command = "line"
  /\ command = "raw" /\ (\E i \in DOMAIN t.pieces : Explains(t.pieces[i])) => BegunByBrace(t)

DraftInv ==
  /\ draft \in DraftRecords
  /\ draft.at = "drafted" =>
       /\ draft.risk # "absent" /\ draft.command \in {"line", "raw"}
       /\ HasItsLine(draft.text, draft.command)
  /\ posting.posts = 2 => ~posting.format
  /\ target.platform \notin {"none", ""} => SyntaxRules(target.os) = ShellOf(target.platform)

LEMMA DraftInitInv == DraftInit => DraftInv
<1> SUFFICES ASSUME DraftInit  PROVE DraftInv  OBVIOUS
<1>1. draft = NoDraft /\ posting = NotPosted  BY DEF DraftInit
<1>2. NoDraft \in DraftRecords /\ NoDraft.at = "idle"
  BY DEF NoDraft, DraftRecords, DraftSources, Risks, CommandValues
<1>3. ~(posting.posts = 2)  BY <1>1 DEF NotPosted
<1>4. target.platform = "none"  BY DEF DraftInit, NoTarget
<1> QED  BY <1>1, <1>2, <1>3, <1>4, Zenon DEF DraftInv

LEMMA SaysWhere ==
  ASSUME NEW answer  PROVE ExtractAssistantText(answer) \in DraftSources
<1>1. \A c : TextFromChoice(c) \in DraftSources  BY DEF TextFromChoice, DraftSources
<1> HIDE DEF TextFromChoice
<1> QED  BY <1>1 DEF ExtractAssistantText, DraftSources

ObjectsOf(t) == {t.pieces[i] : i \in {k \in DOMAIN t.pieces : IsObject(t.pieces[k])}}

LEMMA PiecesAre ==
  ASSUME NEW t \in Texts
  PROVE  /\ Len(t.pieces) \in Nat /\ DOMAIN t.pieces = 1 .. Len(t.pieces)
         /\ \A i \in DOMAIN t.pieces : IsObject(t.pieces[i]) => t.pieces[i] \in Objects
<1>1. PICK n \in 1 .. MaxPieces : t.pieces \in [1 .. n -> Pieces]  BY DEF Texts
<1>2. n \in Nat  OBVIOUS
<1>3. t.pieces \in Seq(Pieces) /\ Len(t.pieces) = n  BY <1>1, <1>2
<1>4. \A p \in Pieces : IsObject(p) => p \in Objects  BY DEF Pieces, IsObject
<1> QED  BY <1>1, <1>2, <1>3, <1>4

LEMMA ObjectsAreFound ==
  ASSUME NEW t \in Texts
  PROVE  /\ WholeObject(t) \in ObjectsOf(t) \cup {NoObject}
         /\ FirstJSONObject(t) \in ObjectsOf(t) \cup {NoObject}
         /\ ObjectContainingCommandKey(t) \in ObjectsOf(t) \cup {NoObject}
         /\ ObjectsOf(t) \subseteq Objects
<1> DEFINE n == Len(t.pieces)
           cuts == {i \in 1 .. n : t.pieces[i].kind \in {"object", "cut"}}
           named == {i \in 1 .. n : IsObject(t.pieces[i]) /\ t.pieces[i].command # "absent"}
<1>1. /\ n \in Nat /\ DOMAIN t.pieces = 1 .. n
      /\ \A i \in 1 .. n : IsObject(t.pieces[i]) => t.pieces[i] \in Objects
  BY PiecesAre
<1>2. ObjectsOf(t) \subseteq Objects
      /\ \A i \in 1 .. n : IsObject(t.pieces[i]) => t.pieces[i] \in ObjectsOf(t)
  BY <1>1 DEF ObjectsOf
<1>3. WholeObject(t) \in ObjectsOf(t) \cup {NoObject}  BY <1>1, <1>2 DEF WholeObject
<1>4. FirstJSONObject(t) \in ObjectsOf(t) \cup {NoObject}
  <2>0. cuts \subseteq Nat  BY <1>1
  <2>1. cuts # {} => Min(cuts) \in cuts
    <3> HIDE DEF cuts
    <3> QED  BY <2>0, MinIsThere
  <2>2. FirstJSONObject(t) =
          LET i == IF cuts # {} THEN Min(cuts) ELSE 0
          IN IF i # 0 /\ IsObject(t.pieces[i]) THEN t.pieces[i] ELSE NoObject
    BY DEF FirstJSONObject, SelectInSeq
  <2> QED  BY <1>1, <1>2, <2>1, <2>2
<1>5. ObjectContainingCommandKey(t) \in ObjectsOf(t) \cup {NoObject}
  <2>0. named \subseteq 0 .. n  BY <1>1
  <2>1. named # {} => Max(named) \in named
    <3> HIDE DEF named, n
    <3> QED  BY <1>1, <2>0, MaxIsThere
  <2>2. ObjectContainingCommandKey(t) =
          LET i == IF named # {} THEN Max(named) ELSE 0
          IN IF i # 0 THEN t.pieces[i] ELSE NoObject
    BY DEF ObjectContainingCommandKey, SelectLastInSeq
  <2> QED  BY <1>1, <1>2, <2>1, <2>2
<1> QED  BY <1>2, <1>3, <1>4, <1>5

\* What an answer is read from is an object of the text that can be read, and there is one if the last
\* with a command can.
LEMMA ParsedIs ==
  ASSUME NEW t \in Texts
  PROVE  /\ Parsed(t) # NoObject =>
              Parsed(t) \in ObjectsOf(t) /\ Parsed(t) \in Objects /\ Parsed(t).command # "number"
         /\ Readable(ObjectContainingCommandKey(t)) => Parsed(t) # NoObject
<1> DEFINE shapes == Tried(t)
           can == {i \in 1 .. Len(shapes) : Readable(shapes[i])}
<1>1. can # {} => Min(can) \in can
  <2>1. can \subseteq Nat
    <3> HIDE DEF shapes
    <3> QED  OBVIOUS
  <2> HIDE DEF can
  <2> QED  BY <2>1, MinIsThere
<1>2. Parsed(t) = LET found == IF can # {} THEN Min(can) ELSE 0
                  IN IF found = 0 THEN NoObject ELSE shapes[found]
  BY DEF Parsed, SelectInSeq
<1>3. \A i \in 1 .. 3 : shapes[i] \in ObjectsOf(t) \cup {NoObject}  BY ObjectsAreFound DEF Tried
<1>4. Len(shapes) = 3 /\ shapes[3] = ObjectContainingCommandKey(t)  BY DEF Tried
<1>5. \A o : Readable(o) => o # NoObject /\ o.command # "number"  BY DEF Readable
<1> HIDE DEF shapes
<1>6. can # {} => Readable(Parsed(t)) /\ Parsed(t) \in ObjectsOf(t) \cup {NoObject}
  BY <1>1, <1>2, <1>3, <1>4
<1>7. can = {} => Parsed(t) = NoObject  BY <1>2
<1>8. Readable(ObjectContainingCommandKey(t)) => 3 \in can  BY <1>4
<1> QED  BY <1>5, <1>6, <1>7, <1>8, ObjectsAreFound

\* The only object of a text, if it has a command, is the last one that has.
LEMMA OnlyObjectIsRead ==
  ASSUME NEW t \in Texts, NEW i \in DOMAIN t.pieces, IsObject(t.pieces[i]),
         t.pieces[i].command = "line",
         \A j \in DOMAIN t.pieces \ {i} : ~IsObject(t.pieces[j])
  PROVE  Readable(ObjectContainingCommandKey(t))
<1> DEFINE n == Len(t.pieces)
           named == {k \in 1 .. n : IsObject(t.pieces[k]) /\ t.pieces[k].command # "absent"}
<1>1. n \in Nat /\ DOMAIN t.pieces = 1 .. n  BY PiecesAre
<1>2. named = {i}  BY <1>1
<1>3. Max(named) = i  BY <1>1, <1>2, MaxIsThere
<1>4. ObjectContainingCommandKey(t) = LET k == IF named # {} THEN Max(named) ELSE 0
                                      IN IF k # 0 THEN t.pieces[k] ELSE NoObject
  BY DEF ObjectContainingCommandKey, SelectLastInSeq
<1>5. ObjectContainingCommandKey(t) = t.pieces[i]
  <2> HIDE DEF named
  <2> QED  BY <1>1, <1>2, <1>3, <1>4
<1> QED  BY <1>5 DEF Readable, NoObject

LEMMA DraftedKeepsInv ==
  ASSUME DraftInv, NEW t \in Texts, NEW command \in {"line", "raw"}, NEW risk \in Risks,
         Drafted(t, command, risk), HasItsLine(t, command), UNCHANGED <<target, posting>>
  PROVE  DraftInv'
<1>1. PICK given \in Risks : given # "absent"
                             /\ given = IF risk = "absent" THEN "evaluated" ELSE risk
  BY DEF Risks
<1>2. draft' = [draft EXCEPT !.at = "drafted", !.text = t, !.command = command, !.risk = given]
  BY <1>1 DEF Drafted
<1>3. draft \in DraftRecords  BY DEF DraftInv
<1>4. /\ draft' \in DraftRecords
      /\ draft'.text = t /\ draft'.command = command /\ draft'.risk = given
  BY <1>2, <1>3 DEF DraftRecords, CommandValues
<1>5. /\ (posting.posts = 2 => ~posting.format)'
      /\ (target.platform \notin {"none", ""} => SyntaxRules(target.os) = ShellOf(target.platform))'
  BY Zenon DEF DraftInv, SyntaxRules, ShellOf
<1>6. HasItsLine(draft'.text, draft'.command)  BY <1>4
<1> QED  BY <1>1, <1>4, <1>5, <1>6, Zenon DEF DraftInv, HasItsLine, IsObject, Explains, BegunByBrace

LEMMA GenerateKeepsInv ==
  ASSUME DraftInv, NEW t \in Texts, Generate(t)
  PROVE  DraftInv' \/ Refuse
<1> DEFINE o == Parsed(t)
           alt == ObjectContainingCommandKey(t)
<1>1. ASSUME ~Refuse, o = NoObject
      PROVE  Drafted(t, "raw", "absent") /\ HasItsLine(t, "raw")
  <2>1. Drafted(t, "raw", "absent") /\ ~LooksLikeExplanation(t)  BY <1>1 DEF Generate
  <2>2. ~Readable(ObjectContainingCommandKey(t))  BY <1>1, ParsedIs
  <2>3. (\E i \in DOMAIN t.pieces : Explains(t.pieces[i])) => BegunByBrace(t)
    BY <2>1, Zenon DEF LooksLikeExplanation
  <2>4. ASSUME NEW i \in DOMAIN t.pieces,
               IsObject(t.pieces[i]) /\ t.pieces[i].command = "line",
               \A j \in DOMAIN t.pieces \ {i} : ~IsObject(t.pieces[j])
        PROVE  FALSE
    BY <2>2, <2>4, OnlyObjectIsRead
  <2>5. HasItsLine(t, "raw")
    <3>1. "raw" # "line"  OBVIOUS
    <3> QED  BY <2>3, <2>4, <3>1, Zenon DEF HasItsLine
  <2> QED  BY <2>1, <2>5
\* A line that an object of the text has.
<1>2. ASSUME NEW x \in ObjectsOf(t), "line" \in {x.command, x.cmd}
      PROVE  HasItsLine(t, "line")
  <2>1. PICK i \in DOMAIN t.pieces : IsObject(t.pieces[i]) /\ x = t.pieces[i]
    BY DEF ObjectsOf
  <2>2. \E k \in DOMAIN t.pieces :
          IsObject(t.pieces[k]) /\ "line" \in {t.pieces[k].command, t.pieces[k].cmd}
    BY <1>2, <2>1
  <2>3. "line" # "raw"  OBVIOUS
  <2> QED  BY <2>2, <2>3, Zenon DEF HasItsLine
<1>3. ASSUME ~Refuse, o # NoObject
      PROVE  \E risk \in Risks : Drafted(t, "line", risk) /\ HasItsLine(t, "line")
  <2>1. o \in ObjectsOf(t) /\ o \in Objects /\ o.command # "number"  BY <1>3, ParsedIs
  <2>2. GenericCommand(o) \in {"absent", "line", "prose"}
    BY <2>1 DEF GenericCommand, Objects, CommandValues
  <2>3. ParsedRisk(t) \in Risks  BY DEF ParsedRisk, Risks
  <2>4. CASE GenericCommand(o) = "prose"
    <3>1. InsteadOfProse(t) # NoObject /\ Drafted(t, "line", InsteadOfProse(t).risk)
      BY <1>3, <2>4 DEF Generate
    <3>2. InsteadOfProse(t) = alt /\ alt.command = "line" /\ alt # NoObject
      BY <3>1 DEF InsteadOfProse
    <3>3. alt \in ObjectsOf(t) /\ alt \in Objects  BY <3>2, ObjectsAreFound
    <3>4. alt.risk \in Risks  BY <3>3 DEF Objects, Risks
    <3> HIDE DEF alt
    <3> QED  BY <1>2, <3>1, <3>2, <3>3, <3>4
  <2>5. CASE GenericCommand(o) = "line"
    <3>1. Drafted(t, "line", ParsedRisk(t))  BY <1>3, <2>5 DEF Generate
    <3>2. "line" \in {o.command, o.cmd}  BY <2>5 DEF GenericCommand
    <3> HIDE DEF o
    <3> QED  BY <1>2, <2>1, <2>3, <3>1, <3>2
  <2>6. CASE GenericCommand(o) = "absent"  BY <1>3, <2>6 DEF Generate
  <2> QED  BY <2>2, <2>4, <2>5, <2>6
<1>4. UNCHANGED <<target, posting>>  BY DEF Generate
<1>5. "absent" \in Risks  BY DEF Risks
<1> QED  BY <1>1, <1>3, <1>4, <1>5, DraftedKeepsInv

LEMMA DraftNextInv == DraftInv /\ [DraftNext]_draftVars => DraftInv'
<1> SUFFICES ASSUME DraftInv, [DraftNext]_draftVars  PROVE DraftInv'  OBVIOUS
<1>0. draft \in DraftRecords  BY DEF DraftInv
<1> DEFINE KnowsShell == target.platform \notin {"none", ""} =>
                           SyntaxRules(target.os) = ShellOf(target.platform)
           AsksAnew == posting.posts = 2 => ~posting.format
<1>1. KnowsShell /\ AsksAnew  BY Zenon DEF DraftInv
\* A step that drafts nothing.
<1>2. ASSUME draft' \in DraftRecords, draft'.at # "drafted" \/ UNCHANGED draft,
             KnowsShell', AsksAnew'
      PROVE  DraftInv'
  <2> HIDE DEF KnowsShell, AsksAnew
  <2> DEFINE Fine(x) == x.at = "drafted" => /\ x.risk # "absent"
                                            /\ x.command \in {"line", "raw"}
                                            /\ HasItsLine(x.text, x.command)
  <2>1. Fine(draft)  BY Zenon DEF DraftInv
  <2>2. draft'.at # "drafted" => Fine(draft')  OBVIOUS
  <2> HIDE DEF Fine
  <2>3. UNCHANGED draft => Fine(draft')  BY <2>1, Zenon
  <2>4. Fine(draft')  BY <1>2, <2>2, <2>3
  <2> QED
    BY <1>2, <2>4, Zenon
       DEF DraftInv, KnowsShell, AsksAnew, Fine, HasItsLine, IsObject, Explains, BegunByBrace
<1>3. ASSUME NEW at \in {"idle", "asked", "posted", "said", "refused"},
             draft' = [draft EXCEPT !.at = at]
      PROVE  draft' \in DraftRecords /\ draft'.at # "drafted"
  BY <1>0, <1>3 DEF DraftRecords
<1>4. ASSUME UNCHANGED target PROVE KnowsShell'  BY <1>1, <1>4, Zenon
<1>5. ASSUME UNCHANGED posting PROVE AsksAnew'  BY <1>1, <1>5, Zenon
<1>6. ASSUME Refuse PROVE draft' \in DraftRecords /\ draft'.at # "drafted"
  BY <1>3, <1>6 DEF Refuse
<1>7. ASSUME NEW p, p # ""  PROVE SyntaxRules(NLTargetFromDevice(p)) = ShellOf(p)
  <2>1. NLTargetFromDevice(p) = IF p = "win32" THEN "windows" ELSE p
    BY <1>7, Zenon DEF NLTargetFromDevice, NormalizeSnapshot
  <2> QED  BY <2>1 DEF SyntaxRules, ShellOf
<1>8. CASE GenerateCommand
  <2>1. KnowsShell'
    <3>1. CASE target' = [platform |-> "none", os |-> DefaultTarget]
      <4>1. target'.platform = "none"  BY <3>1
      <4> QED  BY <4>1, Zenon
    <3>2. ASSUME NEW p \in Platforms, target' = [platform |-> p, os |-> NLTargetFromDevice(p)]
          PROVE  KnowsShell'
      <4>1. target'.platform = p /\ target'.os = NLTargetFromDevice(p)  BY <3>2
      <4> QED  BY <1>7, <4>1, Zenon DEF SyntaxRules, ShellOf
    <3> QED  BY <1>8, <3>1, <3>2, Zenon DEF GenerateCommand
  <2>2. draft' = [draft EXCEPT !.at = "asked"] /\ UNCHANGED posting
    BY <1>8, Zenon DEF GenerateCommand
  <2> QED  BY <1>2, <1>3, <1>5, <2>1, <2>2
<1>9. CASE DeviceNotFound \/ PostFails
  BY <1>2, <1>4, <1>5, <1>6, <1>9, Zenon DEF DeviceNotFound, PostFails
<1>10. ASSUME NEW ps, PickModel(ps)  PROVE DraftInv'
  <2>1. CASE Refuse /\ UNCHANGED <<target, posting>>
    BY <1>2, <1>4, <1>5, <1>6, <2>1
  <2>2. CASE posting' = [posts |-> 1, format |-> TRUE] /\ draft' = [draft EXCEPT !.at = "posted"]
             /\ UNCHANGED target
    <3>1. AsksAnew'  BY <2>2
    <3> QED  BY <1>2, <1>3, <1>4, <2>2, <3>1
  <2> QED  BY <1>10, <2>1, <2>2, Zenon DEF PickModel
<1>11. CASE PostRefused
  <2>1. CASE Refuse /\ UNCHANGED <<target, posting>>
    BY <1>2, <1>4, <1>5, <1>6, <2>1
  <2>2. CASE posting' = [posts |-> posting.posts + 1, format |-> FALSE] /\ UNCHANGED draft
             /\ UNCHANGED target
    <3>1. AsksAnew'  BY <2>2
    <3> QED  BY <1>0, <1>2, <1>4, <2>2, <3>1
  <2> QED  BY <1>11, <2>1, <2>2, Zenon DEF PostRefused
<1>12. ASSUME NEW answer, CallLLM(answer)  PROVE DraftInv'
  <2>1. CASE Refuse /\ UNCHANGED <<target, posting>>
    BY <1>2, <1>4, <1>5, <1>6, <2>1
  <2>2. CASE draft' = [draft EXCEPT !.at = "said", !.from = ExtractAssistantText(answer)]
             /\ UNCHANGED <<target, posting>>
    <3>1. PICK from \in DraftSources : from = ExtractAssistantText(answer)  BY SaysWhere
    <3>2. draft' = [draft EXCEPT !.at = "said", !.from = from]  BY <2>2, <3>1
    <3>3. draft' \in DraftRecords /\ draft'.at # "drafted"
      BY <1>0, <3>2 DEF DraftRecords
    <3> QED  BY <1>2, <1>4, <1>5, <2>2, <3>3
  <2> QED  BY <1>12, <2>1, <2>2, Zenon DEF CallLLM
<1>13. ASSUME NEW t \in Texts, Generate(t)  PROVE DraftInv'
  <2>1. CASE Refuse
    <3>1. UNCHANGED <<target, posting>>  BY <1>13, Zenon DEF Generate
    <3> QED  BY <1>2, <1>4, <1>5, <1>6, <2>1, <3>1
  <2> QED  BY <1>13, <2>1, GenerateKeepsInv
<1>14. CASE UNCHANGED draftVars  BY <1>0, <1>2, <1>4, <1>5, <1>14 DEF draftVars
<1> QED
  BY <1>8, <1>9, <1>10, <1>11, <1>12, <1>13, <1>14, Zenon DEF DraftNext

LEMMA DraftInvShows == DraftInv => DraftIsTheLine /\ AskedInWordsUnderstood
<1> SUFFICES ASSUME DraftInv  PROVE DraftIsTheLine /\ AskedInWordsUnderstood  OBVIOUS
<1>1. DraftIsTheLine
  BY DEF DraftInv, DraftIsTheLine, DraftRecords, DraftSources, HasItsLine
<1>2. AskedInWordsUnderstood  BY Zenon DEF DraftInv, AskedInWordsUnderstood
<1> QED  BY <1>1, <1>2

------------------------------------------------------------------------------
(* The pages of the list of groups: as long as none has been deleted the    *)
(* groups there are those ever made, and a walk that has come to a page has *)
(* seen each of its groups that is above it.                                *)

PagerAts == {"none", "asks", "counted", "done"}
PagerRecords == [at : PagerAts, page : Nat \ {0}, total : Nat, seen : SUBSET Groups,
                 due : SUBSET Groups, still : BOOLEAN]
GroupRecords == [there : BOOLEAN, changed : SUBSET GroupFields]
EditRecords == [group : 0 .. MaxGroups, fields : SUBSET GroupFields, read : SUBSET GroupFields]

\* The groups that stand before the page that is to be shown next have been seen.
SeenSoFar == \A g \in pager.due : made - g < (pager.page - 1) * PageSize => g \in pager.seen

PagesInv ==
  /\ made \in 0 .. MaxGroups /\ pager \in PagerRecords
  /\ groupRows \in [Groups -> GroupRecords] /\ groupEdits \in [GroupEdits -> EditRecords]
  /\ \A g \in Groups : groupRows[g].there => g <= made
  /\ \A e \in GroupEdits : groupEdits[e] # NoChange => groupEdits[e].group \in 1 .. made
  /\ pager.still => 1 .. made \subseteq Present
  /\ pager.still => \A g \in pager.due : g <= made
  /\ pager.still /\ pager.at \in {"asks", "counted"} => SeenSoFar
  /\ pager.still /\ pager.at = "counted" => pager.total = made
  /\ pager.at = "none" => pager.page = 1
  /\ PagesMissNothing

LEMMA PagesInitInv == GroupInit => PagesInv
<1> SUFFICES ASSUME GroupInit  PROVE PagesInv  OBVIOUS
<1>1. /\ pager = [at |-> "none", page |-> 1, total |-> 0, seen |-> {}, due |-> {}, still |-> TRUE]
      /\ made = 0 /\ groupRows = [g \in Groups |-> [there |-> FALSE, changed |-> {}]]
      /\ groupEdits = [e \in GroupEdits |-> NoChange]
  BY Zenon DEF GroupInit
<1>2. /\ pager.at = "none" /\ pager.due = {} /\ pager.page = 1 /\ pager.still = TRUE /\ pager \in PagerRecords
  BY <1>1 DEF PagerRecords, PagerAts
<1>3. NoChange \in EditRecords  BY GroupConstants DEF NoChange, EditRecords
<1>4. groupRows \in [Groups -> GroupRecords] /\ \A g \in Groups : groupRows[g].there = FALSE
  BY <1>1 DEF GroupRecords
<1>5. made \in 0 .. MaxGroups /\ 1 .. made = {}  BY <1>1, GroupConstants
<1> QED  BY <1>1, <1>2, <1>3, <1>4, <1>5 DEF PagesInv, PagesMissNothing, SeenSoFar

\* The number of groups above one of them, and so the page that shows it.
LEMMA AboveIs ==
  ASSUME PagesInv, pager.still, NEW g \in 1 .. made
  PROVE  Cardinality({h \in Present : h > g}) = made - g
<1>1. Present = 1 .. made  BY DEF PagesInv, Present, Groups
<1>2. made \in Nat  BY GroupConstants DEF PagesInv
<1> DEFINE above == {h \in Present : h > g}
           n == g + 1
<1>3. above = n .. made /\ n \in Int  BY <1>1, <1>2
<1>4. n > made => made - g = 0  BY <1>2
<1>5. n <= made => made - n + 1 = made - g  BY <1>2
<1> HIDE DEF above, n
<1>6. Cardinality(above) = IF n > made THEN 0 ELSE made - n + 1  BY <1>2, <1>3, FS_Interval
<1>7. Cardinality(above) = made - g  BY <1>2, <1>3, <1>4, <1>5, <1>6
<1> QED  BY <1>7 DEF above

LEMMA TotalIs == ASSUME PagesInv, pager.still PROVE Cardinality(Present) = made
<1>1. Present = 1 .. made  BY DEF PagesInv, Present, Groups
<1>2. made \in Nat  BY GroupConstants DEF PagesInv
<1>3. Cardinality(1 .. made) = IF 1 > made THEN 0 ELSE made - 1 + 1  BY <1>2, FS_Interval
<1> QED  BY <1>1, <1>2, <1>3

LEMMA UnsettledIs ==
  ASSUME PagesInv
  PROVE  \E b \in BOOLEAN : /\ Unsettled = [pager EXCEPT !.still = b]
                            /\ b => pager.still /\ pager.at # "counted"
<1>1. PICK b \in BOOLEAN : b = (pager.still /\ pager.at # "counted")  BY Zenon
<1>2. Unsettled = [pager EXCEPT !.still = b]  BY <1>1, Zenon DEF Unsettled
<1> QED  BY <1>1, <1>2

LEMMA CreateKeepsPages == ASSUME PagesInv, CreateGroup PROVE PagesInv'
<1> DEFINE row == [there |-> TRUE, changed |-> {}]
<1>1. /\ made < MaxGroups /\ made' = made + 1 /\ groupRows' = [groupRows EXCEPT ![made + 1] = row]
      /\ pager' = Unsettled /\ UNCHANGED groupEdits
  BY Zenon DEF CreateGroup
<1>2. PICK b \in BOOLEAN : /\ pager' = [pager EXCEPT !.still = b]
                           /\ b => pager.still /\ pager.at # "counted"
  BY <1>1, UnsettledIs
<1>3. /\ pager' \in PagerRecords /\ pager'.still = b /\ pager'.at = pager.at
      /\ pager'.due = pager.due /\ pager'.seen = pager.seen /\ pager'.page = pager.page
  BY <1>2 DEF PagesInv, PagerRecords
<1>4. row \in GroupRecords /\ row.there = TRUE  BY DEF GroupRecords
<1> HIDE DEF row
<1>5. made \in Nat /\ MaxGroups \in Nat /\ made + 1 \in Groups /\ made' \in 0 .. MaxGroups
  BY <1>1, GroupConstants DEF PagesInv, Groups
<1>6. /\ groupRows' \in [Groups -> GroupRecords]
      /\ \A g \in Groups : groupRows'[g].there => g <= made'
      /\ \A g \in Groups : groupRows[g].there => groupRows'[g].there
      /\ groupRows'[made + 1].there
  BY <1>1, <1>4, <1>5 DEF PagesInv, Groups
<1>7. \A e \in GroupEdits : groupEdits'[e] # NoChange => groupEdits'[e].group \in 1 .. made'
  BY <1>1, <1>5 DEF PagesInv
<1>8. b => 1 .. made' \subseteq Present'
  <2> SUFFICES ASSUME b, NEW g \in 1 .. made'  PROVE g \in Present'  OBVIOUS
  <2>1. g \in 1 .. made \/ g = made + 1  BY <1>1, <1>5
  <2>2. g \in Groups  BY <2>1, <1>5 DEF Groups
  <2> QED  BY <2>1, <2>2, <1>2, <1>6 DEF PagesInv, Present
<1>9. b => \A g \in pager.due : g <= made' /\ g \in Nat
  BY <1>2, <1>1, <1>5 DEF PagesInv, PagerRecords, Groups
<1>10. b /\ pager.at = "asks" => SeenSoFar'
  <2> SUFFICES ASSUME b, pager.at = "asks", NEW g \in pager.due,
                      made' - g < (pager.page - 1) * PageSize
               PROVE  g \in pager.seen
    BY <1>3 DEF SeenSoFar
  <2>1. g \in Nat /\ (pager.page - 1) * PageSize \in Int
    BY <1>9, GroupConstants DEF PagesInv, PagerRecords
  <2>2. made - g < (pager.page - 1) * PageSize  BY <2>1, <1>1, <1>5
  <2> QED  BY <2>2, <1>2 DEF PagesInv, SeenSoFar
<1>11. PagesMissNothing'  BY <1>2, <1>3 DEF PagesInv, PagesMissNothing
<1>12. groupEdits' \in [GroupEdits -> EditRecords]  BY <1>1 DEF PagesInv
<1> QED
  BY <1>2, <1>3, <1>5, <1>6, <1>7, <1>8, <1>9, <1>10, <1>11, <1>12 DEF PagesInv

LEMMA ReadGroupKeepsPages ==
  ASSUME PagesInv, NEW e \in GroupEdits, NEW g \in Groups, NEW fields \in SUBSET GroupFields,
         ReadGroup(e, g, fields)
  PROVE  PagesInv'
<1> DEFINE row == [group |-> g, fields |-> fields, read |-> groupRows[g].changed]
<1>1. /\ groupRows[g].there /\ groupEdits' = [groupEdits EXCEPT ![e] = row]
      /\ UNCHANGED <<groupRows, made, pager>>
  BY Zenon DEF ReadGroup
<1>2. row \in EditRecords /\ row.group = g
  BY GroupConstants DEF EditRecords, Groups, PagesInv, GroupRecords
<1> HIDE DEF row
<1>3. g \in 1 .. made  BY <1>1, GroupConstants DEF PagesInv, Groups
<1> QED  BY <1>1, <1>2, <1>3 DEF PagesInv, PagesMissNothing, SeenSoFar, Present

LEMMA SaveGroupKeepsPages ==
  ASSUME PagesInv, NEW e \in GroupEdits, SaveGroup(e)
  PROVE  PagesInv'
<1> DEFINE g == groupEdits[e].group
           row == [there |-> TRUE,
                   changed |-> Edited(groupEdits[e].read, groupEdits[e].fields)]
<1>1. /\ groupEdits[e] # NoChange /\ groupRows' = [groupRows EXCEPT ![g] = row]
      /\ pager' = IF groupRows[g].there THEN pager ELSE Unsettled
      /\ groupEdits' = [groupEdits EXCEPT ![e] = NoChange] /\ UNCHANGED made
  BY Zenon DEF SaveGroup
<1>2. row \in GroupRecords /\ row.there = TRUE
  BY DEF GroupRecords, PagesInv, EditRecords, Edited
<1> HIDE DEF row
<1>3. made \in Nat /\ MaxGroups \in Nat /\ made <= MaxGroups /\ g \in 1 .. made /\ g \in Groups
  BY <1>1, GroupConstants DEF PagesInv, Groups
<1> HIDE DEF g
<1>4. /\ groupRows' \in [Groups -> GroupRecords]
      /\ \A h \in Groups : groupRows'[h].there => h <= made'
      /\ \A h \in Groups : groupRows[h].there => groupRows'[h].there
  BY <1>1, <1>2, <1>3 DEF PagesInv, Groups
<1>5. NoChange \in EditRecords  BY GroupConstants DEF NoChange, EditRecords
<1>6. /\ groupEdits' \in [GroupEdits -> EditRecords]
      /\ \A f \in GroupEdits : groupEdits'[f] # NoChange => groupEdits'[f].group \in 1 .. made'
  BY <1>1, <1>5 DEF PagesInv
<1>7. PICK b \in BOOLEAN : /\ pager' = [pager EXCEPT !.still = b]
                           /\ b => pager.still
  <2>1. CASE groupRows[g].there
    <3>1. pager' = pager /\ pager.still \in BOOLEAN  BY <1>1, <2>1 DEF PagesInv, PagerRecords
    <3>2. pager' = [pager EXCEPT !.still = pager.still]  BY <3>1 DEF PagesInv, PagerRecords
    <3> QED  BY <3>1, <3>2
  <2>2. CASE ~groupRows[g].there  BY <1>1, <2>2, UnsettledIs
  <2> QED  BY <2>1, <2>2
<1>8. /\ pager' \in PagerRecords /\ pager'.still = b /\ pager'.at = pager.at
      /\ pager'.due = pager.due /\ pager'.seen = pager.seen /\ pager'.page = pager.page
      /\ pager'.total = pager.total
  BY <1>7 DEF PagesInv, PagerRecords
<1>9. b => 1 .. made' \subseteq Present'
  BY <1>1, <1>4, <1>7 DEF PagesInv, Present
<1> QED
  BY <1>1, <1>3, <1>4, <1>6, <1>7, <1>8, <1>9 DEF PagesInv, PagesMissNothing, SeenSoFar

LEMMA DeleteKeepsPages == ASSUME PagesInv, NEW g \in Groups, DeleteGroup(g) PROVE PagesInv'
<1> DEFINE row == [there |-> FALSE, changed |-> {}]
<1>1. /\ groupRows' = [groupRows EXCEPT ![g] = row] /\ pager' = [pager EXCEPT !.still = FALSE]
      /\ UNCHANGED <<made, groupEdits>>
  BY Zenon DEF DeleteGroup
<1>2. row \in GroupRecords /\ row.there = FALSE  BY DEF GroupRecords
<1> HIDE DEF row
<1>3. pager' \in PagerRecords /\ pager'.still = FALSE  BY <1>1 DEF PagesInv, PagerRecords
<1>4. /\ groupRows' \in [Groups -> GroupRecords]
      /\ \A h \in Groups : groupRows'[h].there => h <= made'
  BY <1>1, <1>2 DEF PagesInv
<1> QED  BY <1>1, <1>3, <1>4 DEF PagesInv, PagesMissNothing

LEMMA OpenKeepsPages == ASSUME PagesInv, OpenList PROVE PagesInv'
<1>1. /\ pager' = [pager EXCEPT !.at = "asks", !.due = Present]
      /\ UNCHANGED <<groupRows, made, groupEdits>> /\ pager.at = "none"
  BY Zenon DEF OpenList
<1>2. Present \subseteq Groups /\ \A g \in Present : g <= made  BY DEF Present, PagesInv
<1>3. pager.page = 1  BY <1>1 DEF PagesInv
<1>4. /\ pager' \in PagerRecords /\ pager'.still = pager.still /\ pager'.at = "asks"
      /\ pager'.due = Present /\ pager'.seen = pager.seen /\ pager'.page = 1
  BY <1>1, <1>2, <1>3 DEF PagesInv, PagerRecords, PagerAts
<1>5. SeenSoFar'
  <2> SUFFICES ASSUME NEW g \in Present, made - g < (1 - 1) * PageSize  PROVE FALSE
    BY <1>1, <1>4 DEF SeenSoFar
  <2> QED  BY <1>2, GroupConstants DEF PagesInv, Groups
<1> QED  BY <1>1, <1>2, <1>4, <1>5 DEF PagesInv, PagesMissNothing, Present

LEMMA CountKeepsPages == ASSUME PagesInv, CountGroups PROVE PagesInv'
<1> DEFINE n == Cardinality(Present)
<1>1. /\ pager' = [pager EXCEPT !.at = "counted", !.total = n] /\ pager.at = "asks"
      /\ UNCHANGED <<groupRows, made, groupEdits>>
  BY Zenon DEF CountGroups
<1>2. n \in Nat
  <2>1. IsFiniteSet(Groups)  BY GroupConstants, FS_Interval DEF Groups
  <2>2. IsFiniteSet(Present)  BY <2>1, FS_Subset DEF Present
  <2> QED  BY <2>2, FS_CardinalityType
<1>3. pager.still => n = made  BY TotalIs
<1> HIDE DEF n
<1>4. /\ pager' \in PagerRecords /\ pager'.still = pager.still /\ pager'.at = "counted"
      /\ pager'.due = pager.due /\ pager'.seen = pager.seen /\ pager'.page = pager.page
      /\ pager'.total = n
  BY <1>1, <1>2 DEF PagesInv, PagerRecords, PagerAts
<1> QED  BY <1>1, <1>3, <1>4 DEF PagesInv, PagesMissNothing, SeenSoFar, Present

\* The groups of the page, and those above it that had been seen, are all above the next page.
LEMMA ShowKeepsPages == ASSUME PagesInv, ShowPage PROVE PagesInv'
<1> DEFINE last == pager.page * PageSize >= pager.total
           shown == pager.seen \cup Page(pager.page)
           place == IF last THEN "done" ELSE "asks"
           next == IF last THEN pager.page ELSE pager.page + 1
<1>1. /\ pager' = [pager EXCEPT !.seen = shown, !.at = place, !.page = next]
      /\ pager.at = "counted" /\ UNCHANGED <<groupRows, made, groupEdits>>
  BY Zenon DEF ShowPage
<1>2. pager.page \in Nat \ {0} /\ pager.total \in Nat /\ PageSize \in Nat \ {0} /\ made \in Nat
  BY GroupConstants DEF PagesInv, PagerRecords
<1>3. shown \subseteq Groups  BY DEF Page, Present, PagesInv, PagerRecords
<1>4. place \in {"done", "asks"} /\ next \in Nat \ {0}
  <2> HIDE DEF last
  <2> QED  BY <1>2
<1>5. ASSUME pager.still, NEW g \in pager.due, made - g < pager.page * PageSize
      PROVE  g \in shown
  <2>1. g \in 1 .. made /\ g \in Present
    BY <1>5, <1>2 DEF PagesInv, PagerRecords, Groups
  <2>2. CASE made - g < (pager.page - 1) * PageSize
    BY <2>2, <1>1, <1>5 DEF PagesInv, SeenSoFar
  <2>3. CASE ~(made - g < (pager.page - 1) * PageSize)
    <3>1. (pager.page - 1) * PageSize \in Int /\ pager.page * PageSize \in Int  BY <1>2
    <3>2. (pager.page - 1) * PageSize <= made - g  BY <2>3, <2>1, <3>1, <1>2
    <3>3. Cardinality({h \in Present : h > g}) = made - g  BY <2>1, <1>5, AboveIs
    <3>4. g \in Page(pager.page)  BY <3>2, <3>3, <2>1, <1>5, Zenon DEF Page
    <3> QED  BY <3>4
  <2> QED  BY <2>2, <2>3
<1>6. last /\ pager.still => pager.due \subseteq shown
  <2> SUFFICES ASSUME last, pager.still, NEW g \in pager.due  PROVE g \in shown  OBVIOUS
  <2>1. g \in 1 .. made /\ pager.total = made  BY <1>1, <1>2 DEF PagesInv, PagerRecords, Groups
  <2>2. pager.page * PageSize \in Int  BY <1>2
  <2>3. made - g < pager.page * PageSize  BY <2>1, <2>2, <1>2
  <2> QED  BY <2>3, <1>5
<1>7. ~last => place = "asks" /\ next - 1 = pager.page  BY <1>2
<1>8. last => place = "done"  OBVIOUS
<1> HIDE DEF last, shown, place, next
<1>9. /\ pager' \in PagerRecords /\ pager'.still = pager.still /\ pager'.at = place
      /\ pager'.due = pager.due /\ pager'.seen = shown /\ pager'.page = next
  BY <1>1, <1>3, <1>4 DEF PagesInv, PagerRecords, PagerAts
<1>10. pager.still /\ ~last => SeenSoFar'
  BY <1>1, <1>5, <1>7, <1>9 DEF SeenSoFar
<1>11. PagesMissNothing'  BY <1>6, <1>7, <1>9 DEF PagesMissNothing
<1> QED  BY <1>1, <1>4, <1>8, <1>9, <1>10, <1>11 DEF PagesInv, Present

LEMMA PagesNextInv == PagesInv /\ [GroupNext]_groupVars => PagesInv'
<1> SUFFICES ASSUME PagesInv, [GroupNext]_groupVars  PROVE PagesInv'  OBVIOUS
<1>1. ASSUME UNCHANGED <<groupRows, made, groupEdits, pager>>  PROVE PagesInv'
  BY <1>1 DEF PagesInv, PagesMissNothing, SeenSoFar, Present
<1>2. CASE UNCHANGED groupVars  BY <1>1, <1>2 DEF groupVars
<1>3. CASE InsertTask \/ DispatchTask \/ RunTask \/ NobodyToReach
  <2>1. UNCHANGED <<groupRows, made, groupEdits, pager>>
    BY <1>3, Zenon DEF InsertTask, DispatchTask, RunTask, NobodyToReach
  <2> QED  BY <1>1, <2>1
<1>4. ASSUME NEW g \in Groups,
             \/ ListForTask(g) \/ \E ds \in SUBSET GroupDevices \ {{}} : AddMembers(g, ds)
             \/ \E d \in GroupDevices : RemoveMember(g, d)
      PROVE  PagesInv'
  <2>1. UNCHANGED <<groupRows, made, groupEdits, pager>>
    BY <1>4, Zenon DEF ListForTask, AddMembers, RemoveMember
  <2> QED  BY <1>1, <2>1
<1>5. ASSUME NEW e \in GroupEdits, SaveGroupFails(e)  PROVE PagesInv'
  <2>1. groupEdits' = [groupEdits EXCEPT ![e] = NoChange] /\ UNCHANGED <<groupRows, made, pager>>
    BY <1>5, Zenon DEF SaveGroupFails
  <2>2. NoChange \in EditRecords  BY GroupConstants DEF NoChange, EditRecords
  <2> QED  BY <2>1, <2>2 DEF PagesInv, PagesMissNothing, SeenSoFar, Present
<1>6. ASSUME NEW g \in Groups, NEW e \in GroupEdits, NEW fields \in SUBSET GroupFields \ {{}},
             ReadGroup(e, g, fields)
      PROVE  PagesInv'
  BY <1>6, ReadGroupKeepsPages
<1> QED
  BY <1>2, <1>3, <1>4, <1>5, <1>6, CreateKeepsPages, OpenKeepsPages, CountKeepsPages,
     ShowKeepsPages, DeleteKeepsPages, SaveGroupKeepsPages, Zenon DEF GroupNext

LEMMA PagesInvShows == PagesInv => PagesMissNothing
BY DEF PagesInv

------------------------------------------------------------------------------
(* Package builds: whoever is about to mark a package ready, or to conclude *)
(* its job, has uploaded the archive, and nothing takes an archive away.    *)
(* That a queued job has attempts left keeps their count within its bound.  *)

BuildInv ==
  /\ BuildTypeOK
  /\ pkg = "none" => job = [status |-> "none", attempts |-> 0] /\ \A b \in Builders : build[b] = "idle"
  /\ job.status = "queued" => job.attempts < MaxAttempts
  /\ \A b \in Builders : build[b] \in {"marks", "done"} => stored
  /\ ReadyIsUploaded

LEMMA BuildInitInv == BuildInit => BuildInv
<1> SUFFICES ASSUME BuildInit  PROVE BuildInv  OBVIOUS
<1>1. MaxAttempts \in Nat \ {0}  BY BuildConstants
<1>2. job.status = "none" /\ job.attempts = 0  BY DEF BuildInit
<1>3. BuildTypeOK
  <2>1. 0 \in 0 .. MaxAttempts  BY <1>1
  <2>2. job \in [status : {"none", "queued", "running", "completed", "failed"},
                attempts : 0 .. MaxAttempts]
    BY <2>1 DEF BuildInit
  <2>3. stored \in BOOLEAN /\ stranded \in BOOLEAN  BY DEF BuildInit
  <2> QED  BY <2>2, <2>3 DEF BuildInit, BuildTypeOK, PackageStatuses
<1> QED  BY <1>2, <1>3 DEF BuildInit, BuildInv, ReadyIsUploaded

\* A statement on the package, that carries the status of a package whose archive is there or not.
LEMMA SetsStatus ==
  ASSUME pkg \in PackageStatuses, NEW s \in PackageStatuses \ {"none"}, Sets(s)
  PROVE  pkg' \in PackageStatuses /\ pkg' \in {pkg, s} /\ (pkg = "none" <=> pkg' = "none")
  BY DEF Sets, Exists, PackageStatuses

LEMMA BuildNextInv == BuildInv /\ [BuildNext]_buildVars => BuildInv'
<1> SUFFICES ASSUME BuildInv, [BuildNext]_buildVars  PROVE BuildInv'  OBVIOUS
<1> USE BuildConstants
<1> USE DEF BuildInv, BuildTypeOK, ReadyIsUploaded
<1>0. job = [status |-> job.status, attempts |-> job.attempts]  OBVIOUS
<1>1. CASE CreatePackage \/ DeletePackage \/ ExpirePackage
  BY <1>1 DEF CreatePackage, DeletePackage, ExpirePackage, Exists, PackageStatuses
<1>2. ASSUME NEW b \in Builders, ClaimJob(b)  PROVE BuildInv'
  BY <1>2 DEF ClaimJob, At, PackageStatuses
<1>3. ASSUME NEW b \in Builders, StartBuild(b)  PROVE BuildInv'
  BY <1>3, SetsStatus DEF StartBuild, At, PackageStatuses
<1>4. ASSUME NEW b \in Builders,
             LoadBase(b) \/ LoadBaseFails(b) \/ Upload(b) \/ UploadFails(b) \/ UploadHangs(b)
      PROVE BuildInv'
  BY <1>4 DEF LoadBase, LoadBaseFails, Upload, UploadFails, UploadHangs, At
<1>5. ASSUME NEW b \in Builders, MarkReady(b)  PROVE BuildInv'
  BY <1>5 DEF MarkReady, At, Exists, PackageStatuses
<1>6. ASSUME NEW b \in Builders, MarkReadyFails(b)  PROVE BuildInv'
  BY <1>6, SetsStatus DEF MarkReadyFails, At, PackageStatuses
<1>7. ASSUME NEW b \in Builders, CompleteJob(b) \/ RequeueJob(b)  PROVE BuildInv'
  BY <1>7 DEF CompleteJob, RequeueJob, RetriesLeft, At
<1>8. ASSUME NEW b \in Builders, FailJob(b)  PROVE BuildInv'
  BY <1>8, SetsStatus DEF FailJob, At, PackageStatuses
<1>9. ASSUME NEW b \in Builders, ConclusionIsLost(b)  PROVE BuildInv'
  BY <1>9, SetsStatus DEF ConclusionIsLost, At, PackageStatuses
<1>10. ASSUME NEW b \in Builders, RunnerStops(b)  PROVE BuildInv'
  BY <1>10 DEF RunnerStops
<1>11. CASE UNCHANGED buildVars  BY <1>11 DEF buildVars
<1> QED
  BY <1>1, <1>2, <1>3, <1>4, <1>5, <1>6, <1>7, <1>8, <1>9, <1>10, <1>11 DEF BuildNext, BuilderSteps

------------------------------------------------------------------------------
(* Roles: a role that is bound has a row, which carries permissions, however *)
(* the seedings and what administrators do interleave.                      *)

Seedings == [left : SUBSET DefaultRoles, missing : SUBSET DefaultRoles]
RoleEdits == {NoRoleEdit} \cup [role : RoleNames, permissions : SUBSET Permissions]

RolesShapes ==
  /\ roleRow \in [RoleNames -> (SUBSET Permissions) \cup {NoRow}]
  /\ roleBound \subseteq RoleNames
  /\ started \subseteq Seeders
  /\ seeding \in [Seeders -> Seedings]
  /\ roleEdit \in RoleEdits

RolesInv ==
  /\ RolesShapes
  /\ \A r \in roleBound : HasRow(r)

LEMMA RolesInitInv == RolesInit => RolesInv
<1> SUFFICES ASSUME RolesInit  PROVE RolesInv  OBVIOUS
<1>1. Ended \in Seedings  BY DEF Ended, Seedings
<1>2. RolesShapes  BY <1>1 DEF RolesInit, RolesShapes, RoleEdits
<1> QED  BY <1>2 DEF RolesInit, RolesInv

\* A seeding moves: no role does.
LEMMA SeedingKeepsInv ==
  ASSUME RolesInv, NEW s \in Seeders,
         SeedDefaultRoles(s) \/ SeedLooks(s) \/ SeedCreates(s) \/ SeedIsCut(s)
  PROVE  RolesInv'
<1>1. seeding \in [Seeders -> Seedings]  BY DEF RolesInv, RolesShapes
<1>2. Ended \in Seedings  BY DEF Ended, Seedings
<1>3. seeding' \in [Seeders -> Seedings]
  <2>1. CASE SeedDefaultRoles(s)
    <3> DEFINE step == [seeding[s] EXCEPT !.left = DefaultRoles]
    <3>1. step \in Seedings  BY <1>1 DEF Seedings
    <3>2. seeding' = [seeding EXCEPT ![s] = step]  BY <2>1 DEF SeedDefaultRoles
    <3> HIDE DEF step
    <3> QED  BY <1>1, <3>1, <3>2
  <2>2. CASE SeedLooks(s)
    <3>1. PICK r \in seeding[s].left, m \in SUBSET seeding[s].left :
            seeding' = [seeding EXCEPT ![s] = [left |-> @.left \ {r}, missing |-> m]]
      BY <2>2 DEF SeedLooks
    <3>2. PICK L \in SUBSET DefaultRoles : L = seeding[s].left \ {r}
      BY <1>1 DEF Seedings
    <3> DEFINE step == [left |-> L, missing |-> m]
    <3>3. seeding' = [seeding EXCEPT ![s] = step]  BY <1>1, <3>1, <3>2
    <3>4. step \in Seedings  BY <1>1, <3>1, <3>2 DEF Seedings
    <3> HIDE DEF step
    <3> QED  BY <1>1, <3>3, <3>4
  <2>3. CASE SeedCreates(s) \/ SeedIsCut(s)
    <3>1. seeding' = [seeding EXCEPT ![s] = Ended]  BY <2>3 DEF SeedCreates, SeedIsCut
    <3> QED  BY <1>1, <1>2, <3>1
  <2> QED  BY <2>1, <2>2, <2>3
<1>4. /\ UNCHANGED <<roleRow, roleBound, roleEdit>>
      /\ started' \subseteq Seeders
  BY DEF SeedDefaultRoles, SeedLooks, SeedCreates, SeedIsCut, administered, RolesInv, RolesShapes
<1> QED  BY <1>3, <1>4 DEF RolesInv, RolesShapes, HasRow

LEMMA RolesNextInv == RolesInv /\ [RolesNext]_rolesVars => RolesInv'
<1> SUFFICES ASSUME RolesInv, [RolesNext]_rolesVars  PROVE RolesInv'  OBVIOUS
<1>0. /\ \A p \in SUBSET Permissions : p # NoRow
      /\ OwnRoles \subseteq RoleNames
      /\ roleEdit # NoRoleEdit =>
           roleEdit.role \in RoleNames /\ roleEdit.permissions \in SUBSET Permissions
  BY RoleConstants DEF NoRow, RoleNames, RolesInv, RolesShapes, RoleEdits
<1>1. ASSUME NEW r \in RoleNames, NEW p \in SUBSET Permissions, CreateRole(r, p)  PROVE RolesInv'
  <2>1. RolesShapes'
    BY <1>1 DEF CreateRole, Edit, SeedingUnchanged, RolesInv, RolesShapes
  <2>2. \A q \in RoleNames : HasRow(q) => HasRow(q)'
    BY <1>0, <1>1 DEF CreateRole, HasRow, RolesInv, RolesShapes
  <2>3. roleBound' = roleBound  BY <1>1 DEF CreateRole
  <2> QED  BY <2>1, <2>2, <2>3 DEF RolesInv, RolesShapes
<1>2. ASSUME NEW r \in RoleNames, NEW p \in SUBSET Permissions, UpdateRole(r, p)  PROVE RolesInv'
  <2> DEFINE edit == [role |-> r, permissions |-> p]
  <2>1. edit \in RoleEdits  BY DEF RoleEdits
  <2> HIDE DEF edit
  <2>2. /\ roleEdit' = edit
        /\ UNCHANGED <<seeding, started, roleRow, roleBound>>
    BY <1>2 DEF UpdateRole, Edit, SeedingUnchanged, edit
  <2> QED  BY <2>1, <2>2 DEF RolesInv, RolesShapes, HasRow
<1>3. CASE SaveRole
  <2>1. /\ roleRow' = [roleRow EXCEPT ![roleEdit.role] = roleEdit.permissions]
        /\ roleEdit # NoRoleEdit /\ roleEdit' = NoRoleEdit
        /\ UNCHANGED <<seeding, started, roleBound>>
    BY <1>3 DEF SaveRole, SeedingUnchanged
  <2>2. \A q \in RoleNames : HasRow(q) => HasRow(q)'
    BY <1>0, <2>1 DEF HasRow, RolesInv, RolesShapes
  <2>3. RolesShapes'  BY <1>0, <2>1 DEF RolesInv, RolesShapes, RoleEdits
  <2> QED  BY <2>1, <2>2, <2>3 DEF RolesInv, RolesShapes
<1>4. ASSUME NEW r \in RoleNames, DeleteRole(r)  PROVE RolesInv'
  <2>1. RolesShapes'
    BY <1>4 DEF DeleteRole, Edit, SeedingUnchanged, RolesInv, RolesShapes
  <2>2. \A q \in RoleNames \ {r} : HasRow(q) => HasRow(q)'
    BY <1>4 DEF DeleteRole, HasRow, RolesInv, RolesShapes
  <2>3. r \notin roleBound /\ roleBound' = roleBound  BY <1>4 DEF DeleteRole
  <2> QED  BY <2>1, <2>2, <2>3 DEF RolesInv, RolesShapes
<1>5. ASSUME NEW r \in RoleNames, BindRole(r) \/ UnbindRole(r)  PROVE RolesInv'
  <2>1. /\ RolesShapes' /\ UNCHANGED roleRow
        /\ roleBound' \subseteq roleBound \/ (HasRow(r) /\ roleBound' = roleBound \cup {r})
    BY <1>5 DEF BindRole, UnbindRole, Edit, SeedingUnchanged, RolesInv, RolesShapes
  <2>2. \A q : HasRow(q)' <=> HasRow(q)  BY <2>1 DEF HasRow
  <2> QED  BY <2>1, <2>2 DEF RolesInv
<1>6. CASE UNCHANGED rolesVars
  BY <1>6 DEF rolesVars, RolesInv, RolesShapes, HasRow
<1> QED
  BY <1>0, <1>1, <1>2, <1>3, <1>4, <1>5, <1>6, SeedingKeepsInv DEF RolesNext

LEMMA RolesInvShows == RolesInv => BoundRolesAreThere /\ RolesTypeOK
<1> SUFFICES ASSUME RolesInv  PROVE BoundRolesAreThere /\ RolesTypeOK  OBVIOUS
<1>1. BoundRolesAreThere
  <2>1. \A r \in roleBound : roleRow[r] \in SUBSET Permissions  BY DEF RolesInv, RolesShapes, HasRow
  <2> QED  BY <2>1 DEF BoundRolesAreThere, GetUserPermissions
<1>2. RolesTypeOK
  <2>1. roleEdit.role \in RoleNames \cup {"none"}
    BY DEF RolesInv, RolesShapes, RoleEdits, NoRoleEdit
  <2> QED  BY <2>1 DEF RolesInv, RolesShapes, RolesTypeOK, Seedings
<1> QED  BY <1>1, <1>2

------------------------------------------------------------------------------
(* The marketplace: an edit that is alone writes a row whose artefact it    *)
(* has brought or found; until it writes, or the artefact is removed with   *)
(* the row, the item has the artefact it had.                               *)

MarketCalls ==
  [does : {"puts", "removes", "saves", "deletes"}, copy : ItemRow, brings : Artefacts \cup {NoFile}]

\* What an edit that nothing came between and nothing cut short knows.
EditKnows(e) ==
  /\ editing[e].does = "removes" => editing[e].brings \in objects
  /\ editing[e].does = "saves" => editing[e].copy.key \in objects

MarketInv ==
  /\ MarketTypeOK
  /\ editing \in [Editors -> {Resting} \cup MarketCalls]
  /\ \A e \in Editors : editing[e].does \in {"puts", "removes"} => editing[e].brings \in Artefacts
  /\ ~editRaced => \A e, o \in Editors : editing[e] # Resting /\ editing[o] # Resting => e = o
  /\ ~editRaced /\ ~editFailed =>
       /\ (\A e \in Editors : editing[e].does \notin {"saves", "deletes"}) /\ mItem # NoItem
            => mItem.key \in objects
       /\ \A e \in Editors : EditKnows(e)

LEMMA MarketInitInv == MarketInit => MarketInv
<1> SUFFICES ASSUME MarketInit  PROVE MarketInv  OBVIOUS
<1>1. Resting.does = "nothing"  BY DEF Resting
<1>2. 0 \in 0 .. MaxEdits  BY MarketConstants
<1> QED  BY <1>1, <1>2 DEF MarketInit, MarketInv, MarketTypeOK, EditKnows

\* An edit goes on.
LEMMA EditGoesInv ==
  ASSUME MarketInv, NEW e \in Editors, editing[e] # Resting,
         NEW step \in {Resting} \cup MarketCalls, editing' = [editing EXCEPT ![e] = step],
         step.does \in {"puts", "removes"} => step.brings \in Artefacts,
         mItem' \in ItemRow \cup {NoItem}, objects' \in SUBSET Artefacts, editFailed' \in BOOLEAN,
         UNCHANGED <<edits, subscription, syncing, workspace, editRaced>>,
         ~editRaced /\ ~editFailed /\ ~editFailed' /\ EditKnows(e)
           /\ (editing[e].does \notin {"saves", "deletes"} /\ mItem # NoItem => mItem.key \in objects)
           => /\ step.does \notin {"saves", "deletes"} /\ mItem' # NoItem => mItem'.key \in objects'
              /\ step.does = "removes" => step.brings \in objects'
              /\ step.does = "saves" => step.copy.key \in objects',
         editFailed => editFailed'
  PROVE  MarketInv'
<1>1. editing'[e] = step /\ \A o \in Editors \ {e} : editing'[o] = editing[o]  BY DEF MarketInv
<1>2. editing' \in [Editors -> {Resting} \cup MarketCalls]  BY DEF MarketInv
<1>3. \A o \in Editors : editing'[o] = Resting \/ editing'[o] \in MarketCalls  BY <1>2
<1>4. MarketTypeOK'  BY <1>3 DEF MarketInv, MarketTypeOK, MarketCalls
<1>5. Resting.does = "nothing"  BY DEF Resting
<1>6. ~editRaced => \A o \in Editors \ {e} : editing[o] = Resting  BY DEF MarketInv
<1>7. ASSUME ~editRaced', ~editFailed'
      PROVE  /\ (\A o \in Editors : editing'[o].does \notin {"saves", "deletes"}) /\ mItem' # NoItem
                  => mItem'.key \in objects'
             /\ \A o \in Editors : EditKnows(o)'
  <2>1. ~editRaced /\ ~editFailed  BY <1>7
  <2>2. EditKnows(e)  BY <2>1 DEF MarketInv
  <2>3. editing[e].does \notin {"saves", "deletes"} /\ mItem # NoItem => mItem.key \in objects
    BY <1>5, <1>6, <2>1 DEF MarketInv
  <2>4. /\ step.does \notin {"saves", "deletes"} /\ mItem' # NoItem => mItem'.key \in objects'
        /\ step.does = "removes" => step.brings \in objects'
        /\ step.does = "saves" => step.copy.key \in objects'
    BY <1>7, <2>1, <2>2, <2>3
  <2>5. \A o \in Editors \ {e} : EditKnows(o)'  BY <1>1, <1>5, <1>6, <2>1 DEF EditKnows
  <2> QED  BY <1>1, <2>4, <2>5 DEF EditKnows
<1> QED  BY <1>1, <1>2, <1>4, <1>6, <1>7 DEF MarketInv

\* An edit begins.
LEMMA EditEntersInv ==
  ASSUME MarketInv, NEW e \in Editors, NEW step \in MarketCalls, Enters(e, step),
         step.does \in {"puts", "saves", "deletes"},
         step.does = "puts" => step.brings \in Artefacts /\ objects' = objects,
         (mItem # NoItem => mItem.key \in objects) /\ step.does = "saves"
           => step.copy.key \in objects',
         objects' \in SUBSET Artefacts, UNCHANGED mItem
  PROVE  MarketInv'
<1>1. editing[e] = Resting /\ editing' = [editing EXCEPT ![e] = step]  BY DEF Enters, EditGoes
<1>2. editing'[e] = step /\ \A o \in Editors \ {e} : editing'[o] = editing[o]
  BY <1>1 DEF MarketInv
<1>3. editing' \in [Editors -> {Resting} \cup MarketCalls]  BY <1>1 DEF MarketInv
<1>4. \A o \in Editors : editing'[o] = Resting \/ editing'[o] \in MarketCalls  BY <1>3
<1>5. edits' \in 0 .. MaxEdits  BY MarketConstants DEF Enters, MarketInv, MarketTypeOK
<1>6. /\ UNCHANGED <<mItem, subscription, syncing, workspace, editFailed>>
      /\ editRaced' = (editRaced \/ \E o \in Editors \ {e} : editing[o] # Resting)
  BY DEF Enters
<1>7. MarketTypeOK'
  BY <1>4, <1>5, <1>6 DEF MarketInv, MarketTypeOK, MarketCalls
<1>8. Resting.does = "nothing"  BY DEF Resting
<1>9. ~editRaced' => ~editRaced /\ \A o \in Editors : editing[o] = Resting  BY <1>1, <1>6
<1>10. ASSUME ~editRaced', ~editFailed'
       PROVE  /\ (\A o \in Editors : editing'[o].does \notin {"saves", "deletes"}) /\ mItem' # NoItem
                   => mItem'.key \in objects'
              /\ \A o \in Editors : EditKnows(o)'
  <2>1. mItem # NoItem => mItem.key \in objects  BY <1>6, <1>8, <1>9, <1>10 DEF MarketInv
  <2>2. \A o \in Editors \ {e} : EditKnows(o)'  BY <1>2, <1>8, <1>9, <1>10 DEF EditKnows
  <2> QED  BY <1>2, <1>6, <2>1, <2>2 DEF EditKnows
<1> QED  BY <1>2, <1>3, <1>7, <1>8, <1>9, <1>10 DEF MarketInv

LEMMA MarketNextInv == MarketInv /\ [MarketNext]_marketVars => MarketInv'
<1> SUFFICES ASSUME MarketInv, [MarketNext]_marketVars  PROVE MarketInv'  OBVIOUS
<1>0. /\ mItem \in ItemRow \cup {NoItem} /\ objects \in SUBSET Artefacts /\ editFailed \in BOOLEAN
      /\ \A row \in ItemRow : row.key \in Artefacts
  BY DEF MarketInv, MarketTypeOK, ItemRow
<1>1. ASSUME NEW e \in Editors, NEW step, editing[e].does = step, step # "nothing"
      PROVE  /\ editing[e] \in MarketCalls /\ editing[e] # Resting
             /\ editing[e].copy \in ItemRow
  BY <1>1 DEF MarketInv, Resting, MarketCalls
<1>2. ASSUME NEW e \in Editors, CreateMarketplaceItem(e)  PROVE MarketInv'
  <2>1. PICK f \in Artefacts, published \in BOOLEAN :
          /\ objects' = objects \cup {f}
          /\ Enters(e, [does |-> "saves", copy |-> [published |-> published, key |-> f],
                        brings |-> NoFile])
    BY <1>2 DEF CreateMarketplaceItem
  <2> DEFINE step == [does |-> "saves", copy |-> [published |-> published, key |-> f],
                      brings |-> NoFile]
  <2>2. step \in MarketCalls /\ step.does = "saves" /\ step.copy.key = f
    BY DEF MarketCalls, ItemRow
  <2>3. Enters(e, step)  BY <2>1
  <2> HIDE DEF step
  <2>4. mItem' = mItem  BY <1>2 DEF CreateMarketplaceItem
  <2>5. f \in objects' /\ objects' \in SUBSET Artefacts  BY <1>0, <2>1
  <2> QED  BY <2>2, <2>3, <2>4, <2>5, EditEntersInv
<1>3. ASSUME NEW e \in Editors, UpdateMarketplaceItem(e)  PROVE MarketInv'
  <2>1. PICK f \in Artefacts \cup {NoFile}, published \in BOOLEAN :
          Enters(e, [does |-> IF f = NoFile THEN "saves" ELSE "puts",
                     copy |-> [mItem EXCEPT !.published = published], brings |-> f])
    BY <1>3 DEF UpdateMarketplaceItem
  <2>2. mItem \in ItemRow /\ mItem' = mItem /\ objects' = objects
    BY <1>0, <1>3 DEF UpdateMarketplaceItem
  <2>3. PICK copy \in ItemRow : copy = [mItem EXCEPT !.published = published] /\ copy.key = mItem.key
    <3>1. [mItem EXCEPT !.published = published] \in ItemRow  BY <2>2 DEF ItemRow
    <3>2. [mItem EXCEPT !.published = published].key = mItem.key  BY <2>2 DEF ItemRow
    <3> QED  BY <3>1, <3>2
  <2>4. PICK does \in {"saves", "puts"} : does = IF f = NoFile THEN "saves" ELSE "puts"  OBVIOUS
  <2> DEFINE step == [does |-> does, copy |-> copy, brings |-> f]
  <2>5. step \in MarketCalls /\ step.does = does /\ step.copy = copy /\ step.brings = f
    BY <2>3, <2>4 DEF MarketCalls
  <2>6. Enters(e, step)  BY <2>1, <2>3, <2>4
  <2> HIDE DEF step
  <2>7. mItem # NoItem  BY <1>3 DEF UpdateMarketplaceItem
  <2>8. step.does = "puts" => step.brings \in Artefacts  BY <2>4, <2>5
  <2> QED  BY <1>0, <2>2, <2>3, <2>4, <2>5, <2>6, <2>7, <2>8, EditEntersInv
<1>4. ASSUME NEW e \in Editors, DeleteMarketplaceItem(e)  PROVE MarketInv'
  <2> DEFINE step == [does |-> "deletes", copy |-> mItem, brings |-> NoFile]
  <2>1. step \in MarketCalls /\ step.does = "deletes"
    BY <1>0, <1>4 DEF DeleteMarketplaceItem, MarketCalls
  <2>2. Enters(e, step)  BY <1>4 DEF DeleteMarketplaceItem
  <2> HIDE DEF step
  <2>3. mItem' = mItem /\ objects' \in SUBSET Artefacts  BY <1>0, <1>4 DEF DeleteMarketplaceItem
  <2> QED  BY <2>1, <2>2, <2>3, EditEntersInv
<1>5. ASSUME NEW e \in Editors, PutArtefact(e)  PROVE MarketInv'
  <2>1. editing[e].does = "puts"  BY <1>5 DEF PutArtefact, EditSteps
  <2>2. PICK step : step = [editing[e] EXCEPT !.does = "removes"]  OBVIOUS
  <2>3. step \in MarketCalls /\ step.does = "removes" /\ step.brings = editing[e].brings
    BY <1>1, <2>1, <2>2 DEF MarketCalls
  <2>4. editing' = [editing EXCEPT ![e] = step] /\ objects' = objects \cup {editing[e].brings}
        /\ UNCHANGED <<mItem, editFailed, edits, subscription, syncing, workspace, editRaced>>
    BY <1>5, <2>2 DEF PutArtefact, EditSteps, EditGoes
  <2>5. editing[e].brings \in Artefacts  BY <2>1 DEF MarketInv
  <2> QED  BY <1>0, <1>1, <2>1, <2>3, <2>4, <2>5, EditGoesInv
<1>6. ASSUME NEW e \in Editors, RemoveReplaced(e)  PROVE MarketInv'
  <2>1. editing[e].does = "removes"  BY <1>6 DEF RemoveReplaced, EditSteps
  <2>2. editing[e].brings \in Artefacts /\ editing[e].copy \in ItemRow
    BY <1>1, <2>1 DEF MarketInv
  <2>3. PICK copy \in ItemRow :
          copy = [editing[e].copy EXCEPT !.key = editing[e].brings] /\ copy.key = editing[e].brings
    <3>1. [editing[e].copy EXCEPT !.key = editing[e].brings] \in ItemRow  BY <2>2 DEF ItemRow
    <3>2. [editing[e].copy EXCEPT !.key = editing[e].brings].key = editing[e].brings
      BY <2>2 DEF ItemRow
    <3> QED  BY <3>1, <3>2
  <2> DEFINE step == [does |-> "saves", copy |-> copy, brings |-> NoFile]
  <2>4. step \in MarketCalls /\ step.does = "saves" /\ step.copy = copy  BY DEF MarketCalls
  <2>5. editing' = [editing EXCEPT ![e] = step]
    BY <1>6, <2>3 DEF RemoveReplaced, EditGoes, Brought
  <2> HIDE DEF step
  <2>6. UNCHANGED <<mItem, editFailed, edits, subscription, syncing, workspace, editRaced>>
    BY <1>6 DEF RemoveReplaced, EditSteps
  <2>7. /\ objects' \in SUBSET Artefacts
        /\ editing[e].brings \in objects => editing[e].brings \in objects'
    BY <1>0, <1>6 DEF RemoveReplaced
  <2> QED  BY <1>0, <1>1, <2>1, <2>3, <2>4, <2>5, <2>6, <2>7, EditGoesInv DEF EditKnows
<1>7. ASSUME NEW e \in Editors, SaveItem(e) \/ DeleteRow(e) \/ EditFails(e)  PROVE MarketInv'
  <2>1. Resting.does = "nothing"  BY DEF Resting
  <2>2. editing[e] # Resting /\ editing' = [editing EXCEPT ![e] = Resting]
    BY <1>1, <1>7 DEF SaveItem, DeleteRow, EditFails, EditSteps, EditGoes
  <2>3. UNCHANGED <<objects, edits, subscription, syncing, workspace, editRaced>>
    BY <1>7 DEF SaveItem, DeleteRow, EditFails, EditSteps
  <2>4. CASE SaveItem(e)
    <3>1. editing[e].does = "saves" /\ mItem' = editing[e].copy /\ UNCHANGED editFailed
      BY <2>4 DEF SaveItem, EditSteps
    <3>2. mItem' \in ItemRow  BY <1>1, <3>1
    <3> QED  BY <1>0, <2>1, <2>2, <2>3, <3>1, <3>2, EditGoesInv DEF EditKnows
  <2>5. CASE DeleteRow(e)
    <3>1. mItem' = NoItem /\ UNCHANGED editFailed  BY <2>5 DEF DeleteRow
    <3> QED  BY <1>0, <2>1, <2>2, <2>3, <3>1, EditGoesInv
  <2>6. CASE EditFails(e)
    <3>1. mItem' = mItem /\ editFailed' = (editFailed \/ editing[e].does # "puts")
      BY <2>6 DEF EditFails
    <3> QED  BY <1>0, <2>1, <2>2, <2>3, <3>1, EditGoesInv
  <2> QED  BY <1>7, <2>4, <2>5, <2>6
<1>8. CASE SubscribeItem \/ UnsubscribeItem \/ FetchIdeSyncManifest \/ SyncWrites
  <2>1. UNCHANGED <<mItem, edits, objects, editing, editRaced, editFailed>>
    BY <1>8 DEF SubscribeItem, UnsubscribeItem, FetchIdeSyncManifest, SyncWrites
  <2>2. /\ subscription' \in {"none", "active", "revoked"}
        /\ syncing' \in SUBSET (Artefacts \cup {NoFile}) /\ workspace' \in Artefacts \cup {NoFile}
    BY <1>0, <1>8 DEF SubscribeItem, UnsubscribeItem, FetchIdeSyncManifest, SyncWrites, MarketInv,
                      MarketTypeOK
  <2> QED  BY <2>1, <2>2 DEF MarketInv, MarketTypeOK, EditKnows
<1>9. CASE UNCHANGED marketVars  BY <1>9 DEF marketVars, MarketInv, MarketTypeOK, EditKnows
<1> QED  BY <1>2, <1>3, <1>4, <1>5, <1>6, <1>7, <1>8, <1>9 DEF MarketNext

LEMMA MarketInvShows == MarketInv => ArtefactKept
<1>1. Resting.does = "nothing"  BY DEF Resting
<1> QED  BY <1>1 DEF MarketInv, ArtefactKept

------------------------------------------------------------------------------
(* Accounts: as long as calls do not overlap, the only call under way holds *)
(* the row as it is, or as it is to be, and what it writes is what callers  *)
(* are told; saving the time of a login or of a use changes nothing else.   *)

AccountRow ==
  [row : {"none", "live", "gone"}, password : Passwords \cup {"unset"}, status : {"active", "disabled"}]
ApiTokenStates == {"none", "live", "revoked"}
AccountOps == {"create", "login", "change", "edit", "remove", "refresh", "use", "revoke"}
AccountCalls == [op : AccountOps \cup {"none"}, row : AccountRow, api : ApiTokenStates]

\* What the only call there is holds.
HoldsTheRow(holds) ==
  /\ holds.op = "login" => holds.row = user
  /\ holds.op = "change" => holds.row = [user EXCEPT !.password = holds.row.password]
  /\ holds.op = "use" => holds.api = "live" /\ apiToken = "live"
  /\ holds.op = "revoke" => holds.api = "revoked"

AccountRowsInv ==
  /\ user \in AccountRow /\ lastUser \in AccountRow
  /\ apiToken \in ApiTokenStates /\ lastApi \in ApiTokenStates /\ apiLapsed \in BOOLEAN
  /\ consoleSession \in Session
  /\ doing \in [Callers -> AccountCalls]
  /\ apart => /\ \A c, d \in Callers : doing[c].op # "none" /\ doing[d].op # "none" => c = d
              /\ user = lastUser /\ apiToken = lastApi
              /\ \A c \in Callers : HoldsTheRow(doing[c])

LEMMA AccountRowsInitInv == AccountsInit => AccountRowsInv
<1> SUFFICES ASSUME AccountsInit  PROVE AccountRowsInv  OBVIOUS
<1>1. NoAccount \in AccountRow  BY DEF NoAccount, AccountRow
<1>2. NoCall \in AccountCalls /\ NoCall.op = "none"
  BY <1>1 DEF NoCall, AccountCalls, ApiTokenStates
<1>3. consoleSession \in Session  BY DEF AccountsInit, Session
<1> QED  BY <1>1, <1>2, <1>3 DEF AccountsInit, AccountRowsInv, ApiTokenStates, HoldsTheRow

\* A call begins with what it has read.
LEMMA RowCallStarts ==
  ASSUME AccountRowsInv, NEW c \in Callers, NEW op \in AccountOps, NEW row \in AccountRow,
         NEW api \in ApiTokenStates, StartsCall(c, op, row, api),
         op = "login" => row = user,
         op = "change" => row = [user EXCEPT !.password = row.password],
         op = "use" => api = "live" /\ apiToken = "live",
         op = "revoke" => api = "revoked"
  PROVE  AccountRowsInv'
<1> DEFINE entered == [op |-> op, row |-> row, api |-> api]
<1>1. entered \in AccountCalls /\ entered.op = op /\ entered.row = row /\ entered.api = api
  BY DEF AccountCalls
<1>2. doing' = [doing EXCEPT ![c] = entered]  BY DEF StartsCall
<1> HIDE DEF entered
<1>3. doing \in [Callers -> AccountCalls]  BY DEF AccountRowsInv
<1>4. doing'[c] = entered /\ \A d \in Callers \ {c} : doing'[d] = doing[d]  BY <1>2, <1>3
<1>5. /\ UNCHANGED <<user, apiToken, apiLapsed, consoleSession, lastUser, lastApi>>
      /\ apart' = (apart /\ \A d \in Callers : doing[d].op = "none")
  BY DEF StartsCall, accountRows, lasts
<1>6. apart' => /\ apart /\ \A d \in Callers \ {c} : doing'[d].op = "none"
  BY <1>4, <1>5
<1>7. HoldsTheRow(entered)'  BY <1>1, <1>5 DEF HoldsTheRow
<1>8. apart' => \A d \in Callers : HoldsTheRow(doing[d])'
  BY <1>4, <1>6, <1>7 DEF HoldsTheRow
<1> QED  BY <1>1, <1>2, <1>3, <1>5, <1>6, <1>8 DEF AccountRowsInv

\* A call writes, or fails; its row and the history move together.
LEMMA RowCallWrites ==
  ASSUME AccountRowsInv, NEW c \in Callers, NEW op, op # "none", Writes(c, op),
         user' \in AccountRow, lastUser' \in AccountRow,
         apiToken' \in ApiTokenStates, lastApi' \in ApiTokenStates, consoleSession' \in Session,
         apart /\ user = lastUser /\ apiToken = lastApi /\ HoldsTheRow(doing[c])
           => user' = lastUser' /\ apiToken' = lastApi'
  PROVE  AccountRowsInv'
<1>1. NoCall.op = "none" /\ NoCall \in AccountCalls
  BY DEF NoCall, NoAccount, AccountCalls, AccountRow, ApiTokenStates
<1>2. doing \in [Callers -> AccountCalls]  BY DEF AccountRowsInv
<1>3. /\ doing[c].op = op /\ doing' = [doing EXCEPT ![c] = NoCall]
      /\ apiLapsed' = apiLapsed /\ apart' = apart
  BY DEF Writes
<1>4. doing'[c] = NoCall /\ \A d \in Callers \ {c} : doing'[d] = doing[d]  BY <1>2, <1>3
<1>5. apart => \A d \in Callers : doing'[d].op = "none"  BY <1>1, <1>3, <1>4 DEF AccountRowsInv
<1>6. apart => \A d \in Callers : HoldsTheRow(doing[d])'  BY <1>5 DEF HoldsTheRow
<1> QED  BY <1>1, <1>2, <1>3, <1>5, <1>6 DEF AccountRowsInv

LEMMA AccountRowsNextInv == AccountRowsInv /\ [AccountsNext]_accountsVars => AccountRowsInv'
<1> SUFFICES ASSUME AccountRowsInv, [AccountsNext]_accountsVars  PROVE AccountRowsInv'  OBVIOUS
<1>0. /\ user \in AccountRow /\ lastUser \in AccountRow /\ consoleSession \in Session
      /\ apiToken \in ApiTokenStates /\ lastApi \in ApiTokenStates
      /\ \A c \in Callers : doing[c] \in AccountCalls
  BY DEF AccountRowsInv
<1>1. /\ NoAccount \in AccountRow /\ "none" \in ApiTokenStates /\ "revoked" \in ApiTokenStates
      /\ [access |-> "valid", refresh |-> "valid"] \in Session
  BY DEF NoAccount, AccountRow, ApiTokenStates, Session
\* Writing one field of a row.
<1>2. ASSUME NEW r \in AccountRow
      PROVE  /\ \A p \in Passwords \cup {"unset"} :
                  /\ [r EXCEPT !.password = p] \in AccountRow
                  /\ [r EXCEPT !.password = p].password = p
             /\ \A s \in {"active", "disabled"} : [r EXCEPT !.status = s] \in AccountRow
             /\ \A w \in {"none", "live", "gone"} : [r EXCEPT !.row = w] \in AccountRow
             /\ r.row \in {"none", "live", "gone"} /\ r.password \in Passwords \cup {"unset"}
             /\ [r EXCEPT !.row = r.row] = r
  BY DEF AccountRow
<1>3. ASSUME NEW c \in Callers  PROVE doing[c].row \in AccountRow /\ doing[c].api \in ApiTokenStates
  BY <1>0 DEF AccountCalls
<1>4. ASSUME NEW c \in Callers, CreateUser(c)  PROVE AccountRowsInv'
  <2>1. PICK p \in Passwords \cup {"unset"} :
          StartsCall(c, "create", [NoAccount EXCEPT !.row = "live", !.password = p], "none")
    BY <1>4 DEF CreateUser
  <2>2. [NoAccount EXCEPT !.row = "live", !.password = p] \in AccountRow
    BY DEF NoAccount, AccountRow
  <2> QED  BY <1>1, <2>1, <2>2, RowCallStarts DEF AccountOps
<1>5. ASSUME NEW c \in Callers, \E p \in Passwords : Login(c, p)  PROVE AccountRowsInv'
  BY <1>0, <1>1, <1>5, RowCallStarts DEF Login, AccountOps
<1>6. ASSUME NEW c \in Callers, RefreshAccessToken(c) \/ DeleteUser(c)  PROVE AccountRowsInv'
  BY <1>0, <1>1, <1>6, RowCallStarts DEF RefreshAccessToken, DeleteUser, AccountOps
<1>7. ASSUME NEW c \in Callers, \E p, q \in Passwords : ChangePassword(c, p, q)
      PROVE  AccountRowsInv'
  <2>1. PICK q \in Passwords : StartsCall(c, "change", [user EXCEPT !.password = q], "none")
    BY <1>7 DEF ChangePassword
  <2>2. PICK row \in AccountRow : row = [user EXCEPT !.password = q] /\ row.password = q
    <3>1. [user EXCEPT !.password = q] \in AccountRow /\ [user EXCEPT !.password = q].password = q
      BY <1>0 DEF AccountRow
    <3> QED  BY <3>1
  <2>3. StartsCall(c, "change", row, "none")  BY <2>1, <2>2
  <2> QED  BY <1>1, <2>2, <2>3, RowCallStarts DEF AccountOps
<1>8. ASSUME NEW c \in Callers, UpdateUser(c)  PROVE AccountRowsInv'
  <2>1. PICK row \in AccountRow : StartsCall(c, "edit", row, "none")
    BY <1>0, <1>2, <1>8 DEF UpdateUser
  <2> QED  BY <1>1, <2>1, RowCallStarts DEF AccountOps
<1>9. ASSUME NEW c \in Callers, ValidateApiToken(c) \/ RevokeApiToken(c)  PROVE AccountRowsInv'
  BY <1>0, <1>1, <1>9, RowCallStarts DEF ValidateApiToken, RevokeApiToken, AccountOps
<1>10. ASSUME NEW c \in Callers, AccountCallFails(c)  PROVE AccountRowsInv'
  <2>1. /\ doing[c].op # "none" /\ Writes(c, doing[c].op)
        /\ UNCHANGED <<user, apiToken, consoleSession, lastUser, lastApi>>
    BY <1>10 DEF AccountCallFails, accountRows, lasts
  <2> QED  BY <1>0, <2>1, RowCallWrites
<1>11. ASSUME NEW c \in Callers, UserCreated(c)  PROVE AccountRowsInv'
  <2>1. /\ Writes(c, "create") /\ user' = doing[c].row /\ lastUser' = doing[c].row
        /\ UNCHANGED <<apiToken, consoleSession, lastApi>>
    BY <1>11 DEF UserCreated
  <2> QED  BY <1>0, <1>3, <2>1, RowCallWrites
<1>12. ASSUME NEW c \in Callers  PROVE [doing[c].row EXCEPT !.row = user.row] \in AccountRow
  BY <1>0, <1>2, <1>3
<1>13. ASSUME NEW c \in Callers, LoggedIn(c)  PROVE AccountRowsInv'
  <2>1. /\ Writes(c, "login") /\ user' \in {user, [doing[c].row EXCEPT !.row = user.row]}
        /\ consoleSession' \in Session /\ UNCHANGED <<apiToken, lastUser, lastApi>>
    BY <1>1, <1>13 DEF LoggedIn, SaveUser, lasts
  <2>2. user' \in AccountRow  BY <1>0, <1>12, <2>1
  <2>3. HoldsTheRow(doing[c]) => doing[c].row = user  BY <2>1 DEF HoldsTheRow, Writes
  <2>4. HoldsTheRow(doing[c]) => user' = user  BY <1>0, <1>2, <2>1, <2>3
  <2> QED  BY <1>0, <2>1, <2>2, <2>4, RowCallWrites
<1>14. ASSUME NEW c \in Callers, Refreshed(c)  PROVE AccountRowsInv'
  BY <1>0, <1>1, <1>14, RowCallWrites DEF Refreshed, accountRows, lasts
<1>15. ASSUME NEW c \in Callers, PasswordChanged(c)  PROVE AccountRowsInv'
  <2>1. /\ Writes(c, "change") /\ user' = [doing[c].row EXCEPT !.row = user.row]
        /\ lastUser' = [lastUser EXCEPT !.password = doing[c].row.password]
        /\ UNCHANGED <<apiToken, consoleSession, lastApi>>
    BY <1>15 DEF PasswordChanged, SaveUser
  <2>2. user' \in AccountRow  BY <1>12, <2>1
  <2>3. lastUser' \in AccountRow  BY <1>0, <1>2, <1>3, <2>1
  <2>4. PICK p : p = doing[c].row.password  OBVIOUS
  <2>5. HoldsTheRow(doing[c]) => doing[c].row = [user EXCEPT !.password = p]
    BY <2>1, <2>4 DEF HoldsTheRow, Writes
  <2>6. [[user EXCEPT !.password = p] EXCEPT !.row = user.row] = [user EXCEPT !.password = p]
    BY <1>0 DEF AccountRow
  <2>7. HoldsTheRow(doing[c]) /\ user = lastUser => user' = lastUser'
    BY <2>1, <2>4, <2>5, <2>6, Zenon
  <2> QED  BY <1>0, <2>1, <2>2, <2>3, <2>7, RowCallWrites
<1>16. ASSUME NEW c \in Callers, UserUpdated(c)  PROVE AccountRowsInv'
  <2>1. /\ Writes(c, "edit") /\ user' = [doing[c].row EXCEPT !.row = user.row]
        /\ lastUser' = [doing[c].row EXCEPT !.row = lastUser.row]
        /\ UNCHANGED <<apiToken, consoleSession, lastApi>>
    BY <1>16 DEF UserUpdated, SaveUser
  <2>2. lastUser' \in AccountRow  BY <1>0, <1>2, <1>3, <2>1
  <2>3. user' \in AccountRow  BY <1>12, <2>1
  <2>4. user = lastUser => user' = lastUser'  BY <2>1, Zenon
  <2> QED  BY <1>0, <2>1, <2>2, <2>3, <2>4, RowCallWrites
<1>17. ASSUME NEW c \in Callers, UserDeleted(c)  PROVE AccountRowsInv'
  <2>1. /\ Writes(c, "remove") /\ user' = [user EXCEPT !.row = "gone"]
        /\ lastUser' = [lastUser EXCEPT !.row = "gone"]
        /\ UNCHANGED <<apiToken, consoleSession, lastApi>>
    BY <1>17 DEF UserDeleted
  <2>2. user' \in AccountRow /\ lastUser' \in AccountRow  BY <1>0, <1>2, <2>1
  <2>3. user = lastUser => user' = lastUser'  BY <2>1, Zenon
  <2> QED  BY <1>0, <2>1, <2>2, <2>3, RowCallWrites
<1>18. ASSUME NEW c \in Callers, ApiTokenUsed(c)  PROVE AccountRowsInv'
  <2>1. /\ Writes(c, "use") /\ apiToken' \in {apiToken, doing[c].api}
        /\ UNCHANGED <<user, consoleSession, lastUser, lastApi>>
    BY <1>18 DEF ApiTokenUsed, lasts
  <2>2. HoldsTheRow(doing[c]) => apiToken' = apiToken  BY <2>1 DEF HoldsTheRow, Writes
  <2> QED  BY <1>0, <1>3, <2>1, <2>2, RowCallWrites
<1>19. ASSUME NEW c \in Callers, ApiTokenRevoked(c)  PROVE AccountRowsInv'
  <2>1. /\ Writes(c, "revoke") /\ apiToken' = doing[c].api /\ lastApi' = "revoked"
        /\ UNCHANGED <<user, consoleSession, lastUser>>
    BY <1>19 DEF ApiTokenRevoked
  <2>2. HoldsTheRow(doing[c]) => apiToken' = lastApi'  BY <2>1 DEF HoldsTheRow, Writes
  <2> QED  BY <1>0, <1>1, <1>3, <2>1, <2>2, RowCallWrites
<1>20. CASE CreateApiToken
  <2>1. /\ apiToken = "none" /\ apiToken' = "live" /\ lastApi' = "live"
        /\ UNCHANGED <<user, apiLapsed, consoleSession, doing, lastUser, apart>>
    BY <1>20 DEF CreateApiToken
  <2>2. \A c \in Callers : HoldsTheRow(doing[c]) => HoldsTheRow(doing[c])'
    BY <2>1 DEF HoldsTheRow
  <2> QED  BY <2>1, <2>2 DEF AccountRowsInv, ApiTokenStates
<1>21. CASE TokensLapse
  <2>1. consoleSession' \in Session /\ apiLapsed' \in BOOLEAN
    BY <1>21 DEF TokensLapse, AccountRowsInv, Session
  <2> QED  BY <1>21, <2>1 DEF TokensLapse, AccountRowsInv, HoldsTheRow, accountRows, lasts
<1>22. CASE UNCHANGED accountsVars
  BY <1>22 DEF accountsVars, accountRows, lasts, AccountRowsInv, HoldsTheRow
<1> QED
  BY <1>4, <1>5, <1>6, <1>7, <1>8, <1>9, <1>10, <1>11, <1>13, <1>14, <1>15, <1>16, <1>17, <1>18,
     <1>19, <1>20, <1>21, <1>22 DEF AccountsNext

LEMMA AccountRowsInvShows == AccountRowsInv => RowsAreAsLastSet /\ AccountsTypeOK
<1> SUFFICES ASSUME AccountRowsInv  PROVE RowsAreAsLastSet /\ AccountsTypeOK  OBVIOUS
<1>1. \A c \in Callers : doing[c].op \in AccountOps \cup {"none"}
  BY DEF AccountRowsInv, AccountCalls
<1> QED
  BY <1>1 DEF AccountRowsInv, RowsAreAsLastSet, AccountsTypeOK, AccountRow, ApiTokenStates, Session,
              AccountOps

------------------------------------------------------------------------------
(* Groups as answered: a group that is there, and that no update wrote back *)
(* over a change, is as its callers were told; a row that comes back was    *)
(* written over its deletion.                                               *)

ToldRecords == [changed : [Groups -> SUBSET GroupFields], gone : SUBSET Groups,
                raced : SUBSET Groups, strays : SUBSET (Groups \X GroupDevices)]

AnsweredInv ==
  /\ told \in ToldRecords
  /\ memberRows \subseteq Groups \X GroupDevices
  /\ \A g \in Groups : g > made => told.changed[g] = {} /\ g \notin told.gone
  /\ GroupsAsAnswered

LEMMA AnsweredInitInv == GroupInit => AnsweredInv
<1> SUFFICES ASSUME GroupInit  PROVE AnsweredInv  OBVIOUS
<1> DEFINE first == [g \in Groups |-> {}]
<1>1. told = [changed |-> first, gone |-> {}, raced |-> {}, strays |-> {}]
  BY Zenon DEF GroupInit
<1>2. first \in [Groups -> SUBSET GroupFields] /\ \A g \in Groups : first[g] = {}  OBVIOUS
<1> HIDE DEF first
<1>3. told \in ToldRecords /\ told.changed = first /\ told.gone = {}  BY <1>1, <1>2 DEF ToldRecords
<1>4. Present = {} /\ memberRows = {}
  <2>1. groupRows = [g \in Groups |-> [there |-> FALSE, changed |-> {}]] /\ memberRows = {}
    BY Zenon DEF GroupInit
  <2>2. \A g \in Groups : groupRows[g].there = FALSE  BY <2>1
  <2> QED  BY <2>1, <2>2 DEF Present
<1> QED  BY <1>2, <1>3, <1>4 DEF AnsweredInv, GroupsAsAnswered

LEMMA CreateIsAnswered == ASSUME PagesInv, AnsweredInv, CreateGroup PROVE AnsweredInv'
<1> DEFINE row == [there |-> TRUE, changed |-> {}]
<1>1. /\ made < MaxGroups /\ made' = made + 1 /\ groupRows' = [groupRows EXCEPT ![made + 1] = row]
      /\ UNCHANGED <<memberRows, told>>
  BY Zenon DEF CreateGroup
<1>2. row.changed = {} /\ row.there = TRUE  OBVIOUS
<1> HIDE DEF row
<1>3. made \in Nat /\ made + 1 \in Groups  BY <1>1, GroupConstants DEF PagesInv, Groups
<1>4. groupRows \in [Groups -> GroupRecords]  BY DEF PagesInv
<1>5. groupRows'[made + 1] = row /\ \A g \in Groups \ {made + 1} : groupRows'[g] = groupRows[g]
  BY <1>1, <1>3, <1>4
<1>6. Present' = Present \cup {made + 1}  BY <1>2, <1>3, <1>5 DEF Present
<1>7. told.changed[made + 1] = {} /\ made + 1 \notin told.gone  BY <1>3 DEF AnsweredInv
<1>8. \A g \in Groups : g > made' => g > made  BY <1>1, <1>3 DEF Groups
<1>9. \A g \in Present' \ told.raced :
        g \notin told.gone /\ groupRows'[g].changed = told.changed[g]
  BY <1>2, <1>5, <1>6, <1>7 DEF AnsweredInv, GroupsAsAnswered, Present
<1> QED  BY <1>1, <1>6, <1>8, <1>9 DEF AnsweredInv, GroupsAsAnswered

LEMMA SaveIsAnswered ==
  ASSUME PagesInv, AnsweredInv, NEW e \in GroupEdits, SaveGroup(e)
  PROVE  AnsweredInv'
<1>1. PICK g, fields, read :
        g = groupEdits[e].group /\ fields = groupEdits[e].fields /\ read = groupEdits[e].read
  OBVIOUS
<1> DEFINE row == [there |-> TRUE, changed |-> Edited(read, fields)]
           asRead == [there |-> TRUE, changed |-> read]
<1>2. PICK raced : raced = IF groupRows[g] # asRead THEN told.raced \union {g} ELSE told.raced
  OBVIOUS
<1>3. /\ groupEdits[e] # NoChange /\ groupRows' = [groupRows EXCEPT ![g] = row]
      /\ told' = [told EXCEPT !.changed[g] = @ \union fields, !.raced = raced]
      /\ UNCHANGED <<memberRows, made>>
  BY <1>1, <1>2, Zenon DEF SaveGroup
<1>4. g \in 1 .. made /\ g \in Groups /\ fields \in SUBSET GroupFields /\ made \in Nat
  BY <1>1, <1>3, GroupConstants DEF PagesInv, EditRecords, Groups
<1>5. told \in ToldRecords /\ groupRows \in [Groups -> GroupRecords]  BY DEF AnsweredInv, PagesInv
<1>6. PICK changed \in [Groups -> SUBSET GroupFields] :
        /\ changed = [told.changed EXCEPT ![g] = @ \union fields]
        /\ changed[g] = told.changed[g] \union fields
        /\ \A h \in Groups \ {g} : changed[h] = told.changed[h]
  <2>1. told.changed \in [Groups -> SUBSET GroupFields]  BY <1>5 DEF ToldRecords
  <2>2. [told.changed EXCEPT ![g] = @ \union fields] \in [Groups -> SUBSET GroupFields]
    BY <1>4, <2>1
  <2> QED  BY <1>4, <2>1, <2>2
<1>7. raced \in SUBSET Groups /\ told.raced \subseteq raced  BY <1>2, <1>4, <1>5 DEF ToldRecords
<1>8. told' = [told EXCEPT !.changed = changed, !.raced = raced]  BY <1>3, <1>6
<1>9. /\ told' \in ToldRecords /\ told'.changed = changed /\ told'.raced = raced
      /\ told'.gone = told.gone /\ told'.strays = told.strays
  BY <1>5, <1>7, <1>8 DEF ToldRecords
<1>10. row.there = TRUE /\ row.changed = read \union fields  BY DEF Edited
<1>11. asRead.there = TRUE /\ asRead.changed = read  OBVIOUS
<1> HIDE DEF row, asRead
<1>12. groupRows'[g] = row /\ \A h \in Groups \ {g} : groupRows'[h] = groupRows[h]
  BY <1>3, <1>4, <1>5
<1>13. Present' = Present \cup {g}  BY <1>4, <1>10, <1>12 DEF Present
<1>14. g \notin raced =>
         /\ g \in Present /\ g \notin told.raced /\ groupRows[g].changed = read
  BY <1>2, <1>4, <1>11 DEF Present
<1>15. ASSUME NEW h \in Present' \ raced
       PROVE  h \notin told.gone /\ groupRows'[h].changed = changed[h]
  <2>1. CASE h = g
    <3>1. g \in Present \ told.raced /\ groupRows[g].changed = read  BY <1>14, <1>15, <2>1
    <3>2. g \notin told.gone /\ told.changed[g] = read  BY <3>1 DEF AnsweredInv, GroupsAsAnswered
    <3>3. groupRows'[h].changed = read \union fields  BY <1>10, <1>12, <2>1
    <3>4. changed[h] = read \union fields  BY <1>6, <2>1, <3>2
    <3> QED  BY <2>1, <3>2, <3>3, <3>4
  <2>2. CASE h # g
    <3>1. h \in Present \ told.raced /\ h \in Groups \ {g}  BY <1>7, <1>13, <1>15, <2>2 DEF Present
    <3>2. h \notin told.gone /\ groupRows[h].changed = told.changed[h]
      BY <3>1 DEF AnsweredInv, GroupsAsAnswered
    <3> QED  BY <1>6, <1>12, <3>1, <3>2
  <2> QED  BY <2>1, <2>2
<1>16. \A h \in Groups : h > made => changed[h] = {} /\ h \notin told.gone
  BY <1>4, <1>6 DEF AnsweredInv, Groups
<1> QED  BY <1>3, <1>9, <1>13, <1>15, <1>16 DEF AnsweredInv, GroupsAsAnswered

LEMMA DeleteIsAnswered == ASSUME PagesInv, AnsweredInv, NEW g \in Groups, DeleteGroup(g) PROVE AnsweredInv'
<1> DEFINE row == [there |-> FALSE, changed |-> {}]
<1>1. /\ groupRows' = [groupRows EXCEPT ![g] = row] /\ memberRows' = {m \in memberRows : m[1] # g}
      /\ told' = [told EXCEPT !.gone = @ \union {g}] /\ made' = made /\ g <= made
  BY Zenon DEF DeleteGroup, WithoutGroup
<1>2. row.there = FALSE  OBVIOUS
<1> HIDE DEF row
<1>3. told \in ToldRecords /\ groupRows \in [Groups -> GroupRecords]  BY DEF AnsweredInv, PagesInv
<1>4. /\ told' \in ToldRecords /\ told'.changed = told.changed /\ told'.raced = told.raced
      /\ told'.gone = told.gone \cup {g} /\ told'.strays = told.strays
  BY <1>1, <1>3 DEF ToldRecords
<1>5. groupRows'[g] = row /\ \A h \in Groups \ {g} : groupRows'[h] = groupRows[h]  BY <1>1, <1>3
<1>6. Present' = Present \ {g}  BY <1>2, <1>5 DEF Present
<1>7. made \in Nat  BY GroupConstants DEF PagesInv
<1>8. \A h \in Groups : h > made => told.changed[h] = {} /\ h \notin told'.gone
  BY <1>1, <1>4, <1>7 DEF AnsweredInv, Groups
<1>9. \A h \in Present' \ told'.raced : h \notin told'.gone /\ groupRows'[h].changed = told'.changed[h]
  BY <1>4, <1>5, <1>6 DEF AnsweredInv, GroupsAsAnswered, Present
<1>10. \A m \in memberRows' \ told'.strays : m[1] \in Present'
  BY <1>1, <1>4, <1>6 DEF AnsweredInv, GroupsAsAnswered
<1> QED  BY <1>1, <1>4, <1>8, <1>9, <1>10 DEF AnsweredInv, GroupsAsAnswered

LEMMA AddIsAnswered ==
  ASSUME PagesInv, AnsweredInv, NEW g \in Groups, NEW ds \in SUBSET GroupDevices, AddMembers(g, ds)
  PROVE  AnsweredInv'
<1>1. PICK pairs \in SUBSET (Groups \X GroupDevices) :
        pairs = {<<g, d>> : d \in ds} /\ \A m \in pairs : m[1] = g
  <2>1. {<<g, d>> : d \in ds} \in SUBSET (Groups \X GroupDevices)  OBVIOUS
  <2>2. \A m \in {<<g, d>> : d \in ds} : m[1] = g  OBVIOUS
  <2> QED  BY <2>1, <2>2
<1>2. /\ memberRows' = memberRows \union pairs /\ UNCHANGED <<groupRows, made>>
      /\ told' = IF groupRows[g].there THEN told ELSE [told EXCEPT !.strays = @ \union pairs]
  BY <1>1, Zenon DEF AddMembers
<1>3. told \in ToldRecords  BY DEF AnsweredInv
<1>4. /\ told' \in ToldRecords /\ told'.changed = told.changed /\ told'.raced = told.raced
      /\ told'.gone = told.gone /\ told.strays \subseteq told'.strays
      /\ ~groupRows[g].there => pairs \subseteq told'.strays
  <2>1. CASE groupRows[g].there  BY <1>2, <1>3, <2>1
  <2>2. CASE ~groupRows[g].there  BY <1>2, <1>3, <2>2 DEF ToldRecords
  <2> QED  BY <2>1, <2>2
<1>5. Present' = Present  BY <1>2 DEF Present
<1>6. \A m \in memberRows' \ told'.strays : m[1] \in Present'
  BY <1>1, <1>2, <1>4, <1>5 DEF AnsweredInv, GroupsAsAnswered, Present
<1>7. \A h \in Present' \ told'.raced : h \notin told'.gone /\ groupRows'[h].changed = told'.changed[h]
  BY <1>2, <1>4, <1>5 DEF AnsweredInv, GroupsAsAnswered
<1> QED  BY <1>2, <1>4, <1>6, <1>7 DEF AnsweredInv, GroupsAsAnswered

LEMMA AnsweredNextInv == PagesInv /\ AnsweredInv /\ [GroupNext]_groupVars => AnsweredInv'
<1> SUFFICES ASSUME PagesInv, AnsweredInv, [GroupNext]_groupVars  PROVE AnsweredInv'  OBVIOUS
<1>1. ASSUME UNCHANGED <<groupRows, made, told>>, memberRows' \subseteq memberRows  PROVE AnsweredInv'
  BY <1>1 DEF AnsweredInv, GroupsAsAnswered, Present
<1>2. CASE UNCHANGED groupVars  BY <1>1, <1>2 DEF groupVars
<1>3. CASE InsertTask \/ DispatchTask \/ RunTask \/ NobodyToReach \/ OpenList \/ CountGroups \/ ShowPage
  <2>1. UNCHANGED <<groupRows, made, told, memberRows>>
    BY <1>3, Zenon DEF InsertTask, DispatchTask, RunTask, NobodyToReach, OpenList, CountGroups, ShowPage
  <2> QED  BY <1>1, <2>1
<1>4. ASSUME NEW g \in Groups,
             \/ ListForTask(g) \/ \E d \in GroupDevices : RemoveMember(g, d)
             \/ \E e \in GroupEdits, fs \in SUBSET GroupFields \ {{}} : ReadGroup(e, g, fs)
      PROVE  AnsweredInv'
  <2>1. UNCHANGED <<groupRows, made, told>>
    BY <1>4, Zenon DEF ListForTask, RemoveMember, ReadGroup
  <2>2. memberRows' \subseteq memberRows
    BY <1>4 DEF ListForTask, RemoveMember, ReadGroup
  <2> QED  BY <1>1, <2>1, <2>2
<1>5. ASSUME NEW e \in GroupEdits, SaveGroupFails(e)  PROVE AnsweredInv'
  <2>1. UNCHANGED <<groupRows, made, told, memberRows>>  BY <1>5, Zenon DEF SaveGroupFails
  <2> QED  BY <1>1, <2>1
<1>6. ASSUME NEW g \in Groups, NEW ds \in SUBSET GroupDevices \ {{}}, AddMembers(g, ds)
      PROVE  AnsweredInv'
  <2>1. ds \in SUBSET GroupDevices  BY <1>6
  <2> QED  BY <1>6, <2>1, AddIsAnswered
<1> QED
  BY <1>2, <1>3, <1>4, <1>5, <1>6, CreateIsAnswered, SaveIsAnswered, DeleteIsAnswered, Zenon
     DEF GroupNext

------------------------------------------------------------------------------
(* Tenants and profiles: what a row is, whom it belongs to and what slug a  *)
(* tenant has never change, and a save over a row as it was read adds one   *)
(* to its version.                                                          *)

NoText == ""
OwnersOf(id) == IF id \in ProfileIds THEN TenantIds ELSE {NoText}

\* The rows that have been made, deleted or not.
MadeRows(id) ==
  [at : {"live", "deleted"}, tenant : OwnersOf(id), version : Nat, fields : FieldsOf(id)]

\* What a request may give of a row.
AsksOf(id) ==
  CASE id \in TenantIds -> [slug : Slugs \cup {NoText}, state : {NoText, "draft", "suspended"}]
    [] id \in LeafIds   -> [name : ProfileNames \cup {NoText}, config : {NoText, "first", "second"}]
    [] id \in AgentIds  -> [name : ProfileNames \cup {NoText}, model : ModelIds \cup {NoText},
                            policy : PolicyIds \cup {NoText}]

LEMMA IdsAreApart ==
  /\ \A id \in TenantIds : id \in TenantRows /\ id \notin ProfileIds /\ id \notin LeafIds
                           /\ id \notin AgentIds
  /\ \A id \in LeafIds : id \in ProfileIds /\ id \in TenantRows /\ id \notin TenantIds
                         /\ id \notin AgentIds
  /\ \A id \in AgentIds : id \in ProfileIds /\ id \in TenantRows /\ id \notin TenantIds
                          /\ id \notin LeafIds
  /\ \A id \in ProfileIds : id \in LeafIds \/ id \in AgentIds
  /\ \A id \in TenantRows : id \in TenantIds \/ id \in ProfileIds
  /\ ModelIds \subseteq LeafIds /\ PolicyIds \subseteq LeafIds
  BY TenantConstants DEF TenantRows, ProfileIds, LeafIds

LEMMA FieldsAre ==
  /\ \A id \in TenantIds : FieldsOf(id) = [slug : Slugs, state : {"draft", "suspended"}]
  /\ \A id \in LeafIds : FieldsOf(id) = [name : ProfileNames, config : {"first", "second"}]
  /\ \A id \in AgentIds :
       FieldsOf(id) = [name : ProfileNames, model : ModelIds, policy : PolicyIds]
  BY IdsAreApart DEF FieldsOf

LEMMA AsksAre ==
  /\ \A id \in TenantIds :
       AsksOf(id) = [slug : Slugs \cup {NoText}, state : {NoText, "draft", "suspended"}]
  /\ \A id \in LeafIds :
       AsksOf(id) = [name : ProfileNames \cup {NoText}, config : {NoText, "first", "second"}]
  /\ \A id \in AgentIds :
       AsksOf(id) = [name : ProfileNames \cup {NoText}, model : ModelIds \cup {NoText},
                     policy : PolicyIds \cup {NoText}]
  BY IdsAreApart DEF AsksOf

\* What the requests of the specification ask for is of these kinds.
LEMMA RequestsAsk ==
  /\ \A id \in LeafIds : LeafNew \subseteq FieldsOf(id) /\ LeafAsked \subseteq AsksOf(id)
  /\ \A id \in AgentIds : AgentNew \subseteq FieldsOf(id) /\ AgentAsked \subseteq AsksOf(id)
  /\ \A id \in TenantIds : \A ask \in TenantAsked : ask \in AsksOf(id) /\ ask.slug = NoText
<1>1. /\ LeafNew \subseteq [name : ProfileNames, config : {"first", "second"}]
      /\ AgentNew \subseteq [name : ProfileNames, model : ModelIds, policy : PolicyIds]
      /\ TenantAsked \subseteq [slug : {NoText}, state : {NoText, "draft", "suspended"}]
      /\ LeafAsked \subseteq [name : ProfileNames \union {NoText}, config : {NoText, "first", "second"}]
      /\ AgentAsked \subseteq [name : ProfileNames \union {NoText}, model : ModelIds \union {NoText},
                              policy : PolicyIds \union {NoText}]
  BY TenantRequests, Zenon DEF NoText
<1>2. \A id \in LeafIds : LeafNew \subseteq FieldsOf(id) /\ LeafAsked \subseteq AsksOf(id)
  BY <1>1, FieldsAre, AsksAre
<1>3. \A id \in AgentIds : AgentNew \subseteq FieldsOf(id) /\ AgentAsked \subseteq AsksOf(id)
  BY <1>1, FieldsAre, AsksAre
<1>4. \A id \in TenantIds : \A ask \in TenantAsked : ask \in AsksOf(id) /\ ask.slug = NoText
  BY <1>1, AsksAre
<1> QED  BY <1>2, <1>3, <1>4

\* A field that is asked for is set, and one that is not stays.
LEMMA AskedIsFields ==
  ASSUME NEW id \in TenantRows, NEW fields \in FieldsOf(id), NEW ask \in AsksOf(id)
  PROVE  /\ Asked(fields, ask) \in FieldsOf(id)
         /\ id \in TenantIds /\ ask.slug = NoText => Asked(fields, ask).slug = fields.slug
<1>1. Asked(fields, ask) =
        [f \in DOMAIN fields |-> IF ask[f] = NoText THEN fields[f] ELSE ask[f]]
  BY Zenon DEF Asked, NoText
<1>2. PICK g : g = Asked(fields, ask)  OBVIOUS
<1>3. CASE id \in TenantIds
  <2>1. /\ fields \in [slug : Slugs, state : {"draft", "suspended"}]
        /\ ask \in [slug : Slugs \cup {NoText}, state : {NoText, "draft", "suspended"}]
    BY <1>3, FieldsAre, AsksAre
  <2>2. /\ g = [f \in {"slug", "state"} |-> IF ask[f] = NoText THEN fields[f] ELSE ask[f]]
        /\ g.slug = (IF ask.slug = NoText THEN fields.slug ELSE ask.slug)
        /\ g.state = (IF ask.state = NoText THEN fields.state ELSE ask.state)
    BY <1>1, <1>2, <2>1
  <2>3. g \in [slug : Slugs, state : {"draft", "suspended"}]  BY <2>1, <2>2
  <2> QED  BY <1>2, <1>3, <2>2, <2>3, FieldsAre
<1>4. CASE id \in LeafIds
  <2>1. /\ fields \in [name : ProfileNames, config : {"first", "second"}]
        /\ ask \in [name : ProfileNames \cup {NoText}, config : {NoText, "first", "second"}]
    BY <1>4, FieldsAre, AsksAre
  <2>2. /\ g = [f \in {"name", "config"} |-> IF ask[f] = NoText THEN fields[f] ELSE ask[f]]
        /\ g.name = (IF ask.name = NoText THEN fields.name ELSE ask.name)
        /\ g.config = (IF ask.config = NoText THEN fields.config ELSE ask.config)
    BY <1>1, <1>2, <2>1
  <2>3. g \in [name : ProfileNames, config : {"first", "second"}]  BY <2>1, <2>2
  <2> QED  BY <1>2, <1>4, <2>3, FieldsAre, IdsAreApart
<1>5. CASE id \in AgentIds
  <2>1. /\ fields \in [name : ProfileNames, model : ModelIds, policy : PolicyIds]
        /\ ask \in [name : ProfileNames \cup {NoText}, model : ModelIds \cup {NoText},
                    policy : PolicyIds \cup {NoText}]
    BY <1>5, FieldsAre, AsksAre
  <2>2. /\ g = [f \in {"name", "model", "policy"} |->
                  IF ask[f] = NoText THEN fields[f] ELSE ask[f]]
        /\ g.name = (IF ask.name = NoText THEN fields.name ELSE ask.name)
        /\ g.model = (IF ask.model = NoText THEN fields.model ELSE ask.model)
        /\ g.policy = (IF ask.policy = NoText THEN fields.policy ELSE ask.policy)
    BY <1>1, <1>2, <2>1
  <2>3. g \in [name : ProfileNames, model : ModelIds, policy : PolicyIds]  BY <2>1, <2>2
  <2> QED  BY <1>2, <1>5, <2>3, FieldsAre, IdsAreApart
<1> QED  BY <1>3, <1>4, <1>5, IdsAreApart

LEMMA NotThereIs ==
  /\ NotThere.at = "none" /\ \A id \in TenantRows : NotThere \notin MadeRows(id)
  /\ \A id \in TenantIds : \A f \in FieldsOf(id) :
       /\ [NotThere EXCEPT !.at = "live", !.fields = f] \in MadeRows(id)
       /\ [NotThere EXCEPT !.at = "live", !.fields = f].at = "live"
       /\ [NotThere EXCEPT !.at = "live", !.fields = f].fields = f
       /\ [NotThere EXCEPT !.at = "live", !.fields = f].version = 0
<1> DEFINE nothing == <<>>
<1>1. NotThere = [at |-> "none", tenant |-> NoText, version |-> 0, fields |-> nothing]
  BY Zenon DEF NotThere, NoText
<1> HIDE DEF nothing
<1>2. NotThere.at = "none"  BY <1>1
<1>3. \A id \in TenantRows : NotThere \notin MadeRows(id)  BY <1>1 DEF MadeRows
<1>4. ASSUME NEW id \in TenantIds, NEW f \in FieldsOf(id)
      PROVE  /\ [NotThere EXCEPT !.at = "live", !.fields = f] \in MadeRows(id)
             /\ [NotThere EXCEPT !.at = "live", !.fields = f].at = "live"
             /\ [NotThere EXCEPT !.at = "live", !.fields = f].fields = f
             /\ [NotThere EXCEPT !.at = "live", !.fields = f].version = 0
  <2>1. PICK g : g = [NotThere EXCEPT !.at = "live", !.fields = f]  OBVIOUS
  <2>2. NotThere \in [at : {"none"}, tenant : {NoText}, version : {0}, fields : {nothing}]
    BY <1>1
  <2>3. g \in [at : {"live"}, tenant : {NoText}, version : {0}, fields : {f}]
    BY <2>1, <2>2
  <2>4. OwnersOf(id) = {NoText}  BY IdsAreApart DEF OwnersOf
  <2>5. g \in MadeRows(id) /\ g.at = "live" /\ g.fields = f /\ g.version = 0
    BY <2>3, <2>4 DEF MadeRows
  <2> QED  BY <2>1, <2>5
<1> QED  BY <1>2, <1>3, <1>4

TenantRowsInv ==
  /\ DOMAIN tenantTable = TenantRows
  /\ \A id \in TenantRows : tenantTable[id] # NotThere =>
       tenantTable[id] \in MadeRows(id) /\ tenantTable[id].version <= tenantCalls + 1
  /\ tenantCalls \in 0 .. MaxProfileCalls /\ pulls \in 0 .. MaxPulls

\* A request in flight makes its row, or changes one that is there.
MakesRow(e) ==
  /\ e.read = NotThere /\ e.id \in TenantIds /\ tenantTable[e.id] = NotThere
  /\ e.ask \in FieldsOf(e.id)

ChangesRow(e) ==
  /\ e.read \in MadeRows(e.id) /\ e.read.at = "live" /\ e.read.version <= tenantCalls
  /\ tenantTable[e.id] # NotThere /\ tenantTable[e.id].tenant = e.read.tenant
  /\ e.id \in TenantIds =>
       e.ask.slug = NoText /\ tenantTable[e.id].fields.slug = e.read.fields.slug

TenantEditsInv ==
  /\ IsFiniteSet(tenantEdits) /\ Cardinality(tenantEdits) <= MaxProfileEdits
  /\ \A e \in tenantEdits :
       e.id \in TenantRows /\ e.ask \in AsksOf(e.id) /\ (MakesRow(e) \/ ChangesRow(e))
  /\ \A e, other \in tenantEdits : e.id = other.id /\ e.read = NotThere => e = other

AnswersAreRows ==
  /\ answered \in [fields : {answered.fields}, updates : [TenantRows -> Nat],
                   gone : SUBSET TenantRows, raced : SUBSET TenantRows]
  /\ DOMAIN answered.fields = TenantRows

SettingsInv ==
  /\ AnswersAreRows
  /\ \A id \in TenantRows :
       tenantTable[id] = NotThere => answered.updates[id] = 0 /\ id \notin answered.gone
  /\ SettingsAsAnswered

\* The profiles a device has received, or has been looked up for it.
Seen ==
  received
    \cup (IF pull.at # "none" THEN {[id |-> OwnProfile, row |-> pull.agent]} ELSE {})
    \cup (IF pull.at = "policy" /\ pull.model # NotThere
          THEN {[id |-> pull.agent.fields.model, row |-> pull.model]} ELSE {})

\* The versions of a row go up, and each tells what is in it.
TellsOf(id, row) ==
  /\ id \in ProfileIds /\ row \in MadeRows(id) /\ row.tenant = OwnTenant
  /\ row.version <= tenantCalls + 1 /\ tenantTable[id] # NotThere
  /\ id \notin answered.raced =>
       /\ row.version <= tenantTable[id].version
       /\ row.version = tenantTable[id].version => row.fields = tenantTable[id].fields

SamePerVersion(s, other) ==
  s.id = other.id /\ s.row.version = other.row.version /\ s.id \notin answered.raced
    => s.row.fields = other.row.fields

PullIsOK ==
  \/ pull.at = "none" /\ pull.agent = NotThere /\ pull.model = NotThere
  \/ /\ pull.at \in {"model", "policy"} /\ pull.agent \in MadeRows(OwnProfile)
     /\ pull.agent.fields.model \in ModelIds /\ pull.agent.fields.policy \in PolicyIds
     /\ pull.model = NotThere \/ pull.model \in MadeRows(pull.agent.fields.model)

ReceivedInv ==
  /\ PullIsOK
  /\ pull \in [at : {"none", "model", "policy"}, agent : {pull.agent}, model : {pull.model}]
  /\ \A s \in Seen : TellsOf(s.id, s.row)
  /\ \A s, other \in Seen : SamePerVersion(s, other)

TenantsInv == TenantRowsInv /\ TenantEditsInv /\ SettingsInv /\ NamesAreOnce /\ ReceivedInv

LEMMA KindredIs ==
  /\ \A id \in ModelIds : Kindred(id) = ModelIds
  /\ \A id \in PolicyIds : Kindred(id) = PolicyIds
  /\ \A id \in AgentIds : Kindred(id) = AgentIds
  /\ \A id \in ProfileIds : id \in Kindred(id) /\ Kindred(id) \subseteq ProfileIds
<1>1. \A id \in ProfileIds : id \in Kindred(id) /\ Kindred(id) \in {ModelIds, PolicyIds, AgentIds}
  BY Zenon DEF Kindred, ProfileIds, LeafIds
<1>2. ModelIds \subseteq ProfileIds /\ PolicyIds \subseteq ProfileIds /\ AgentIds \subseteq ProfileIds
  BY DEF ProfileIds, LeafIds
<1>3. /\ ModelIds \intersect PolicyIds = {} /\ AgentIds \intersect ModelIds = {}
      /\ AgentIds \intersect PolicyIds = {}
  BY TenantConstants
<1> QED  BY <1>1, <1>2, <1>3

LEMMA TenantsInitInv == TenantsInit => TenantsInv
<1> SUFFICES ASSUME TenantsInit  PROVE TenantsInv  OBVIOUS
<1> DEFINE tenant(id) == [NotThere EXCEPT !.at = "live", !.fields = FirstTenants[id]]
           profile(id) == [at |-> "live", tenant |-> OwnTenant, version |-> 1,
                           fields |-> FirstProfiles[id]]
           none == [id \in TenantRows |-> 0]
           asMade == [id \in TenantRows |-> tenantTable[id].fields]
<1>1. /\ tenantTable = [id \in TenantRows |-> IF id \in DOMAIN FirstTenants THEN tenant(id)
                          ELSE IF id \in DOMAIN FirstProfiles THEN profile(id) ELSE NotThere]
      /\ tenantEdits = {} /\ pull = NoPull /\ received = {}
      /\ answered = [fields |-> asMade, updates |-> none, gone |-> {}, raced |-> {}]
      /\ tenantCalls = 0 /\ pulls = 0
  BY Zenon DEF TenantsInit
<1>2. ASSUME NEW id \in DOMAIN FirstTenants
      PROVE  /\ id \in TenantIds /\ FirstTenants[id] \in FieldsOf(id)
             /\ tenant(id) \in MadeRows(id) /\ tenant(id).at = "live" /\ tenant(id).version = 0
             /\ tenant(id).fields = FirstTenants[id]
  BY <1>2, FirstRows, NotThereIs
<1>3. ASSUME NEW id \in DOMAIN FirstProfiles
      PROVE  /\ id \in ProfileIds /\ FirstProfiles[id] \in FieldsOf(id)
             /\ profile(id) \in MadeRows(id) /\ profile(id).at = "live"
             /\ profile(id).version = 1 /\ profile(id).tenant = OwnTenant
             /\ profile(id).fields = FirstProfiles[id]
  BY <1>3, FirstRows, TenantConstants DEF MadeRows, OwnersOf
<1> HIDE DEF tenant, profile
<1>4. \A id \in TenantRows :
        /\ id \in DOMAIN FirstTenants => tenantTable[id] = tenant(id)
        /\ id \in DOMAIN FirstProfiles => tenantTable[id] = profile(id)
        /\ id \notin (DOMAIN FirstTenants) \cup (DOMAIN FirstProfiles) => tenantTable[id] = NotThere
  BY <1>1, <1>2, <1>3, IdsAreApart
<1>5. TenantRowsInv
  BY <1>1, <1>2, <1>3, <1>4, TenantConstants DEF TenantRowsInv
<1>6. TenantEditsInv
  BY <1>1, FS_EmptySet, TenantConstants DEF TenantEditsInv
<1>7. /\ answered.fields = asMade /\ answered.updates = none
      /\ answered.gone = {} /\ answered.raced = {}
  <2> HIDE DEF asMade, none
  <2> QED  BY <1>1
<1>8. AnswersAreRows
  <2>1. none \in [TenantRows -> Nat] /\ DOMAIN asMade = TenantRows  OBVIOUS
  <2> HIDE DEF asMade, none
  <2> QED  BY <1>1, <1>7, <2>1 DEF AnswersAreRows
<1>9. SettingsAsAnswered
  <2>1. ASSUME NEW id \in Undeleted(TenantRows)
        PROVE  /\ tenantTable[id].fields = answered.fields[id]
               /\ id \in ProfileIds => tenantTable[id].version = 1 + answered.updates[id]
    <3>1. id \in TenantRows /\ tenantTable[id].at = "live"  BY <2>1 DEF Undeleted
    <3>2. answered.fields[id] = tenantTable[id].fields /\ answered.updates[id] = 0
      BY <1>7, <3>1
    <3>3. id \in ProfileIds => tenantTable[id].version = 1
      BY <1>2, <1>3, <1>4, <3>1, IdsAreApart, NotThereIs
    <3> QED  BY <3>2, <3>3
  <2> QED  BY <1>7, <2>1 DEF SettingsAsAnswered
<1>10. SettingsInv  BY <1>7, <1>8, <1>9 DEF SettingsInv
<1>11. NamesAreOnce
  <2>1. ASSUME NEW id \in Undeleted(ProfileIds)
        PROVE  /\ id \in DOMAIN FirstProfiles /\ tenantTable[id].fields = FirstProfiles[id]
    BY <1>2, <1>3, <1>4, <2>1, IdsAreApart, NotThereIs DEF Undeleted
  <2>2. ASSUME NEW id \in Undeleted(TenantIds)
        PROVE  /\ id \in DOMAIN FirstTenants /\ tenantTable[id].fields = FirstTenants[id]
    BY <1>2, <1>3, <1>4, <2>2, IdsAreApart, NotThereIs DEF Undeleted
  <2>3. \A id \in ProfileIds : tenantTable[id] # NotThere => tenantTable[id].tenant = OwnTenant
    BY <1>2, <1>3, <1>4, IdsAreApart
  <2>4. tenantTable[OwnTenant].at = "live"
    BY <1>2, <1>4, FirstRows, IdsAreApart
  <2>5. /\ \A t, other \in DOMAIN FirstTenants :
             FirstTenants[t].slug = FirstTenants[other].slug => t = other
        /\ \A id, other \in DOMAIN FirstProfiles : id # other /\ Kindred(id) = Kindred(other) =>
             FirstProfiles[id].name # FirstProfiles[other].name
    BY FirstRows
  <2> QED  BY <2>1, <2>2, <2>3, <2>4, <2>5 DEF NamesAreOnce
<1>12. ReceivedInv
  <2>1. pull.at = "none" /\ pull.agent = NotThere /\ pull.model = NotThere
        /\ pull = [at |-> "none", agent |-> NotThere, model |-> NotThere]
    BY <1>1 DEF NoPull
  <2>2. Seen = {}  BY <1>1, <2>1 DEF Seen
  <2> QED  BY <2>1, <2>2 DEF ReceivedInv, PullIsOK
<1> QED  BY <1>5, <1>6, <1>10, <1>11, <1>12 DEF TenantsInv

\* A row that is written keeps its owner and its slug, and is not one another request will make.
LEMMA WriteKeepsRows ==
  ASSUME TenantRowsInv, TenantEditsInv, NEW id \in TenantRows, NEW row \in MadeRows(id),
         tenantTable' = [tenantTable EXCEPT ![id] = row],
         tenantCalls' \in Nat, tenantCalls <= tenantCalls', tenantCalls' <= MaxProfileCalls,
         row.version <= tenantCalls' + 1, pulls' = pulls, tenantEdits' \subseteq tenantEdits,
         tenantTable[id] # NotThere =>
           /\ row.tenant = tenantTable[id].tenant
           /\ id \in TenantIds => row.fields.slug = tenantTable[id].fields.slug,
         tenantTable[id] = NotThere => \A e \in tenantEdits' : e.id # id
  PROVE  TenantRowsInv' /\ TenantEditsInv'
<1>1. /\ DOMAIN tenantTable' = TenantRows /\ tenantTable'[id] = row
      /\ \A o \in TenantRows \ {id} : tenantTable'[o] = tenantTable[o]
  BY DEF TenantRowsInv
<1>2. tenantCalls \in Nat /\ MaxProfileCalls \in Nat  BY TenantConstants DEF TenantRowsInv
<1>3. \A o \in TenantRows : \A r \in MadeRows(o) : r.version \in Nat  BY DEF MadeRows
<1>4. ASSUME NEW o \in TenantRows, tenantTable'[o] # NotThere
      PROVE  tenantTable'[o] \in MadeRows(o) /\ tenantTable'[o].version <= tenantCalls' + 1
  <2>1. CASE o = id  BY <1>1, <2>1
  <2>2. CASE o # id
    <3>1. tenantTable[o] \in MadeRows(o) /\ tenantTable[o].version <= tenantCalls + 1
          /\ tenantTable'[o] = tenantTable[o]
      BY <1>1, <1>4, <2>2 DEF TenantRowsInv
    <3> QED  BY <1>2, <1>3, <3>1
  <2> QED  BY <2>1, <2>2
<1>5. TenantRowsInv'  BY <1>1, <1>2, <1>4 DEF TenantRowsInv
<1>6. IsFiniteSet(tenantEdits') /\ Cardinality(tenantEdits') <= MaxProfileEdits
  <2>1. /\ IsFiniteSet(tenantEdits') /\ Cardinality(tenantEdits') <= Cardinality(tenantEdits)
        /\ Cardinality(tenantEdits') \in Nat /\ Cardinality(tenantEdits) \in Nat
    BY FS_Subset, FS_CardinalityType DEF TenantEditsInv
  <2> QED  BY <2>1, TenantConstants DEF TenantEditsInv
<1>7. ASSUME NEW e \in tenantEdits'
      PROVE  e.id \in TenantRows /\ e.ask \in AsksOf(e.id) /\ (MakesRow(e)' \/ ChangesRow(e)')
  <2>1. e.id \in TenantRows /\ e.ask \in AsksOf(e.id) /\ (MakesRow(e) \/ ChangesRow(e))
    BY <1>7 DEF TenantEditsInv
  <2>2. CASE e.id # id
    <3>1. tenantTable'[e.id] = tenantTable[e.id]  BY <1>1, <2>1, <2>2
    <3>2. MakesRow(e) => MakesRow(e)'  BY <3>1 DEF MakesRow
    <3>3. ChangesRow(e) => ChangesRow(e)'  BY <1>2, <1>3, <2>1, <3>1 DEF ChangesRow
    <3> QED  BY <2>1, <3>2, <3>3
  <2>3. CASE e.id = id
    <3>1. tenantTable[id] # NotThere /\ ChangesRow(e)  BY <1>7, <2>1, <2>3 DEF MakesRow
    <3>2. /\ row # NotThere /\ row.tenant = tenantTable[id].tenant
          /\ id \in TenantIds => row.fields.slug = tenantTable[id].fields.slug
      BY <3>1, NotThereIs
    <3>3. ChangesRow(e)'  BY <1>1, <1>2, <1>3, <2>3, <3>1, <3>2 DEF ChangesRow
    <3> QED  BY <2>1, <3>3
  <2> QED  BY <2>2, <2>3
<1>8. \A e, other \in tenantEdits' : e.id = other.id /\ e.read = NotThere => e = other
  BY DEF TenantEditsInv
<1> QED  BY <1>5, <1>6, <1>7, <1>8 DEF TenantEditsInv

\* The unique indexes and the foreign keys, for the row that is written.
LEMMA WriteKeepsNames ==
  ASSUME TenantRowsInv, NamesAreOnce, NEW id \in TenantRows, NEW row \in MadeRows(id),
         tenantTable' = [tenantTable EXCEPT ![id] = row],
         id \in ProfileIds /\ row.at = "live" => ~Taken(id, row.tenant, row.fields.name),
         id \in ProfileIds => tenantTable[row.tenant].at = "live",
         id \in TenantIds /\ row.at = "live" => HoldersOf(row.fields.slug) \subseteq {id},
         id \in TenantIds /\ row.at # "live" => ~Referred(id)
  PROVE  NamesAreOnce'
<1>1. /\ tenantTable'[id] = row
      /\ \A o \in TenantRows \ {id} : tenantTable'[o] = tenantTable[o]
  BY DEF TenantRowsInv
<1>2. row.at \in {"live", "deleted"} /\ row # NotThere  BY NotThereIs DEF MadeRows
<1>3. ASSUME NEW o \in ProfileIds, tenantTable[o] # NotThere
      PROVE  o \in TenantRows /\ tenantTable[o].tenant \in TenantIds
  BY <1>3, IdsAreApart DEF TenantRowsInv, MadeRows, OwnersOf, TenantRows
<1>4. id \in ProfileIds => row.tenant \in TenantIds  BY DEF MadeRows, OwnersOf
<1>5. ASSUME NEW o \in Undeleted(ProfileIds)', NEW other \in Undeleted(ProfileIds)',
             o # other, Kindred(o) = Kindred(other),
             tenantTable'[o].tenant = tenantTable'[other].tenant
      PROVE  tenantTable'[o].fields.name # tenantTable'[other].fields.name
  <2>1. /\ o \in ProfileIds /\ other \in ProfileIds /\ o \in TenantRows /\ other \in TenantRows
        /\ tenantTable'[o].at = "live" /\ tenantTable'[other].at = "live"
    BY <1>5 DEF Undeleted, TenantRows
  <2>2. ASSUME NEW p \in ProfileIds, p # id, tenantTable'[p].at = "live", id \in ProfileIds,
               row.at = "live", Kindred(p) = Kindred(id), tenantTable'[p].tenant = row.tenant
        PROVE  tenantTable'[p].fields.name # row.fields.name
    <3>1. tenantTable'[p] = tenantTable[p]  BY <1>1, <2>2 DEF TenantRows
    <3>2. p \in Undeleted(Kindred(id)) \ {id}  BY <2>2, <3>1, KindredIs DEF Undeleted
    <3>3. ~Taken(id, row.tenant, row.fields.name)  BY <2>2
    <3> QED  BY <2>2, <3>1, <3>2, <3>3 DEF Taken
  <2>3. CASE o = id
    <3>1. row.at = "live" /\ other # id  BY <1>1, <1>5, <2>1, <2>3
    <3> QED  BY <1>1, <1>5, <2>1, <2>2, <2>3, <3>1
  <2>4. CASE other = id
    <3>1. row.at = "live" /\ o # id  BY <1>1, <1>5, <2>1, <2>4
    <3> QED  BY <1>1, <1>5, <2>1, <2>2, <2>4, <3>1
  <2>5. CASE o # id /\ other # id
    <3>1. tenantTable'[o] = tenantTable[o] /\ tenantTable'[other] = tenantTable[other]
      BY <1>1, <2>1, <2>5
    <3>2. o \in Undeleted(ProfileIds) /\ other \in Undeleted(ProfileIds)
      BY <2>1, <3>1 DEF Undeleted
    <3> QED  BY <1>5, <3>1, <3>2 DEF NamesAreOnce
  <2> QED  BY <2>3, <2>4, <2>5
<1>6. ASSUME NEW t \in Undeleted(TenantIds)', NEW other \in Undeleted(TenantIds)',
             tenantTable'[t].fields.slug = tenantTable'[other].fields.slug
      PROVE  t = other
  <2>1. /\ t \in TenantIds /\ other \in TenantIds /\ t \in TenantRows /\ other \in TenantRows
        /\ tenantTable'[t].at = "live" /\ tenantTable'[other].at = "live"
    BY <1>6 DEF Undeleted, TenantRows
  <2>2. ASSUME NEW p \in TenantIds, p # id, tenantTable'[p].at = "live", id \in TenantIds,
               row.at = "live", tenantTable'[p].fields.slug = row.fields.slug
        PROVE  FALSE
    <3>1. tenantTable'[p] = tenantTable[p]  BY <1>1, <2>2 DEF TenantRows
    <3>2. p \in HoldersOf(row.fields.slug)  BY <2>2, <3>1 DEF HoldersOf, Undeleted
    <3> QED  BY <2>2, <3>2
  <2>3. CASE t = id
    <3>1. row.at = "live"  BY <1>1, <2>1, <2>3
    <3> QED  BY <1>1, <1>6, <2>1, <2>2, <2>3, <3>1
  <2>4. CASE other = id
    <3>1. row.at = "live"  BY <1>1, <2>1, <2>4
    <3> QED  BY <1>1, <1>6, <2>1, <2>2, <2>4, <3>1
  <2>5. CASE t # id /\ other # id
    <3>1. tenantTable'[t] = tenantTable[t] /\ tenantTable'[other] = tenantTable[other]
      BY <1>1, <2>1, <2>5
    <3>2. t \in Undeleted(TenantIds) /\ other \in Undeleted(TenantIds)
      BY <2>1, <3>1 DEF Undeleted
    <3> QED  BY <1>6, <3>1, <3>2 DEF NamesAreOnce
  <2> QED  BY <2>3, <2>4, <2>5
<1>7. ASSUME NEW o \in ProfileIds, tenantTable'[o] # NotThere
      PROVE  tenantTable'[tenantTable'[o].tenant].at = "live"
  <2>1. PICK t : t = tenantTable'[o].tenant  OBVIOUS
  <2>2. t \in TenantIds /\ t \in TenantRows /\ tenantTable[t].at = "live"
    <3>1. CASE o = id  BY <1>1, <1>4, <1>7, <2>1, <3>1, IdsAreApart
    <3>2. CASE o # id
      <4>1. tenantTable'[o] = tenantTable[o]  BY <1>1, <3>2 DEF TenantRows
      <4> QED  BY <1>3, <1>7, <2>1, <4>1, IdsAreApart DEF NamesAreOnce
    <3> QED  BY <3>1, <3>2
  <2>3. CASE t # id  BY <1>1, <2>1, <2>2, <2>3
  <2>4. CASE t = id
    <3>1. o # id  BY <2>2, <2>4, IdsAreApart
    <3>2. tenantTable'[o] = tenantTable[o]  BY <1>1, <3>1 DEF TenantRows
    <3>3. tenantTable[o].tenant = id  BY <2>1, <2>4, <3>2
    <3>4. Referred(id)  BY <3>3 DEF Referred
    <3>5. row.at = "live"  BY <2>2, <2>4, <3>4
    <3> QED  BY <1>1, <2>1, <2>4, <3>5
  <2> QED  BY <2>3, <2>4
<1> QED  BY <1>5, <1>6, <1>7 DEF NamesAreOnce

\* What a device has seen of a row stays told by its version.
LEMMA WriteKeepsReceived ==
  ASSUME TenantRowsInv, ReceivedInv, NEW id \in TenantRows, NEW row \in MadeRows(id),
         tenantTable' = [tenantTable EXCEPT ![id] = row],
         tenantCalls' \in Nat, tenantCalls <= tenantCalls', pull' = pull, received' = received,
         answered.raced \subseteq answered'.raced,
         id \in ProfileIds /\ tenantTable[id] # NotThere /\ id \notin answered'.raced =>
           /\ tenantTable[id].version <= row.version
           /\ tenantTable[id].version = row.version => tenantTable[id].fields = row.fields
  PROVE  ReceivedInv'
<1>1. /\ tenantTable'[id] = row
      /\ \A o \in TenantRows \ {id} : tenantTable'[o] = tenantTable[o]
  BY DEF TenantRowsInv
<1>2. Seen' = Seen /\ PullIsOK' = PullIsOK  BY DEF Seen, PullIsOK
<1>3. tenantCalls \in Nat /\ \A o \in TenantRows : \A r \in MadeRows(o) : r.version \in Nat
  BY DEF TenantRowsInv, MadeRows
<1>4. ASSUME NEW s \in Seen  PROVE TellsOf(s.id, s.row)'
  <2>1. TellsOf(s.id, s.row)  BY <1>4 DEF ReceivedInv
  <2>2. s.id \in TenantRows /\ tenantTable[s.id] \in MadeRows(s.id)
    BY <2>1 DEF TellsOf, TenantRows, TenantRowsInv
  <2>3. s.row.version \in Nat /\ tenantTable[s.id].version \in Nat  BY <1>3, <2>1, <2>2 DEF TellsOf
  <2>4. CASE s.id # id
    <3>1. tenantTable'[s.id] = tenantTable[s.id]  BY <1>1, <2>2, <2>4
    <3> QED  BY <1>3, <2>1, <2>3, <3>1 DEF TellsOf
  <2>5. CASE s.id = id
    <3>1. row.version \in Nat /\ row # NotThere  BY <1>3, NotThereIs
    <3> QED  BY <1>1, <1>3, <2>1, <2>3, <2>5, <3>1 DEF TellsOf
  <2> QED  BY <2>4, <2>5
<1>5. \A s, other \in Seen : SamePerVersion(s, other)'
  BY DEF ReceivedInv, SamePerVersion
<1> QED  BY <1>2, <1>4, <1>5 DEF ReceivedInv

\* What callers have been told, of the row that is written and of the others.
LEMMA WriteKeepsSettings ==
  ASSUME TenantRowsInv, SettingsInv, NEW id \in TenantRows, NEW row \in MadeRows(id),
         tenantTable' = [tenantTable EXCEPT ![id] = row],
         AnswersAreRows', answered.raced \subseteq answered'.raced,
         answered'.gone \subseteq answered.gone \cup {id},
         \A o \in TenantRows \ {id} :
           \/ answered'.fields[o] = answered.fields[o] /\ answered'.updates[o] = answered.updates[o]
           \/ tenantTable[o] # NotThere /\ o \in answered'.raced,
         row.at = "live" /\ id \notin answered'.raced =>
           /\ id \notin answered'.gone /\ row.fields = answered'.fields[id]
           /\ id \in ProfileIds => row.version = 1 + answered'.updates[id]
  PROVE  SettingsInv'
<1>1. /\ tenantTable'[id] = row
      /\ \A o \in TenantRows \ {id} : tenantTable'[o] = tenantTable[o]
  BY DEF TenantRowsInv
<1>2. row # NotThere  BY NotThereIs
<1>3. \A o \in TenantRows : tenantTable'[o] = NotThere =>
        answered'.updates[o] = 0 /\ o \notin answered'.gone
  BY <1>1, <1>2 DEF SettingsInv
<1>4. ASSUME NEW o \in Undeleted(TenantRows)', o \notin answered'.raced
      PROVE  /\ o \notin answered'.gone /\ tenantTable'[o].fields = answered'.fields[o]
             /\ o \in ProfileIds => tenantTable'[o].version = 1 + answered'.updates[o]
  <2>1. o \in TenantRows /\ tenantTable'[o].at = "live"  BY <1>4 DEF Undeleted
  <2>2. CASE o = id  BY <1>1, <1>4, <2>1, <2>2
  <2>3. CASE o # id
    <3>1. o \in Undeleted(TenantRows) \ answered.raced
      BY <1>1, <1>4, <2>1, <2>3 DEF Undeleted
    <3>2. /\ o \notin answered.gone /\ tenantTable[o].fields = answered.fields[o]
          /\ o \in ProfileIds => tenantTable[o].version = 1 + answered.updates[o]
      BY <3>1 DEF SettingsInv, SettingsAsAnswered
    <3> QED  BY <1>1, <1>4, <2>1, <2>3, <3>2
  <2> QED  BY <2>2, <2>3
<1> QED  BY <1>3, <1>4 DEF SettingsInv, SettingsAsAnswered

\* The answer to an update: the fields it asked for, one update more, and whether it raced.
LEMMA AnswerIs ==
  ASSUME AnswersAreRows, NEW id \in TenantRows, NEW ask, NEW R \in SUBSET TenantRows,
         answered' = [Answer(id, ask) EXCEPT !.raced = R]
  PROVE  /\ AnswersAreRows' /\ answered'.raced = R /\ answered'.gone = answered.gone
         /\ answered'.fields[id] = Asked(answered.fields[id], ask)
         /\ answered'.updates[id] = answered.updates[id] + 1
         /\ \A o \in TenantRows \ {id} :
              answered'.fields[o] = answered.fields[o] /\ answered'.updates[o] = answered.updates[o]
<1>1. PICK new, n : new = Asked(answered.fields[id], ask) /\ n = answered.updates[id] + 1
  OBVIOUS
<1>2. Answer(id, ask) = [answered EXCEPT !.fields[id] = new, !.updates[id] = n]
  BY <1>1, Zenon DEF Answer
<1>3. PICK F : F = [answered.fields EXCEPT ![id] = new]  OBVIOUS
<1>4. PICK U : U = [answered.updates EXCEPT ![id] = n]  OBVIOUS
<1>5. /\ DOMAIN F = TenantRows /\ F[id] = new
      /\ \A o \in TenantRows \ {id} : F[o] = answered.fields[o]
  BY <1>3 DEF AnswersAreRows
<1>6. /\ U \in [TenantRows -> Nat] /\ U[id] = n
      /\ \A o \in TenantRows \ {id} : U[o] = answered.updates[o]
  BY <1>1, <1>4 DEF AnswersAreRows
<1>7. PICK a : /\ a = Answer(id, ask)
               /\ a \in [fields : {F}, updates : {U}, gone : {answered.gone}, raced : {answered.raced}]
  <2>1. PICK a : a = Answer(id, ask)  OBVIOUS
  <2>2. a = [answered EXCEPT !.fields = F, !.updates = U]  BY <1>2, <1>3, <1>4, <2>1
  <2>3. a \in [fields : {F}, updates : {U}, gone : {answered.gone}, raced : {answered.raced}]
    BY <2>2 DEF AnswersAreRows
  <2> QED  BY <2>1, <2>3
<1>8. /\ answered' \in [fields : {F}, updates : {U}, gone : {answered.gone}, raced : {R}]
      /\ answered.gone \in SUBSET TenantRows
  BY <1>7 DEF AnswersAreRows
<1>9. answered'.fields = F /\ answered'.updates = U /\ answered'.gone = answered.gone
      /\ answered'.raced = R
  BY <1>8
<1>10. AnswersAreRows'  BY <1>5, <1>6, <1>8, <1>9 DEF AnswersAreRows
<1> QED  BY <1>1, <1>5, <1>6, <1>9, <1>10

\* A row that has just been made, and one that is gone.
LEMMA MadeIs ==
  ASSUME AnswersAreRows, NEW id \in TenantRows, NEW new,
         answered' = [answered EXCEPT !.fields[id] = new]
  PROVE  /\ AnswersAreRows' /\ answered'.raced = answered.raced /\ answered'.gone = answered.gone
         /\ answered'.fields[id] = new /\ answered'.updates = answered.updates
         /\ \A o \in TenantRows \ {id} : answered'.fields[o] = answered.fields[o]
<1>1. PICK F : F = [answered.fields EXCEPT ![id] = new]  OBVIOUS
<1>2. /\ DOMAIN F = TenantRows /\ F[id] = new
      /\ \A o \in TenantRows \ {id} : F[o] = answered.fields[o]
  BY <1>1 DEF AnswersAreRows
<1>3. answered' = [answered EXCEPT !.fields = F]  BY <1>1
<1>4. /\ answered' \in [fields : {F}, updates : {answered.updates}, gone : {answered.gone},
                        raced : {answered.raced}]
      /\ answered.gone \in SUBSET TenantRows /\ answered.raced \in SUBSET TenantRows
      /\ answered.updates \in [TenantRows -> Nat]
  BY <1>3 DEF AnswersAreRows
<1>5. answered'.fields = F /\ answered'.updates = answered.updates
      /\ answered'.gone = answered.gone /\ answered'.raced = answered.raced
  BY <1>4
<1>6. AnswersAreRows'  BY <1>2, <1>4, <1>5 DEF AnswersAreRows
<1> QED  BY <1>2, <1>5, <1>6

LEMMA GoneIs ==
  ASSUME AnswersAreRows, NEW id \in TenantRows, answered' = [answered EXCEPT !.gone = @ \union {id}]
  PROVE  /\ AnswersAreRows' /\ answered'.raced = answered.raced
         /\ answered'.gone = answered.gone \cup {id}
         /\ answered'.fields = answered.fields /\ answered'.updates = answered.updates
<1>1. PICK G \in SUBSET TenantRows : G = answered.gone \cup {id}  BY DEF AnswersAreRows
<1>2. answered' = [answered EXCEPT !.gone = G]  BY <1>1 DEF AnswersAreRows
<1>3. /\ answered' \in [fields : {answered.fields}, updates : {answered.updates}, gone : {G},
                        raced : {answered.raced}]
      /\ answered.raced \in SUBSET TenantRows /\ answered.updates \in [TenantRows -> Nat]
      /\ DOMAIN answered.fields = TenantRows
  BY <1>2 DEF AnswersAreRows
<1>4. answered'.fields = answered.fields /\ answered'.updates = answered.updates
      /\ answered'.gone = G /\ answered'.raced = answered.raced
  BY <1>3
<1> QED  BY <1>1, <1>3, <1>4 DEF AnswersAreRows

LEMMA CreateProfileInv ==
  ASSUME TenantsInv, NEW id \in ProfileIds, NEW tenant \in TenantIds, NEW fields \in FieldsOf(id),
         CreateProfile(id, tenant, fields)
  PROVE  TenantsInv'
<1> DEFINE row == [at |-> "live", tenant |-> tenant, version |-> 1, fields |-> fields]
<1>1. /\ TenantCall /\ New(id) /\ tenant \in Undeleted(TenantIds) /\ ~Taken(id, tenant, fields.name)
      /\ tenantTable' = [tenantTable EXCEPT ![id] = row]
      /\ answered' = [answered EXCEPT !.fields[id] = fields]
      /\ UNCHANGED <<tenantEdits, pull, received, pulls>>
  BY Zenon DEF CreateProfile
<1>2. /\ row \in MadeRows(id) /\ row.at = "live" /\ row.tenant = tenant /\ row.version = 1
      /\ row.fields = fields
  BY DEF MadeRows, OwnersOf
<1> HIDE DEF row
<1>3. id \in TenantRows /\ id \notin TenantIds  BY IdsAreApart, Zenon DEF TenantRows
<1>4. TenantRowsInv /\ TenantEditsInv /\ SettingsInv /\ NamesAreOnce /\ ReceivedInv /\ AnswersAreRows
  BY DEF TenantsInv, SettingsInv
<1>5. tenantTable[id] = NotThere /\ \A e \in tenantEdits : e.id # id  BY <1>1 DEF New
<1>6. /\ tenantCalls' \in Nat /\ tenantCalls <= tenantCalls' /\ tenantCalls' <= MaxProfileCalls
      /\ 1 <= tenantCalls' + 1
  BY <1>1, <1>4, TenantConstants DEF TenantCall, TenantRowsInv
<1>7. TenantRowsInv' /\ TenantEditsInv'
  BY <1>1, <1>2, <1>3, <1>4, <1>5, <1>6, WriteKeepsRows
<1>8. NamesAreOnce'
  <2>1. tenantTable[row.tenant].at = "live"  BY <1>1, <1>2 DEF Undeleted
  <2> QED  BY <1>1, <1>2, <1>3, <1>4, <2>1, WriteKeepsNames
<1>9. /\ AnswersAreRows' /\ answered'.raced = answered.raced /\ answered'.gone = answered.gone
      /\ answered'.fields[id] = fields /\ answered'.updates = answered.updates
      /\ \A o \in TenantRows \ {id} : answered'.fields[o] = answered.fields[o]
  BY <1>1, <1>3, <1>4, MadeIs
<1>10. ReceivedInv'
  BY <1>1, <1>2, <1>3, <1>4, <1>5, <1>6, <1>9, WriteKeepsReceived
<1>11. SettingsInv'
  <2>1. answered.updates[id] = 0 /\ id \notin answered.gone  BY <1>3, <1>4, <1>5 DEF SettingsInv
  <2>2. /\ id \notin answered'.gone /\ row.fields = answered'.fields[id]
        /\ row.version = 1 + answered'.updates[id]
    BY <1>2, <1>9, <2>1
  <2>3. \A o \in TenantRows \ {id} : answered'.fields[o] = answered.fields[o]
                                     /\ answered'.updates[o] = answered.updates[o]
    BY <1>9
  <2>4. answered.raced \subseteq answered'.raced /\ answered'.gone \subseteq answered.gone \cup {id}
    BY <1>9
  <2> QED  BY <1>1, <1>2, <1>3, <1>4, <1>9, <2>2, <2>3, <2>4, WriteKeepsSettings
<1> QED  BY <1>7, <1>8, <1>10, <1>11 DEF TenantsInv

LEMMA SaveProfileInv ==
  ASSUME TenantsInv, NEW e \in tenantEdits, SaveProfile(e)  PROVE TenantsInv'
<1>1. PICK id : id = e.id  OBVIOUS
<1>2. PICK row : row = Saved(e.read, e.ask)  OBVIOUS
<1>3. PICK R : R = IF tenantTable[id] = e.read THEN answered.raced ELSE answered.raced \union {id}
  OBVIOUS
<1>4. /\ id \in ProfileIds /\ ~Taken(id, row.tenant, row.fields.name)
      /\ tenantTable' = [tenantTable EXCEPT ![id] = row]
      /\ tenantEdits' = tenantEdits \ {e} /\ UNCHANGED <<pull, received, tenantCalls, pulls>>
  BY <1>1, <1>2, Zenon DEF SaveProfile, Leave
<1>5. answered' = [Answer(id, e.ask) EXCEPT
                     !.raced = IF tenantTable[id] = e.read THEN @ ELSE @ \union {id}]
  BY <1>1, Zenon DEF SaveProfile
<1>6. TenantRowsInv /\ TenantEditsInv /\ SettingsInv /\ NamesAreOnce /\ ReceivedInv /\ AnswersAreRows
  BY DEF TenantsInv, SettingsInv
<1>7. id \in TenantRows /\ id \notin TenantIds  BY <1>4, IdsAreApart, Zenon DEF TenantRows
<1>8. /\ e.ask \in AsksOf(id) /\ e.read \in MadeRows(id) /\ e.read.at = "live"
      /\ e.read.version <= tenantCalls /\ tenantTable[id] # NotThere
      /\ tenantTable[id].tenant = e.read.tenant
  BY <1>1, <1>6, <1>7 DEF TenantEditsInv, MakesRow, ChangesRow
<1>9. PICK new \in FieldsOf(id) : new = Asked(e.read.fields, e.ask)
  BY <1>7, <1>8, AskedIsFields DEF MadeRows
<1>10. e.read.version \in Nat /\ tenantCalls \in Nat /\ tenantCalls <= MaxProfileCalls
  BY <1>6, <1>8 DEF MadeRows, TenantRowsInv
<1>11. /\ row \in MadeRows(id) /\ row.at = "live" /\ row.tenant = e.read.tenant
       /\ row.version = e.read.version + 1 /\ row.fields = new
  <2>1. PICK v \in Nat : v = e.read.version + 1  BY <1>10
  <2>2. row = [e.read EXCEPT !.fields = new, !.version = v]  BY <1>2, <1>9, <2>1, Zenon DEF Saved
  <2>3. row \in [at : {"live"}, tenant : {e.read.tenant}, version : {v}, fields : {new}]
    BY <1>8, <2>2 DEF MadeRows
  <2> QED  BY <1>8, <2>1, <2>3 DEF MadeRows
<1>12. TenantRowsInv' /\ TenantEditsInv'
  <2>1. /\ tenantCalls' \in Nat /\ tenantCalls <= tenantCalls' /\ tenantCalls' <= MaxProfileCalls
        /\ row.version <= tenantCalls' + 1
    BY <1>4, <1>8, <1>10, <1>11
  <2>2. tenantEdits' \subseteq tenantEdits /\ pulls' = pulls  BY <1>4
  <2> QED  BY <1>4, <1>6, <1>7, <1>8, <1>11, <2>1, <2>2, WriteKeepsRows
<1>13. NamesAreOnce'
  <2>1. tenantTable[row.tenant].at = "live"  BY <1>4, <1>6, <1>8, <1>11 DEF NamesAreOnce
  <2> QED  BY <1>4, <1>6, <1>7, <1>11, <2>1, WriteKeepsNames
<1>14. R \in SUBSET TenantRows /\ answered' = [Answer(id, e.ask) EXCEPT !.raced = R]
  <2>1. R \in SUBSET TenantRows  BY <1>3, <1>6, <1>7 DEF AnswersAreRows
  <2>2. Answer(id, e.ask).raced = answered.raced  BY <1>6 DEF Answer, AnswersAreRows
  <2>3. DOMAIN Answer(id, e.ask) = {"fields", "updates", "gone", "raced"}
    BY <1>6 DEF Answer, AnswersAreRows
  <2>4. PICK r : r = Answer(id, e.ask)  OBVIOUS
  <2>5. answered' = [r EXCEPT !.raced = IF tenantTable[id] = e.read THEN r.raced
                                        ELSE r.raced \union {id}]
    BY <1>5, <2>3, <2>4
  <2>6. r.raced = answered.raced  BY <2>2, <2>4
  <2> QED  BY <1>3, <2>1, <2>4, <2>5, <2>6
<1>15. /\ AnswersAreRows' /\ answered'.raced = R /\ answered'.gone = answered.gone
       /\ answered'.fields[id] = Asked(answered.fields[id], e.ask)
       /\ answered'.updates[id] = answered.updates[id] + 1
       /\ \A o \in TenantRows \ {id} :
            answered'.fields[o] = answered.fields[o] /\ answered'.updates[o] = answered.updates[o]
  BY <1>6, <1>7, <1>14, AnswerIs
<1>16. answered.raced \subseteq R /\ (id \notin R => id \notin answered.raced /\ tenantTable[id] = e.read)
  BY <1>3
<1>17. ReceivedInv'
  <2>1. id \notin R => tenantTable[id].version < row.version  BY <1>10, <1>11, <1>16
  <2>2. row.version \in Nat /\ tenantTable[id].version \in Nat
    BY <1>6, <1>7, <1>8, <1>10, <1>11 DEF TenantRowsInv, MadeRows
  <2>3. id \notin R => tenantTable[id].version <= row.version /\ tenantTable[id].version # row.version
    BY <2>1, <2>2
  <2>4. tenantCalls' \in Nat /\ tenantCalls <= tenantCalls' /\ pull' = pull /\ received' = received
    BY <1>4, <1>10
  <2>5. answered.raced \subseteq answered'.raced /\ answered'.raced = R  BY <1>15, <1>16
  <2> QED  BY <1>4, <1>6, <1>7, <1>11, <2>3, <2>4, <2>5, WriteKeepsReceived
<1>18. SettingsInv'
  <2>1. ASSUME id \notin R
        PROVE  /\ id \notin answered.gone /\ new = answered'.fields[id]
               /\ row.version = 1 + answered'.updates[id]
    <3>1. id \in Undeleted(TenantRows) \ answered.raced
      BY <1>7, <1>8, <1>16, <2>1 DEF Undeleted
    <3>2. /\ id \notin answered.gone /\ e.read.fields = answered.fields[id]
          /\ e.read.version = 1 + answered.updates[id]
      BY <1>4, <1>6, <1>16, <2>1, <3>1 DEF SettingsInv, SettingsAsAnswered
    <3>3. answered.updates[id] \in Nat  BY <1>6, <1>7 DEF AnswersAreRows
    <3> QED  BY <1>9, <1>11, <1>15, <3>2, <3>3
  <2>2. \A o \in TenantRows \ {id} : answered'.fields[o] = answered.fields[o]
                                     /\ answered'.updates[o] = answered.updates[o]
    BY <1>15
  <2>3. /\ answered.raced \subseteq answered'.raced /\ answered'.gone \subseteq answered.gone \cup {id}
        /\ answered'.raced = R /\ answered'.gone = answered.gone
    BY <1>15, <1>16
  <2> QED  BY <1>4, <1>6, <1>7, <1>11, <1>15, <2>1, <2>2, <2>3, WriteKeepsSettings
<1> QED  BY <1>12, <1>13, <1>17, <1>18 DEF TenantsInv

LEMMA DeleteProfileInv ==
  ASSUME TenantsInv, NEW id \in ProfileIds, DeleteProfile(id)  PROVE TenantsInv'
<1>1. /\ TenantCall /\ tenantTable[id] # NotThere
      /\ tenantTable' = [tenantTable EXCEPT ![id].at = "deleted"]
      /\ answered' = [answered EXCEPT !.gone = @ \union {id}]
      /\ UNCHANGED <<tenantEdits, pull, received, pulls>>
  BY Zenon DEF DeleteProfile
<1>2. TenantRowsInv /\ TenantEditsInv /\ SettingsInv /\ NamesAreOnce /\ ReceivedInv /\ AnswersAreRows
  BY DEF TenantsInv, SettingsInv
<1>3. id \in TenantRows /\ id \notin TenantIds  BY IdsAreApart, Zenon DEF TenantRows
<1>4. PICK was \in MadeRows(id) : was = tenantTable[id] /\ was.version <= tenantCalls + 1
  BY <1>1, <1>2, <1>3 DEF TenantRowsInv
<1>5. PICK row : row = [was EXCEPT !.at = "deleted"]  OBVIOUS
<1>6. row \in [at : {"deleted"}, tenant : {was.tenant}, version : {was.version}, fields : {was.fields}]
  BY <1>5 DEF MadeRows
<1>7. /\ row \in MadeRows(id) /\ row.at = "deleted" /\ row.tenant = was.tenant
      /\ row.version = was.version /\ row.fields = was.fields /\ was.version \in Nat
  BY <1>6 DEF MadeRows
<1>8. tenantTable' = [tenantTable EXCEPT ![id] = row]  BY <1>1, <1>4, <1>5
<1>9. /\ tenantCalls' \in Nat /\ tenantCalls <= tenantCalls' /\ tenantCalls' <= MaxProfileCalls
      /\ row.version <= tenantCalls' + 1
  BY <1>1, <1>2, <1>4, <1>7, TenantConstants DEF TenantCall, TenantRowsInv
<1>10. TenantRowsInv' /\ TenantEditsInv'
  BY <1>1, <1>2, <1>3, <1>4, <1>7, <1>8, <1>9, WriteKeepsRows
<1>11. NamesAreOnce'
  <2>1. tenantTable[row.tenant].at = "live"  BY <1>1, <1>2, <1>4, <1>7 DEF NamesAreOnce
  <2> QED  BY <1>2, <1>3, <1>7, <1>8, <2>1, WriteKeepsNames
<1>12. /\ AnswersAreRows' /\ answered'.raced = answered.raced
       /\ answered'.gone = answered.gone \cup {id}
       /\ answered'.fields = answered.fields /\ answered'.updates = answered.updates
  BY <1>1, <1>2, <1>3, GoneIs
<1>13. ReceivedInv'
  <2>1. tenantTable[id].version <= row.version /\ tenantTable[id].fields = row.fields
    BY <1>4, <1>7
  <2>2. answered.raced \subseteq answered'.raced /\ pull' = pull /\ received' = received
    BY <1>1, <1>12
  <2> QED  BY <1>2, <1>3, <1>7, <1>8, <1>9, <2>1, <2>2, WriteKeepsReceived
<1>14. SettingsInv'  BY <1>2, <1>3, <1>7, <1>8, <1>12, WriteKeepsSettings
<1> QED  BY <1>10, <1>11, <1>13, <1>14 DEF TenantsInv

LEMMA InsertTenantInv ==
  ASSUME TenantsInv, NEW e \in tenantEdits, InsertTenant(e)  PROVE TenantsInv'
<1>1. PICK id, new : id = e.id /\ new = e.ask  OBVIOUS
<1>2. PICK row : row = [NotThere EXCEPT !.at = "live", !.fields = new]  OBVIOUS
<1>3. /\ e.read = NotThere /\ HoldersOf(new.slug) = {}
      /\ tenantTable' = [tenantTable EXCEPT ![id] = row]
      /\ answered' = [answered EXCEPT !.fields[id] = new]
      /\ tenantEdits' = tenantEdits \ {e} /\ UNCHANGED <<pull, received, tenantCalls, pulls>>
  BY <1>1, <1>2, Zenon DEF InsertTenant, Leave
<1>4. TenantRowsInv /\ TenantEditsInv /\ SettingsInv /\ NamesAreOnce /\ ReceivedInv /\ AnswersAreRows
  BY DEF TenantsInv, SettingsInv
<1>5. /\ id \in TenantIds /\ id \in TenantRows /\ tenantTable[id] = NotThere /\ new \in FieldsOf(id)
      /\ id \notin ProfileIds
  <2>1. e.id \in TenantRows /\ ~ChangesRow(e)  BY <1>3, <1>4, NotThereIs DEF TenantEditsInv, ChangesRow
  <2>2. MakesRow(e)  BY <1>4, <2>1 DEF TenantEditsInv
  <2> QED  BY <1>1, <2>1, <2>2, IdsAreApart DEF MakesRow
<1>6. row \in MadeRows(id) /\ row.at = "live" /\ row.fields = new /\ row.version = 0
  BY <1>2, <1>5, NotThereIs
<1>7. \A other \in tenantEdits' : other.id # id
  BY <1>1, <1>3, <1>4 DEF TenantEditsInv
<1>8. /\ tenantCalls' \in Nat /\ tenantCalls <= tenantCalls' /\ tenantCalls' <= MaxProfileCalls
      /\ row.version <= tenantCalls' + 1
  BY <1>3, <1>4, <1>6 DEF TenantRowsInv
<1>9. TenantRowsInv' /\ TenantEditsInv'
  BY <1>3, <1>4, <1>5, <1>6, <1>7, <1>8, WriteKeepsRows
<1>10. NamesAreOnce'  BY <1>3, <1>4, <1>5, <1>6, WriteKeepsNames
<1>11. /\ AnswersAreRows' /\ answered'.raced = answered.raced /\ answered'.gone = answered.gone
       /\ answered'.fields[id] = new /\ answered'.updates = answered.updates
       /\ \A o \in TenantRows \ {id} : answered'.fields[o] = answered.fields[o]
  BY <1>3, <1>4, <1>5, MadeIs
<1>12. ReceivedInv'
  BY <1>3, <1>4, <1>5, <1>6, <1>8, <1>11, WriteKeepsReceived
<1>13. SettingsInv'
  <2>1. answered.updates[id] = 0 /\ id \notin answered.gone  BY <1>4, <1>5 DEF SettingsInv
  <2>2. id \notin answered'.gone /\ row.fields = answered'.fields[id]  BY <1>6, <1>11, <2>1
  <2>3. \A o \in TenantRows \ {id} : answered'.fields[o] = answered.fields[o]
                                     /\ answered'.updates[o] = answered.updates[o]
    BY <1>11
  <2>4. answered.raced \subseteq answered'.raced /\ answered'.gone \subseteq answered.gone \cup {id}
    BY <1>11
  <2> QED  BY <1>3, <1>4, <1>5, <1>6, <1>11, <2>2, <2>3, <2>4, WriteKeepsSettings
<1> QED  BY <1>9, <1>10, <1>12, <1>13 DEF TenantsInv

LEMMA SaveTenantInv ==
  ASSUME TenantsInv, NEW e \in tenantEdits, SaveTenant(e)  PROVE TenantsInv'
<1>1. PICK id : id = e.id  OBVIOUS
<1>2. PICK new : new = Asked(e.read.fields, e.ask)  OBVIOUS
<1>3. PICK to \in SavesTo(id, new.slug) :
        /\ id \in TenantIds /\ e.read # NotThere
        /\ tenantTable' = [tenantTable EXCEPT ![to] =
                             [NotThere EXCEPT !.at = "live", !.fields = new]]
        /\ answered' = [Answer(id, e.ask) EXCEPT
                          !.raced = IF tenantTable[id] = e.read THEN @ ELSE @ \union {id, to}]
        /\ tenantEdits' = tenantEdits \ {e} /\ UNCHANGED <<pull, received, tenantCalls, pulls>>
  BY <1>1, <1>2, Zenon DEF SaveTenant, Leave
<1>4. PICK row : row = [NotThere EXCEPT !.at = "live", !.fields = new]  OBVIOUS
<1>5. PICK R : R = IF tenantTable[id] = e.read THEN answered.raced
                   ELSE answered.raced \union {id, to}
  OBVIOUS
<1>6. TenantRowsInv /\ TenantEditsInv /\ SettingsInv /\ NamesAreOnce /\ ReceivedInv /\ AnswersAreRows
  BY DEF TenantsInv, SettingsInv
<1>7. id \in TenantRows /\ id \notin ProfileIds  BY <1>3, IdsAreApart
<1>8. /\ e.ask \in AsksOf(id) /\ e.read \in MadeRows(id) /\ e.read.at = "live"
      /\ tenantTable[id] # NotThere /\ e.ask.slug = NoText
      /\ tenantTable[id].fields.slug = e.read.fields.slug
  BY <1>1, <1>3, <1>6, <1>7 DEF TenantEditsInv, MakesRow, ChangesRow
<1>9. new \in FieldsOf(id) /\ new.slug = tenantTable[id].fields.slug
  BY <1>2, <1>3, <1>7, <1>8, AskedIsFields DEF MadeRows
<1>10. /\ to \in TenantIds /\ to \in TenantRows /\ to \notin ProfileIds
       /\ tenantTable[to] # NotThere /\ tenantTable[to].fields.slug = new.slug
       /\ HoldersOf(new.slug) \subseteq {to}
       /\ to # id => tenantTable[id].at # "live"
  <2>1. CASE tenantTable[id].at # "live" /\ HoldersOf(new.slug) # {}
    <3>1. /\ to \in TenantIds /\ tenantTable[to].at = "live" /\ tenantTable[to].fields.slug = new.slug
      BY <1>3, <2>1 DEF SavesTo, HoldersOf, Undeleted
    <3>2. tenantTable[to] # NotThere  BY <3>1, NotThereIs
    <3>3. HoldersOf(new.slug) \subseteq {to}
      BY <1>6, <3>1 DEF HoldersOf, Undeleted, NamesAreOnce
    <3> QED  BY <2>1, <3>1, <3>2, <3>3, IdsAreApart
  <2>2. CASE tenantTable[id].at = "live"
    <3>1. to = id  BY <1>3, <2>2 DEF SavesTo
    <3>2. HoldersOf(new.slug) \subseteq {to}
      BY <1>3, <1>6, <1>9, <2>2, <3>1 DEF HoldersOf, Undeleted, NamesAreOnce
    <3> QED  BY <1>3, <1>7, <1>8, <1>9, <3>1, <3>2
  <2>3. CASE HoldersOf(new.slug) = {}
    <3>1. to = id  BY <1>3, <2>3 DEF SavesTo
    <3> QED  BY <1>3, <1>7, <1>8, <1>9, <2>3, <3>1
  <2> QED  BY <2>1, <2>2, <2>3
<1>11. row \in MadeRows(to) /\ row.at = "live" /\ row.fields = new /\ row.version = 0
  <2>1. FieldsOf(to) = FieldsOf(id)  BY <1>3, <1>10, FieldsAre
  <2>2. to \in TenantIds /\ new \in FieldsOf(to)  BY <1>9, <1>10, <2>1
  <2> QED  BY <1>4, <2>2, NotThereIs, Zenon
<1>12. tenantTable' = [tenantTable EXCEPT ![to] = row]  BY <1>3, <1>4
<1>13. row.tenant = tenantTable[to].tenant
  <2>1. tenantTable[to] \in MadeRows(to) /\ OwnersOf(to) = {NoText}
    BY <1>6, <1>10 DEF TenantRowsInv, OwnersOf
  <2> QED  BY <1>11, <2>1 DEF MadeRows
<1>14. TenantRowsInv' /\ TenantEditsInv'
  <2>1. /\ tenantCalls' \in Nat /\ tenantCalls <= tenantCalls' /\ tenantCalls' <= MaxProfileCalls
        /\ row.version <= tenantCalls' + 1
    BY <1>3, <1>6, <1>11 DEF TenantRowsInv
  <2>2. tenantEdits' \subseteq tenantEdits /\ pulls' = pulls  BY <1>3
  <2> QED  BY <1>6, <1>10, <1>11, <1>12, <1>13, <2>1, <2>2, WriteKeepsRows
<1>15. NamesAreOnce'  BY <1>6, <1>10, <1>11, <1>12, WriteKeepsNames
<1>16. R \in SUBSET TenantRows /\ answered' = [Answer(id, e.ask) EXCEPT !.raced = R]
  <2>1. R \in SUBSET TenantRows  BY <1>5, <1>6, <1>7, <1>10 DEF AnswersAreRows
  <2>2. PICK r : r = Answer(id, e.ask)  OBVIOUS
  <2>3. r.raced = answered.raced /\ DOMAIN r = {"fields", "updates", "gone", "raced"}
    BY <1>6, <2>2 DEF Answer, AnswersAreRows
  <2>4. answered' = [r EXCEPT !.raced = IF tenantTable[id] = e.read THEN r.raced
                                        ELSE r.raced \union {id, to}]
    BY <1>3, <2>2, <2>3
  <2> QED  BY <1>5, <2>1, <2>2, <2>3, <2>4
<1>17. /\ AnswersAreRows' /\ answered'.raced = R /\ answered'.gone = answered.gone
       /\ answered'.fields[id] = Asked(answered.fields[id], e.ask)
       /\ answered'.updates[id] = answered.updates[id] + 1
       /\ \A o \in TenantRows \ {id} :
            answered'.fields[o] = answered.fields[o] /\ answered'.updates[o] = answered.updates[o]
  BY <1>6, <1>7, <1>16, AnswerIs
<1>18. /\ answered.raced \subseteq R
       /\ to \notin R => tenantTable[id] = e.read /\ to = id /\ id \notin answered.raced
       /\ to # id => id \in R
  BY <1>5, <1>8, <1>10
<1>19. ReceivedInv'
  <2>1. tenantCalls' \in Nat /\ tenantCalls <= tenantCalls' /\ pull' = pull /\ received' = received
    BY <1>3, <1>6 DEF TenantRowsInv
  <2> QED  BY <1>6, <1>10, <1>11, <1>12, <1>17, <1>18, <2>1, WriteKeepsReceived
<1>20. SettingsInv'
  <2>1. ASSUME to \notin R  PROVE to \notin answered'.gone /\ new = answered'.fields[to]
    <3>1. to = id /\ tenantTable[id] = e.read /\ id \in Undeleted(TenantRows) \ answered.raced
      BY <1>7, <1>8, <1>18, <2>1 DEF Undeleted
    <3>2. id \notin answered.gone /\ e.read.fields = answered.fields[id]
      BY <1>6, <3>1 DEF SettingsInv, SettingsAsAnswered
    <3> QED  BY <1>2, <1>17, <3>1, <3>2
  <2>2. \A o \in TenantRows \ {to} :
          \/ answered'.fields[o] = answered.fields[o] /\ answered'.updates[o] = answered.updates[o]
          \/ tenantTable[o] # NotThere /\ o \in answered'.raced
    BY <1>8, <1>17, <1>18
  <2>3. /\ answered.raced \subseteq answered'.raced /\ answered'.gone \subseteq answered.gone \cup {to}
        /\ answered'.raced = R
    BY <1>17, <1>18
  <2> QED  BY <1>6, <1>10, <1>11, <1>12, <1>17, <2>1, <2>2, <2>3, WriteKeepsSettings
<1> QED  BY <1>14, <1>15, <1>19, <1>20 DEF TenantsInv

LEMMA DeleteTenantInv ==
  ASSUME TenantsInv, NEW t \in TenantIds, DeleteTenant(t)  PROVE TenantsInv'
<1>1. /\ TenantCall /\ t \in Undeleted(TenantIds) /\ ~Referred(t)
      /\ tenantTable' = [tenantTable EXCEPT ![t].at = "deleted"]
      /\ answered' = [answered EXCEPT !.gone = @ \union {t}]
      /\ UNCHANGED <<tenantEdits, pull, received, pulls>>
  BY Zenon DEF DeleteTenant
<1>2. TenantRowsInv /\ TenantEditsInv /\ SettingsInv /\ NamesAreOnce /\ ReceivedInv /\ AnswersAreRows
  BY DEF TenantsInv, SettingsInv
<1>3. t \in TenantRows /\ t \notin ProfileIds /\ tenantTable[t] # NotThere
  BY <1>1, IdsAreApart, NotThereIs DEF Undeleted
<1>4. PICK was \in MadeRows(t) : was = tenantTable[t] /\ was.version <= tenantCalls + 1
  BY <1>1, <1>2, <1>3 DEF TenantRowsInv
<1>5. PICK row : row = [was EXCEPT !.at = "deleted"]  OBVIOUS
<1>6. row \in [at : {"deleted"}, tenant : {was.tenant}, version : {was.version}, fields : {was.fields}]
  BY <1>5 DEF MadeRows
<1>7. /\ row \in MadeRows(t) /\ row.at = "deleted" /\ row.tenant = was.tenant
      /\ row.version = was.version /\ row.fields = was.fields /\ was.version \in Nat
  BY <1>6 DEF MadeRows
<1>8. tenantTable' = [tenantTable EXCEPT ![t] = row]  BY <1>1, <1>4, <1>5
<1>9. /\ tenantCalls' \in Nat /\ tenantCalls <= tenantCalls' /\ tenantCalls' <= MaxProfileCalls
      /\ row.version <= tenantCalls' + 1
  BY <1>1, <1>2, <1>4, <1>7, TenantConstants DEF TenantCall, TenantRowsInv
<1>10. TenantRowsInv' /\ TenantEditsInv'
  BY <1>1, <1>2, <1>3, <1>4, <1>7, <1>8, <1>9, WriteKeepsRows
<1>11. NamesAreOnce'  BY <1>1, <1>2, <1>3, <1>7, <1>8, WriteKeepsNames
<1>12. /\ AnswersAreRows' /\ answered'.raced = answered.raced
       /\ answered'.gone = answered.gone \cup {t}
       /\ answered'.fields = answered.fields /\ answered'.updates = answered.updates
  BY <1>1, <1>2, <1>3, GoneIs
<1>13. ReceivedInv'
  BY <1>1, <1>2, <1>3, <1>4, <1>7, <1>8, <1>9, <1>12, WriteKeepsReceived
<1>14. SettingsInv'  BY <1>2, <1>3, <1>7, <1>8, <1>12, WriteKeepsSettings
<1> QED  BY <1>10, <1>11, <1>13, <1>14 DEF TenantsInv

\* A request enters: it reads a row that is there, or will make one nobody else is making.
LEMMA EnterInv ==
  ASSUME TenantsInv, TenantCall, NEW id \in TenantRows, NEW ask \in AsksOf(id), NEW read,
         Enter(id, ask, read), UNCHANGED <<tenantTable, pull, received, answered, pulls>>,
         \/ /\ read = tenantTable[id] /\ read.at = "live"
            /\ id \in TenantIds => ask.slug = NoText
         \/ /\ read = NotThere /\ id \in TenantIds /\ ask \in FieldsOf(id)
            /\ tenantTable[id] = NotThere /\ \A e \in tenantEdits : e.id # id
  PROVE  TenantsInv'
<1>1. TenantRowsInv /\ TenantEditsInv /\ SettingsInv /\ NamesAreOnce /\ ReceivedInv
  BY DEF TenantsInv
<1>2. PICK new : new = [id |-> id, ask |-> ask, read |-> read]  OBVIOUS
<1>3. new.id = id /\ new.ask = ask /\ new.read = read  BY <1>2
<1>4. tenantEdits' = tenantEdits \union {new} /\ Cardinality(tenantEdits) < MaxProfileEdits
  BY <1>2 DEF Enter
<1>5. /\ tenantCalls \in Nat /\ tenantCalls' = tenantCalls + 1
      /\ tenantCalls' \in 0 .. MaxProfileCalls
  BY <1>1, TenantConstants DEF TenantCall, TenantRowsInv
<1>6. \A o \in TenantRows : \A r \in MadeRows(o) : r.version \in Nat  BY DEF MadeRows
<1>7. TenantRowsInv'
  <2>1. ASSUME NEW o \in TenantRows, tenantTable[o] # NotThere
        PROVE  tenantTable[o] \in MadeRows(o) /\ tenantTable[o].version <= tenantCalls' + 1
    <3>1. tenantTable[o] \in MadeRows(o) /\ tenantTable[o].version <= tenantCalls + 1
      BY <1>1, <2>1 DEF TenantRowsInv
    <3> QED  BY <1>5, <1>6, <3>1
  <2> QED  BY <1>1, <1>5, <2>1 DEF TenantRowsInv
<1>8. IsFiniteSet(tenantEdits') /\ Cardinality(tenantEdits') <= MaxProfileEdits
  <2>1. IsFiniteSet(tenantEdits) /\ Cardinality(tenantEdits) \in Nat
    BY <1>1, FS_CardinalityType DEF TenantEditsInv
  <2>2. /\ IsFiniteSet(tenantEdits')
        /\ Cardinality(tenantEdits') = Cardinality(tenantEdits)
           \/ Cardinality(tenantEdits') = Cardinality(tenantEdits) + 1
    BY <1>4, <2>1, FS_AddElement
  <2> QED  BY <1>4, <2>1, <2>2, TenantConstants
<1>9. ASSUME NEW e \in tenantEdits'
      PROVE  e.id \in TenantRows /\ e.ask \in AsksOf(e.id) /\ (MakesRow(e)' \/ ChangesRow(e)')
  <2>1. CASE e \in tenantEdits
    <3>1. e.id \in TenantRows /\ e.ask \in AsksOf(e.id) /\ (MakesRow(e) \/ ChangesRow(e))
      BY <1>1, <2>1 DEF TenantEditsInv
    <3>2. MakesRow(e) => MakesRow(e)'  BY DEF MakesRow
    <3>3. ChangesRow(e) => ChangesRow(e)'  BY <1>5, <1>6, <3>1 DEF ChangesRow
    <3> QED  BY <3>1, <3>2, <3>3
  <2>2. CASE e = new
    <3>1. CASE read = tenantTable[id] /\ read.at = "live"
      <4>1. read # NotThere  BY <3>1, NotThereIs
      <4>2. read \in MadeRows(id) /\ read.version <= tenantCalls + 1
        BY <1>1, <3>1, <4>1 DEF TenantRowsInv
      <4>3. id \in TenantIds => ask.slug = NoText  BY <3>1, NotThereIs
      <4> QED  BY <1>3, <1>5, <2>2, <3>1, <4>1, <4>2, <4>3 DEF ChangesRow
    <3>2. CASE read = NotThere
      <4>1. id \in TenantIds /\ ask \in FieldsOf(id) /\ tenantTable[id] = NotThere
        BY <3>2, NotThereIs
      <4> QED  BY <1>3, <2>2, <3>2, <4>1 DEF MakesRow
    <3> QED  BY <3>1, <3>2
  <2> QED  BY <1>4, <2>1, <2>2
<1>10. ASSUME NEW e \in tenantEdits', NEW other \in tenantEdits', e.id = other.id, e.read = NotThere
       PROVE  e = other
  <2>1. CASE e \in tenantEdits /\ other \in tenantEdits
    BY <1>1, <1>10, <2>1 DEF TenantEditsInv
  <2>2. CASE e = new /\ other \in tenantEdits
    <3>1. read = NotThere  BY <1>3, <1>10, <2>2
    <3>2. other.id # id  BY <2>2, <3>1, NotThereIs
    <3> QED  BY <1>3, <1>10, <2>2, <3>2
  <2>3. CASE e \in tenantEdits /\ other = new
    <3>1. ~ChangesRow(e)  BY <1>1, <1>10, <2>3, NotThereIs DEF ChangesRow, TenantEditsInv
    <3>2. tenantTable[id] = NotThere  BY <1>1, <1>3, <1>10, <2>3, <3>1 DEF TenantEditsInv, MakesRow
    <3>3. e.id # id  BY <2>3, <3>2, NotThereIs
    <3> QED  BY <1>3, <1>10, <2>3, <3>3
  <2> QED  BY <1>4, <2>1, <2>2, <2>3
<1>11. TenantEditsInv'  BY <1>8, <1>9, <1>10 DEF TenantEditsInv
<1>12. SettingsInv'  BY <1>1 DEF SettingsInv, AnswersAreRows, SettingsAsAnswered, Undeleted
<1>13. NamesAreOnce'  BY <1>1 DEF NamesAreOnce, Undeleted
<1>14. ReceivedInv'
  <2>1. Seen' = Seen /\ (PullIsOK' <=> PullIsOK)  BY DEF Seen, PullIsOK
  <2>2. ASSUME NEW s \in Seen  PROVE TellsOf(s.id, s.row)'
    <3>1. TellsOf(s.id, s.row)  BY <1>1, <2>2 DEF ReceivedInv
    <3>2. s.row.version \in Nat  BY <1>6, <3>1 DEF TellsOf, TenantRows
    <3> QED  BY <1>5, <3>1, <3>2 DEF TellsOf
  <2>3. \A s, other \in Seen : SamePerVersion(s, other)'  BY <1>1 DEF ReceivedInv, SamePerVersion
  <2> QED  BY <1>1, <2>1, <2>2, <2>3 DEF ReceivedInv
<1> QED  BY <1>7, <1>11, <1>12, <1>13, <1>14 DEF TenantsInv

LEMMA ReadsInv ==
  ASSUME TenantsInv, NEW id \in TenantRows, NEW ask \in AsksOf(id),
         id \in TenantIds => ask.slug = NoText, ReadUndeleted(id, ask)
  PROVE  TenantsInv'
  BY EnterInv DEF ReadUndeleted, Undeleted

LEMMA LookForSlugInv ==
  ASSUME TenantsInv, NEW t \in TenantIds, NEW slug \in Slugs, LookForSlug(t, slug)
  PROVE  TenantsInv'
<1>1. PICK ask : ask = [slug |-> slug, state |-> "draft"]  OBVIOUS
<1>2. ask \in AsksOf(t) /\ ask \in FieldsOf(t) /\ t \in TenantRows
  BY <1>1, AsksAre, FieldsAre, IdsAreApart
<1>3. /\ TenantCall /\ New(t) /\ Enter(t, ask, NotThere)
      /\ UNCHANGED <<tenantTable, pull, received, answered, pulls>>
  BY <1>1, Zenon DEF LookForSlug
<1> QED  BY <1>2, <1>3, EnterInv DEF New

\* Nothing but what a device has seen changes.
LEMMA OnlySeen ==
  ASSUME TenantsInv, UNCHANGED <<tenantTable, tenantEdits, answered, tenantCalls>>,
         pulls' \in 0 .. MaxPulls
  PROVE  TenantRowsInv' /\ TenantEditsInv' /\ SettingsInv' /\ NamesAreOnce'
<1>1. TenantRowsInv'  BY DEF TenantsInv, TenantRowsInv
<1>2. TenantEditsInv'  BY DEF TenantsInv, TenantEditsInv, MakesRow, ChangesRow
<1>3. SettingsInv'
  BY DEF TenantsInv, SettingsInv, AnswersAreRows, SettingsAsAnswered, Undeleted
<1>4. NamesAreOnce'  BY DEF TenantsInv, NamesAreOnce, Undeleted
<1> QED  BY <1>1, <1>2, <1>3, <1>4

\* A row that is found tells of itself, and of what has been seen of it before.
LEMMA FoundTells ==
  ASSUME TenantsInv, NEW id \in ProfileIds, NEW row \in Looked(id, OwnTenant), row # NotThere
  PROVE  /\ row \in MadeRows(id) /\ TellsOf(id, row)
         /\ \A s \in Seen : s.id = id /\ s.row.version = row.version /\ id \notin answered.raced
                              => s.row.fields = row.fields
<1>1. row \in Found(id, OwnTenant)  BY DEF Looked
<1>2. row = tenantTable[id] /\ row.tenant = OwnTenant /\ id \in TenantRows
  BY <1>1 DEF Found, Undeleted, TenantRows
<1>3. row \in MadeRows(id) /\ row.version <= tenantCalls + 1 /\ row.version \in Nat
  BY <1>2 DEF TenantsInv, TenantRowsInv, MadeRows
<1>4. TellsOf(id, row)  BY <1>2, <1>3 DEF TellsOf
<1>5. \A s \in Seen : TellsOf(s.id, s.row)  BY DEF TenantsInv, ReceivedInv
<1> QED  BY <1>2, <1>3, <1>4, <1>5 DEF TellsOf

\* What is seen next: what was, and what has been found.
LEMMA SeesMore ==
  ASSUME TenantsInv, UNCHANGED <<tenantTable, tenantEdits, answered, tenantCalls>>,
         pulls' \in 0 .. MaxPulls, PullIsOK',
         pull' \in [at : {"none", "model", "policy"}, agent : {pull'.agent}, model : {pull'.model}],
         NEW id \in ProfileIds, NEW row \in Looked(id, OwnTenant), NEW more,
         more.id = id /\ more.row = row,
         \A s \in Seen' : s \in Seen \/ (s = more /\ row # NotThere)
  PROVE  TenantsInv'
<1>1. TenantRowsInv' /\ TenantEditsInv' /\ SettingsInv' /\ NamesAreOnce'  BY OnlySeen
<1>2. ReceivedInv  BY DEF TenantsInv
<1>3. row # NotThere =>
        /\ TellsOf(id, row)
        /\ \A s \in Seen : s.id = id /\ s.row.version = row.version /\ id \notin answered.raced
                             => s.row.fields = row.fields
  BY FoundTells
<1>4. ASSUME NEW s \in Seen'  PROVE TellsOf(s.id, s.row)'
  <2>1. TellsOf(s.id, s.row)  BY <1>2, <1>3, <1>4 DEF ReceivedInv
  <2> QED  BY <2>1 DEF TellsOf
<1>5. ASSUME NEW s \in Seen', NEW other \in Seen'  PROVE SamePerVersion(s, other)'
  <2>1. SamePerVersion(s, other)
    <3>1. CASE s \in Seen /\ other \in Seen  BY <1>2, <3>1 DEF ReceivedInv
    <3>2. CASE s = more /\ other = more  BY <3>2 DEF SamePerVersion
    <3>3. CASE s = more /\ row # NotThere /\ other \in Seen
      <4>1. other.id = id /\ other.row.version = row.version /\ id \notin answered.raced
              => other.row.fields = row.fields
        BY <1>3, <3>3
      <4> QED  BY <3>3, <4>1 DEF SamePerVersion
    <3>4. CASE other = more /\ row # NotThere /\ s \in Seen
      <4>1. s.id = id /\ s.row.version = row.version /\ id \notin answered.raced
              => s.row.fields = row.fields
        BY <1>3, <3>4
      <4> QED  BY <3>4, <4>1 DEF SamePerVersion
    <3> QED  BY <1>5, <3>1, <3>2, <3>3, <3>4
  <2> QED  BY <2>1 DEF SamePerVersion
<1>6. ReceivedInv'  BY <1>4, <1>5 DEF ReceivedInv
<1> QED  BY <1>1, <1>6 DEF TenantsInv

LEMMA PullsAgentInv ==
  ASSUME TenantsInv, PullAgentProfile  PROVE TenantsInv'
<1>1. PICK row \in Looked(OwnProfile, OwnTenant) :
        /\ pull = NoPull /\ pulls < MaxPulls /\ pulls' = pulls + 1
        /\ pull' = IF row = NotThere THEN NoPull ELSE [NoPull EXCEPT !.at = "model", !.agent = row]
        /\ UNCHANGED <<tenantTable, tenantEdits, received, answered, tenantCalls>>
  BY Zenon DEF PullAgentProfile
<1>2. OwnProfile \in ProfileIds /\ OwnProfile \in AgentIds  BY TenantConstants DEF ProfileIds
<1>3. pulls' \in 0 .. MaxPulls
  BY <1>1, TenantConstants DEF TenantsInv, TenantRowsInv
<1>4. /\ NoPull \in [at : {"none"}, agent : {NotThere}, model : {NotThere}]
      /\ row # NotThere => pull' \in [at : {"model"}, agent : {row}, model : {NotThere}]
      /\ row = NotThere => pull' \in [at : {"none"}, agent : {NotThere}, model : {NotThere}]
  BY <1>1 DEF NoPull
<1>5. row # NotThere =>
        row \in MadeRows(OwnProfile) /\ row.fields.model \in ModelIds /\ row.fields.policy \in PolicyIds
  <2>1. row # NotThere => row \in MadeRows(OwnProfile)  BY <1>2, FoundTells
  <2>2. FieldsOf(OwnProfile) = [name : ProfileNames, model : ModelIds, policy : PolicyIds]
    BY <1>2, FieldsAre
  <2> QED  BY <2>1, <2>2 DEF MadeRows
<1>6. PullIsOK'  BY <1>4, <1>5 DEF PullIsOK
<1>7. pull' \in [at : {"none", "model", "policy"}, agent : {pull'.agent}, model : {pull'.model}]
  BY <1>4
<1>8. PICK more : more = [id |-> OwnProfile, row |-> row]  OBVIOUS
<1>9. ASSUME NEW s \in Seen'  PROVE s \in Seen \/ (s = more /\ row # NotThere)
  <2>1. CASE row = NotThere
    <3>1. pull'.at = "none" /\ received' = received  BY <1>1, <1>4, <2>1
    <3> QED  BY <1>9, <3>1 DEF Seen
  <2>2. CASE row # NotThere
    <3>1. pull'.at = "model" /\ pull'.agent = row /\ received' = received  BY <1>1, <1>4, <2>2
    <3> QED  BY <1>8, <1>9, <2>2, <3>1 DEF Seen
  <2> QED  BY <2>1, <2>2
<1>10. more.id = OwnProfile /\ more.row = row  BY <1>8
<1> QED  BY <1>1, <1>2, <1>3, <1>6, <1>7, <1>9, <1>10, SeesMore

\* The models and policies an agent profile that is being answered names.
LEMMA PullNames ==
  ASSUME TenantsInv, pull.at # "none"
  PROVE  /\ pull.agent \in MadeRows(OwnProfile) /\ pull.agent # NotThere
         /\ pull.agent.fields.model \in ModelIds /\ pull.agent.fields.policy \in PolicyIds
         /\ pull.agent.fields.model \in ProfileIds /\ pull.agent.fields.policy \in ProfileIds
         /\ pulls \in 0 .. MaxPulls
<1>1. PullIsOK /\ OwnProfile \in TenantRows
  BY TenantConstants DEF TenantsInv, ReceivedInv, ProfileIds, TenantRows
<1>2. pulls \in 0 .. MaxPulls  BY DEF TenantsInv, TenantRowsInv
<1> QED  BY <1>1, <1>2, NotThereIs DEF PullIsOK, ProfileIds, LeafIds

LEMMA PullsModelInv ==
  ASSUME TenantsInv, PullModelProfile  PROVE TenantsInv'
<1>1. PICK id : id = pull.agent.fields.model  OBVIOUS
<1>2. PICK row \in Looked(id, OwnTenant) :
        /\ pull.at = "model" /\ pull' = [pull EXCEPT !.at = "policy", !.model = row]
        /\ UNCHANGED <<tenantTable, tenantEdits, received, answered, tenantCalls, pulls>>
  BY <1>1, Zenon DEF PullModelProfile
<1>3. /\ pull.agent \in MadeRows(OwnProfile) /\ id \in ModelIds /\ id \in ProfileIds
      /\ pull.agent.fields.policy \in PolicyIds /\ pulls' \in 0 .. MaxPulls
  BY <1>1, <1>2, PullNames
<1>4. pull' \in [at : {"policy"}, agent : {pull.agent}, model : {row}]
  <2>1. pull \in [at : {"none", "model", "policy"}, agent : {pull.agent}, model : {pull.model}]
    BY DEF TenantsInv, ReceivedInv
  <2> QED  BY <1>2, <2>1
<1>5. pull'.at = "policy" /\ pull'.agent = pull.agent /\ pull'.model = row  BY <1>4
<1>6. row # NotThere => row \in MadeRows(id)  BY <1>3, FoundTells
<1>7. PullIsOK'  BY <1>1, <1>3, <1>5, <1>6 DEF PullIsOK
<1>8. pull' \in [at : {"none", "model", "policy"}, agent : {pull'.agent}, model : {pull'.model}]
  BY <1>4
<1>9. PICK more : more = [id |-> id, row |-> row]  OBVIOUS
<1>10. more.id = id /\ more.row = row  BY <1>9
<1>11. ASSUME NEW s \in Seen'  PROVE s \in Seen \/ (s = more /\ row # NotThere)
  BY <1>1, <1>2, <1>5, <1>9, <1>11 DEF Seen
<1> QED  BY <1>2, <1>3, <1>7, <1>8, <1>10, <1>11, SeesMore

LEMMA PullsPolicyInv ==
  ASSUME TenantsInv, PullPolicyProfile  PROVE TenantsInv'
<1>1. PICK id, model : id = pull.agent.fields.policy /\ model = pull.agent.fields.model  OBVIOUS
<1>2. PICK row \in Looked(id, OwnTenant) :
        /\ pull.at = "policy" /\ pull' = NoPull
        /\ received' = received \union
             {s \in {[id |-> OwnProfile, row |-> pull.agent], [id |-> model, row |-> pull.model],
                     [id |-> id, row |-> row]} : s.row # NotThere}
        /\ UNCHANGED <<tenantTable, tenantEdits, answered, tenantCalls, pulls>>
  BY <1>1, Zenon DEF PullPolicyProfile
<1>3. id \in ProfileIds /\ pulls' \in 0 .. MaxPulls  BY <1>1, <1>2, PullNames
<1>4. pull' \in [at : {"none"}, agent : {NotThere}, model : {NotThere}]  BY <1>2 DEF NoPull
<1>5. pull'.at = "none" /\ pull'.agent = NotThere /\ pull'.model = NotThere  BY <1>4
<1>6. PullIsOK'  BY <1>5 DEF PullIsOK
<1>7. pull' \in [at : {"none", "model", "policy"}, agent : {pull'.agent}, model : {pull'.model}]
  BY <1>4
<1>8. PICK more : more = [id |-> id, row |-> row]  OBVIOUS
<1>9. more.id = id /\ more.row = row  BY <1>8
<1>10. ASSUME NEW s \in Seen'  PROVE s \in Seen \/ (s = more /\ row # NotThere)
  <2>1. s \in received'  BY <1>5, <1>10 DEF Seen
  <2>2. \/ s \in received \/ s = [id |-> OwnProfile, row |-> pull.agent]
        \/ s = [id |-> model, row |-> pull.model] /\ pull.model # NotThere
        \/ s = more /\ row # NotThere
    BY <1>2, <1>8, <2>1
  <2> QED  BY <1>1, <1>2, <2>2 DEF Seen
<1> QED  BY <1>2, <1>3, <1>6, <1>7, <1>9, <1>10, SeesMore

LEMMA SaveRefusedInv ==
  ASSUME TenantsInv, NEW e \in tenantEdits, SaveRefused(e)  PROVE TenantsInv'
<1>1. /\ tenantEdits' = tenantEdits \ {e}
      /\ UNCHANGED <<tenantTable, pull, received, answered, tenantCalls, pulls>>
  BY DEF SaveRefused, Leave
<1>2. IsFiniteSet(tenantEdits') /\ Cardinality(tenantEdits') <= MaxProfileEdits
  BY <1>1, FS_Subset, FS_CardinalityType, TenantConstants DEF TenantsInv, TenantEditsInv
<1>3. TenantEditsInv'
  BY <1>1, <1>2 DEF TenantsInv, TenantEditsInv, MakesRow, ChangesRow
<1>4. TenantRowsInv'  BY <1>1 DEF TenantsInv, TenantRowsInv
<1>5. SettingsInv'
  BY <1>1 DEF TenantsInv, SettingsInv, AnswersAreRows, SettingsAsAnswered, Undeleted
<1>6. NamesAreOnce'  BY <1>1 DEF TenantsInv, NamesAreOnce, Undeleted
<1>7. ReceivedInv'
  BY <1>1 DEF TenantsInv, ReceivedInv, PullIsOK, Seen, TellsOf, SamePerVersion
<1> QED  BY <1>3, <1>4, <1>5, <1>6, <1>7 DEF TenantsInv

LEMMA TenantsNextInv == TenantsInv /\ [TenantsNext]_tenantVars => TenantsInv'
<1> SUFFICES ASSUME TenantsInv, [TenantsNext]_tenantVars  PROVE TenantsInv'  OBVIOUS
<1>1. ASSUME NEW t \in TenantIds, NEW id \in ProfileIds, NEW new \in LeafNew,
             CreateModelProfile(id, t, new) \/ CreatePolicyProfile(id, t, new)
      PROVE  TenantsInv'
  <2>1. id \in LeafIds /\ CreateProfile(id, t, new)
    BY <1>1 DEF CreateModelProfile, CreatePolicyProfile, LeafIds
  <2>2. new \in FieldsOf(id)  BY <2>1, RequestsAsk
  <2> QED  BY <2>1, <2>2, CreateProfileInv
<1>2. ASSUME NEW t \in TenantIds, NEW id \in ProfileIds, NEW new \in AgentNew,
             CreateAgentProfile(id, t, new)
      PROVE  TenantsInv'
  <2>1. id \in AgentIds /\ CreateProfile(id, t, new)  BY <1>2 DEF CreateAgentProfile
  <2>2. new \in FieldsOf(id)  BY <2>1, RequestsAsk
  <2> QED  BY <2>1, <2>2, CreateProfileInv
<1>3. ASSUME NEW id \in ProfileIds, NEW ask \in LeafAsked,
             ReadModelProfile(id, ask) \/ ReadPolicyProfile(id, ask)
      PROVE  TenantsInv'
  <2>1. id \in LeafIds /\ ReadUndeleted(id, ask)
    BY <1>3 DEF ReadModelProfile, ReadPolicyProfile, LeafIds
  <2>2. ask \in AsksOf(id) /\ id \in TenantRows /\ id \notin TenantIds
    BY <2>1, RequestsAsk, IdsAreApart
  <2> QED  BY <2>1, <2>2, ReadsInv
<1>4. ASSUME NEW id \in ProfileIds, NEW ask \in AgentAsked, ReadAgentProfile(id, ask)
      PROVE  TenantsInv'
  <2>1. id \in AgentIds /\ ReadUndeleted(id, ask)  BY <1>4 DEF ReadAgentProfile
  <2>2. ask \in AsksOf(id) /\ id \in TenantRows /\ id \notin TenantIds
    BY <2>1, RequestsAsk, IdsAreApart
  <2> QED  BY <2>1, <2>2, ReadsInv
<1>5. ASSUME NEW id \in ProfileIds,
             DeleteModelProfile(id) \/ DeletePolicyProfile(id) \/ DeleteAgentProfile(id)
      PROVE  TenantsInv'
  BY <1>5, DeleteProfileInv DEF DeleteModelProfile, DeletePolicyProfile, DeleteAgentProfile
<1>6. ASSUME NEW t \in TenantIds, NEW ask \in TenantAsked, ReadTenant(t, ask)  PROVE TenantsInv'
  <2>1. ReadUndeleted(t, ask)  BY <1>6 DEF ReadTenant
  <2>2. ask \in AsksOf(t) /\ t \in TenantRows /\ ask.slug = NoText  BY RequestsAsk, IdsAreApart
  <2> QED  BY <2>1, <2>2, ReadsInv
<1>7. CASE UNCHANGED tenantVars
  BY <1>7 DEF tenantVars, TenantsInv, TenantRowsInv, TenantEditsInv, MakesRow, ChangesRow,
     SettingsInv, AnswersAreRows, SettingsAsAnswered, NamesAreOnce, Undeleted, ReceivedInv,
     PullIsOK, Seen, TellsOf, SamePerVersion
<1> QED
  BY <1>1, <1>2, <1>3, <1>4, <1>5, <1>6, <1>7, LookForSlugInv, DeleteTenantInv, SaveProfileInv,
     SaveRefusedInv, InsertTenantInv, SaveTenantInv, PullsAgentInv, PullsModelInv, PullsPolicyInv,
     Zenon DEF TenantsNext

LEMMA TenantsInvShows == TenantsInv => SettingsAsAnswered /\ NamesAreOnce /\ VersionsTell
<1> SUFFICES ASSUME TenantsInv  PROVE SettingsAsAnswered /\ NamesAreOnce /\ VersionsTell  OBVIOUS
<1>1. SettingsAsAnswered /\ NamesAreOnce  BY DEF TenantsInv, SettingsInv
<1>2. received \subseteq Seen /\ ReceivedInv  BY DEF Seen, TenantsInv
<1>3. VersionsTell
  BY <1>2 DEF VersionsTell, ReceivedInv, TellsOf, SamePerVersion
<1> QED  BY <1>1, <1>3

------------------------------------------------------------------------------
(* Types: what the invariants above say nothing of.                         *)

\* What goes to the device and comes back was sent.
FileRest ==
  /\ fileOverdue \in BOOLEAN /\ wasFetched \in BOOLEAN
  /\ sent <= MaxSent /\ dispatches + onDevice + answering <= sent

LEMMA FileInitTypes == FileInit => FileRest
<1> SUFFICES ASSUME FileInit  PROVE FileRest  OBVIOUS
<1>1. fileOverdue = FALSE /\ wasFetched = FALSE  BY Zenon DEF FileInit
<1>2. dispatches = 0 /\ onDevice = 0 /\ answering = 0 /\ sent = 0  BY Zenon DEF FileInit
<1>3. FALSE \in BOOLEAN  OBVIOUS
<1>4. fileOverdue \in BOOLEAN /\ wasFetched \in BOOLEAN  BY <1>1, <1>3, Zenon
<1>5. sent <= MaxSent /\ dispatches + onDevice + answering <= sent  BY <1>2, FileBounds
<1> QED  BY <1>4, <1>5, Zenon DEF FileRest

LEMMA FileNextTypes == FileInv /\ FileRest /\ [FileNext]_fileVars => FileRest'
<1> SUFFICES ASSUME FileInv, FileRest, [FileNext]_fileVars  PROVE FileRest'  OBVIOUS
<1>0. fileOverdue \in BOOLEAN /\ wasFetched \in BOOLEAN /\ TRUE \in BOOLEAN  BY DEF FileRest
<1>1. fileOverdue' \in BOOLEAN /\ wasFetched' \in BOOLEAN
  <2>1. /\ fileOverdue' = fileOverdue \/ fileOverdue' = TRUE
        /\ wasFetched' = wasFetched \/ wasFetched' = TRUE
    BY Zenon DEF FileNext, fileVars, CreateRequest, TimeIsOver, ClearHistory, DispatchToDevice,
       FetchFile, ReadToApprove, ReadToDeny, ReadToAnswer, Takes, SaveRequest, SaveApproved,
       SavesCopy, SaveRequestFails
  <2> QED  BY <1>0, <2>1, Zenon
<1>2. sent' <= MaxSent /\ dispatches' + onDevice' + answering' <= sent'
  <2>0. /\ sent \in Nat /\ dispatches \in Nat /\ onDevice \in Nat /\ answering \in Nat
        /\ sent <= MaxSent /\ dispatches + onDevice + answering <= sent
    BY DEF FileInv, FileRest, Counters
  <2>1. \/ UNCHANGED <<sent, dispatches, onDevice, answering>>
        \/ /\ sent = 0 /\ dispatches' \in {0, 1} /\ sent' = dispatches'
           /\ UNCHANGED <<onDevice, answering>>
        \/ /\ answering > 0 /\ answering' = answering - 1
           /\ UNCHANGED <<sent, dispatches, onDevice>>
        \/ /\ sent < MaxSent /\ dispatches' = dispatches + 1 /\ sent' = sent + 1
           /\ UNCHANGED <<onDevice, answering>>
        \/ /\ dispatches > 0 /\ dispatches' = dispatches - 1
           /\ onDevice' \in {onDevice, onDevice + 1} /\ UNCHANGED <<sent, answering>>
        \/ /\ onDevice > 0 /\ onDevice' = onDevice - 1
           /\ answering' \in {answering, answering + 1} /\ UNCHANGED <<sent, dispatches>>
    BY Zenon DEF FileNext, fileVars, CreateRequest, TimeIsOver, ClearHistory, DispatchToDevice,
       FetchFile, ReadToApprove, ReadToDeny, ReadToAnswer, Takes, SaveRequest, SaveApproved,
       SavesCopy, SaveRequestFails
  <2> QED  BY <2>0, <2>1, FileBounds
<1> QED  BY <1>1, <1>2, Zenon DEF FileRest

LEMMA FileTypes == FileInv /\ FileRest => FileTypeOK
<1> SUFFICES ASSUME FileInv, FileRest  PROVE FileTypeOK  OBVIOUS
<1>1. /\ dispatches \in 0 .. MaxSent /\ onDevice \in 0 .. MaxSent /\ answering \in 0 .. MaxSent
      /\ sent \in 0 .. MaxSent
  BY FileBounds DEF FileInv, FileRest, Counters
<1>2. \A h \in Deciding : handling[h] = Free \/ handling[h] \in
        [does : {"approves", "denies", "expires", "answers"}, copy : FileRow]
  BY DEF FileInv, Holding
<1> QED  BY <1>1, <1>2, Zenon DEF FileTypeOK, FileInv, FileRest

InTheWave == wave.ok + wave.bad + wave.open

\* What the run has counted, with the wave it waits for, was dispatched, but for the last wave if
\* that could not be.
BatchRest ==
  /\ InTheWave <= BatchSize
  /\ runner.ok + runner.bad + InTheWave <= GroupSize
  /\ runner.at \notin {"closes", "ended"} => runner.ok + runner.bad + InTheWave <= runner.next
  /\ batchRow.completed <= GroupSize /\ batchRow.failed <= GroupSize

LEMMA BatchInitTypes == BatchInit => BatchRest
  BY BatchConstants DEF BatchInit, BatchRest, InTheWave, NoWave

LEMMA SaveIsBounded ==
  ASSUME BatchRest, NEW row, Saves(row), row.completed <= GroupSize, row.failed <= GroupSize
  PROVE  batchRow'.completed <= GroupSize /\ batchRow'.failed <= GroupSize
  BY DEF Saves, BatchRest

LEMMA FinalIsBounded ==
  ASSUME BatchRest, NEW status, NEW ok, NEW bad, ok <= GroupSize, bad <= GroupSize,
         Final(status, ok, bad)
  PROVE  batchRow'.completed <= GroupSize /\ batchRow'.failed <= GroupSize
<1> DEFINE row == [status |-> status, completed |-> ok, failed |-> bad]
<1>1. Saves(row) /\ row.completed = ok /\ row.failed = bad  BY DEF Final
<1> HIDE DEF row
<1> QED  BY <1>1, SaveIsBounded

\* A wave that ends moves into the totals, or nothing of it does.
LEMMA WaveEndsInBounds == ASSUME BatchInv, BatchRest, WaveEnds  PROVE BatchRest'
<1>0. PICK r \in WaveResults :
        LET ok == runner.ok + r.ok
            bad == runner.bad + r.bad
        IN IF BelowThreshold(ok, bad)
           THEN /\ Final("paused", ok, bad)
                /\ runner' = [runner EXCEPT !.at = "ended", !.ok = ok, !.bad = bad]
           ELSE /\ Saves([batchRow EXCEPT !.completed = ok, !.failed = bad])
                /\ runner' = [runner EXCEPT !.ok = ok, !.bad = bad,
                               !.at = IF runner.next < GroupSize THEN "between" ELSE "closes"]
                /\ UNCHANGED stop
  BY DEF WaveEnds
<1> DEFINE ok == runner.ok + r.ok
           bad == runner.bad + r.bad
           at == IF runner.next < GroupSize THEN "between" ELSE "closes"
<1>1. /\ batchRow \in Rows /\ runner \in Runners /\ wave \in Waves
      /\ runner.next \in Nat /\ runner.ok \in Nat /\ runner.bad \in Nat
      /\ wave.ok \in Nat /\ wave.bad \in Nat /\ wave.open \in Nat /\ runner.next <= GroupSize
      /\ GroupSize \in Nat /\ BatchSize \in Nat
  BY BatchConstants DEF BatchInv, BatchShapes, Balance, Rows, Runners, Waves
<1>2. runner.at = "waits" /\ wave' = NoWave  BY DEF WaveEnds
<1>3. r.ok \in Nat /\ r.bad \in Nat /\ r.ok + r.bad <= InTheWave
  BY <1>1 DEF WaveResults, InTheWave
<1>4. ok \in Nat /\ bad \in Nat /\ ok + bad <= runner.next
  <2>1. runner.ok + runner.bad + InTheWave <= runner.next  BY <1>2 DEF BatchRest
  <2>2. InTheWave \in Nat  BY <1>1 DEF InTheWave
  <2> QED  BY <1>1, <1>3, <2>1, <2>2
<1>5. ok <= GroupSize /\ bad <= GroupSize /\ ok + bad <= GroupSize
  <2> HIDE DEF ok, bad
  <2> QED  BY <1>1, <1>4
<1>6. /\ batchRow'.completed <= GroupSize /\ batchRow'.failed <= GroupSize
      /\ \E place \in Places :
           runner' = [at |-> place, next |-> runner.next, ok |-> ok, bad |-> bad]
  <2>1. CASE BelowThreshold(ok, bad)
    <3>1. /\ Final("paused", ok, bad)
          /\ runner' = [runner EXCEPT !.at = "ended", !.ok = ok, !.bad = bad]
      BY <1>0, <2>1
    <3>2. "ended" \in Places  BY DEF Places
    <3> HIDE DEF ok, bad
    <3> QED  BY <1>1, <1>4, <1>5, <3>1, <3>2, FinalIsBounded, RunnerCounts
  <2>2. CASE ~BelowThreshold(ok, bad)
    <3>1. /\ Saves([batchRow EXCEPT !.completed = ok, !.failed = bad])
          /\ runner' = [runner EXCEPT !.ok = ok, !.bad = bad, !.at = at]
      BY <1>0, <2>2
    <3>2. at \in Places  BY DEF Places
    <3> HIDE DEF ok, bad, at
    <3> DEFINE row == [status |-> batchRow.status, completed |-> ok, failed |-> bad]
    <3>3. Saves(row)  BY <1>1, <1>4, <3>1, RowCounts
    <3>4. row.completed <= GroupSize /\ row.failed <= GroupSize  BY <1>5
    <3> HIDE DEF row
    <3> QED  BY <1>1, <1>4, <3>1, <3>2, <3>3, <3>4, SaveIsBounded, RunnerCounts
  <2> QED  BY <2>1, <2>2
<1> HIDE DEF ok, bad
<1> QED  BY <1>1, <1>2, <1>4, <1>5, <1>6 DEF BatchRest, InTheWave, NoWave

LEMMA BatchNextTypes == BatchInv /\ BatchRest /\ [BatchNext]_batchVars => BatchRest'
<1> SUFFICES ASSUME BatchInv, BatchRest, [BatchNext]_batchVars  PROVE BatchRest'  OBVIOUS
<1>0. /\ batchRow \in Rows /\ runner \in Runners /\ wave \in Waves
      /\ runner.next \in Nat /\ runner.ok \in Nat /\ runner.bad \in Nat
      /\ wave.ok \in Nat /\ wave.bad \in Nat /\ wave.open \in Nat /\ runner.next <= GroupSize
      /\ batchRow.completed \in Nat /\ batchRow.failed \in Nat
      /\ GroupSize \in Nat /\ BatchSize \in Nat
  BY BatchConstants DEF BatchInv, BatchShapes, Balance, Rows, Runners, Waves
<1>1. runner.ok <= GroupSize /\ runner.bad <= GroupSize  BY <1>0 DEF BatchRest, InTheWave
<1> DEFINE Bounded == batchRow'.completed <= GroupSize /\ batchRow'.failed <= GroupSize
           Left == /\ runner'.ok = runner.ok /\ runner'.bad = runner.bad
                   /\ runner'.next = runner.next
                   /\ runner.at \in {"closes", "ended"} => runner'.at \in {"closes", "ended"}
<1>2. ASSUME Left, Bounded, UNCHANGED wave  PROVE BatchRest'
  <2>1. runner'.at \notin {"closes", "ended"} => runner.at \notin {"closes", "ended"}  BY <1>2
  <2> QED  BY <1>0, <1>2, <2>1 DEF BatchRest, InTheWave
<1>3. ASSUME UNCHANGED batchRow  PROVE Bounded  BY <1>3 DEF BatchRest
<1>4. ASSUME NEW at \in Places, runner' = [runner EXCEPT !.at = at],
             runner.at \notin {"closes", "ended"} \/ at \in {"closes", "ended"}
      PROVE  Left
  BY <1>0, <1>4 DEF Runners
<1>5. CASE CreateBatchTask
  <2>1. Bounded  BY <1>0, <1>5 DEF CreateBatchTask, Rows, BatchRest
  <2>2. \E at \in Places : runner' = [runner EXCEPT !.at = at]
    BY <1>5 DEF CreateBatchTask, Places
  <2>3. runner.at = "none" /\ UNCHANGED wave  BY <1>5 DEF CreateBatchTask
  <2> HIDE DEF Bounded, Left
  <2> QED  BY <1>2, <1>4, <2>1, <2>2, <2>3
<1>6. CASE CancelBatch \/ ContextEnds \/ DeviceAnswersLate \/ UNCHANGED batchVars
  <2>1. UNCHANGED <<batchRow, runner, wave>>
    BY <1>6 DEF CancelBatch, ContextEnds, DeviceAnswersLate, batchVars
  <2> QED  BY <1>2, <1>3, <2>1
<1>7. CASE StartRun
  <2>1. Bounded
    <3>1. CASE Saves([batchRow EXCEPT !.status = "running"])
      <4> DEFINE row == [batchRow EXCEPT !.status = "running"]
      <4>1. Saves(row) /\ row.completed <= GroupSize /\ row.failed <= GroupSize
        BY <1>0, <3>1 DEF Rows, BatchRest
      <4> HIDE DEF row
      <4> QED  BY <4>1, SaveIsBounded
    <3>2. CASE Final("failed", 0, 0)
      <4>1. 0 <= GroupSize  BY <1>0
      <4> QED  BY <3>2, <4>1, FinalIsBounded
    <3>3. CASE UNCHANGED batchRow  BY <1>3, <3>3
    <3> QED  BY <1>7, <3>1, <3>2, <3>3 DEF StartRun
  <2>2. \E at \in Places : runner' = [runner EXCEPT !.at = at]
    <3>1. runner' = [runner EXCEPT !.at = "wave"] \/ runner' = [runner EXCEPT !.at = "ended"]
      BY <1>7, Zenon DEF StartRun
    <3>2. "wave" \in Places /\ "ended" \in Places  BY DEF Places
    <3> QED  BY <3>1, <3>2, Zenon
  <2>3. runner.at = "starts" /\ UNCHANGED wave  BY <1>7 DEF StartRun
  <2> HIDE DEF Bounded, Left
  <2> QED  BY <1>2, <1>4, <2>1, <2>2, <2>3
<1>8. CASE StopsRun \/ CloseRun
  <2>1. /\ \E status : Final(status, runner.ok, runner.bad)
        /\ runner' = [runner EXCEPT !.at = "ended"] /\ UNCHANGED wave
    BY <1>8, Zenon DEF StopsRun, CloseRun
  <2>2. Bounded  BY <1>1, <2>1, FinalIsBounded
  <2>3. "ended" \in Places  BY DEF Places
  <2> HIDE DEF Bounded, Left
  <2> QED  BY <1>2, <1>4, <2>1, <2>2, <2>3
<1>9. CASE DispatchWave
  <2>1. runner.at = "wave" /\ UNCHANGED batchRow  BY <1>9 DEF DispatchWave
  <2>2. WaveSize \in Nat /\ runner.next + WaveSize <= GroupSize /\ WaveSize <= BatchSize
    <3>1. WaveSize \in Nat \ {0} /\ runner.next + WaveSize <= GroupSize
      BY <2>1, WaveSizeFits DEF BatchInv, Between
    <3>2. WaveSize <= BatchSize  BY <1>0 DEF WaveSize
    <3> QED  BY <3>1, <3>2
  <2>3. runner' = [at |-> "waits", next |-> runner.next + WaveSize,
                   ok |-> runner.ok, bad |-> runner.bad]
    <3>1. runner.next + WaveSize \in Nat /\ "waits" \in Places  BY <1>0, <2>2 DEF Places
    <3>2. runner' = [runner EXCEPT !.at = "waits", !.next = runner.next + WaveSize]
      BY <1>9 DEF DispatchWave
    <3> QED  BY <1>0, <3>1, <3>2, RunnerDispatches
  <2>4. wave = NoWave /\ wave' = [ok |-> 0, bad |-> 0, open |-> WaveSize]
    BY <1>9, <2>1 DEF BatchInv, Between, NoWave, DispatchWave
  <2>5. Bounded  BY <1>3, <2>1
  <2> HIDE DEF WaveSize
  <2> QED  BY <1>0, <2>1, <2>2, <2>3, <2>4, <2>5 DEF BatchRest, InTheWave, NoWave
<1>10. CASE DispatchWaveFails
  <2> DEFINE bad == runner.bad + WaveSize
  <2>1. runner.at = "wave" /\ UNCHANGED wave /\ wave = NoWave
    BY <1>10 DEF DispatchWaveFails, BatchInv, Between
  <2>2. WaveSize \in Nat /\ runner.next + WaveSize <= GroupSize
    BY <2>1, WaveSizeFits DEF BatchInv, Between
  <2>3. runner.ok + runner.bad <= runner.next
    BY <1>0, <2>1 DEF BatchRest, InTheWave, NoWave
  <2> HIDE DEF WaveSize
  <2>4. bad \in Nat /\ runner.ok + bad <= GroupSize /\ bad <= GroupSize
    BY <1>0, <2>2, <2>3
  <2>5. runner' = [at |-> "closes", next |-> runner.next, ok |-> runner.ok, bad |-> bad]
    <3>1. runner' = [runner EXCEPT !.at = "closes", !.bad = bad]
      BY <1>10 DEF DispatchWaveFails
    <3>2. "closes" \in Places  BY DEF Places
    <3> HIDE DEF bad
    <3> QED  BY <1>0, <2>4, <3>1, <3>2, RunnerFails
  <2>6. Bounded
    <3>1. Saves([batchRow EXCEPT !.completed = runner.ok, !.failed = bad])
      BY <1>10 DEF DispatchWaveFails
    <3> HIDE DEF bad
    <3> DEFINE row == [status |-> batchRow.status, completed |-> runner.ok, failed |-> bad]
    <3>2. Saves(row)  BY <1>0, <2>4, <3>1, RowCounts
    <3>3. row.completed <= GroupSize /\ row.failed <= GroupSize  BY <1>1, <2>4
    <3> HIDE DEF row
    <3> QED  BY <3>2, <3>3, SaveIsBounded
  <2> HIDE DEF bad
  <2> QED  BY <1>0, <2>1, <2>4, <2>5, <2>6 DEF BatchRest, InTheWave, NoWave
<1>11. CASE InterBatchDelay
  <2>1. /\ runner.at = "between" /\ runner' = [runner EXCEPT !.at = "wave"]
        /\ UNCHANGED <<wave, batchRow>>
    BY <1>11 DEF InterBatchDelay
  <2>2. "wave" \in Places  BY DEF Places
  <2>3. Bounded  BY <1>3, <2>1
  <2> HIDE DEF Bounded, Left
  <2> QED  BY <1>2, <1>4, <2>1, <2>2, <2>3
<1>12. CASE WaveEnds  BY <1>12, WaveEndsInBounds
<1>13. CASE RunIsLost
  <2>1. runner' = [runner EXCEPT !.at = "ended"] /\ wave' = NoWave /\ UNCHANGED batchRow
    BY <1>13 DEF RunIsLost
  <2>2. Bounded  BY <1>3, <2>1
  <2>3. /\ runner'.ok = runner.ok /\ runner'.bad = runner.bad /\ runner'.at = "ended"
    BY <1>0, <2>1 DEF Runners
  <2> QED  BY <1>0, <2>1, <2>2, <2>3 DEF BatchRest, InTheWave, NoWave
<1>14. CASE DeviceAnswers
  <2>1. wave.open > 0 /\ UNCHANGED <<batchRow, runner>>  BY <1>14 DEF DeviceAnswers
  <2>2. InTheWave' = InTheWave
    <3>1. \/ wave' = [ok |-> wave.ok + 1, bad |-> wave.bad, open |-> wave.open - 1]
          \/ wave' = [ok |-> wave.ok, bad |-> wave.bad + 1, open |-> wave.open - 1]
      <4>1. wave.open - 1 \in Nat /\ wave.ok + 1 \in Nat /\ wave.bad + 1 \in Nat
        BY <1>0, <2>1
      <4>2. \/ wave' = [wave EXCEPT !.open = wave.open - 1, !.ok = wave.ok + 1]
            \/ wave' = [wave EXCEPT !.open = wave.open - 1, !.bad = wave.bad + 1]
        BY <1>14, Zenon DEF DeviceAnswers
      <4>3. CASE wave' = [wave EXCEPT !.open = wave.open - 1, !.ok = wave.ok + 1]
        BY <1>0, <4>1, <4>3, WaveSucceeds
      <4>4. CASE wave' = [wave EXCEPT !.open = wave.open - 1, !.bad = wave.bad + 1]
        BY <1>0, <4>1, <4>4, WaveFails
      <4> QED  BY <4>2, <4>3, <4>4
    <3> QED  BY <1>0, <2>1, <3>1 DEF InTheWave
  <2> QED  BY <2>1, <2>2 DEF BatchRest
<1> QED
  BY <1>5, <1>6, <1>7, <1>8, <1>9, <1>10, <1>11, <1>12, <1>13, <1>14, Zenon DEF BatchNext

LEMMA BatchTypes == BatchInv /\ BatchRest => BatchTypeOK
<1> SUFFICES ASSUME BatchInv, BatchRest  PROVE BatchTypeOK  OBVIOUS
<1>1. /\ batchRow \in Rows /\ runner \in Runners /\ wave \in Waves
      /\ stop \in {"none", "open", "closed", "done"} /\ late \in Nat /\ succeeded \in Nat
      /\ runner.next <= GroupSize /\ succeeded + late + wave.open <= runner.next
      /\ GroupSize \in Nat /\ BatchSize \in Nat
  BY BatchConstants DEF BatchInv, BatchShapes, Balance
<1>2. /\ runner.next \in Nat /\ runner.ok \in Nat /\ runner.bad \in Nat
      /\ wave.ok \in Nat /\ wave.bad \in Nat /\ wave.open \in Nat
      /\ batchRow.completed \in Nat /\ batchRow.failed \in Nat
  BY <1>1 DEF Rows, Runners, Waves
<1>3. /\ runner.next \in 0 .. GroupSize /\ runner.ok \in 0 .. GroupSize
      /\ runner.bad \in 0 .. GroupSize /\ wave.ok \in 0 .. BatchSize
      /\ wave.bad \in 0 .. BatchSize /\ wave.open \in 0 .. BatchSize
      /\ late \in 0 .. GroupSize /\ succeeded \in 0 .. GroupSize
      /\ batchRow.completed \in 0 .. GroupSize /\ batchRow.failed \in 0 .. GroupSize
  BY <1>1, <1>2 DEF BatchRest, InTheWave
<1>4. batchRow \in [status : BatchStatuses, completed : 0 .. GroupSize, failed : 0 .. GroupSize]
  BY <1>1, <1>3 DEF Rows
<1>5. runner \in [at : {"none", "starts", "wave", "waits", "between", "closes", "ended"},
                  next : 0 .. GroupSize, ok : 0 .. GroupSize, bad : 0 .. GroupSize]
  BY <1>1, <1>3 DEF Runners, Places
<1>6. wave \in [ok : 0 .. BatchSize, bad : 0 .. BatchSize, open : 0 .. BatchSize]
  BY <1>1, <1>3 DEF Waves
<1> QED  BY <1>1, <1>3, <1>4, <1>5, <1>6, Zenon DEF BatchTypeOK

BindingRest ==
  /\ registered \subseteq Devices /\ movedTo \subseteq Packages
  /\ begun \in 0 .. MaxBegun /\ overlap \in {"none", "apart", "same"} /\ again \in BOOLEAN

LEMMA BindingInitTypes == BindingInit => BindingRest
<1> SUFFICES ASSUME BindingInit  PROVE BindingRest  OBVIOUS
<1>1. registered = {} /\ movedTo = {} /\ begun = 0 /\ overlap = "none"  BY Zenon DEF BindingInit
<1>2. again = FALSE /\ FALSE \in BOOLEAN  BY Zenon DEF BindingInit
<1>3. again \in BOOLEAN  BY <1>2, Zenon
<1>4. begun \in 0 .. MaxBegun  BY <1>1, BindingConstants
<1> QED  BY <1>1, <1>3, <1>4, Zenon DEF BindingRest

\* A request that begins, and what else of the rest changes.
LEMMA BindingBegins ==
  ASSUME BindingRest, NEW r, NEW req, Begins(r, req)
  PROVE  /\ registered' \subseteq Devices /\ begun' \in 0 .. MaxBegun
         /\ overlap' \in {"none", "apart", "same"}
<1>1. begun < MaxBegun /\ begun' = begun + 1 /\ registered' = registered  BY Zenon DEF Begins
<1>2. overlap' \in {overlap, "apart", "same"}
  <2> DEFINE near == \E o \in Pending : request[o].dev \in {req.dev, Nothing} \/ req.dev = Nothing
  <2>1. overlap' = IF overlap = "same" \/ near THEN "same"
                   ELSE IF Pending # {} THEN "apart" ELSE overlap
    BY DEF Begins
  <2> HIDE DEF near
  <2> QED  BY <2>1
<1> QED  BY <1>1, <1>2, BindingConstants DEF BindingRest

LEMMA BindingNextTypes == BindingRest /\ [BindingNext]_bindingVars => BindingRest'
<1> SUFFICES ASSUME BindingRest, [BindingNext]_bindingVars  PROVE BindingRest'  OBVIOUS
<1> DEFINE Goal == registered' \subseteq Devices /\ overlap' \in {"none", "apart", "same"}
                   /\ UNCHANGED <<begun, again, movedTo>>
<1>0. /\ registered \subseteq Devices /\ movedTo \subseteq Packages
      /\ overlap \in {"none", "apart", "same"} /\ again \in BOOLEAN
  BY Zenon DEF BindingRest
<1>1. ASSUME NEW r \in Requests, NEW d \in Devices, NEW p \in Packages,
             ActivateAuto(r, d, p) \/ BindManual(r, d, p)
      PROVE  BindingRest'
  <2>1. (\E req : Begins(r, req)) /\ UNCHANGED <<again, movedTo>>
    BY <1>1, Zenon DEF ActivateAuto, BindManual
  <2> QED  BY <1>0, <2>1, BindingBegins, Zenon DEF BindingRest
<1>2. ASSUME NEW r \in Requests, NEW d \in Devices, NEW p \in Packages, Migrate(r, d, p)
      PROVE  BindingRest'
  <2>1. (\E req : Begins(r, req)) /\ again' = again /\ movedTo' = movedTo \cup {p}
    BY <1>2, Zenon DEF Migrate
  <2>2. movedTo' \subseteq Packages  BY <1>0, <2>1
  <2> QED  BY <1>0, <2>1, <2>2, BindingBegins, Zenon DEF BindingRest
<1>3. ASSUME NEW r \in Requests, NEW d \in Devices, UnbindDevice(r, d)  PROVE BindingRest'
  <2>1. (\E req : Begins(r, req)) /\ again' = (again \/ ~IsActive(d)) /\ movedTo' = movedTo
    BY <1>3, Zenon DEF UnbindDevice
  <2>2. again' \in BOOLEAN
    <3> HIDE DEF IsActive
    <3>1. (again \/ ~IsActive(d)) \in BOOLEAN  OBVIOUS
    <3> QED  BY <2>1, <3>1, Zenon
  <2> QED  BY <1>0, <2>1, <2>2, BindingBegins, Zenon DEF BindingRest
<1>4. ASSUME NEW r \in Requests, NEW p \in Packages, DeleteUnusedPackage(r, p)  PROVE BindingRest'
  <2>1. (\E req : Begins(r, req)) /\ UNCHANGED <<again, movedTo>>
    BY <1>4, Zenon DEF DeleteUnusedPackage
  <2> QED  BY <1>0, <2>1, BindingBegins, Zenon DEF BindingRest
<1>5. ASSUME NEW r \in Requests,
             \/ CreateBinding(r) \/ CreateBindingDuplicate(r) \/ RevokeBinding(r)
             \/ UncountBinding(r) \/ UpdateBindingPackage(r) \/ LeavePackage(r) \/ EnterPackage(r)
             \/ DeleteByPackage(r) \/ RemovePackage(r)
      PROVE  UNCHANGED <<registered, begun, overlap, again, movedTo>>
  BY <1>5 DEF CreateBinding, CreateBindingDuplicate, RevokeBinding, UncountBinding,
              UpdateBindingPackage, LeavePackage, EnterPackage, DeleteByPackage, RemovePackage
<1>6. ASSUME NEW r \in Requests, CountBinding(r)  PROVE Goal
  <2>1. /\ registered' = registered \ {request[r].dev}
        /\ UNCHANGED <<begun, overlap, again, movedTo>>
    BY <1>6, Zenon DEF CountBinding
  <2> QED  BY <1>0, <2>1
<1>7. ASSUME NEW r \in Requests, CallFails(r)  PROVE Goal
  <2>1. overlap' = "same" /\ UNCHANGED <<registered, begun, again, movedTo>>
    BY <1>7, Zenon DEF CallFails
  <2> QED  BY <1>0, <2>1
<1>8. ASSUME NEW d \in Devices, RegisterDevice(d)  PROVE Goal
  <2>1. registered' = registered \cup {d} /\ UNCHANGED <<begun, overlap, again, movedTo>>
    BY <1>8, Zenon DEF RegisterDevice
  <2> QED  BY <1>0, <2>1
<1>9. ASSUME NEW p \in Packages, NEW q \in Quotas, UpdateMaxDevices(p, q)
      PROVE  UNCHANGED <<registered, begun, overlap, again, movedTo>>
  BY <1>9 DEF UpdateMaxDevices
<1>10. CASE UNCHANGED bindingVars
  BY <1>10, Zenon DEF bindingVars, BindingRest
<1>11. ASSUME Goal  PROVE BindingRest'  BY <1>11, Zenon DEF BindingRest
<1>12. ASSUME UNCHANGED <<registered, begun, overlap, again, movedTo>>  PROVE BindingRest'
  BY <1>12, Zenon DEF BindingRest
<1> HIDE DEF Goal
<1> QED
  BY <1>1, <1>2, <1>3, <1>4, <1>5, <1>6, <1>7, <1>8, <1>9, <1>10, <1>11, <1>12, Zenon
     DEF BindingNext

LEMMA BindingTypes == CountsInv /\ QuotaInv /\ BindingRest => BindingTypeOK
  BY Zenon DEF CountsInv, QuotaInv, BindingRest, LifeInv, BindingRow, BindingTypeOK

LEMMA BotTypes == BotInv => BotTypeOK
<1> SUFFICES ASSUME BotInv  PROVE BotTypeOK  OBVIOUS
<1>1. ASSUME NEW r \in BotRequests
      PROVE  serving[r].at \in {"idle", "lookup", "fill", "found", "store", "remove", "track", "keep",
                               "ask", "route", "push"}
  <2>1. serving[r] \in BotRequest  BY DEF BotInv
  <2> QED  BY <2>1, Zenon DEF BotRequest
<1> QED  BY <1>1, Zenon DEF BotTypeOK, BotInv, BotRows

\* Only a first post asks for JSON.
DraftRest ==
  /\ target \in [platform : Platforms \cup {"none"}, os : Platforms \cup {"windows", "none"}]
  /\ posting \in [posts : 0 .. 2, format : BOOLEAN]
  /\ posting.format => posting.posts = 1

LEMMA DraftInitTypes == DraftInit => DraftRest
<1> SUFFICES ASSUME DraftInit  PROVE DraftRest  OBVIOUS
<1>1. target = [platform |-> "none", os |-> "none"]  BY Zenon DEF DraftInit, NoTarget
<1>2. posting = [posts |-> 0, format |-> FALSE]  BY Zenon DEF DraftInit, NotPosted
<1>3. target \in [platform : Platforms \cup {"none"}, os : Platforms \cup {"windows", "none"}]
  BY <1>1
<1>4. posting \in [posts : 0 .. 2, format : BOOLEAN] /\ ~posting.format  BY <1>2
<1> QED  BY <1>3, <1>4, Zenon DEF DraftRest

LEMMA DraftNextTypes == DraftRest /\ [DraftNext]_draftVars => DraftRest'
<1> SUFFICES ASSUME DraftRest, [DraftNext]_draftVars  PROVE DraftRest'  OBVIOUS
<1>1. target' \in [platform : Platforms \cup {"none"}, os : Platforms \cup {"windows", "none"}]
  <2> DEFINE shapes == [platform : Platforms \cup {"none"}, os : Platforms \cup {"windows", "none"}]
  <2>1. CASE GenerateCommand
    <3>1. [platform |-> "none", os |-> DefaultTarget] \in shapes  BY DEF DefaultTarget
    <3>2. ASSUME NEW p \in Platforms
          PROVE  [platform |-> p, os |-> NLTargetFromDevice(p)] \in shapes
      <4>1. NLTargetFromDevice(p) = "windows" \/ NLTargetFromDevice(p) = p
        BY Zenon DEF NLTargetFromDevice, NormalizeSnapshot
      <4>2. NLTargetFromDevice(p) \in Platforms \cup {"windows", "none"}  BY <4>1, Zenon
      <4> HIDE DEF shapes
      <4>3. p \in Platforms \cup {"none"}  OBVIOUS
      <4> QED  BY <4>2, <4>3, Zenon DEF shapes
    <3> HIDE DEF shapes
    <3>3. target' \in shapes  BY <2>1, <3>1, <3>2, Zenon DEF GenerateCommand
    <3> QED  BY <3>3, Zenon DEF shapes
  <2>2. CASE ~GenerateCommand
    <3>1. target' = target
      BY <2>2, Zenon DEF DraftNext, draftVars, DeviceNotFound, PickModel, PostRefused, PostFails,
         CallLLM, Generate
    <3> QED  BY <3>1 DEF DraftRest
  <2> QED  BY <2>1, <2>2
<1>2. posting' \in [posts : 0 .. 2, format : BOOLEAN] /\ (posting'.format => posting'.posts = 1)
  <2>1. \/ posting' = posting
        \/ posting' = [posts |-> 1, format |-> TRUE]
        \/ posting.format /\ posting' = [posts |-> posting.posts + 1, format |-> FALSE]
    BY Zenon DEF DraftNext, draftVars, GenerateCommand, DeviceNotFound, PickModel, PostRefused,
       PostFails, CallLLM, Generate
  <2>2. CASE posting' = posting  BY <2>2 DEF DraftRest
  <2>3. CASE posting' = [posts |-> 1, format |-> TRUE]  BY <2>3
  <2>4. CASE posting.format /\ posting' = [posts |-> posting.posts + 1, format |-> FALSE]
    <3>1. posting.posts = 1  BY <2>4 DEF DraftRest
    <3>2. posting' = [posts |-> 2, format |-> FALSE]  BY <2>4, <3>1
    <3> QED  BY <3>2
  <2> QED  BY <2>1, <2>2, <2>3, <2>4
<1> QED  BY <1>1, <1>2, Zenon DEF DraftRest

LEMMA DraftTypes == DraftInv /\ DraftRest => DraftTypeOK
<1> SUFFICES ASSUME DraftInv, DraftRest  PROVE DraftTypeOK  OBVIOUS
<1>1. draft \in DraftRecords  BY DEF DraftInv
<1> DEFINE texts == Texts \cup {NoDraft.text}
<1>2. draft \in [at : {"idle", "asked", "posted", "said", "drafted", "refused"},
                 from : DraftSources, text : texts, command : CommandValues \cup {"raw"},
                 risk : Risks]
  BY <1>1 DEF DraftRecords
<1> HIDE DEF texts
<1>3. /\ draft.at \in {"idle", "asked", "posted", "said", "drafted", "refused"}
      /\ draft.command \in CommandValues \cup {"raw"} /\ draft.risk \in Risks
  BY <1>2
<1> QED  BY <1>3, Zenon DEF DraftTypeOK, DraftRest, Risks

\* The walk stays within as many pages as there may be groups.
GroupRest ==
  /\ pager.page <= MaxGroups + 1 /\ pager.total <= MaxGroups
  /\ groupCalls \in 0 .. MaxGroupCalls

LEMMA GroupInitTypes == GroupInit => GroupRest
<1> SUFFICES ASSUME GroupInit  PROVE GroupRest  OBVIOUS
<1>1. pager = [at |-> "none", page |-> 1, total |-> 0, seen |-> {}, due |-> {}, still |-> TRUE]
  BY Zenon DEF GroupInit
<1>2. groupCalls = 0  BY Zenon DEF GroupInit
<1>3. pager.page = 1 /\ pager.total = 0  BY <1>1
<1> QED  BY <1>2, <1>3, GroupConstants DEF GroupRest

LEMMA PresentBounded == Cardinality(Present) \in 0 .. MaxGroups
<1>1. IsFiniteSet(Groups) /\ Cardinality(Groups) = MaxGroups
  BY GroupConstants, FS_Interval DEF Groups
<1>2. Present \subseteq Groups  BY DEF Present
<1>3. IsFiniteSet(Present) /\ Cardinality(Present) <= MaxGroups  BY <1>1, <1>2, FS_Subset
<1>4. Cardinality(Present) \in Nat  BY <1>3, FS_CardinalityType
<1> QED  BY <1>3, <1>4, GroupConstants

LEMMA GroupNextTypes == PagesInv /\ GroupRest /\ [GroupNext]_groupVars => GroupRest'
<1> SUFFICES ASSUME PagesInv, GroupRest, [GroupNext]_groupVars  PROVE GroupRest'  OBVIOUS
<1>1. groupCalls' \in 0 .. MaxGroupCalls
  <2>1. groupCalls' = groupCalls \/ (groupCalls < MaxGroupCalls /\ groupCalls' = groupCalls + 1)
    BY Zenon DEF GroupNext, groupVars, GroupCall, CreateGroup, OpenList, CountGroups, ShowPage,
       InsertTask, DispatchTask, RunTask, NobodyToReach, DeleteGroup, ListForTask, AddMembers,
       RemoveMember, ReadGroup, SaveGroup, SaveGroupFails
  <2> QED  BY <2>1, GroupConstants DEF GroupRest
<1>2. pager \in PagerRecords /\ pager.page \in Nat \ {0} /\ pager.total \in Nat
  BY DEF PagesInv, PagerRecords
<1> DEFINE Goal == pager'.page <= MaxGroups + 1 /\ pager'.total <= MaxGroups
<1>3. ASSUME NEW still, pager' = [pager EXCEPT !.still = still]  PROVE Goal
  BY <1>2, <1>3 DEF PagerRecords, GroupRest
<1>4. ASSUME pager' = pager  PROVE Goal  BY <1>4 DEF GroupRest
<1>5. ASSUME OpenList  PROVE Goal
  <2>1. pager' = [pager EXCEPT !.at = "asks", !.due = Present]  BY <1>5, Zenon DEF OpenList
  <2> QED  BY <1>2, <2>1 DEF PagerRecords, GroupRest
<1>6. ASSUME CountGroups  PROVE Goal
  <2> DEFINE n == Cardinality(Present)
  <2>1. pager' = [pager EXCEPT !.at = "counted", !.total = n]  BY <1>6, Zenon DEF CountGroups
  <2>2. n <= MaxGroups  BY PresentBounded, GroupConstants
  <2> HIDE DEF n
  <2> QED  BY <1>2, <2>1, <2>2 DEF PagerRecords, GroupRest
<1>7. ASSUME ShowPage  PROVE Goal
  <2> DEFINE last == pager.page * PageSize >= pager.total
             shown == pager.seen \cup Page(pager.page)
             place == IF last THEN "done" ELSE "asks"
             next == IF last THEN pager.page ELSE pager.page + 1
  <2>1. pager' = [pager EXCEPT !.seen = shown, !.at = place, !.page = next]
    BY <1>7, Zenon DEF ShowPage
  <2>2. ASSUME ~last  PROVE pager.page < MaxGroups
    <3>1. PageSize \in Nat \ {0} /\ MaxGroups \in Nat  BY GroupConstants
    <3>2. pager.page <= pager.page * PageSize  BY <1>2, <3>1
    <3>3. pager.page * PageSize \in Nat  BY <1>2, <3>1
    <3> QED  BY <1>2, <2>2, <3>1, <3>2, <3>3 DEF GroupRest
  <2>3. next <= MaxGroups + 1
    <3> HIDE DEF last
    <3> QED  BY <1>2, <2>2, GroupConstants DEF GroupRest
  <2>4. pager'.page = next /\ pager'.total = pager.total
    <3> HIDE DEF shown, place, next
    <3> QED  BY <1>2, <2>1 DEF PagerRecords
  <2> QED  BY <2>3, <2>4, <1>2 DEF GroupRest
<1>8. Goal
  <2>1. \/ OpenList \/ CountGroups \/ ShowPage \/ pager' = pager
        \/ \E still : pager' = [pager EXCEPT !.still = still]
    <3>1. \E still : Unsettled = [pager EXCEPT !.still = still]
      <4>1. Unsettled = [pager EXCEPT !.still = pager.still /\ pager.at # "counted"]
        BY DEF Unsettled
      <4> QED  BY <4>1
    <3>2. ASSUME CreateGroup  PROVE pager' = Unsettled  BY <3>2, Zenon DEF CreateGroup
    <3>3. ASSUME NEW e \in GroupEdits, SaveGroup(e)  PROVE pager' = pager \/ pager' = Unsettled
      BY <3>3, Zenon DEF SaveGroup
    <3>4. ASSUME NEW g \in Groups, DeleteGroup(g)
          PROVE  \E still : pager' = [pager EXCEPT !.still = still]
      BY <3>4, Zenon DEF DeleteGroup
    <3> QED
      BY <3>1, <3>2, <3>3, <3>4, Zenon DEF GroupNext, groupVars, InsertTask, DispatchTask, RunTask,
         NobodyToReach, ListForTask, AddMembers, RemoveMember, ReadGroup, SaveGroupFails
  <2> HIDE DEF Goal
  <2> QED  BY <1>3, <1>4, <1>5, <1>6, <1>7, <2>1
<1> QED  BY <1>1, <1>8 DEF GroupRest

LEMMA GroupTypes == GroupTaskInv /\ PagesInv /\ AnsweredInv /\ GroupRest => GroupTypeOK
<1> SUFFICES ASSUME GroupTaskInv, PagesInv, AnsweredInv, GroupRest  PROVE GroupTypeOK  OBVIOUS
<1> DEFINE most == Cardinality(GroupDevices)
<1>1. GroupCounts \subseteq 0 .. most
  <2>1. IsFiniteSet(GroupDevices)  BY GroupConstants
  <2>2. most \in Nat  BY <2>1, FS_CardinalityType
  <2>3. ASSUME NEW ds \in SUBSET GroupDevices  PROVE Cardinality(ds) \in 0 .. most
    <3>1. IsFiniteSet(ds) /\ Cardinality(ds) <= most  BY <2>1, FS_Subset
    <3>2. Cardinality(ds) \in Nat  BY <3>1, FS_CardinalityType
    <3> QED  BY <3>1, <3>2, <2>2
  <2> HIDE DEF most
  <2> QED  BY <2>2, <2>3 DEF GroupCounts
<1>2. groupJob \in [at : {"none", "listed", "pending", "starts", "running", "failed"},
              group : 0 .. MaxGroups, total : 0 .. most,
              sends : SUBSET GroupDevices, might : SUBSET GroupDevices,
              must : SUBSET GroupDevices, refused : {"none", "read", "write"}]
  <2> HIDE DEF most
  <2> QED  BY <1>1 DEF GroupTaskInv, GroupJob
<1>3. pager \in [at : {"none", "asks", "counted", "done"}, page : 1 .. MaxGroups + 1,
               total : 0 .. MaxGroups, seen : SUBSET Groups,
               due : SUBSET Groups, still : BOOLEAN]
  <2>1. pager \in PagerRecords /\ pager.page \in Nat \ {0} /\ pager.total \in Nat
    BY DEF PagesInv, PagerRecords
  <2>2. pager.page \in 1 .. MaxGroups + 1 /\ pager.total \in 0 .. MaxGroups
    BY <2>1, GroupConstants DEF GroupRest
  <2> QED  BY <2>1, <2>2 DEF PagerRecords, PagerAts
<1>4. /\ groupRows \in [Groups -> [there : BOOLEAN, changed : SUBSET GroupFields]]
      /\ made \in 0 .. MaxGroups
      /\ groupEdits \in [GroupEdits ->
           [group : 0 .. MaxGroups, fields : SUBSET GroupFields, read : SUBSET GroupFields]]
  BY Zenon DEF PagesInv, GroupRecords, EditRecords
<1>5. /\ memberRows \subseteq Groups \X GroupDevices
      /\ told \in [changed : [Groups -> SUBSET GroupFields], gone : SUBSET Groups,
                   raced : SUBSET Groups, strays : SUBSET (Groups \X GroupDevices)]
  BY Zenon DEF AnsweredInv, ToldRecords
<1> QED  BY <1>2, <1>3, <1>4, <1>5, Zenon DEF GroupTypeOK, GroupRest

\* A row that was made by so many calls has a version below their bound.
LEMMA MadeRowsAre ==
  ASSUME NEW id, NEW row \in MadeRows(id), TenantRowsInv, row.version <= tenantCalls + 1
  PROVE  row \in RowsOf(id)
<1> DEFINE owners == OwnersOf(id)
           fields == FieldsOf(id)
           tenants == TenantIds \union {""}
           rows == [at : {"live", "deleted"}, tenant : tenants, version : 0 .. MaxProfileCalls + 1,
                    fields : fields]
<1>1. row \in [at : {"live", "deleted"}, tenant : owners, version : Nat, fields : fields]
  BY Zenon DEF MadeRows
<1>2. owners \subseteq tenants  BY Zenon DEF OwnersOf, NoText
<1>3. rows \subseteq RowsOf(id)  BY Zenon DEF RowsOf
<1>4. tenantCalls \in 0 .. MaxProfileCalls  BY DEF TenantRowsInv
<1> HIDE DEF owners, fields, tenants
<1>5. row.version \in 0 .. MaxProfileCalls + 1  BY <1>1, <1>4, TenantConstants
<1>6. row \in rows  BY <1>1, <1>2, <1>5
<1> HIDE DEF rows
<1> QED  BY <1>3, <1>6

\* A pull looks for the model profile after its agent profile.
TenantRest == pull.at = "model" => pull.model = NotThere

LEMMA TenantInitTypes == TenantsInit => TenantRest
<1> SUFFICES ASSUME TenantsInit  PROVE TenantRest  OBVIOUS
<1>1. pull = NoPull  BY Zenon DEF TenantsInit
<1>2. NoPull.at = "none"
  <2> DEFINE row == NotThere
  <2>1. NoPull = [at |-> "none", agent |-> row, model |-> row]  BY Zenon DEF NoPull
  <2> HIDE DEF row
  <2> QED  BY <2>1
<1> QED  BY <1>1, <1>2 DEF TenantRest

LEMMA TenantNextTypes == TenantsInv /\ TenantRest /\ [TenantsNext]_tenantVars => TenantRest'
<1> SUFFICES ASSUME TenantsInv, TenantRest, [TenantsNext]_tenantVars  PROVE TenantRest'  OBVIOUS
<1>0. pull \in [at : {"none", "model", "policy"}, agent : {pull.agent}, model : {pull.model}]
  BY Zenon DEF TenantsInv, ReceivedInv
<1> DEFINE row == NotThere
<1>1. NoPull = [at |-> "none", agent |-> row, model |-> row]  BY Zenon DEF NoPull
<1>2. \/ pull' = pull \/ pull' = NoPull
      \/ \E r : pull' = [NoPull EXCEPT !.at = "model", !.agent = r]
      \/ \E r : pull' = [pull EXCEPT !.at = "policy", !.model = r]
  <2>1. CASE PullAgentProfile  BY <2>1, Zenon DEF PullAgentProfile
  <2>2. CASE PullModelProfile  BY <2>2, Zenon DEF PullModelProfile
  <2>3. CASE PullPolicyProfile  BY <2>3, Zenon DEF PullPolicyProfile
  <2>4. CASE ~(PullAgentProfile \/ PullModelProfile \/ PullPolicyProfile)
    BY <2>4, Zenon DEF TenantsNext, tenantVars, CreateModelProfile, CreatePolicyProfile,
       CreateAgentProfile, CreateProfile, ReadModelProfile, ReadPolicyProfile, ReadAgentProfile,
       ReadUndeleted, DeleteModelProfile, DeletePolicyProfile, DeleteAgentProfile, DeleteProfile,
       LookForSlug, ReadTenant, DeleteTenant, SaveProfile, SaveRefused, InsertTenant, SaveTenant
  <2> QED  BY <2>1, <2>2, <2>3, <2>4
<1> HIDE DEF row
<1>3. pull' = NoPull => pull'.at = "none"  BY <1>1
<1>4. ASSUME NEW r, pull' = [NoPull EXCEPT !.at = "model", !.agent = r]
      PROVE  pull'.model = row
  BY <1>1, <1>4
<1>5. ASSUME NEW r, pull' = [pull EXCEPT !.at = "policy", !.model = r]  PROVE pull'.at = "policy"
  BY <1>0, <1>5
<1> QED  BY <1>2, <1>3, <1>4, <1>5 DEF TenantRest, row

LEMMA TenantTypes == TenantsInv /\ TenantRest => TenantTypeOK
<1> SUFFICES ASSUME TenantsInv, TenantRest  PROVE TenantTypeOK  OBVIOUS
<1>0. TenantRowsInv /\ TenantEditsInv /\ SettingsInv /\ ReceivedInv  BY Zenon DEF TenantsInv
<1>1. \A id : NotThere \in RowsOf(id)  BY Zenon DEF RowsOf
<1>2. \A id \in TenantRows : tenantTable[id] \in RowsOf(id)
  <2> SUFFICES ASSUME NEW id \in TenantRows  PROVE tenantTable[id] \in RowsOf(id)  OBVIOUS
  <2>1. CASE tenantTable[id] = NotThere  BY <1>1, <2>1
  <2>2. CASE tenantTable[id] # NotThere
    <3>1. tenantTable[id] \in MadeRows(id) /\ tenantTable[id].version <= tenantCalls + 1
      BY <1>0, <2>2, Zenon DEF TenantRowsInv
    <3> QED  BY <1>0, <3>1, MadeRowsAre
  <2> QED  BY <2>1, <2>2
<1>3. ASSUME NEW e \in tenantEdits  PROVE e.id \in TenantRows /\ e.read \in RowsOf(e.id)
  <2>1. e.id \in TenantRows /\ (MakesRow(e) \/ ChangesRow(e))  BY <1>0, Zenon DEF TenantEditsInv
  <2>2. CASE MakesRow(e)  BY <1>1, <2>1, <2>2, Zenon DEF MakesRow
  <2>3. CASE ChangesRow(e)
    <3>1. e.read \in MadeRows(e.id) /\ e.read.version <= tenantCalls
      BY <2>3, Zenon DEF ChangesRow
    <3>2. tenantCalls \in Nat  BY <1>0, TenantConstants DEF TenantRowsInv
    <3>3. e.read.version \in Nat  BY <3>1 DEF MadeRows
    <3>4. e.read.version <= tenantCalls + 1  BY <3>1, <3>2, <3>3
    <3> QED  BY <1>0, <2>1, <3>1, <3>4, MadeRowsAre
  <2> QED  BY <2>1, <2>2, <2>3
<1>4. ASSUME NEW s \in Seen  PROVE s.id \in ProfileIds /\ s.row \in RowsOf(s.id)
  <2>1. TellsOf(s.id, s.row)  BY <1>0, Zenon DEF ReceivedInv
  <2>2. s.id \in ProfileIds /\ s.row \in MadeRows(s.id) /\ s.row.version <= tenantCalls + 1
    BY <2>1, Zenon DEF TellsOf
  <2> QED  BY <1>0, <2>2, MadeRowsAre
<1>5. \A s \in received : s.id \in ProfileIds /\ s.row \in RowsOf(s.id)
  BY <1>4 DEF Seen
<1>6. PullIsOK  BY <1>0, Zenon DEF ReceivedInv
<1>7. pull.at \in {"none", "model", "policy"}  BY <1>6 DEF PullIsOK
<1>8. pull.agent \in RowsOf(OwnProfile)
  <2>1. CASE pull.at = "none"  BY <1>1, <1>6, <2>1 DEF PullIsOK
  <2>2. CASE pull.at # "none"
    <3>1. [id |-> OwnProfile, row |-> pull.agent] \in Seen  BY <2>2 DEF Seen
    <3> HIDE DEF Seen
    <3>2. PICK s \in Seen : s = [id |-> OwnProfile, row |-> pull.agent]  BY <3>1
    <3>3. s.id = OwnProfile /\ s.row = pull.agent  BY <3>2
    <3> QED  BY <1>4, <3>3
  <2> QED  BY <2>1, <2>2
<1>9. pull.model \in {NotThere} \union UNION {RowsOf(m) : m \in ModelIds}
  <2>1. CASE pull.model = NotThere  BY <2>1
  <2>2. CASE pull.model # NotThere
    <3>1. pull.agent.fields.model \in ModelIds /\ pull.at \in {"model", "policy"}
      BY <1>6, <2>2 DEF PullIsOK
    <3>2. pull.at = "policy"  BY <2>2, <3>1, Zenon DEF TenantRest
    <3>3. PICK s \in Seen : s = [id |-> pull.agent.fields.model, row |-> pull.model]
      BY <2>2, <3>2 DEF Seen
    <3>4. s.id = pull.agent.fields.model /\ s.row = pull.model  BY <3>3
    <3>5. pull.model \in RowsOf(pull.agent.fields.model)  BY <1>4, <3>4
    <3> QED  BY <3>1, <3>5
  <2> QED  BY <2>1, <2>2
<1>10. answered.gone \subseteq TenantRows /\ answered.raced \subseteq TenantRows
  <2>1. answered \in [fields : {answered.fields}, updates : [TenantRows -> Nat],
                      gone : SUBSET TenantRows, raced : SUBSET TenantRows]
    BY <1>0, Zenon DEF SettingsInv, AnswersAreRows
  <2> QED  BY <2>1
<1>11. /\ DOMAIN tenantTable = TenantRows /\ Cardinality(tenantEdits) <= MaxProfileEdits
       /\ tenantCalls \in 0 .. MaxProfileCalls /\ pulls \in 0 .. MaxPulls
  BY <1>0, Zenon DEF TenantRowsInv, TenantEditsInv
<1> QED
  BY <1>2, <1>3, <1>5, <1>7, <1>8, <1>9, <1>10, <1>11, Zenon DEF TenantTypeOK

==============================================================================
