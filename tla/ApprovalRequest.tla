--------------------------- MODULE ApprovalRequest ---------------------------
(***************************************************************************)
(* One approval request of platform-api: the row an agent creates for a    *)
(* tool it wants to run, the users who approve or deny it, the agent that  *)
(* reports what became of it, and the workers of job-runner that expire    *)
(* it.  Every call reads the row, changes its copy and saves the whole     *)
(* row; the workers use one conditional UPDATE.                            *)
(*                                                                         *)
(* The session of the request is only looked up: no call deletes one, and  *)
(* no state of it is asked for.                                            *)
(***************************************************************************)
EXTENDS Naturals, FiniteSets

CONSTANTS
  Calls,       \* slots for HTTP requests that are handled at the same time
  Approvers,   \* users who may decide, in the console or by the chat bot
  NoApproval,  \* there is no row
  NoUser       \* the row names no approver

ASSUME ApprovalConstants ==
  /\ NoUser \notin Approvers
  /\ Calls # {}

VARIABLES
  approval,    \* the row of approval_requests
  call,        \* per slot: the copy it is about to save, or NoApproval
  overdue,     \* expires_at has passed
  granted,     \* history: the users whose approval was stored
  overlapped   \* history: someone stored something while a call was between read and save

approvalVars == <<approval, call, overdue, granted, overlapped>>

StartedStatuses  == {"executing", "succeeded", "failed", "rolled_back"}
ApprovalStatuses == {"pending_user", "approved", "denied", "expired"} \cup StartedStatuses

Approval == [status : ApprovalStatuses, approver : Approvers \cup {NoUser}]

ApprovalTypeOK ==
  /\ approval \in Approval \cup {NoApproval}
  /\ call \in [Calls -> Approval \cup {NoApproval}]
  /\ overdue \in BOOLEAN
  /\ granted \subseteq Approvers
  /\ overlapped \in BOOLEAN

ApprovalInit ==
  /\ approval = NoApproval
  /\ call = [c \in Calls |-> NoApproval]
  /\ overdue = FALSE
  /\ granted = {}
  /\ overlapped = FALSE

\* What ApprovalRequest.CanTransitionTo declares.
CanTransitionTo(from, to) ==
  <<from, to>> \in
    {<<"pending_user", "approved">>, <<"pending_user", "denied">>,
     <<"pending_user", "expired">>, <<"approved", "executing">>,
     <<"executing", "succeeded">>, <<"executing", "failed">>,
     <<"failed", "rolled_back">>}

\* A slip: a denial still accepted while the tool is on its way.
CanDenyOpen == approval.status \in {"pending_user", "approved", "executing"}

CanApprove == approval.status = "pending_user"
CanDeny    == approval.status = "pending_user"
BusyCalls       == {c \in Calls : call[c] # NoApproval}

-----------------------------------------------------------------------------

CreateApprovalRequest ==
  /\ approval = NoApproval
  /\ approval' = [status |-> "pending_user", approver |-> NoUser]
  /\ UNCHANGED <<call, overdue, granted, overlapped>>

\* A call reads the row and goes on with a changed copy of it.
ReadsApproval(c, copy) ==
  /\ approval # NoApproval
  /\ call[c] = NoApproval
  /\ call' = [call EXCEPT ![c] = copy]
  /\ UNCHANGED <<approval, overdue, granted, overlapped>>

\* ApproveSession looks at the deadline before it looks at the status.
ApproveTooLate(c) ==
  /\ overdue
  /\ ReadsApproval(c, [approval EXCEPT !.status = "expired"])

ApproveSession(c, u) ==
  /\ ~overdue
  /\ approval # NoApproval
  /\ CanApprove
  /\ ReadsApproval(c, [status |-> "approved", approver |-> u])

\* DenySession does not ask for the deadline.
DenySession(c) ==
  /\ approval # NoApproval
  /\ CanDeny
  /\ ReadsApproval(c, [approval EXCEPT !.status = "denied"])

MarkApproval(c, from, to) ==
  /\ approval # NoApproval
  /\ approval.status = from
  /\ ReadsApproval(c, [approval EXCEPT !.status = to])

\* A slip: only a denied request is refused.
MarkExecutingUnchecked(c) ==
  /\ approval # NoApproval
  /\ approval.status # "denied"
  /\ ReadsApproval(c, [approval EXCEPT !.status = "executing"])

MarkApprovalExecuting(c)  == MarkApproval(c, "approved", "executing")
MarkApprovalSucceeded(c)  == MarkApproval(c, "executing", "succeeded")
MarkApprovalFailed(c)     == MarkApproval(c, "executing", "failed")
MarkApprovalRolledBack(c) == MarkApproval(c, "failed", "rolled_back")

\* UpdateApproval of the repository: GORM's Save writes every column of the copy.
UpdateApproval(c) ==
  /\ call[c] # NoApproval
  /\ approval' = call[c]
  /\ granted' = granted \cup (IF call[c].status = "approved" THEN {call[c].approver} ELSE {})
  /\ call' = [call EXCEPT ![c] = NoApproval]
  /\ overlapped' = (overlapped \/ BusyCalls # {c})
  /\ UNCHANGED overdue

\* The statement fails, or the service stops: the copy is gone.
UpdateApprovalFails(c) ==
  /\ call[c] # NoApproval
  /\ call' = [call EXCEPT ![c] = NoApproval]
  /\ UNCHANGED <<approval, overdue, granted, overlapped>>

ApprovalPending == approval # NoApproval /\ approval.status = "pending_user"

\* A slip: a status that the service never writes.
WouldExpireDrafts == approval # NoApproval /\ approval.status = "drafted"

\* What ApprovalExpiryWorker and SessionCleanupWorker change: rows that are pending.
WouldExpireApproval == approval # NoApproval /\ approval.status = "pending_user"

WorkerExpiresApproval ==
  /\ overdue
  /\ WouldExpireApproval
  /\ approval' = [approval EXCEPT !.status = "expired"]
  /\ overlapped' = (overlapped \/ BusyCalls # {})
  /\ UNCHANGED <<call, overdue, granted>>

ApprovalLapses ==
  /\ approval # NoApproval
  /\ ~overdue
  /\ overdue' = TRUE
  /\ UNCHANGED <<approval, call, granted, overlapped>>

ApprovalNext ==
  \/ CreateApprovalRequest
  \/ \E c \in Calls :
       \/ ApproveTooLate(c)
       \/ \E u \in Approvers : ApproveSession(c, u)
       \/ DenySession(c)
       \/ MarkApprovalExecuting(c)
       \/ MarkApprovalSucceeded(c)
       \/ MarkApprovalFailed(c)
       \/ MarkApprovalRolledBack(c)
       \/ UpdateApproval(c)
       \/ UpdateApprovalFails(c)
  \/ WorkerExpiresApproval
  \/ ApprovalLapses

ApprovalSpec == ApprovalInit /\ [][ApprovalNext]_approvalVars

\* The workers tick for ever, and time goes on.
ApprovalFairness == WF_approvalVars(WorkerExpiresApproval) /\ WF_approvalVars(ApprovalLapses)

ApprovalFairSpec == ApprovalSpec /\ ApprovalFairness

-----------------------------------------------------------------------------

\* Whatever overlaps, fails or is repeated, a request that is reported as being
\* executed, or further, was approved by the user it names (session_service.go:284:
\* only an approved request is marked executing, from a copy read before).
ExecutedWasGranted ==
  approval # NoApproval /\ approval.status \in StartedStatuses => approval.approver \in granted

\* As long as calls do not overlap, the row only moves as CanTransitionTo declares,
\* but for ApproveSession on an overdue request, which closes it from any status
\* (session_service.go:142).
MovesAsDeclared ==
  [][(approval # NoApproval /\ approval'.status # approval.status /\ ~overlapped')
       => \/ CanTransitionTo(approval.status, approval'.status)
          \/ overdue /\ approval'.status = "expired"]_approvalVars

\* No request waits for a user for ever: it is decided on or the workers expire it.
PendingEnds == ApprovalPending ~> ~ApprovalPending

=============================================================================
