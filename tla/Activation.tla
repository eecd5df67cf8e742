----------------------------- MODULE Activation -----------------------------
(***************************************************************************)
(* The activation of one agent: what it keeps in activation.json, what it  *)
(* asks of the platform when it starts and in its background task, and     *)
(* what administrators do to its binding meanwhile.  The platform's side   *)
(* is BindingLife, which DeviceBinding implements.                         *)
(*                                                                         *)
(* The background task is chosen once per start: a heartbeat for an agent  *)
(* that is activated, a poll for one in manual mode, otherwise none.       *)
(***************************************************************************)
EXTENDS BindingLife

VARIABLES
  mode,        \* activation_mode of the package it was installed from, "none" before
  activated,   \* its activation.json says so
  task,        \* "off", "boots", or the task it runs: "heartbeats", "polls", "idle"
  known        \* the platform has its code in pending_devices

activationVars == <<row, mode, activated, task, known>>

ActivationTypeOK ==
  /\ row \in {"none", "active", "revoked"}
  /\ mode \in {"none", "auto", "manual", "both"}
  /\ activated \in BOOLEAN
  /\ task \in {"off", "boots", "heartbeats", "polls", "idle"}
  /\ known \in BOOLEAN

ActivationInit ==
  /\ LifeInit
  /\ mode = "none"
  /\ activated = FALSE
  /\ task = "off"
  /\ known = FALSE

-----------------------------------------------------------------------------
\* The agent.

Install ==
  /\ mode = "none"
  /\ mode' \in {"auto", "manual", "both"}
  /\ UNCHANGED <<row, activated, task, known>>

\* Started or restarted; the file is all that is left of the last run.
StartAgent ==
  /\ mode # "none"
  /\ task' = "boots"
  /\ UNCHANGED <<row, mode, activated, known>>

IsActivated ==
  /\ task = "boots"
  /\ activated
  /\ task' = "heartbeats"
  /\ UNCHANGED <<row, mode, activated, known>>

\* The key is accepted and the answer arrives.
ActivateAutoAccepted ==
  /\ task = "boots" /\ ~activated
  /\ mode \in {"auto", "both"}
  /\ Bind
  /\ activated' = TRUE
  /\ task' = "heartbeats"
  /\ known' = FALSE
  /\ UNCHANGED mode

\* The key is accepted, but the answer is lost: the platform has a binding its agent does
\* not know of and will be refused for whenever it tries again.
ActivateAutoUnheard ==
  /\ task = "boots" /\ ~activated
  /\ mode = "auto"
  /\ Bind
  /\ task' = "idle"
  /\ known' = FALSE
  /\ UNCHANGED <<mode, activated>>

\* The device is bound already or was once, the package is full, or nobody answers.
ActivateAutoRejected ==
  /\ task = "boots" /\ ~activated
  /\ mode = "auto"
  /\ task' = "idle"
  /\ UNCHANGED <<row, mode, activated, known>>

\* In mode "both" a rejection, or a lost answer, makes the agent register, and then no task
\* looks for the binding; in manual mode it polls.  A registration that fails is not retried.
RegisterForBinding ==
  /\ task = "boots" /\ ~activated
  /\ mode \in {"manual", "both"}
  /\ (mode = "both" /\ Bind) \/ UNCHANGED row
  /\ known' \in {known, TRUE}
  /\ task' = IF mode = "manual" THEN "polls" ELSE "idle"
  /\ UNCHANGED <<mode, activated>>

\* A slip: the poll stops at the first answer that does not say activated.
CheckStatusOnce ==
  /\ task = "polls"
  /\ activated' = (row = "active")
  /\ task' = IF row = "active" THEN "polls" ELSE "idle"
  /\ UNCHANGED <<row, mode, known>>

CheckStatus ==
  /\ task = "polls"
  /\ ~activated
  /\ row = "active"
  /\ activated' = TRUE
  /\ UNCHANGED <<row, mode, task, known>>

\* What CheckHeartbeat answers, with HTTP 200 and no error.
HeartbeatAnswer == [status |-> IF row = "active" THEN "ok" ELSE "revoked", error |-> ""]

\* SendHeartbeat looks for "revoked" in the error of the answer.
SendHeartbeat ==
  /\ task = "heartbeats"
  /\ activated
  /\ activated' = (HeartbeatAnswer.error # "revoked")
  /\ UNCHANGED <<row, mode, task, known>>

-----------------------------------------------------------------------------
\* Administrators.

BindByAdmin ==
  /\ known
  /\ Bind
  /\ known' = FALSE
  /\ UNCHANGED <<mode, activated, task>>

UnbindByAdmin ==
  /\ Unbind
  /\ UNCHANGED <<mode, activated, task, known>>

DeletePackageOf ==
  /\ Purge
  /\ UNCHANGED <<mode, activated, task, known>>

ActivationNext ==
  \/ Install \/ StartAgent \/ IsActivated
  \/ ActivateAutoAccepted \/ ActivateAutoUnheard \/ ActivateAutoRejected
  \/ RegisterForBinding \/ CheckStatus \/ SendHeartbeat
  \/ BindByAdmin \/ UnbindByAdmin \/ DeletePackageOf

Running == task \notin {"off", "boots"}

ActivationSpec == ActivationInit /\ [][ActivationNext]_activationVars

\* The runtime repeats its task as long as the agent runs.
ActivationFairness == WF_activationVars(CheckStatus) /\ WF_activationVars(SendHeartbeat)

ActivationFairSpec == ActivationSpec /\ ActivationFairness

-----------------------------------------------------------------------------

\* An agent that runs in manual mode learns that it was bound, unless it is stopped or the binding
\* goes meanwhile (bootstrap.go:364: only that mode has the poll).
BoundIsNoticed ==
  (mode = "manual" /\ Running /\ row = "active") ~> (activated \/ ~Running \/ row # "active")

=============================================================================
