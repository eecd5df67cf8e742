---------------------------- MODULE PackageBuild ----------------------------
(***************************************************************************)
(* The build of one download package: platform-api stores the package with *)
(* a queued job, an instance of job-runner claims the job, assembles the   *)
(* archive, uploads it and marks the package ready.  A build that fails is *)
(* queued again until its attempts are used up.                            *)
(*                                                                         *)
(* Only the claim is a transaction.  Every other write is a statement of   *)
(* its own whose error is dropped, made with the context of the worker: an *)
(* instance that stops loses what it had not written.                      *)
(***************************************************************************)
EXTENDS Naturals, FiniteSets

CONSTANTS
  Builders,     \* instances of job-runner; each has one build worker
  MaxAttempts   \* max_attempts of the job

ASSUME BuildConstants == MaxAttempts \in Nat \ {0} /\ IsFiniteSet(Builders)

VARIABLES
  pkg,       \* status of the row of download_packages, or "none", "deleted"
  job,       \* its row of jobs: status and attempt_count
  stored,    \* the archive is in the object store
  build,     \* per instance: what its build does next
  stranded   \* history: an instance stopped, or hung, or could not conclude its job

buildVars == <<pkg, job, stored, build, stranded>>

PackageStatuses == {"none", "pending", "building", "ready", "failed", "expired", "deleted"}

BuildTypeOK ==
  /\ pkg \in PackageStatuses
  /\ job \in [status : {"none", "queued", "running", "completed", "failed"},
              attempts : 0 .. MaxAttempts]
  /\ stored \in BOOLEAN
  /\ build \in [Builders -> {"idle", "starts", "loads", "uploads", "marks", "done", "failed",
                             "hung"}]
  /\ stranded \in BOOLEAN

BuildInit ==
  /\ pkg = "none"
  /\ job = [status |-> "none", attempts |-> 0]
  /\ stored = FALSE
  /\ build = [b \in Builders |-> "idle"]
  /\ stranded = FALSE

Exists == pkg \notin {"none", "deleted"}

\* A statement on the package: it changes the row if there is one, or it fails and that goes
\* unnoticed.
Sets(status) == pkg' \in IF Exists THEN {pkg, status} ELSE {pkg}

At(b, here, there) == build[b] = here /\ build' = [build EXCEPT ![b] = there]

-----------------------------------------------------------------------------
\* platform-api.

\* The package and its job are inserted in one transaction.
CreatePackage ==
  /\ pkg = "none"
  /\ pkg' = "pending"
  /\ job' = [job EXCEPT !.status = "queued"]
  /\ UNCHANGED <<stored, build, stranded>>

\* Neither the job nor the archive goes with the package.
DeletePackage ==
  /\ Exists
  /\ pkg' = "deleted"
  /\ UNCHANGED <<job, stored, build, stranded>>

\* LinkCleanupWorker: a package that has waited thirty days.
ExpirePackage ==
  /\ pkg = "pending"
  /\ pkg' = "expired"
  /\ UNCHANGED <<job, stored, build, stranded>>

-----------------------------------------------------------------------------
\* The build worker.

\* A slip: only a job nobody has tried yet is found.
ClaimJobOnce(b) ==
  /\ job = [status |-> "queued", attempts |-> 0]
  /\ At(b, "idle", "starts")
  /\ job' = [status |-> "running", attempts |-> job.attempts + 1]
  /\ UNCHANGED <<pkg, stored, stranded>>

\* The row is locked from the SELECT to the UPDATE; a locked row is skipped.
ClaimJob(b) ==
  /\ job.status = "queued"
  /\ At(b, "idle", "starts")
  /\ job' = [status |-> "running", attempts |-> job.attempts + 1]
  /\ UNCHANGED <<pkg, stored, stranded>>

StartBuild(b) ==
  /\ At(b, "starts", "loads")
  /\ Sets("building")
  /\ UNCHANGED <<job, stored, stranded>>

\* The installer, or the raw program where the platform allows that, is read.
LoadBase(b) ==
  /\ At(b, "loads", "uploads")
  /\ UNCHANGED <<pkg, job, stored, stranded>>

LoadBaseFails(b) ==
  /\ At(b, "loads", "failed")
  /\ UNCHANGED <<pkg, job, stored, stranded>>

\* A slip: the error of the upload is logged.
UploadFailsOn(b) ==
  /\ At(b, "uploads", "marks")
  /\ UNCHANGED <<pkg, job, stored, stranded>>

\* The archive is written through a pipe; closing the pipe with the error of the archive makes
\* the upload fail too.
Upload(b) ==
  /\ At(b, "uploads", "marks")
  /\ stored' = TRUE
  /\ UNCHANGED <<pkg, job, stranded>>

UploadFails(b) ==
  /\ At(b, "uploads", "failed")
  /\ UNCHANGED <<pkg, job, stored, stranded>>

\* The store refuses before it has read anything: nobody reads the pipe any more, and the
\* writer of the archive waits for ever, with it the only worker of the instance.
UploadHangs(b) ==
  /\ At(b, "uploads", "hung")
  /\ stranded' = TRUE
  /\ UNCHANGED <<pkg, job, stored>>

\* markReady returns the error of its statement; a row that is gone is no error.
MarkReady(b) ==
  /\ At(b, "marks", "done")
  /\ pkg' = IF Exists THEN "ready" ELSE pkg
  /\ UNCHANGED <<job, stored, stranded>>

\* The statement fails, or its answer does not come.
MarkReadyFails(b) ==
  /\ At(b, "marks", "failed")
  /\ Sets("ready")
  /\ UNCHANGED <<job, stored, stranded>>

CompleteJob(b) ==
  /\ At(b, "done", "idle")
  /\ job' = [job EXCEPT !.status = "completed"]
  /\ UNCHANGED <<pkg, stored, stranded>>

\* A slip: one attempt more than the job has.
RetriesLeftOnce == job.attempts <= MaxAttempts

RetriesLeft == job.attempts < MaxAttempts

\* The package stays "building" until the next attempt.
RequeueJob(b) ==
  /\ RetriesLeft
  /\ At(b, "failed", "idle")
  /\ job' = [job EXCEPT !.status = "queued"]
  /\ UNCHANGED <<pkg, stored, stranded>>

FailJob(b) ==
  /\ ~RetriesLeft
  /\ At(b, "failed", "idle")
  /\ job' = [job EXCEPT !.status = "failed"]
  /\ Sets("failed")
  /\ UNCHANGED <<stored, stranded>>

\* The statement that concludes the job fails and nothing tries it again; FailJob's second
\* statement may still be carried out.
ConclusionIsLost(b) ==
  /\ \/ At(b, "done", "idle") /\ UNCHANGED pkg
     \/ At(b, "failed", "idle") /\ (IF RetriesLeft THEN UNCHANGED pkg ELSE Sets("failed"))
  /\ stranded' = TRUE
  /\ UNCHANGED <<job, stored>>

\* The instance is shut down or killed, and started again.
RunnerStops(b) ==
  /\ build[b] # "idle"
  /\ build' = [build EXCEPT ![b] = "idle"]
  /\ stranded' = TRUE
  /\ UNCHANGED <<pkg, job, stored>>

BuilderSteps(b) ==
  \/ ClaimJob(b) \/ StartBuild(b) \/ LoadBase(b) \/ LoadBaseFails(b)
  \/ Upload(b) \/ UploadFails(b) \/ UploadHangs(b) \/ MarkReady(b) \/ MarkReadyFails(b)
  \/ CompleteJob(b) \/ RequeueJob(b) \/ FailJob(b) \/ ConclusionIsLost(b)

BuildNext ==
  \/ CreatePackage \/ DeletePackage \/ ExpirePackage
  \/ \E b \in Builders : BuilderSteps(b) \/ RunnerStops(b)

BuildSpec == BuildInit /\ [][BuildNext]_buildVars

\* The worker polls every three seconds; its calls return, but for a hung upload.
BuildFairness == \A b \in Builders : WF_buildVars(BuilderSteps(b))

BuildFairSpec == BuildSpec /\ BuildFairness

-----------------------------------------------------------------------------

\* A package is offered, and a job reported as completed, only when the archive is in the store:
\* whatever attempt failed, was repeated or was cut off, and whoever deleted or expired the
\* package meanwhile (package_build.go buildPackage, markReady).
ReadyIsUploaded == pkg = "ready" \/ job.status = "completed" => stored

\* A job that is queued comes to an end, with at most MaxAttempts attempts, unless an instance
\* stopped or hung in the middle or could not write the end down: only then does it stay
\* "running" for ever (package_build.go processNext: nothing claims a running job again).
BuildSettles == job.status = "queued" ~> (job.status \in {"completed", "failed"} \/ stranded)

=============================================================================
