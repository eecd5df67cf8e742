------------------------------ MODULE BatchRun ------------------------------
(***************************************************************************)
(* A batch task of platform-api: one command for all devices of a group,   *)
(* dispatched in waves by a goroutine that waits for each wave, writes the *)
(* progress to the row, and stops when too many devices fail.              *)
(*                                                                         *)
(* A wave is a command task of its own (module CommandTask), seen here     *)
(* only through the executions the run polls: how many devices succeeded,  *)
(* failed, or have not answered.  Every write of the row may fail, and     *)
(* does once the context of the run is cancelled; errors are only logged.  *)
(***************************************************************************)
EXTENDS Naturals

CONSTANTS
  GroupSize,   \* members of the device group
  BatchSize,   \* devices per wave
  Threshold    \* SuccessRateThreshold, in tenths

ASSUME BatchConstants ==
  GroupSize \in Nat \ {0} /\ BatchSize \in Nat \ {0} /\ Threshold \in 0 .. 10

VARIABLES
  batchRow,    \* the row of batch_tasks: status, completed, failed
  runner,      \* the goroutine: where it is, devices dispatched, its two totals
  stop,        \* its entry of pauseControl: "none", "open", "closed" by Cancel, and then
               \* "done", when the context has ended
  wave,        \* executions of the current wave
  late,        \* executions of earlier waves that have not answered
  succeeded    \* history: devices on which the command has succeeded

batchVars == <<batchRow, runner, stop, wave, late, succeeded>>

BatchStatuses ==
  {"none", "pending", "running", "completed", "partial_done", "failed", "paused", "cancelled"}

BatchTypeOK ==
  /\ batchRow \in [status : BatchStatuses, completed : 0 .. GroupSize, failed : 0 .. GroupSize]
  /\ runner \in [at : {"none", "starts", "wave", "waits", "between", "closes", "ended"},
                 next : 0 .. GroupSize, ok : 0 .. GroupSize, bad : 0 .. GroupSize]
  /\ stop \in {"none", "open", "closed", "done"}
  /\ wave \in [ok : 0 .. BatchSize, bad : 0 .. BatchSize, open : 0 .. BatchSize]
  /\ late \in 0 .. GroupSize
  /\ succeeded \in 0 .. GroupSize

NoWave == [ok |-> 0, bad |-> 0, open |-> 0]

BatchInit ==
  /\ batchRow = [status |-> "none", completed |-> 0, failed |-> 0]
  /\ runner = [at |-> "none", next |-> 0, ok |-> 0, bad |-> 0]
  /\ stop = "none"
  /\ wave = NoWave
  /\ late = 0
  /\ succeeded = 0

-----------------------------------------------------------------------------
\* The handlers.

\* The row is created; the run starts if the command that serves as template is found.
CreateBatchTask ==
  /\ runner.at = "none"
  /\ batchRow' = [batchRow EXCEPT !.status = "pending"]
  /\ \/ runner' = [runner EXCEPT !.at = "starts"] /\ stop' = "open"
     \/ runner' = [runner EXCEPT !.at = "ended"] /\ UNCHANGED stop
  /\ UNCHANGED <<wave, late, succeeded>>

CancelBatch ==
  /\ stop = "open"
  /\ stop' = "closed"
  /\ UNCHANGED <<batchRow, runner, wave, late, succeeded>>

\* The goroutine that waits for the channel ends the context of the run.
ContextEnds ==
  /\ stop = "closed"
  /\ stop' = "done"
  /\ UNCHANGED <<batchRow, runner, wave, late, succeeded>>

-----------------------------------------------------------------------------
\* The run.

\* UpdateBatchTask of the run's copy r: not with a context that has ended.
Saves(r) == \/ stop # "done" /\ batchRow' = r
            \/ UNCHANGED batchRow

\* markFinal; the entry of pauseControl goes.
Final(status, ok, bad) ==
  /\ Saves([status |-> status, completed |-> ok, failed |-> bad])
  /\ stop' = IF stop = "open" THEN "none" ELSE stop

\* The members are read again: none left, an error, or the run begins.
StartRun ==
  /\ runner.at = "starts"
  /\ \/ /\ Saves([batchRow EXCEPT !.status = "running"])
        /\ stop # "done"
        /\ runner' = [runner EXCEPT !.at = "wave"]
        /\ UNCHANGED stop
     \/ Final("failed", 0, 0) /\ runner' = [runner EXCEPT !.at = "ended"]
     \/ runner' = [runner EXCEPT !.at = "ended"] /\ UNCHANGED <<batchRow, stop>>
  /\ UNCHANGED <<wave, late, succeeded>>

\* A cancelled run stops between two waves.
StopsRun ==
  /\ runner.at \in {"wave", "between"}
  /\ stop = "done"
  /\ Final("cancelled", runner.ok, runner.bad)
  /\ runner' = [runner EXCEPT !.at = "ended"]
  /\ UNCHANGED <<wave, late, succeeded>>

WaveSize == IF GroupSize - runner.next < BatchSize THEN GroupSize - runner.next ELSE BatchSize

DispatchWave ==
  /\ runner.at = "wave"
  /\ stop # "done"
  /\ wave' = [NoWave EXCEPT !.open = WaveSize]
  /\ runner' = [runner EXCEPT !.at = "waits", !.next = @ + WaveSize]
  /\ UNCHANGED <<batchRow, stop, late, succeeded>>

\* The task of the wave cannot be created or submitted: its devices count as failed, and no
\* other wave follows.
DispatchWaveFails ==
  /\ runner.at = "wave"
  /\ runner' = [runner EXCEPT !.at = "closes", !.bad = @ + WaveSize]
  /\ Saves([batchRow EXCEPT !.completed = runner.ok, !.failed = runner.bad + WaveSize])
  /\ UNCHANGED <<stop, wave, late, succeeded>>

InterBatchDelay ==
  /\ runner.at = "between"
  /\ runner' = [runner EXCEPT !.at = "wave"]
  /\ UNCHANGED <<batchRow, stop, wave, late, succeeded>>

\* A slip: what has not answered in time is not counted at all.
WaveResultsAnswered ==
  IF stop = "done" THEN {[ok |-> 0, bad |-> 0]} ELSE {[ok |-> wave.ok, bad |-> wave.bad]}

\* A slip: no deadline.
WaveResultsWhenAll ==
  {r \in {[ok |-> wave.ok, bad |-> wave.bad]} : wave.open = 0}

\* What waitForBatch returns.  When the wave is overdue, a device that has not answered has
\* failed, and so has every device if the executions cannot be read; with a context that has
\* ended nothing can be read.
WaveResults ==
  LET n == wave.ok + wave.bad + wave.open IN
  IF stop = "done" THEN {[ok |-> 0, bad |-> 0]}
  ELSE {[ok |-> wave.ok, bad |-> wave.bad + wave.open], [ok |-> 0, bad |-> n]}

BelowThreshold(ok, bad) == ok + bad > 0 /\ 10 * ok < Threshold * (ok + bad)

WaveEnds ==
  /\ runner.at = "waits"
  /\ \E r \in WaveResults :
       LET ok == runner.ok + r.ok
           bad == runner.bad + r.bad
       IN IF BelowThreshold(ok, bad)
          THEN /\ Final("paused", ok, bad)
               /\ runner' = [runner EXCEPT !.at = "ended", !.ok = ok, !.bad = bad]
          ELSE /\ Saves([batchRow EXCEPT !.completed = ok, !.failed = bad])
               /\ runner' = [runner EXCEPT !.ok = ok, !.bad = bad,
                              !.at = IF runner.next < GroupSize THEN "between" ELSE "closes"]
               /\ UNCHANGED stop
  /\ wave' = NoWave
  /\ late' = late + wave.open
  /\ UNCHANGED succeeded

CloseRun ==
  /\ runner.at = "closes"
  /\ Final(IF runner.bad = 0 THEN "completed" ELSE IF runner.ok > 0 THEN "partial_done" ELSE "failed",
           runner.ok, runner.bad)
  /\ runner' = [runner EXCEPT !.at = "ended"]
  /\ UNCHANGED <<wave, late, succeeded>>

\* platform-api stops: nothing takes the run up again.
RunIsLost ==
  /\ runner.at \notin {"none", "ended"}
  /\ runner' = [runner EXCEPT !.at = "ended"]
  /\ stop' = "none"
  /\ late' = late + wave.open
  /\ wave' = NoWave
  /\ UNCHANGED <<batchRow, succeeded>>

-----------------------------------------------------------------------------
\* The devices; one that answers after its wave has been counted changes its execution only.

DeviceAnswers ==
  /\ wave.open > 0
  /\ \/ wave' = [wave EXCEPT !.open = @ - 1, !.ok = @ + 1] /\ succeeded' = succeeded + 1
     \/ wave' = [wave EXCEPT !.open = @ - 1, !.bad = @ + 1] /\ UNCHANGED succeeded
  /\ UNCHANGED <<batchRow, runner, stop, late>>

DeviceAnswersLate ==
  /\ late > 0
  /\ late' = late - 1
  /\ succeeded' \in {succeeded, succeeded + 1}
  /\ UNCHANGED <<batchRow, runner, stop, wave>>

BatchNext ==
  \/ CreateBatchTask \/ CancelBatch \/ ContextEnds
  \/ StartRun \/ StopsRun \/ DispatchWave \/ DispatchWaveFails \/ InterBatchDelay
  \/ WaveEnds \/ CloseRun \/ RunIsLost
  \/ DeviceAnswers \/ DeviceAnswersLate

BatchSpec == BatchInit /\ [][BatchNext]_batchVars

RunSteps ==
  StartRun \/ StopsRun \/ DispatchWave \/ DispatchWaveFails \/ InterBatchDelay \/ WaveEnds
    \/ CloseRun

\* The goroutine is scheduled, its sleeps and deadlines pass.  No device has to answer.
BatchFairness == WF_batchVars(RunSteps)

BatchFairSpec == BatchSpec /\ BatchFairness

-----------------------------------------------------------------------------

\* The row claims no success that did not happen, whatever is cancelled, overdue or lost: a
\* batch shown as completed has run on every device (batch_service.go:192-231, 240-277).
CountsAreTrue ==
  /\ batchRow.completed <= succeeded
  /\ batchRow.status = "completed" => succeeded = GroupSize

\* A batch that has begun ends, though its devices may never answer (batch_service.go:267: the
\* deadline of a wave).
RunEnds == runner.at = "starts" ~> runner.at = "ended"

=============================================================================
