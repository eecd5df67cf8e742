----------------------------- MODULE AuditTrail -----------------------------
(***************************************************************************)
(* The way of an audit event: the agent queues it, sends the queue as a    *)
(* batch every fifteen seconds and once more when it is told to stop;      *)
(* platform-api inserts the rows of a batch in one statement; job-runner   *)
(* writes rows that are old enough to an archive, marks them, and does so  *)
(* batch by batch.                                                         *)
(*                                                                         *)
(* A batch whose sending fails goes back in front of the queue, whether or *)
(* not the platform has inserted it: an event may have several rows.  A    *)
(* batch the platform refuses is dropped.  There is one job-runner.        *)
(***************************************************************************)
EXTENDS Naturals, SequencesExt

CONSTANTS
  MaxEvents,  \* bound of the model: events the agent reports, numbered in their order
  MaxSends,   \* bound of the model: batches sent
  BatchRows   \* batchSize of the archive, 1000 in the code

ASSUME AuditConstants == MaxEvents \in Nat /\ MaxSends \in Nat /\ BatchRows \in Nat \ {0}

Events == 1 .. MaxEvents

VARIABLES
  agentIs,   \* of the agent: "up", "stopping", "down"
  flusher,   \* its flush loop: "waits", "sends", or "gone" after the last flush
  queue,     \* events queued
  batch,     \* the events of the flush that is under way
  eventsReported,  \* how many events were reported
  sends,     \* how many batches were sent
  refused,   \* history: events of batches the platform refused
  dropped,   \* history: events that were queued or being sent when the process ended
  rows,      \* audit_events, in the order of their insertion: event and archived
  archiver,  \* what the archiving of a batch does next
  picked,    \* the rows it has read
  archive    \* rows contained in an archive that was written

auditVars == <<agentIs, flusher, queue, batch, eventsReported, sends, refused, dropped, rows, archiver,
               picked, archive>>

AuditTypeOK ==
  /\ agentIs \in {"up", "stopping", "down"}
  /\ flusher \in {"waits", "sends", "gone"}
  /\ queue \in Seq(Events) /\ batch \in Seq(Events)
  /\ eventsReported \in 0 .. MaxEvents /\ sends \in 0 .. MaxSends
  /\ refused \subseteq Events /\ dropped \subseteq Events
  /\ rows \in Seq([event : Events, archived : BOOLEAN])
  /\ archiver \in {"waits", "writes", "falls_back", "marks"}
  /\ picked \subseteq DOMAIN rows /\ archive \subseteq DOMAIN rows

AuditInit ==
  /\ agentIs = "up" /\ flusher = "waits"
  /\ queue = <<>> /\ batch = <<>> /\ rows = <<>>
  /\ eventsReported = 0 /\ sends = 0
  /\ refused = {} /\ dropped = {} /\ picked = {} /\ archive = {}
  /\ archiver = "waits"

-----------------------------------------------------------------------------
\* The agent.

ReportEvent ==
  /\ agentIs # "down"
  /\ eventsReported < MaxEvents
  /\ eventsReported' = eventsReported + 1
  /\ queue' = Append(queue, eventsReported')
  /\ UNCHANGED <<agentIs, flusher, batch, sends, refused, dropped, rows, archiver, picked, archive>>

BeginFlush ==
  /\ agentIs # "down"
  /\ flusher = "waits"
  /\ queue # <<>>
  /\ sends < MaxSends
  /\ flusher' = "sends"
  /\ batch' = queue
  /\ queue' = <<>>
  /\ sends' = sends + 1
  /\ UNCHANGED <<agentIs, eventsReported, refused, dropped, rows, archiver, picked, archive>>

\* BulkCreate: all rows of the batch, or none.
InsertRows == rows' = rows \o [i \in DOMAIN batch |-> [event |-> batch[i], archived |-> FALSE]]

\* After the flush that follows the end of the context the loop returns.
FlushReturns ==
  /\ flusher = "sends"
  /\ flusher' \in IF agentIs = "stopping" THEN {"waits", "gone"} ELSE {"waits"}
  /\ batch' = <<>>

FlushAccepted ==
  /\ FlushReturns
  /\ InsertRows
  /\ UNCHANGED <<agentIs, queue, eventsReported, sends, refused, dropped, archiver, picked, archive>>

\* Any other status: the insertion has failed, or the token is not accepted.
FlushRefused ==
  /\ FlushReturns
  /\ refused' = refused \cup Range(batch)
  /\ UNCHANGED <<agentIs, queue, eventsReported, sends, dropped, rows, archiver, picked, archive>>

\* A slip: the batch is not put back.
FlushFailsDropping ==
  /\ FlushReturns
  /\ (InsertRows \/ UNCHANGED rows)
  /\ UNCHANGED <<agentIs, queue, eventsReported, sends, refused, dropped, archiver, picked, archive>>

\* The request times out or the connection breaks, before or after the insertion.
FlushFails ==
  /\ FlushReturns
  /\ queue' = batch \o queue
  /\ (InsertRows \/ UNCHANGED rows)
  /\ UNCHANGED <<agentIs, eventsReported, sends, refused, dropped, archiver, picked, archive>>

ShutDownAgent ==
  /\ agentIs = "up"
  /\ agentIs' = "stopping"
  /\ UNCHANGED <<flusher, queue, batch, eventsReported, sends, refused, dropped, rows, archiver, picked,
                 archive>>

\* Nothing waits for the flush loop; the process may be killed as well.
ProcessEnds ==
  /\ agentIs # "down"
  /\ agentIs' = "down"
  /\ dropped' = dropped \cup Range(queue) \cup Range(batch)
  /\ queue' = <<>>
  /\ batch' = <<>>
  /\ flusher' = "gone"
  /\ UNCHANGED <<eventsReported, sends, refused, rows, archiver, picked, archive>>

StartAgentAgain ==
  /\ agentIs = "down"
  /\ agentIs' = "up"
  /\ flusher' = "waits"
  /\ UNCHANGED <<queue, batch, eventsReported, sends, refused, dropped, rows, archiver, picked, archive>>

-----------------------------------------------------------------------------
\* The archive of job-runner.

Unarchived == {n \in DOMAIN rows : ~rows[n].archived}

\* The oldest rows, no more than a batch.
SelectRows ==
  /\ archiver = "waits"
  /\ Unarchived # {}
  /\ picked' = {n \in Unarchived : Cardinality({m \in Unarchived : m < n}) < BatchRows}
  /\ archiver' = "writes"
  /\ UNCHANGED <<agentIs, flusher, queue, batch, eventsReported, sends, refused, dropped, rows, archive>>

WritesArchive ==
  /\ archive' = archive \cup picked
  /\ archiver' = "marks"

UploadArchive ==
  /\ archiver = "writes"
  /\ WritesArchive
  /\ UNCHANGED <<agentIs, flusher, queue, batch, eventsReported, sends, refused, dropped, rows, picked>>

UploadArchiveFails ==
  /\ archiver = "writes"
  /\ archiver' = "falls_back"
  /\ UNCHANGED <<agentIs, flusher, queue, batch, eventsReported, sends, refused, dropped, rows, picked,
                 archive>>

WriteLocal ==
  /\ archiver = "falls_back"
  /\ WritesArchive
  /\ UNCHANGED <<agentIs, flusher, queue, batch, eventsReported, sends, refused, dropped, rows, picked>>

\* Nothing is marked; the next run reads the rows again.  So does it when the process ends.
ArchiveFails ==
  /\ archiver # "waits"
  /\ archiver' = "waits"
  /\ picked' = {}
  /\ UNCHANGED <<agentIs, flusher, queue, batch, eventsReported, sends, refused, dropped, rows, archive>>

MarkArchived ==
  /\ archiver = "marks"
  /\ rows' = [n \in DOMAIN rows |-> IF n \in picked THEN [rows[n] EXCEPT !.archived = TRUE]
                                    ELSE rows[n]]
  /\ archiver' = "waits"
  /\ picked' = {}
  /\ UNCHANGED <<agentIs, flusher, queue, batch, eventsReported, sends, refused, dropped, archive>>

AuditNext ==
  \/ ReportEvent \/ BeginFlush \/ FlushAccepted \/ FlushRefused \/ FlushFails
  \/ ShutDownAgent \/ ProcessEnds \/ StartAgentAgain
  \/ SelectRows \/ UploadArchive \/ UploadArchiveFails \/ WriteLocal \/ ArchiveFails
  \/ MarkArchived

AuditSpec == AuditInit /\ [][AuditNext]_auditVars

-----------------------------------------------------------------------------

\* Every event is still on its way or has its row, unless the platform refused its batch or the
\* process ended over it; first rows come in the order of the events; and a row leaves the
\* default listing, archived, only when an archive holds it (client.go Flush, audit_flush.go
\* flush).
AuditKept ==
  LET Stored == {rows[n].event : n \in DOMAIN rows}
  IN  /\ 1 .. eventsReported \subseteq Range(queue) \cup Range(batch) \cup Stored \cup refused \cup dropped
      /\ \A e \in Stored : \A d \in 1 .. e :
           \/ d \in refused \cup dropped
           \/ \E n \in DOMAIN rows : rows[n].event = d /\ \A m \in 1 .. n : rows[m].event <= d
      /\ DOMAIN rows \ Unarchived \subseteq archive

=============================================================================
