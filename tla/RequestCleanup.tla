---------------------------- MODULE RequestCleanup ----------------------------
(***************************************************************************)
(* The request cleanup worker (agent-runtime/src/request_cleanup.rs) and   *)
(* its two store calls (agent-store/src/store.rs).                         *)
(*                                                                         *)
(* A request expires request_retention after its operation ended, so a     *)
(* request that becomes a candidate has the latest expires_at of all: the  *)
(* candidates form a sequence that grows at its end, and the cursor is the *)
(* number of remaining candidates up to it.  An ID may come back as the    *)
(* request of another operation.                                           *)
(***************************************************************************)
EXTENDS Integers, Sequences, FiniteSets

CONSTANTS Requests,  \* rows of session_operation_requests
          BatchSize, \* batch_size
          MaxFaults  \* bound: rows in use, failed calls, removals by another process

VARIABLES
    stop,     \* the CancellationToken of the process
    expired,  \* candidates, by expires_at and ID
    inUse,    \* those whose session or row another transaction has locked
    cursor,   \* 0 is None
    batch,    \* candidates that are still to be deleted
    cleaner,  \* run
    faults    \* faults so far, for the bound MaxFaults

vars == <<stop, expired, inUse, cursor, batch, cleaner, faults>>

Candidates == {expired[i] : i \in DOMAIN expired}

TypeOK ==
    /\ stop \in BOOLEAN
    /\ expired \in Seq(Requests) /\ Cardinality(Candidates) = Len(expired)
    /\ inUse \subseteq Requests
    /\ cursor \in 0..Len(expired)
    /\ batch \in Seq(Requests) /\ Len(batch) <= BatchSize
    /\ cleaner \in {"scan", "delete", "sleep", "ended"}
    /\ faults \in 0..MaxFaults

Init ==
    /\ stop = FALSE
    /\ expired = <<>> /\ inUse = {}
    /\ cursor = 0 /\ batch = <<>>
    /\ cleaner = "scan"
    /\ faults = 0

Fault == faults < MaxFaults /\ faults' = faults + 1

-----------------------------------------------------------------------------
RequestExpires(r) ==
    /\ r \notin Candidates /\ \A i \in DOMAIN batch : batch[i] # r
    /\ expired' = Append(expired, r)
    /\ UNCHANGED <<stop, inUse, cursor, batch, cleaner, faults>>

RequestUsed(r) ==
    /\ r \notin inUse
    /\ inUse' = inUse \cup {r}
    /\ Fault
    /\ UNCHANGED <<stop, expired, cursor, batch, cleaner>>

RequestReleased(r) ==
    /\ r \in inUse
    /\ inUse' = inUse \ {r}
    /\ UNCHANGED <<stop, expired, cursor, batch, cleaner, faults>>

-----------------------------------------------------------------------------
\* The next batch_size candidates after the cursor.
NextBatch ==
    LET last == cursor + BatchSize IN
    SubSeq(expired, cursor + 1, IF last < Len(expired) THEN last ELSE Len(expired))

\* expired_operation_request_candidates; after an empty scan the next one starts over.
Scan ==
    /\ cleaner = "scan" /\ ~stop
    /\ batch' = NextBatch
    /\ cursor' = IF batch' = <<>> THEN 0 ELSE cursor + Len(batch')
    /\ cleaner' = IF batch' = <<>> THEN "sleep" ELSE "delete"
    /\ UNCHANGED <<stop, expired, inUse, faults>>

\* The scan fails: the cursor stays.
CleanupScanFails ==
    /\ cleaner = "scan" /\ ~stop
    /\ cleaner' = "sleep"
    /\ Fault
    /\ UNCHANGED <<stop, expired, inUse, cursor, batch>>

-----------------------------------------------------------------------------
(* delete_expired_operation_request *)

NextOfBatch ==
    /\ cleaner = "delete" /\ ~stop
    /\ batch' = Tail(batch)
    /\ cleaner' = IF Len(batch) = 1 THEN "sleep" ELSE "delete"

Remove(r) ==
    /\ expired' = SelectSeq(expired, LAMBDA x : x # r)
    /\ cursor' = IF \E i \in 1..cursor : expired[i] = r THEN cursor - 1 ELSE cursor

DeleteRequest ==
    /\ NextOfBatch
    /\ Head(batch) \in Candidates \ inUse
    /\ Remove(Head(batch))
    /\ UNCHANGED <<stop, inUse, faults>>

\* Its session or row is locked, or it is gone.
SkipRequest ==
    /\ NextOfBatch
    /\ Head(batch) \notin Candidates \ inUse
    /\ UNCHANGED <<stop, expired, inUse, cursor, faults>>

\* The other candidates of the batch are still tried.
DeletionFails ==
    /\ NextOfBatch
    /\ Fault
    /\ UNCHANGED <<stop, expired, inUse, cursor>>

\* The worker of another process removes the request.
RemovedElsewhere(r) ==
    /\ r \in Candidates \ inUse
    /\ Remove(r)
    /\ Fault
    /\ UNCHANGED <<stop, inUse, batch, cleaner>>

-----------------------------------------------------------------------------
(* RequestCleanupWorker::run *)

\* poll_interval passes, or no time at all after a full batch.
CleanupWakes ==
    /\ cleaner = "sleep"
    /\ cleaner' = "scan"
    /\ UNCHANGED <<stop, expired, inUse, cursor, batch, faults>>

\* The rest of the batch is left.
CleanupStops ==
    /\ stop
    /\ cleaner \in {"scan", "delete", "sleep"}
    /\ cleaner' = "ended" /\ batch' = <<>>
    /\ UNCHANGED <<stop, expired, inUse, cursor, faults>>

\* The process stops its loops.
Cancel ==
    /\ ~stop
    /\ stop' = TRUE
    /\ UNCHANGED <<expired, inUse, cursor, batch, cleaner, faults>>

-----------------------------------------------------------------------------
Step == Scan \/ DeleteRequest \/ SkipRequest \/ CleanupWakes

Next ==
    \/ Step \/ CleanupScanFails \/ DeletionFails
    \/ CleanupStops \/ Cancel
    \/ \E r \in Requests :
        RequestExpires(r) \/ RequestUsed(r) \/ RequestReleased(r) \/ RemovedElsewhere(r)

\* The worker goes on, and a transaction that uses a request ends.
Fairness ==
    /\ WF_vars(Step)
    /\ SF_vars(CleanupStops)
    /\ \A r \in Requests : WF_vars(RequestReleased(r))

FairSpec == Init /\ [][Next]_vars /\ Fairness

-----------------------------------------------------------------------------
\* The README: cleanup "skips locked work on the current sweep, and revisits it
\* later".  Every expired request is removed, unless the worker stops, although it
\* was in use when its turn came and other requests keep expiring
\* (process_batch_inner).
SkippedRequestIsRevisited ==
    \A r \in Requests : r \in Candidates ~> r \notin Candidates \/ cleaner = "ended"
=============================================================================
