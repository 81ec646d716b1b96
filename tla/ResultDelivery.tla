---------------------------- MODULE ResultDelivery ----------------------------
(***************************************************************************)
(* How the end of a gateway job reaches its operation: the callback route  *)
(* (agent-server/src/routes/callbacks.rs), the durable receipts            *)
(* (agent-store/src/store.rs), the tasks of the completion runtime         *)
(* (agent-runtime/src/completion.rs), and what the gateway client accepts  *)
(* as an answer (GatewayClient).                                           *)
(*                                                                         *)
(* Job j is the one the gateway keeps for operation j; event e announces   *)
(* the end of job e.  Strays are jobs of the gateways no operation here    *)
(* submitted.  There is one connection of each kind.  A lease token is     *)
(* named by the task slot that holds it: a slot is free again only when    *)
(* its task has ended.  Submission is reduced to what fixes gateway_job_id,*)
(* see OperationDispatch for the rest.                                     *)
(***************************************************************************)
EXTENDS GatewayClient, FiniteSets

CONSTANTS Ops,       \* operations under submission
          Strays,    \* jobs of others whose callbacks arrive here
          Slots,     \* places for completion tasks, max_concurrent_results of them
          Tolerance, \* callback_tolerance
          MaxFaults  \* bound: crashes, expired leases, failed calls, wrong answers

ASSUME DeliveryAssumption ==
    /\ Ops \cap Strays = {} /\ Ops # {} /\ Strays # {} /\ Null \notin Ops \cup Strays
    /\ IsFiniteSet(Slots) /\ Slots # {} /\ Null \notin Slots
    /\ Tolerance \in Nat /\ MaxFaults \in Nat

Jobs == Ops \cup Strays
Terminal == {"succeeded", "failed", "cancelled", "unknown"}

VARIABLES
    kind,       \* of every job and its operation: llm or execution
    job,        \* the gateways' jobs
    op,         \* rows of session_operations
    due,        \* accepted operations whose next_attempt_at has passed
    receipt,    \* rows of gateway_callback_receipts, by event
    ready,      \* unsettled receipts whose next_attempt_at has passed
    slot,       \* the tasks of the completion runtime
    misnamed,   \* history: operations whose gateway named a job that is not theirs
    faults      \* faults so far, for the bound MaxFaults

vars == <<kind, job, op, due, receipt, ready, slot, misnamed, faults>>

-----------------------------------------------------------------------------
\* A job ends as succeeded, with a failed response (execution only), with an error,
\* cancelled (LLM only) or unknown (execution only).
Ends(k) ==
    {"succeeded", "errored"} \cup (IF k = "llm" THEN {"cancelled"} ELSE {"failed", "unknown"})

OpRow == [status : {"submitting", "accepted"} \cup Terminal,
          job : Jobs \cup {Null},             \* gateway_job_id
          response : Jobs \cup {Null},        \* the request its execution response answers
          holder : Slots \cup {Null}, live : BOOLEAN]

ReceiptRow == [status : {"absent", "pending", "processing", "processed", "blocked"},
               job : Jobs \cup {Null}, matched : BOOLEAN,
               holder : Slots \cup {Null}, live : BOOLEAN]

\* status and response are what a result task has read.
TaskState == [pc : {"free", "match", "finish", "block", "blocking", "poll",
                    "postpone", "complete"},
              item : Jobs \cup {Null}, status : Terminal, response : Jobs \cup {Null}]

FreeSlot == [pc |-> "free", item |-> Null, status |-> "failed", response |-> Null]

TypeOK ==
    /\ kind \in [Jobs -> {"llm", "execution"}]
    /\ job \in [Jobs -> {"none", "running", "errored"} \cup Terminal]
    /\ op \in [Ops -> OpRow]
    /\ receipt \in [Jobs -> ReceiptRow]
    /\ due \subseteq Ops /\ ready \subseteq Jobs
    /\ slot \in [Slots -> TaskState]
    /\ misnamed \subseteq Ops
    /\ faults \in 0..MaxFaults

NoReceipt == [status |-> "absent", job |-> Null, matched |-> FALSE,
              holder |-> Null, live |-> FALSE]

Init ==
    /\ kind \in [Jobs -> {"llm", "execution"}]
    /\ job = [j \in Jobs |-> IF j \in Ops THEN "none" ELSE "succeeded"]
    /\ op = [o \in Ops |-> [status |-> "submitting", job |-> Null, response |-> Null,
                            holder |-> Null, live |-> FALSE]]
    /\ due = {}
    /\ receipt = [e \in Jobs |-> NoReceipt]
    /\ ready = {}
    /\ slot = [s \in Slots |-> FreeSlot]
    /\ misnamed = {}
    /\ faults = 0

Fault == faults < MaxFaults /\ faults' = faults + 1

-----------------------------------------------------------------------------
(* The gateway *)

AdmitJob(o) ==
    /\ job[o] = "none"
    /\ job' = [job EXCEPT ![o] = "running"]
    /\ UNCHANGED <<kind, op, due, receipt, ready, slot, misnamed, faults>>

JobEnds(o, end) ==
    /\ job[o] = "running"
    /\ end \in Ends(kind[o])
    /\ job' = [job EXCEPT ![o] = end]
    /\ UNCHANGED <<kind, op, due, receipt, ready, slot, misnamed, faults>>

StatusOf(end) == IF end = "errored" THEN "failed" ELSE end

\* The document of job j.  All execution jobs run on one machine, in one generation
\* of its runtime: the least that tells them apart.
JobDocument(j) ==
    LET execution == kind[j] = "execution" IN
    [id |-> j,
     status |-> IF job[j] # "running" THEN StatusOf(job[j])
                ELSE IF execution THEN "waiting_response" ELSE "running",
     response |-> IF job[j] \notin {"succeeded", "failed"} THEN Null
                  ELSE [typed |-> TRUE, version |-> ProtocolVersion, request |-> j,
                        generation |-> "generation", succeeded |-> job[j] = "succeeded"],
     error |-> IF job[j] \in {"errored", "unknown"} THEN "complete" ELSE Null,
     machine |-> IF execution THEN "machine" ELSE Null,
     generation |-> IF execution THEN "generation" ELSE Null]

\* A succeeded job that is not j.
Other(j) == CHOOSE x \in Jobs \ {j} : TRUE
ForeignDocument(j) ==
    [id |-> Other(j), status |-> "succeeded",
     response |-> [typed |-> TRUE, version |-> ProtocolVersion, request |-> Other(j),
                   generation |-> "generation", succeeded |-> TRUE],
     error |-> Null, machine |-> "machine", generation |-> "generation"]

\* Wrong answers to a poll of j: unreadable, another job's, or with a field that is
\* wrong.
WrongDocuments(j) ==
    LET doc == JobDocument(j) IN
    {Null, ForeignDocument(j)}
    \cup {[doc EXCEPT !.status = s] : s \in {"succeeded", "queued", "unrecognized"}}
    \cup {[doc EXCEPT !.error = "incomplete"], [doc EXCEPT !.response = Null]}
    \cup (IF kind[j] = "llm" THEN {} ELSE
            {[doc EXCEPT !.machine = x] : x \in {Null, "other machine"}}
            \cup {[doc EXCEPT !.generation = x] : x \in {Null, "other generation"}}
            \cup {[ForeignDocument(j) EXCEPT !.id = j]})

\* The answers o's gateway may give to a submission or a lookup: any of its jobs, or
\* none, under any key, with a status that may not be recognized.
Answers(o) ==
    LET existing == {j \in Jobs : kind[j] = kind[o] /\ job[j] # "none"} IN
    [key : existing \cup {o}, id : existing \cup {Null}, status : {"queued", "unrecognized"}]

-----------------------------------------------------------------------------
(* Acceptance *)

\* record_operation_accepted: no two operations have one job (the unique index on
\* gateway_job_id); the result is looked for after result_check_delay.
RecordOperationAccepted(o, id) ==
    /\ op[o].status = "submitting"
    /\ \A p \in Ops : op[p].job # id
    /\ op' = [op EXCEPT ![o] = [@ EXCEPT !.status = "accepted", !.job = id]]
    /\ UNCHANGED <<kind, job, due, receipt, ready, slot, faults>>

\* The gateway named the job id under the key of o.
Named(o, id) == misnamed' = IF id = o THEN misnamed ELSE misnamed \cup {o}

\* finish_submission, after submit: an acknowledgement carries no key to compare.
AcceptSubmission(o) ==
    \E doc \in Answers(o) :
        /\ Acknowledges(kind[o], doc)
        /\ RecordOperationAccepted(o, doc.id)
        /\ Named(o, doc.id)

\* finish_submission, after find_by_idempotency_key.
AcceptLookup(o) ==
    \E doc \in Answers(o) :
        /\ LookupAdopts(kind[o], o, <<doc>>)
        /\ RecordOperationAccepted(o, doc.id)
        /\ IF doc.key = o THEN Named(o, doc.id) ELSE UNCHANGED misnamed

\* next_attempt_at of an accepted operation passes.
ResultCheckDue(o) ==
    /\ op[o].status = "accepted" /\ o \notin due
    /\ due' = due \cup {o}
    /\ UNCHANGED <<kind, job, op, receipt, ready, slot, misnamed, faults>>

-----------------------------------------------------------------------------
(* Callbacks *)

\* The verifiers of two connections, during the rotation of a secret.
Verifier(k) == [kind |-> k, secrets |-> {"current", "previous"}]

\* The callback of job e: right, or with a field that is wrong.
Callbacks(e) ==
    LET right == [event |-> e, payload |-> e, job |-> e, skew |-> Tolerance,
                  secret |-> "previous", type |-> "job.succeeded", version |-> 2] IN
    {right, [right EXCEPT !.event = Null], [right EXCEPT !.skew = -Tolerance - 1],
     [right EXCEPT !.secret = "retired"], [right EXCEPT !.type = "job.started"]}
    \cup {[right EXCEPT !.event = x] : x \in Jobs \ {e}}

\* receive, record_callback_receipt: a verified callback is recorded once per event
\* and announced; a later one of the same event changes nothing.
RecordCallbackReceipt(e) ==
    /\ job[e] \in Ends(kind[e])
    /\ \E c \in Callbacks(e) :
        /\ Verify(Verifier(kind[e]), kind[e], c, Tolerance)
        /\ receipt[c.event].status = "absent"
        /\ receipt' = [receipt EXCEPT ![c.event] =
                         [NoReceipt EXCEPT !.status = "pending", !.job = c.job]]
        /\ ready' = ready \cup {c.event}
    /\ UNCHANGED <<kind, job, op, due, slot, misnamed, faults>>

\* next_attempt_at of an unsettled receipt passes.
ReceiptRetryDue(e) ==
    /\ receipt[e].status \in {"pending", "processing"} /\ e \notin ready
    /\ ready' = ready \cup {e}
    /\ UNCHANGED <<kind, job, op, due, receipt, slot, misnamed, faults>>

-----------------------------------------------------------------------------
(* Claims; when the runtime makes them is the subject of CompletionLoop *)

\* Mutant of Unleased: an expired lease is not taken over.
NeverLeased(row) == row.holder = Null

\* lease_token IS NULL OR lease_expires_at<=clock_timestamp()
Unleased(row) == row.holder = Null \/ ~row.live

Start(s, pc, item) == slot' = [slot EXCEPT ![s] = [FreeSlot EXCEPT !.pc = pc, !.item = item]]

\* claim_callback_receipt
ClaimCallbackReceipt(s, e) ==
    /\ slot[s].pc = "free"
    /\ e \in ready /\ Unleased(receipt[e])
    /\ receipt' = [receipt EXCEPT ![e] = [@ EXCEPT !.status = "processing",
                                                   !.holder = s, !.live = TRUE]]
    /\ Start(s, "match", e)
    /\ UNCHANGED <<kind, job, op, due, ready, misnamed, faults>>

\* claim_operation, ResultRetrieval
ClaimResult(s, o) ==
    /\ slot[s].pc = "free"
    /\ o \in due /\ Unleased(op[o])
    /\ op' = [op EXCEPT ![o] = [@ EXCEPT !.holder = s, !.live = TRUE]]
    /\ Start(s, "poll", o)
    /\ UNCHANGED <<kind, job, due, receipt, ready, misnamed, faults>>

-----------------------------------------------------------------------------
(* process_receipt *)

GoTo(s, pc) == slot' = [slot EXCEPT ![s] = [@ EXCEPT !.pc = pc]]
Finish(s) == slot' = [slot EXCEPT ![s] = FreeSlot]

\* lock_valid_callback_claim
ValidReceiptClaim(s) ==
    LET r == receipt[slot[s].item] IN r.holder = s /\ r.live

\* Mutant of Mapped: only an operation that still waits for its result counts.
MappedAndWaiting(j) == \E o \in Ops : op[o].job = j /\ op[o].status = "accepted"

\* An operation is mapped to this gateway job.
Mapped(j) == \E o \in Ops : op[o].job = j

\* match_callback_receipt; an unmatched receipt is to be blocked if it is older than
\* unmatched_retention, which any receipt may be.
MatchCallbackReceipt(s) ==
    LET e == slot[s].item IN
    /\ slot[s].pc = "match"
    /\ ValidReceiptClaim(s)
    /\ ready' = ready \ {e}
    /\ IF Mapped(receipt[e].job)
         THEN /\ receipt' = [receipt EXCEPT ![e] = [@ EXCEPT !.matched = TRUE]]
              /\ GoTo(s, "finish")
         ELSE /\ receipt' = [receipt EXCEPT ![e] = [@ EXCEPT !.status = "pending",
                                                   !.holder = Null, !.live = FALSE]]
              /\ GoTo(s, "block") \/ Finish(s)
    /\ UNCHANGED <<kind, job, op, due, misnamed, faults>>

\* complete_callback_receipt: next_attempt_at=LEAST(next_attempt_at, now).
CompleteCallbackReceipt(s) ==
    LET e == slot[s].item IN
    /\ slot[s].pc = "finish"
    /\ ValidReceiptClaim(s)
    /\ due' = due \cup {o \in Ops : op[o].job = receipt[e].job /\ op[o].status = "accepted"}
    /\ receipt' = [receipt EXCEPT ![e] = [@ EXCEPT !.status = "processed",
                                                   !.holder = Null, !.live = FALSE]]
    /\ ready' = ready \ {e}
    /\ Finish(s)
    /\ UNCHANGED <<kind, job, op, misnamed, faults>>

\* Mutant of StillUnmatched: the receipt is not looked at again.
UnmatchedOnce(e) == TRUE

\* status='pending' AND operation_id IS NULL, on the row as it is when written.
StillUnmatched(e) == receipt[e].status = "pending" /\ ~receipt[e].matched

\* block_unmatched_callback_receipt: one statement, whose NOT EXISTS sees the
\* operations as they were when it started.
BlockUnmatchedStarts(s) ==
    /\ slot[s].pc = "block"
    /\ IF Mapped(receipt[slot[s].item].job) THEN Finish(s) ELSE GoTo(s, "blocking")
    /\ UNCHANGED <<kind, job, op, due, receipt, ready, misnamed, faults>>

BlockUnmatched(s) ==
    LET e == slot[s].item IN
    /\ slot[s].pc = "blocking"
    /\ IF StillUnmatched(e)
         THEN /\ receipt' = [receipt EXCEPT ![e] = [@ EXCEPT !.status = "blocked"]]
              /\ ready' = ready \ {e}
         ELSE UNCHANGED <<receipt, ready>>
    /\ Finish(s)
    /\ UNCHANGED <<kind, job, op, due, misnamed, faults>>

StaleReceiptClaim(s) ==
    /\ slot[s].pc \in {"match", "finish"}
    /\ ~ValidReceiptClaim(s)
    /\ Finish(s)
    /\ UNCHANGED <<kind, job, op, due, receipt, ready, misnamed, faults>>

-----------------------------------------------------------------------------
(* process_result *)

ValidResultClaim(s) ==
    LET o == slot[s].item IN op[o].holder = s /\ op[o].live /\ op[o].status = "accepted"

\* process_result_claim, complete_success, complete_failure: what a document leads
\* to.  An execution's identity comes from its stored request.
Decide(s, doc) ==
    LET o == slot[s].item
        valid == /\ ValidJob(kind[o], op[o].job, doc)
                 /\ kind[o] = "execution" =>
                        ValidateExecutionIdentity(doc, "machine", "generation")
    IN slot' = [slot EXCEPT ![s] =
                  IF ~valid THEN [@ EXCEPT !.pc = "postpone"]
                  ELSE IF doc.status \in Pending(kind[o]) THEN [@ EXCEPT !.pc = "postpone"]
                  ELSE [@ EXCEPT !.pc = "complete", !.status = doc.status,
                                 !.response = IF kind[o] = "execution" /\ doc.response # Null
                                                THEN doc.response.request ELSE Null]]

GetJob(s) ==
    /\ slot[s].pc = "poll"
    /\ Decide(s, JobDocument(op[slot[s].item].job))
    /\ UNCHANGED <<kind, job, op, due, receipt, ready, misnamed, faults>>

GetWrongJob(s) ==
    /\ slot[s].pc = "poll"
    /\ Fault
    /\ \E doc \in WrongDocuments(op[slot[s].item].job) : Decide(s, doc)
    /\ UNCHANGED <<kind, job, op, due, receipt, ready, misnamed>>

\* The stored request cannot be read, its connection is not configured, or the call
\* fails.
ResultUnavailable(s) ==
    /\ slot[s].pc = "poll"
    /\ Fault
    /\ GoTo(s, "postpone")
    /\ UNCHANGED <<kind, job, op, due, receipt, ready, misnamed>>

\* record_operation_pending_result, record_operation_retry
PostponeResult(s) ==
    LET o == slot[s].item IN
    /\ slot[s].pc = "postpone"
    /\ ValidResultClaim(s)
    /\ op' = [op EXCEPT ![o] = [@ EXCEPT !.holder = Null, !.live = FALSE]]
    /\ due' = due \ {o}
    /\ Finish(s)
    /\ UNCHANGED <<kind, job, receipt, ready, misnamed, faults>>

\* complete_operation_with_http_status
CompleteOperation(s) ==
    LET o == slot[s].item IN
    /\ slot[s].pc = "complete"
    /\ ValidResultClaim(s)
    /\ op' = [op EXCEPT ![o] = [@ EXCEPT !.status = slot[s].status, !.response = slot[s].response,
                                         !.holder = Null, !.live = FALSE]]
    /\ due' = due \ {o}
    /\ Finish(s)
    /\ UNCHANGED <<kind, job, receipt, ready, misnamed, faults>>

\* The keeper finds the claim lost, or the store refuses it.
StaleResultClaim(s) ==
    /\ slot[s].pc \in {"poll", "postpone", "complete"}
    /\ ~ValidResultClaim(s)
    /\ Finish(s)
    /\ UNCHANGED <<kind, job, op, due, receipt, ready, misnamed, faults>>

-----------------------------------------------------------------------------
(* Failures and time *)

\* A store call of a task fails, its claim stays in the row.
TaskFails(s) ==
    /\ slot[s].pc # "free"
    /\ Fault
    /\ Finish(s)
    /\ UNCHANGED <<kind, job, op, due, receipt, ready, misnamed>>

\* The process dies and starts again.
Restart ==
    /\ Fault
    /\ slot' = [s \in Slots |-> FreeSlot]
    /\ UNCHANGED <<kind, job, op, due, receipt, ready, misnamed>>

Works(x, row) == \E s \in Slots : row.holder = s /\ slot[s].item = x

\* Nobody renews the lease of a task that ended.  A result's lease is renewed while
\* its task works, a receipt's is not: either may expire under a task.
ReceiptLeaseExpires(e) ==
    /\ receipt[e].live
    /\ IF Works(e, receipt[e]) THEN Fault ELSE UNCHANGED faults
    /\ receipt' = [receipt EXCEPT ![e] = [@ EXCEPT !.live = FALSE]]
    /\ UNCHANGED <<kind, job, op, due, ready, slot, misnamed>>

ResultLeaseExpires(o) ==
    /\ op[o].live
    /\ IF Works(o, op[o]) THEN Fault ELSE UNCHANGED faults
    /\ op' = [op EXCEPT ![o] = [@ EXCEPT !.live = FALSE]]
    /\ UNCHANGED <<kind, job, due, receipt, ready, slot, misnamed>>

-----------------------------------------------------------------------------
ReceiptStep(s) ==
    \/ MatchCallbackReceipt(s)
    \/ CompleteCallbackReceipt(s)
    \/ BlockUnmatchedStarts(s)
    \/ BlockUnmatched(s)
    \/ StaleReceiptClaim(s)

ResultStep(s) ==
    \/ GetJob(s)
    \/ PostponeResult(s)
    \/ CompleteOperation(s)
    \/ StaleResultClaim(s)

Environment ==
    \/ \E o \in Ops : AdmitJob(o) \/ AcceptSubmission(o) \/ AcceptLookup(o) \/ ResultCheckDue(o)
    \/ \E o \in Ops : \E end \in Ends(kind[o]) : JobEnds(o, end)
    \/ \E e \in Jobs : RecordCallbackReceipt(e)
    \/ \E e \in Jobs : ReceiptRetryDue(e)
    \/ \E e \in Jobs : ReceiptLeaseExpires(e)
    \/ \E o \in Ops : ResultLeaseExpires(o)
    \/ Restart

Next ==
    \/ Environment
    \/ \E s \in Slots, e \in Jobs : ClaimCallbackReceipt(s, e)
    \/ \E s \in Slots, o \in Ops : ClaimResult(s, o)
    \/ \E s \in Slots : ReceiptStep(s) \/ ResultStep(s)
    \/ \E s \in Slots : GetWrongJob(s) \/ ResultUnavailable(s) \/ TaskFails(s)

Spec == Init /\ [][Next]_vars

\* Tasks go on, time passes, and what is due is claimed, see CompletionLoop.  Nothing
\* is assumed of the gateway: callbacks may never come, jobs may never end.
Fairness ==
    /\ \A s \in Slots : WF_vars(ReceiptStep(s) \/ ResultStep(s))
    /\ \A o \in Ops : SF_vars(\E s \in Slots : ClaimResult(s, o))
    /\ \A e \in Ops : SF_vars(\E s \in Slots : ClaimCallbackReceipt(s, e))
    /\ \A o \in Ops : WF_vars(ResultCheckDue(o)) /\ WF_vars(ResultLeaseExpires(o))
    /\ \A e \in Ops : WF_vars(ReceiptRetryDue(e)) /\ WF_vars(ReceiptLeaseExpires(e))

FairSpec == Spec /\ Fairness

-----------------------------------------------------------------------------
(* Properties *)

\* A receipt names the job its event is about; it ends as processed only when an
\* operation has that job, and as blocked only unmatched, whatever tasks, repeated
\* deliveries and acceptances race for it.  Its status and its lease agree
\* (match_callback_receipt, block_unmatched_callback_receipt).
ReceiptsSettleRightly ==
    /\ TypeOK
    /\ \A e \in Jobs :
        LET r == receipt[e] IN
        /\ r.status # "absent" => r.job = e
        /\ r.matched => Mapped(r.job)
        /\ r.status = "processed" => r.matched
        /\ r.status = "blocked" => ~r.matched
        /\ (r.holder # Null) = (r.status = "processing")

\* An accepted operation has its own job, unless its gateway named another one when
\* it acknowledged the submission or was asked for the operation's key.  It ends
\* only with the status the job it has ended with, and a response it keeps answers
\* that job's request, although answers get mixed up and tasks with expired claims
\* finish late (find_by_idempotency_key, get_job, validate_execution_response,
\* process_result_claim).
OutcomeIsAuthoritative ==
    \A o \in Ops :
        LET j == op[o].job IN
        /\ op[o].status = "submitting" \/ j = o \/ o \in misnamed
        /\ op[o].status \in Terminal =>
            /\ job[j] \in Ends(kind[o]) /\ op[o].status = StatusOf(job[j])
            /\ op[o].response = IF kind[o] = "execution" /\ job[j] \in {"succeeded", "failed"}
                                  THEN j ELSE Null

\* Once its job has ended an accepted operation ends, with or without a callback,
\* and however many unmatched receipts keep coming back (claim_next).
EveryResultArrives ==
    \A o \in Ops : op[o].status = "accepted" /\ op[o].job = o /\ job[o] \in Ends(kind[o])
                     ~> op[o].status \in Terminal

\* The receipt of an operation accepted with its job is settled, although its callback
\* may have come before the acceptance (match_callback_receipt).
CallbacksSettle ==
    \A o \in Ops : op[o].status = "accepted" /\ op[o].job = o /\ receipt[o].status # "absent"
                     ~> receipt[o].status \in {"processed", "blocked"}
=============================================================================
