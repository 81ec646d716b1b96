------------------------- MODULE OperationDispatch --------------------------
(***************************************************************************)
(* The durable operations of one session and the tasks that carry them to  *)
(* the gateways and back: submission, cancellation and withdrawal          *)
(* (agent-runtime/src/dispatch.rs), result retrieval                       *)
(* (agent-runtime/src/completion.rs), and the store transactions they use  *)
(* (agent-store/src/store.rs).                                             *)
(*                                                                         *)
(* Every transaction locks the session row first and the operation row     *)
(* next and decides on what it reads under the locks, so each is one       *)
(* action.  Reads outside a transaction (the parent of a continuation, the *)
(* target of a cancellation) and HTTP calls are actions of their own.      *)
(*                                                                         *)
(* A lease is live until it expires, an operation is due once its          *)
(* next_attempt_at has passed.  A lease token is a value nobody holds any  *)
(* more; the attempt it opened is named by it, and finished attempts are   *)
(* forgotten.  The gateway, external, keeps one job per idempotency key    *)
(* and never revises a finished job.  A request whose answer nobody awaits *)
(* is late: it may be lost, arrive, or arrive again.                       *)
(***************************************************************************)
EXTENDS Integers, FiniteSets

CONSTANTS Ops,       \* operations a handler may create
          NoOp,      \* no reference
          Kind,      \* Kind[o]: operation kind
          Ref,       \* Ref[o]: previous_operation_id or target_operation_id
          Tasks,     \* dispatch and completion tasks
          Tokens,    \* lease tokens
          NoToken,   \* SQL NULL
          MaxFaults  \* bound: crashes, lost leases, failed calls

Kinds == {"llm", "execution", "llm_cancellation", "withdraw"}

ASSUME FaultsAssumption == MaxFaults \in Nat
ASSUME NamesAssumption == NoOp \notin Ops /\ NoToken \notin Tokens

\* What validate_references and the table's CHECKs admit.
ASSUME ReferenceAssumption ==
    /\ Kind \in [Ops -> Kinds] /\ Ref \in [Ops -> Ops \cup {NoOp}]
    /\ \A o \in Ops :
        /\ Ref[o] # o
        /\ Kind[o] = "execution" => Ref[o] = NoOp
        /\ Kind[o] = "withdraw" => Ref[o] \in Ops
        /\ Kind[o] = "llm_cancellation" => Ref[o] \in Ops
        /\ Kind[o] \in {"llm", "llm_cancellation"} /\ Ref[o] # NoOp => Kind[Ref[o]] = "llm"

VARIABLES
    op,        \* rows of session_operations
    running,   \* running[o]: tokens of its attempts with status 'running'
    events,    \* events[o]: operation_completed events inserted for o
    task,      \* dispatch and completion tasks
    job,       \* the gateway's job for idempotency key o
    asked,     \* operations whose job the gateway was asked to cancel
    late,      \* operations with a request on the way that nobody awaits
    faults     \* faults so far, for the bound MaxFaults

vars == <<op, running, events, task, job, asked, late, faults>>
gateway == <<job, asked, late>>

-----------------------------------------------------------------------------
Terminal == {"succeeded", "failed", "cancelled", "unknown"}
Open == {"pending", "submitting", "accepted"}

OpRow == [status : {"absent"} \cup Open \cup Terminal, due : BOOLEAN,
          mapped : BOOLEAN,                    \* gateway_job_id IS NOT NULL
          token : Tokens \cup {NoToken}, live : BOOLEAN]

\* recovering is claim.recovering_uncertain; uncertain and outcome are the
\* argument of the store call the task is about to make.
TaskState == [pc : {"idle", "check", "lookup", "sent", "poll", "withdraw", "defer",
                    "accept", "retry", "postpone", "complete"},
              phase : {"submission", "result_retrieval", "cancellation", "withdrawal"},
              op : Ops \cup {NoOp}, token : Tokens \cup {NoToken},
              recovering : BOOLEAN, uncertain : BOOLEAN, outcome : Terminal]

IdleTask == [pc |-> "idle", phase |-> "submission", op |-> NoOp, token |-> NoToken,
             recovering |-> FALSE, uncertain |-> FALSE, outcome |-> "failed"]

\* The table's CHECK on leases is part of the type: a token and an expiry, or
\* neither.
TypeOK ==
    /\ op \in [Ops -> OpRow]
    /\ \A o \in Ops : op[o].live => op[o].token # NoToken
    /\ running \in [Ops -> SUBSET Tokens]
    /\ events \in [Ops -> Nat]
    /\ task \in [Tasks -> TaskState]
    /\ job \in [Ops -> {"none", "running"} \cup Terminal]
    /\ asked \subseteq Ops
    /\ late \subseteq Ops
    /\ faults \in 0..MaxFaults

Init ==
    /\ op = [o \in Ops |-> [status |-> "absent", due |-> FALSE, mapped |-> FALSE,
                            token |-> NoToken, live |-> FALSE]]
    /\ running = [o \in Ops |-> {}]
    /\ events = [o \in Ops |-> 0]
    /\ task = [t \in Tasks |-> IdleTask]
    /\ job = [o \in Ops |-> "none"]
    /\ asked = {}
    /\ late = {}
    /\ faults = 0

-----------------------------------------------------------------------------
(* Shared parts *)

PhaseOf(o) ==
    CASE op[o].status = "accepted" -> "result_retrieval"
      [] op[o].status # "accepted" /\ Kind[o] \in {"llm", "execution"} -> "submission"
      [] op[o].status # "accepted" /\ Kind[o] = "llm_cancellation" -> "cancellation"
      [] op[o].status # "accepted" /\ Kind[o] = "withdraw" -> "withdrawal"

\* Where process_claim and process_result start.
FirstStep(phase) ==
    CASE phase \in {"submission", "cancellation"} -> "check"
      [] phase = "result_retrieval" -> "poll"
      [] phase = "withdrawal" -> "withdraw"

\* lock_valid_operation_claim
ValidClaim(t) ==
    LET o == task[t].op IN
    /\ o # NoOp
    /\ op[o].token = task[t].token
    /\ op[o].live

\* The phase and status checks of defer_operation, record_operation_accepted,
\* record_operation_retry, record_operation_pending_result, complete_withdrawal
\* and complete_operation_with_http_status.
StatusFits(t) ==
    LET o == task[t].op IN
    /\ op[o].status = IF task[t].phase = "result_retrieval" THEN "accepted" ELSE "submitting"
    /\ task[t].phase = "submission" => ~op[o].mapped

\* finish_operation_attempt affects one row.
AttemptRuns(t) == task[t].token \in running[task[t].op]

MayRecord(t) == ValidClaim(t) /\ StatusFits(t) /\ AttemptRuns(t)

\* finish_operation_attempt
FinishAttempt(t) ==
    running' = [running EXCEPT ![task[t].op] = running[task[t].op] \ {task[t].token}]

\* The row after a transaction that sets its status and clears its lease.
Released(o, status, due) ==
    [op[o] EXCEPT !.status = status, !.due = due, !.token = NoToken, !.live = FALSE]

BecomeIdle(t) == task' = [task EXCEPT ![t] = IdleTask]
GoTo(t, pc) == task' = [task EXCEPT ![t] = [@ EXCEPT !.pc = pc]]
Retry(t, uncertain) ==
    task' = [task EXCEPT ![t] = [@ EXCEPT !.pc = "retry", !.uncertain = uncertain]]
Complete(t, status) ==
    task' = [task EXCEPT ![t] = [@ EXCEPT !.pc = "complete", !.outcome = status]]

\* Mutant of Fail: a failure found while recovering is taken as definite.
FailAlways(t) == Complete(t, "failed")

\* fail, fail_value: what is uncertain stays uncertain.
Fail(t) == IF task[t].recovering THEN Retry(t, TRUE) ELSE Complete(t, "failed")

Fault == faults < MaxFaults /\ faults' = faults + 1

-----------------------------------------------------------------------------
(* commit_handler_outcome_classified inserts the operations of an outcome; a
   reference names an operation of the session or an earlier one of the same
   outcome (validate_references). *)
CreateOperation(o) ==
    /\ op[o].status = "absent"
    /\ IF Ref[o] = NoOp THEN TRUE ELSE op[Ref[o]].status # "absent"
    /\ op' = [op EXCEPT ![o] = [status |-> "pending", due |-> TRUE, mapped |-> FALSE,
                                token |-> NoToken, live |-> FALSE]]
    /\ UNCHANGED <<running, events, task, gateway, faults>>

\* A UUID nobody holds.
Fresh(k) ==
    /\ \A o \in Ops : op[o].token # k /\ k \notin running[o]
    /\ \A t \in Tasks : task[t].token # k

\* Mutant of ClaimedStatus: a claim leaves a pending operation pending.
StatusKept(status) == status

\* status=CASE WHEN status='pending' THEN 'submitting' ELSE status END
ClaimedStatus(status) == IF status = "pending" THEN "submitting" ELSE status

\* Mutant of Claimable: an expired lease is not taken over.
Unleased(o) == op[o].status \in Open /\ op[o].due /\ op[o].token = NoToken

\* Due, and not leased or leased no more.
Claimable(o) ==
    /\ op[o].status \in Open
    /\ op[o].due
    /\ op[o].token = NoToken \/ ~op[o].live

\* claim_operation: the candidate is checked again under the session lock;
\* attempts still running belong to lost tasks and become 'unknown'.
ClaimOperation(t, o) ==
    /\ task[t].pc = "idle"
    /\ Claimable(o)
    /\ \E k \in Tokens : Fresh(k)
    /\ LET k == CHOOSE k \in Tokens : Fresh(k) IN
        /\ op' = [op EXCEPT ![o] = [@ EXCEPT !.status = ClaimedStatus(op[o].status),
                                             !.token = k, !.live = TRUE]]
        /\ running' = [running EXCEPT ![o] = {k}]
        /\ task' = [task EXCEPT ![t] =
                      [pc |-> FirstStep(PhaseOf(o)), phase |-> PhaseOf(o), op |-> o,
                       token |-> k, recovering |-> op[o].status = "submitting",
                       uncertain |-> FALSE, outcome |-> "failed"]]
    /\ UNCHANGED <<events, gateway, faults>>

-----------------------------------------------------------------------------
(* submit *)

\* An outstanding parent.
ParentIsOpen(o) == IF Ref[o] = NoOp THEN FALSE ELSE op[Ref[o]].status \in Open

\* Mutant of UsableParent: the parent's outcome is not looked at.
MappedParent(o) == IF Ref[o] = NoOp THEN TRUE ELSE op[Ref[o]].mapped

\* A continuation needs its parent's successful gateway job.
UsableParent(o) ==
    IF Ref[o] = NoOp THEN TRUE
    ELSE op[Ref[o]].status = "succeeded" /\ op[Ref[o]].mapped

\* submission_body, which reads the parent outside any transaction, and the start
\* of finish_submission: an uncertain submission is looked up first, a new one is
\* sent.
CheckSubmission(t) ==
    LET o == task[t].op IN
    /\ task[t].pc = "check" /\ task[t].phase = "submission"
    /\ \/ ParentIsOpen(o) /\ GoTo(t, "defer")
       \/ ~ParentIsOpen(o) /\ ~UsableParent(o) /\ Fail(t)
       \/ /\ ~ParentIsOpen(o) /\ UsableParent(o)
          /\ GoTo(t, IF task[t].recovering THEN "lookup" ELSE "sent")
    /\ UNCHANGED <<op, running, events, gateway, faults>>

\* The dependency could not be read.
DependencyUnreadable(t) ==
    /\ task[t].pc = "check" /\ Ref[task[t].op] # NoOp
    /\ Fault
    /\ Retry(t, task[t].recovering)
    /\ UNCHANGED <<op, running, events, gateway>>

\* find_by_idempotency_key answers: the job is adopted, or the same body is
\* submitted again under the same key.
FindByIdempotencyKey(t) ==
    /\ task[t].pc = "lookup"
    /\ GoTo(t, IF job[task[t].op] # "none" THEN "accept" ELSE "sent")
    /\ UNCHANGED <<op, running, events, gateway, faults>>

-----------------------------------------------------------------------------
(* cancel *)

\* Mutant of NothingToCancel: a target still being submitted counts as settled.
NotAccepted(o) == op[o].status # "accepted"

\* The target has ended, no gateway is asked.
NothingToCancel(o) == op[o].status \in Terminal

\* The gateway is asked: the target is accepted, or has ended since an uncertain
\* cancellation of it was sent.
GatewayKnows(t) ==
    LET target == Ref[task[t].op] IN
    /\ \/ op[target].status = "accepted"
       \/ op[target].status \in Terminal /\ task[t].recovering
    /\ op[target].mapped

CheckCancellation(t) ==
    LET target == Ref[task[t].op] IN
    /\ task[t].pc = "check" /\ task[t].phase = "cancellation"
    /\ \/ /\ NothingToCancel(target) /\ ~task[t].recovering
          /\ Complete(t, "succeeded")                   \* accepted: false
       \/ /\ ~(NothingToCancel(target) /\ ~task[t].recovering)
          /\ GoTo(t, IF GatewayKnows(t) THEN "sent" ELSE "defer")
    /\ UNCHANGED <<op, running, events, gateway, faults>>

\* The stored request is invalid, or its connection not configured or of the
\* wrong kind; a cancellation looks for the connection of its target.  Nothing
\* bounds how often an uncertain operation meets this again.
RequestUnusable(t) ==
    /\ task[t].pc = "check"
    /\ task[t].phase = "cancellation" => GatewayKnows(t)
    /\ Fail(t)
    /\ UNCHANGED <<op, running, events, gateway, faults>>

-----------------------------------------------------------------------------
(* HTTP calls *)

\* What the gateway does with a request: a key it knows is not admitted again,
\* a cancellation of a finished job is not recorded.
Deliver(o) ==
    IF Kind[o] = "llm_cancellation"
      THEN /\ asked' = IF job[Ref[o]] = "running" THEN asked \cup {Ref[o]} ELSE asked
           /\ UNCHANGED job
      ELSE /\ job' = IF job[o] = "none" THEN [job EXCEPT ![o] = "running"] ELSE job
           /\ UNCHANGED asked

\* submit or cancel is acknowledged.
GatewayAcknowledges(t) ==
    /\ task[t].pc = "sent"
    /\ Deliver(task[t].op)
    /\ IF task[t].phase = "submission" THEN GoTo(t, "accept") ELSE Complete(t, "succeeded")
    /\ UNCHANGED <<op, running, events, late, faults>>

\* A first submission or cancellation is rejected: a definite answer.
GatewayRejects(t) ==
    /\ task[t].pc = "sent" /\ ~task[t].recovering
    /\ Complete(t, "failed")
    /\ UNCHANGED <<op, running, events, gateway, faults>>

\* A rejection, or a request that cannot be built, while recovering: the operation
\* stays uncertain and may be rejected at every retry, without limit.
RejectedWhileUncertain(t) ==
    /\ task[t].pc \in {"lookup", "sent"} /\ task[t].recovering
    /\ Fail(t)
    /\ UNCHANGED <<op, running, events, gateway, faults>>

\* Mutant of UncertainAfterRefusal: the claim's own uncertainty is forgotten.
NeverUncertain(t) == FALSE

\* GatewayError::Retryable keeps the uncertainty the claim started with.
UncertainAfterRefusal(t) == task[t].recovering

\* GatewayError::Retryable: no connection, or 429.  The request was not admitted.
GatewayUnavailable(t) ==
    /\ task[t].pc \in {"lookup", "sent"}
    /\ Fault
    /\ Retry(t, UncertainAfterRefusal(t))
    /\ UNCHANGED <<op, running, events, gateway>>

\* GatewayError::Uncertain: time-out, 5xx, malformed answer.  A request that was
\* sent may have been admitted, be on the way, or be lost.
GatewayUncertain(t) ==
    /\ task[t].pc \in {"lookup", "sent"}
    /\ Fault
    /\ Retry(t, TRUE)
    /\ late' = IF task[t].pc = "sent" THEN late \cup {task[t].op} ELSE late
    /\ UNCHANGED <<op, running, events, job, asked>>

\* process_result_claim: get_job answers.
GetJob(t) ==
    LET o == task[t].op IN
    /\ task[t].pc = "poll"
    /\ \/ job[o] = "running" /\ GoTo(t, "postpone")
       \/ job[o] \in Terminal /\ Complete(t, job[o])
    /\ UNCHANGED <<op, running, events, gateway, faults>>

\* retry_result: the result cannot be read, or is not what was asked for.
ResultUnavailable(t) ==
    /\ task[t].pc = "poll"
    /\ Fault
    /\ Retry(t, FALSE)
    /\ UNCHANGED <<op, running, events, gateway>>

-----------------------------------------------------------------------------
(* Store transactions that end a claim *)

\* defer_operation: the dependency is not ready.
DeferOperation(t) ==
    LET o == task[t].op IN
    /\ task[t].pc = "defer"
    /\ MayRecord(t)
    /\ op' = [op EXCEPT ![o] = Released(o, "pending", FALSE)]
    /\ FinishAttempt(t)
    /\ BecomeIdle(t)
    /\ UNCHANGED <<events, gateway, faults>>

\* record_operation_accepted
RecordOperationAccepted(t) ==
    LET o == task[t].op IN
    /\ task[t].pc = "accept"
    /\ MayRecord(t)
    /\ op' = [op EXCEPT ![o] = [Released(o, "accepted", FALSE) EXCEPT !.mapped = TRUE]]
    /\ FinishAttempt(t)
    /\ BecomeIdle(t)
    /\ UNCHANGED <<events, gateway, faults>>

\* The status record_operation_retry leaves.
RetryStatus(t) ==
    IF task[t].phase = "result_retrieval" THEN "accepted"
    ELSE IF task[t].uncertain THEN "submitting" ELSE "pending"

\* record_operation_retry
RecordOperationRetry(t) ==
    LET o == task[t].op IN
    /\ task[t].pc = "retry"
    /\ MayRecord(t)
    /\ op' = [op EXCEPT ![o] = Released(o, RetryStatus(t), FALSE)]
    /\ FinishAttempt(t)
    /\ BecomeIdle(t)
    /\ UNCHANGED <<events, gateway, faults>>

\* record_operation_pending_result
RecordOperationPendingResult(t) ==
    LET o == task[t].op IN
    /\ task[t].pc = "postpone"
    /\ MayRecord(t)
    /\ op' = [op EXCEPT ![o] = Released(o, "accepted", FALSE)]
    /\ FinishAttempt(t)
    /\ BecomeIdle(t)
    /\ UNCHANGED <<events, gateway, faults>>

\* complete_operation_with_http_status; a submission can only complete as failed.
CompleteOperation(t) ==
    LET o == task[t].op IN
    /\ task[t].pc = "complete"
    /\ MayRecord(t)
    /\ task[t].phase = "submission" => task[t].outcome = "failed"
    /\ op' = [op EXCEPT ![o] = Released(o, task[t].outcome, op[o].due)]
    /\ events' = [events EXCEPT ![o] = events[o] + 1]
    /\ FinishAttempt(t)
    /\ BecomeIdle(t)
    /\ UNCHANGED <<gateway, faults>>

\* Mutant of Withdrawable: the status is not looked at.
UnclaimedTarget(o) == op[o].token = NoToken

\* target_status == Pending && target_lease.is_none()
Withdrawable(o) == op[o].status = "pending" /\ op[o].token = NoToken

\* Mutant of WithdrawalEvents: the target's completion is not announced.
WithdrawalEventOnly(o) == {o}

\* The operations whose completion complete_withdrawal announces.
WithdrawalEvents(o) == {o} \cup (IF Withdrawable(Ref[o]) THEN {Ref[o]} ELSE {})

\* complete_withdrawal: one transaction settles the withdrawal and, if it still
\* may, its target.
CompleteWithdrawal(t) ==
    LET o == task[t].op IN
    /\ task[t].pc = "withdraw"
    /\ MayRecord(t)
    /\ op' = [p \in Ops |->
                IF p = o THEN Released(o, "succeeded", op[o].due)
                ELSE IF p = Ref[o] /\ Withdrawable(p)
                  THEN Released(p, "cancelled", op[p].due)
                ELSE op[p]]
    /\ events' = [p \in Ops |-> IF p \in WithdrawalEvents(o) THEN events[p] + 1 ELSE events[p]]
    /\ FinishAttempt(t)
    /\ BecomeIdle(t)
    /\ UNCHANGED <<gateway, faults>>

\* The task ends without a record; an HTTP request it awaited is now late.
Abandon(t) ==
    /\ late' = IF task[t].pc = "sent" THEN late \cup {task[t].op} ELSE late
    /\ BecomeIdle(t)
    /\ UNCHANGED <<op, running, events, job, asked>>

\* StaleClaim from the lease keeper or a store call: the task is dropped.
StaleClaim(t) ==
    /\ task[t].pc # "idle"
    /\ ~MayRecord(t)
    /\ Abandon(t)
    /\ UNCHANGED faults

\* The process crashes, the task is aborted at shutdown, the keeper or the final
\* store call fails: the claim stays in the row.
LoseTask(t) ==
    /\ task[t].pc # "idle"
    /\ Fault
    /\ Abandon(t)

-----------------------------------------------------------------------------
(* Time, the network and the gateway *)

Held(o) == \E t \in Tasks : task[t].op = o /\ task[t].token = op[o].token

LeaseExpires(o) ==
    /\ op[o].live
    /\ op' = [op EXCEPT ![o] = [@ EXCEPT !.live = FALSE]]
    /\ UNCHANGED <<running, events, task, gateway>>

\* Nobody renews an orphaned lease.
OrphanLeaseExpires(o) == ~Held(o) /\ LeaseExpires(o) /\ UNCHANGED faults

\* The keeper of a working task is late.
HeldLeaseExpires(o) == Held(o) /\ Fault /\ LeaseExpires(o)

\* Time passes, or a callback arrives for an accepted operation.
OperationBecomesDue(o) ==
    /\ op[o].status \in Open /\ ~op[o].due
    /\ op' = [op EXCEPT ![o] = [@ EXCEPT !.due = TRUE]]
    /\ UNCHANGED <<running, events, task, gateway, faults>>

\* A late request arrives; another copy may follow.
LateDelivery(o) ==
    /\ o \in late
    /\ Deliver(o)
    /\ late' \in {late, late \ {o}}
    /\ UNCHANGED <<op, running, events, task, faults>>

LateLost(o) ==
    /\ o \in late
    /\ late' = late \ {o}
    /\ UNCHANGED <<op, running, events, task, job, asked, faults>>

\* A job ends; only a job it was asked to cancel ends as cancelled.
JobFinishes(o, s) ==
    /\ job[o] = "running"
    /\ s = "cancelled" => o \in asked
    /\ job' = [job EXCEPT ![o] = s]
    /\ UNCHANGED <<op, running, events, task, asked, late, faults>>

-----------------------------------------------------------------------------
\* What a healthy task does with its claim.
TaskStep(t) ==
    \/ CheckSubmission(t)
    \/ FindByIdempotencyKey(t)
    \/ CheckCancellation(t)
    \/ GatewayAcknowledges(t)
    \/ GatewayRejects(t)
    \/ GetJob(t)
    \/ DeferOperation(t)
    \/ RecordOperationAccepted(t)
    \/ RecordOperationRetry(t)
    \/ RecordOperationPendingResult(t)
    \/ CompleteOperation(t)
    \/ CompleteWithdrawal(t)
    \/ StaleClaim(t)

\* What goes wrong: definite answers a task met while uncertain, without bound, and
\* crashes, outages and lost answers, which end.
TaskFault(t) ==
    \/ RequestUnusable(t)
    \/ DependencyUnreadable(t)
    \/ RejectedWhileUncertain(t)
    \/ GatewayUnavailable(t)
    \/ GatewayUncertain(t)
    \/ ResultUnavailable(t)
    \/ LoseTask(t)

Next ==
    \/ \E o \in Ops : CreateOperation(o)
    \/ \E t \in Tasks, o \in Ops : ClaimOperation(t, o)
    \/ \E t \in Tasks : TaskStep(t)
    \/ \E t \in Tasks : TaskFault(t)
    \/ \E o \in Ops : OrphanLeaseExpires(o)
    \/ \E o \in Ops : HeldLeaseExpires(o)
    \/ \E o \in Ops : OperationBecomesDue(o)
    \/ \E o \in Ops : LateDelivery(o)
    \/ \E o \in Ops : LateLost(o)
    \/ \E o \in Ops, s \in Terminal : JobFinishes(o, s)

Spec == Init /\ [][Next]_vars

\* Tasks finish what they claimed, time passes, the gateway finishes its jobs.  A
\* due operation is not overtaken for ever: claims are ordered by
\* next_attempt_at and the phases take turns.
Fairness ==
    /\ \A t \in Tasks : WF_vars(TaskStep(t))
    /\ \A o \in Ops : SF_vars(\E t \in Tasks : ClaimOperation(t, o))
    /\ \A o \in Ops : WF_vars(OrphanLeaseExpires(o))
    /\ \A o \in Ops : WF_vars(OperationBecomesDue(o))
    /\ \A o \in Ops : WF_vars(\E s \in Terminal : JobFinishes(o, s))

FairSpec == Spec /\ Fairness

-----------------------------------------------------------------------------
(* Properties *)

\* A request for o is on its way to the gateway.
InFlight(o) == o \in late \/ \E t \in Tasks : task[t].op = o /\ task[t].pc = "sent"

\* An operation that waits for another one: a continuation, a cancellation.
Dependent(o) == Kind[o] # "withdraw" /\ Ref[o] # NoOp

\* An independent operation the store shows as pending was never admitted by the
\* gateway and no request of it, of any dead or slow task, is under way: only then
\* may a withdrawal cancel it or a first rejection fail it (record_operation_retry).
PendingMeansUnsent ==
    \A o \in Ops : op[o].status = "pending" /\ ~Dependent(o) => job[o] = "none" /\ ~InFlight(o)

\* An independent operation that ended without a gateway job has none, and none can
\* appear: uncertain acceptance is never downgraded to a failure, and a withdrawn
\* target never runs (gateway_failure, fail_value, complete_withdrawal).
NoOrphanJob ==
    \A o \in Ops :
        op[o].status \in Terminal /\ ~op[o].mapped /\ ~Dependent(o) =>
            job[o] = "none" /\ ~InFlight(o)

\* An operation that was accepted has a gateway job, and once it ends its status is
\* the one its job ended with, whatever polls, cancellations, withdrawals and
\* stale tasks raced for it (process_result_claim, complete_operation).
ResultMatchesJob ==
    \A o \in Ops :
        op[o].mapped => IF op[o].status \in Terminal THEN op[o].status = job[o]
                        ELSE op[o].status = "accepted" /\ job[o] # "none"

\* The row, its lease and its attempts agree: the only running attempt is the lease
\* owner's, and the owner's phase is the one the status calls for, so no store
\* call of a valid claim is refused (claim_operation, lock_valid_operation_claim).
ClaimMatchesRow ==
    /\ TypeOK
    /\ \A o \in Ops :
        /\ running[o] = {op[o].token} \ {NoToken}
        /\ op[o].token # NoToken => op[o].status \in {"submitting", "accepted"}
        /\ \A t \in Tasks : task[t].op = o /\ task[t].token = op[o].token => StatusFits(t)

\* Every operation that ended has announced it to the session exactly once, and no
\* other has (insert_operation_event): the unique index never has to intervene.
OneCompletionEvent ==
    \A o \in Ops : events[o] = IF op[o].status \in Terminal THEN 1 ELSE 0

\* A continuation reaches the gateway only after its parent ended successfully
\* there (submission_body), although the parent is read outside any transaction.
ContinuationFollowsParent ==
    \A o \in Ops :
        Kind[o] = "llm" /\ Ref[o] # NoOp /\ (InFlight(o) \/ job[o] # "none") =>
            job[Ref[o]] = "succeeded"

\* A cancellation that succeeded left nothing behind that could still run unaware
\* of it: the gateway was asked, or the target had ended (cancel).  A target that
\* depends on another one may have been deferred under a request of a stale task.
CancellationTakesEffect ==
    \A o \in Ops :
        Kind[o] = "llm_cancellation" /\ ~Dependent(Ref[o]) /\ op[o].status = "succeeded" =>
            \/ Ref[o] \in asked
            \/ job[Ref[o]] \in Terminal
            \/ op[Ref[o]].status \in Terminal /\ job[Ref[o]] = "none" /\ ~InFlight(Ref[o])

\* A definite answer keeps meeting uncertain operation o: it stays uncertain and is
\* tried again, for ever (gateway_failure, fail_value).
RefusedForEver(o) ==
    []<><<\E t \in Tasks : task[t].op = o /\ (RejectedWhileUncertain(t) \/ RequestUnusable(t))>>_vars

Continuation(o) == Kind[o] = "llm" /\ Ref[o] # NoOp

\* Every operation but a continuation ends, although tasks crash, leases expire
\* and the gateway's answers get lost.  Only an operation the gateway refuses for
\* ever while its acceptance is uncertain, and one that waits for such a target,
\* stay open: they keep recovering rather than assume that the job does not exist.
EveryOperationEnds ==
    \A o \in Ops : ~Continuation(o) =>
        \/ op[o].status # "absent" ~> op[o].status \in Terminal
        \/ \E p \in {o, Ref[o]} \ {NoOp} : RefusedForEver(p)

\* README.md: for a continuation "terminal unsuccessful parents become a dependency
\* failure".
FailedParentEndsContinuation ==
    \A o \in Ops : Continuation(o) =>
        (op[o].status # "absent" /\ op[Ref[o]].status \in Terminal \ {"succeeded"}
            ~> op[o].status \in Terminal)
=============================================================================
