---------------------------- MODULE SessionInbox ----------------------------
(***************************************************************************)
(* The ordered event inbox of one session and the scheduler workers that   *)
(* drain it (agent-store/src/store.rs, agent-runtime/src/scheduler.rs).    *)
(*                                                                         *)
(* Every statement of the store is keyed by one session id and serialised  *)
(* by `SELECT ... FOR UPDATE` on that session's row, so one session is     *)
(* modelled and each store transaction is one action.  The exception is    *)
(* claim_next_event: its candidate query reads the inbox from the          *)
(* statement's snapshot and locks the session row afterwards, so it is two *)
(* actions, ClaimScan and ClaimNextEvent, with anything in between.        *)
(*                                                                         *)
(* Time is abstracted to its two observable thresholds: a lease is live    *)
(* until it expires, an event is due once its next_attempt_at has passed.  *)
(* A renewal that succeeds leaves a live lease live.  The attempt id and   *)
(* the lease token are two fresh UUIDs drawn together by one claim and are *)
(* one number here.  The change feed written by emit_update in the same    *)
(* transactions is the subject of UpdateLog.                               *)
(***************************************************************************)
EXTENDS Integers, FiniteSets

CONSTANTS Workers,      \* handler tasks, bounded by max_concurrent_handlers
          Keys,         \* idempotency keys of inputs, each with its event type
          RetryKeys,    \* idempotency keys of operator retries, a table of their own
          NoKey,        \* no idempotency key: platform events, key-less inputs
          MaxRetries,   \* Len(retry_policy.retry_delays)
          CommitRetries,\* Len(commit_retry_delays)
          MaxEntries,   \* bound: history entries of one outcome
          MaxEvents,    \* bound: events of the session
          MaxAttempts,  \* bound: handler attempts of the session
          MaxHistory,   \* bound: history entries of the session
          MaxFaults     \* bound: crashes, lost leases, rollbacks, outages

ASSUME BoundsAssumption ==
    /\ MaxRetries \in Nat /\ CommitRetries \in Nat /\ MaxEntries \in Nat
    /\ MaxEvents \in Nat /\ MaxAttempts \in Nat /\ MaxHistory \in Nat
    /\ MaxFaults \in Nat

ASSUME KeyAssumption == NoKey \notin Keys

VARIABLES
    \* the row of `sessions`
    enabled, revision,          \* processing_enabled, processing_revision
    current, token, leaseLive,  \* current_event_id, lease_token, lease_expires_at > now
    stateVersion,               \* state_version
    nextEvent, nextHistory,     \* next_event_sequence, next_history_sequence
    \* rows of session_events, session_event_attempts, session_history,
    \* session_processing_retries
    event, attempt, nextAttempt, history, retries,
    \* scheduler tasks
    worker,
    \* faults so far, for the bound MaxFaults
    faults

sessionVars == <<enabled, revision, current, token, leaseLive, stateVersion,
                 nextEvent, nextHistory>>
vars == <<sessionVars, event, attempt, nextAttempt, history, retries, worker,
          faults>>

-----------------------------------------------------------------------------
EventSeq == 1..MaxEvents
AttemptId == 1..MaxAttempts
None == 0                                   \* SQL NULL for ids and tokens

EventRow == [status : {"absent", "pending", "processing", "handled", "blocked"},
             due : BOOLEAN, baseline : Nat, key : Keys \cup {NoKey}]
AttemptRow == [event : EventSeq \cup {None},
               status : {"absent", "running", "committed", "errored", "abandoned"},
               version : Nat, through : Nat]
WorkerTask == [pc : {"idle", "scanned", "handling", "authority", "counting",
                     "recording", "committing"},
               event : EventSeq \cup {None}, attempt : AttemptId \cup {None},
               verdict : {"none", "retry", "block", "abandon"},
               rollbacks : Nat]
RetryRow == [key : RetryKeys, event : EventSeq, expected : Nat]

Idle == [pc |-> "idle", event |-> None, attempt |-> None, verdict |-> "none",
         rollbacks |-> 0]

NoEvent == [status |-> "absent", due |-> FALSE, baseline |-> 0, key |-> NoKey]

\* The row an INSERT INTO session_events creates: pending, due at once.
NewEvent(k) == [status |-> "pending", due |-> TRUE, baseline |-> 0, key |-> k]

TypeOK ==
    /\ enabled \in BOOLEAN /\ revision \in Nat
    /\ current \in EventSeq \cup {None} /\ token \in AttemptId \cup {None}
    /\ leaseLive \in BOOLEAN
    /\ stateVersion \in Nat
    /\ nextEvent \in 1..(MaxEvents + 1) /\ nextHistory \in 1..(MaxHistory + 1)
    /\ event \in [EventSeq -> EventRow]
    /\ attempt \in [AttemptId -> AttemptRow] /\ nextAttempt \in 1..(MaxAttempts + 1)
    /\ history \in [1..MaxHistory -> EventSeq \cup {None}]
    /\ retries \subseteq RetryRow
    /\ worker \in [Workers -> WorkerTask]
    /\ faults \in 0..MaxFaults

Init ==
    /\ enabled = TRUE /\ revision = 0
    /\ current = None /\ token = None /\ leaseLive = FALSE
    /\ stateVersion = 0 /\ nextEvent = 1 /\ nextHistory = 1
    /\ event = [e \in EventSeq |-> NoEvent]
    /\ attempt = [a \in AttemptId |-> [event |-> None, status |-> "absent",
                                       version |-> 0, through |-> 0]]
    /\ nextAttempt = 1
    /\ history = [i \in 1..MaxHistory |-> None]
    /\ retries = {}
    /\ worker = [w \in Workers |-> Idle]
    /\ faults = 0

-----------------------------------------------------------------------------
(* Shared parts of the store's transactions *)

Events == 1..(nextEvent - 1)
Outstanding == {"pending", "processing", "blocked"}

\* Mutant of IsHead: the lateral sub-query without ORDER BY sequence.
AnyOutstanding(e) == e \in Events /\ event[e].status \in Outstanding

\* The lateral sub-query: the lowest sequence not yet handled.
IsHead(e) ==
    /\ e \in Events
    /\ event[e].status \in Outstanding
    /\ \A d \in Events : event[d].status \in Outstanding => e <= d

\* Mutant of SessionFree: an expired lease is not taken over.
SessionUnleased == enabled /\ token = None

\* s.processing_enabled AND (s.lease_token IS NULL OR lease_expires_at <= now)
SessionFree == enabled /\ (token = None \/ ~leaseLive)

\* Mutant of ValidClaim: the token is not compared.
ClaimIgnoringToken(w) == current = worker[w].event /\ leaseLive

\* lock_valid_session_claim
ValidClaim(w) ==
    /\ current = worker[w].event
    /\ token = worker[w].attempt
    /\ leaseLive

\* Handler failures of an event (status 'errored').
Failures(e) ==
    Cardinality({a \in AttemptId : attempt[a].event = e /\ attempt[a].status = "errored"})

\* release_session_claim
ReleaseClaim == current' = None /\ token' = None /\ leaseLive' = FALSE

\* UPDATE session_event_attempts ... WHERE id=.. AND status='running'
FinishAttempt(a, s) ==
    attempt' = IF attempt[a].status = "running"
                 THEN [attempt EXCEPT ![a] = [@ EXCEPT !.status = s]] ELSE attempt

BecomeIdle(w) == worker' = [worker EXCEPT ![w] = Idle]

\* The task goes on to `pc` with `verdict`.
GoTo(w, pc, verdict) ==
    worker' = [worker EXCEPT ![w] = [@ EXCEPT !.pc = pc, !.verdict = verdict]]

-----------------------------------------------------------------------------
(* Producers *)

\* A key already stored for the session is answered with the stored event, or with
\* IdempotencyConflict when the request hash differs; neither changes the inbox.
KeyIsFree(k) == k = NoKey \/ \A e \in Events : event[e].key # k

\* enqueue_external_event, and the operation_completed and wait_resumed rows
\* other components insert under the same row lock (key-less).
EnqueueExternalEvent(k) ==
    /\ nextEvent <= MaxEvents
    /\ KeyIsFree(k)
    /\ event' = [event EXCEPT ![nextEvent] = NewEvent(k)]
    /\ nextEvent' = nextEvent + 1
    /\ UNCHANGED <<enabled, revision, current, token, leaseLive, stateVersion,
                   nextHistory, attempt, nextAttempt, history, retries, worker, faults>>

\* Mutant of RevisionMatches: the operator's revision is not compared.
AnyRevision(expected) == TRUE

RevisionMatches(expected) == revision = expected

\* retry_blocked_event: an operator resumes a paused session.  A replay of a
\* stored key, a conflict and a stale request change nothing.  `expected` is the
\* revision the operator last saw.
RetryBlockedEvent(k, e, expected) ==
    /\ \A r \in retries : r.key # k
    /\ ~enabled /\ RevisionMatches(expected)
    /\ current = None /\ token = None
    /\ IsHead(e) /\ event[e].status = "blocked"
    /\ event' = [event EXCEPT ![e] = [@ EXCEPT !.status = "pending", !.due = TRUE,
                                                !.baseline = Failures(e)]]
    /\ enabled' = TRUE
    /\ revision' = revision + 1
    /\ retries' = retries \cup {[key |-> k, event |-> e, expected |-> expected]}
    /\ UNCHANGED <<current, token, leaseLive, stateVersion, nextEvent, nextHistory,
                   attempt, nextAttempt, history, worker, faults>>

-----------------------------------------------------------------------------
(* Claims *)

\* The candidate query of claim_next_event, on the statement's snapshot.
ClaimScan(w) ==
    /\ worker[w].pc = "idle"
    /\ SessionFree
    /\ \E e \in EventSeq :
        /\ IsHead(e)
        /\ event[e].status \in {"pending", "processing"}
        /\ event[e].due
        /\ worker' = [worker EXCEPT ![w] = [Idle EXCEPT !.pc = "scanned", !.event = e]]
    /\ UNCHANGED <<sessionVars, event, attempt, nextAttempt, history, retries, faults>>

\* Mutant of EventIsOpen: the table has no CHECK on handled_at.
EventMayBeHandled(e) == TRUE

\* CHECK ((status='handled') = (handled_at IS NOT NULL)): a handled event cannot
\* be set to 'processing' again, the transaction aborts.
EventIsOpen(e) == event[e].status # "handled"

\* The rest of claim_next_event.  FOR UPDATE OF s re-checks the session row as
\* it is now; the event is the one the snapshot showed.
ClaimNextEvent(w) ==
    LET e == worker[w].event IN
    /\ worker[w].pc = "scanned"
    /\ SessionFree
    /\ EventIsOpen(e)
    /\ nextAttempt <= MaxAttempts
    /\ attempt' = [a \in AttemptId |->
                     IF a = nextAttempt
                       THEN [event |-> e, status |-> "running",
                             version |-> stateVersion, through |-> nextHistory - 1]
                     ELSE IF attempt[a].event = e /\ attempt[a].status = "running"
                       THEN [attempt[a] EXCEPT !.status = "abandoned"]
                     ELSE attempt[a]]
    /\ nextAttempt' = nextAttempt + 1
    /\ current' = e /\ token' = nextAttempt /\ leaseLive' = TRUE
    /\ event' = [event EXCEPT ![e].status = "processing"]
    /\ worker' = [worker EXCEPT ![w] = [@ EXCEPT !.pc = "handling", !.attempt = nextAttempt]]
    /\ UNCHANGED <<enabled, revision, stateVersion, nextEvent, nextHistory, history,
                   retries, faults>>

\* The row no longer qualifies and is skipped, or the event was handled since the
\* snapshot and the transaction aborts.
ClaimMiss(w) ==
    /\ worker[w].pc = "scanned"
    /\ ~SessionFree \/ ~EventIsOpen(worker[w].event)
    /\ BecomeIdle(w)
    /\ UNCHANGED <<sessionVars, event, attempt, nextAttempt, history, retries, faults>>

-----------------------------------------------------------------------------
(* process_claim *)

\* Unregistered harness, invalid configuration, undecodable event: block()
\* without renewing authority.
PreflightBlock(w) ==
    /\ worker[w].pc = "handling"
    /\ GoTo(w, "recording", "block")
    /\ UNCHANGED <<sessionVars, event, attempt, nextAttempt, history, retries, faults>>

\* The handler fails ("retry"), returns invalid data or an invalid outcome
\* ("block"), or the store was unavailable to it ("abandon", a fault).
HandlerFails(w, verdict) ==
    /\ worker[w].pc = "handling"
    /\ verdict = "abandon" => faults < MaxFaults
    /\ GoTo(w, "authority", verdict)
    /\ faults' = IF verdict = "abandon" THEN faults + 1 ELSE faults
    /\ UNCHANGED <<sessionVars, event, attempt, nextAttempt, history, retries>>

\* The handler returns an outcome that prepare_outcome accepts.
HandlerReturns(w) ==
    /\ worker[w].pc = "handling"
    /\ GoTo(w, "committing", "none")
    /\ UNCHANGED <<sessionVars, event, attempt, nextAttempt, history, retries, faults>>

\* renew_authority succeeds: a failed handler goes on to read its failure
\* count, the other verdicts straight to the record.
RenewAuthority(w) ==
    /\ worker[w].pc = "authority"
    /\ ValidClaim(w)
    /\ GoTo(w, IF worker[w].verdict = "retry" THEN "counting" ELSE "recording",
            worker[w].verdict)
    /\ UNCHANGED <<sessionVars, event, attempt, nextAttempt, history, retries, faults>>

\* Mutant of BudgetSpent: off by one.
BudgetOverspent(e) == Failures(e) - event[e].baseline > MaxRetries

\* handler_failure_count, read outside the transaction that records the failure.
BudgetSpent(e) == Failures(e) - event[e].baseline >= MaxRetries

RetryHandler(w) ==
    /\ worker[w].pc = "counting"
    /\ GoTo(w, "recording", IF BudgetSpent(worker[w].event) THEN "block" ELSE "retry")
    /\ UNCHANGED <<sessionVars, event, attempt, nextAttempt, history, retries, faults>>

\* record_handler_failure(blocked = false) and abandon_handler_attempt.
RecordRetry(w) ==
    LET e == worker[w].event IN
    /\ worker[w].pc = "recording" /\ worker[w].verdict \in {"retry", "abandon"}
    /\ ValidClaim(w)
    /\ FinishAttempt(worker[w].attempt,
                     IF worker[w].verdict = "retry" THEN "errored" ELSE "abandoned")
    /\ event' = [event EXCEPT ![e] = [@ EXCEPT !.status = "pending", !.due = FALSE]]
    /\ ReleaseClaim
    /\ BecomeIdle(w)
    /\ UNCHANGED <<enabled, revision, stateVersion, nextEvent, nextHistory,
                   nextAttempt, history, retries, faults>>

\* Mutant of PauseProcessing: the event is blocked, the session is not.
CountPauseOnly == enabled' = enabled /\ revision' = revision + 1

PauseProcessing == enabled' = FALSE /\ revision' = revision + 1

\* record_handler_failure(blocked = true): processing stops until an operator
\* retries.
RecordBlocked(w) ==
    LET e == worker[w].event IN
    /\ worker[w].pc = "recording" /\ worker[w].verdict = "block"
    /\ ValidClaim(w)
    /\ FinishAttempt(worker[w].attempt, "errored")
    /\ event' = [event EXCEPT ![e] = [@ EXCEPT !.status = "blocked", !.due = TRUE]]
    /\ PauseProcessing
    /\ ReleaseClaim
    /\ BecomeIdle(w)
    /\ UNCHANGED <<stateVersion, nextEvent, nextHistory, nextAttempt, history,
                   retries, faults>>

\* Mutant of AppendHistory: the sequence of the claim's history boundary is
\* reused and next_history_sequence stays.
OverwriteHistory(e, h) ==
    /\ history' = [i \in 1..MaxHistory |->
                     IF i \in nextHistory..(nextHistory + h - 1) THEN e ELSE history[i]]
    /\ nextHistory' = nextHistory

\* INSERT INTO session_history at history_sequence, history_sequence + 1, ...
AppendHistory(e, h) ==
    /\ history' = [i \in 1..MaxHistory |->
                     IF i \in nextHistory..(nextHistory + h - 1) THEN e ELSE history[i]]
    /\ nextHistory' = nextHistory + h

\* commit_handler_outcome_classified: h history entries, n waits cancelled by
\* the outcome, each of which appends a wait_resumed event.
CommitHandlerOutcome(w, h, n) ==
    LET e == worker[w].event
        a == worker[w].attempt IN
    /\ worker[w].pc = "committing"
    /\ ValidClaim(w)
    /\ stateVersion = attempt[a].version
    /\ attempt[a].status = "running"
    /\ nextHistory + h <= MaxHistory + 1
    /\ nextEvent + n <= MaxEvents + 1
    /\ AppendHistory(e, h)
    /\ event' = [d \in EventSeq |->
                   IF d = e THEN [event[e] EXCEPT !.status = "handled"]
                   ELSE IF d \in nextEvent..(nextEvent + n - 1) THEN NewEvent(NoKey)
                   ELSE event[d]]
    /\ nextEvent' = nextEvent + n
    /\ stateVersion' = stateVersion + 1
    /\ ReleaseClaim
    /\ attempt' = [attempt EXCEPT ![a].status = "committed"]
    /\ BecomeIdle(w)
    /\ UNCHANGED <<enabled, revision, nextAttempt, retries, faults>>

\* HandlerCommitError::Retryable: the transaction rolled back; the prepared
\* outcome is tried again until commit_retry_delays is used up.
CommitRollsBack(w) ==
    /\ worker[w].pc = "committing"
    /\ faults < MaxFaults
    /\ faults' = faults + 1
    /\ IF worker[w].rollbacks < CommitRetries
         THEN worker' = [worker EXCEPT ![w] = [@ EXCEPT !.rollbacks = worker[w].rollbacks + 1]]
         ELSE GoTo(w, "authority", "abandon")
    /\ UNCHANGED <<sessionVars, event, attempt, nextAttempt, history, retries>>

\* HandlerCommitError::Rejected: the outcome itself is invalid.
CommitRejected(w) ==
    /\ worker[w].pc = "committing"
    /\ ValidClaim(w)
    /\ GoTo(w, "authority", "block")
    /\ UNCHANGED <<sessionVars, event, attempt, nextAttempt, history, retries, faults>>

\* StaleClaim from the lease keeper, renew_authority, the record or the commit:
\* the task ends and changes nothing.
StaleClaim(w) ==
    /\ worker[w].pc \in {"handling", "authority", "recording", "committing"}
    /\ ~ValidClaim(w)
    /\ BecomeIdle(w)
    /\ UNCHANGED <<sessionVars, event, attempt, nextAttempt, history, retries, faults>>

\* The process crashes, the task is aborted after the shutdown grace, a store
\* call fails for another reason, or a commit is uncertain and was not applied:
\* the task is gone, the claim stays in the row.
LoseTask(w) ==
    /\ worker[w].pc # "idle"
    /\ faults < MaxFaults
    /\ faults' = faults + 1
    /\ BecomeIdle(w)
    /\ UNCHANGED <<sessionVars, event, attempt, nextAttempt, history, retries>>

-----------------------------------------------------------------------------
(* Time *)

Holds(w) == token # None /\ worker[w].attempt = token

\* Nobody renews an orphaned lease: it expires.
OrphanLeaseExpires ==
    /\ token # None /\ leaseLive
    /\ \A w \in Workers : ~Holds(w)
    /\ leaseLive' = FALSE
    /\ UNCHANGED <<enabled, revision, current, token, stateVersion, nextEvent,
                   nextHistory, event, attempt, nextAttempt, history, retries,
                   worker, faults>>

\* The keeper of a working task is delayed past the expiry.
HeldLeaseExpires ==
    /\ token # None /\ leaseLive
    /\ \E w \in Workers : Holds(w)
    /\ faults < MaxFaults
    /\ faults' = faults + 1
    /\ leaseLive' = FALSE
    /\ UNCHANGED <<enabled, revision, current, token, stateVersion, nextEvent,
                   nextHistory, event, attempt, nextAttempt, history, retries, worker>>

EventBecomesDue(e) ==
    /\ event[e].status \in Outstanding /\ ~event[e].due
    /\ event' = [event EXCEPT ![e].due = TRUE]
    /\ UNCHANGED <<sessionVars, attempt, nextAttempt, history, retries, worker, faults>>

-----------------------------------------------------------------------------
Commit(w) == \E h \in 0..MaxEntries, n \in 0..1 : CommitHandlerOutcome(w, h, n)

\* What a healthy worker does with its claim.
WorkerStep(w) ==
    \/ ClaimScan(w)
    \/ ClaimNextEvent(w)
    \/ ClaimMiss(w)
    \/ PreflightBlock(w)
    \/ \E verdict \in {"retry", "block", "abandon"} : HandlerFails(w, verdict)
    \/ HandlerReturns(w)
    \/ RenewAuthority(w)
    \/ RetryHandler(w)
    \/ RecordRetry(w)
    \/ RecordBlocked(w)
    \/ Commit(w)
    \/ CommitRejected(w)
    \/ StaleClaim(w)

Next ==
    \/ \E k \in Keys \cup {NoKey} : EnqueueExternalEvent(k)
    \/ \E k \in RetryKeys, e \in EventSeq, expected \in 0..revision :
           RetryBlockedEvent(k, e, expected)
    \/ \E w \in Workers : WorkerStep(w)
    \/ \E w \in Workers : CommitRollsBack(w)
    \/ \E w \in Workers : LoseTask(w)
    \/ OrphanLeaseExpires
    \/ HeldLeaseExpires
    \/ \E e \in EventSeq : EventBecomesDue(e)

Spec == Init /\ [][Next]_vars

\* Clients and operators owe nothing; workers keep polling and finish what they
\* start, and time passes.
Fairness ==
    /\ \A w \in Workers : WF_vars(WorkerStep(w))
    /\ WF_vars(OrphanLeaseExpires)
    /\ \A e \in EventSeq : WF_vars(EventBecomesDue(e))

FairSpec == Spec /\ Fairness

-----------------------------------------------------------------------------
(* Properties *)

Committed(a, e) == attempt[a].event = e /\ attempt[a].status = "committed"

\* FIFO, exactly once: whatever workers crash, stall or race, the handled events
\* are a prefix of the inbox and the state version counts exactly them
\* (claim_next_event's head query, commit_handler_outcome_classified).
HandledIsPrefix ==
    {e \in Events : event[e].status = "handled"} = 1..stateVersion

\* The claim in the session row, the event it names and the attempt it opened
\* agree: the only running attempt is the owner's, it works on the head event,
\* and it saw the state version and the history that its commit will extend.
ClaimCoherence ==
    /\ (token = None) = (current = None)
    /\ {a \in AttemptId : attempt[a].status = "running"} = {token} \ {None}
    /\ {e \in Events : event[e].status = "processing"} = {current} \ {None}
    /\ token # None =>
        /\ IsHead(current)
        /\ attempt[token].event = current
        /\ attempt[token].version = stateVersion
        /\ attempt[token].through = nextHistory - 1

\* Processing is off exactly while the head event is blocked, and then nobody
\* holds the session: a pause can neither be lost nor outlive its event
\* (record_handler_failure, retry_blocked_event).
PauseMatchesBlockedHead ==
    /\ {e \in Events : event[e].status = "blocked"} =
          {e \in Events : ~enabled /\ IsHead(e)}
    /\ ~enabled => token = None /\ \E e \in Events : IsHead(e)

\* Between two operator retries an event fails at most MaxRetries + 1 times: the
\* failure count read outside the recording transaction is never stale enough
\* to grant another attempt (retry_handler).
RetryBudgetHolds ==
    /\ TypeOK
    /\ \A e \in Events : Failures(e) - event[e].baseline <= MaxRetries + 1

\* The history is the concatenation, in inbox order, of what each handled event
\* appended: no gap, no overwritten entry, no entry of an unfinished attempt.
HistoryFollowsInbox ==
    /\ \A i \in 1..(nextHistory - 1) : history[i] \in 1..stateVersion
    /\ \A i \in 2..(nextHistory - 1) : history[i - 1] <= history[i]
    /\ \A i \in nextHistory..MaxHistory : history[i] = None

\* The operator requests that took effect pair off with the pauses that ended: each
\* names the revision of its own pause, and none was granted against a revision the
\* operator could not have seen paused, however many were prepared against it
\* (retry_blocked_event, record_handler_failure).
OneResumePerPause ==
    /\ enabled = (revision % 2 = 0)
    /\ {r.expected : r \in retries} = {n \in 0..(revision - 1) : n % 2 = 1}
    /\ \A r, s \in retries : r.expected = s.expected \/ r.key = s.key => r = s

\* As if one worker ran at a time: every attempt ever opened, also one that failed,
\* was abandoned or lost its claim, saw exactly the effects of the events before its
\* own, and each handled event was handled by exactly one of its attempts
\* (the claim's state_version and history boundary, commit_handler_outcome_classified).
HandlersAreSerial ==
    /\ \A a \in 1..(nextAttempt - 1) :
        /\ attempt[a].version = attempt[a].event - 1
        /\ \A i \in 1..MaxHistory :
             i <= attempt[a].through <=> history[i] \in 1..(attempt[a].event - 1)
    /\ {e \in EventSeq : \E a \in AttemptId : Committed(a, e)} = 1..stateVersion
    /\ \A e \in EventSeq, a, b \in AttemptId : Committed(a, e) /\ Committed(b, e) => a = b

\* Every accepted event is eventually handled, unless the session is paused for
\* an operator: crashes, lost leases, rollbacks and stalled keepers delay it only.
EveryEventSettles ==
    \A e \in EventSeq : e < nextEvent ~> event[e].status = "handled" \/ ~enabled

\* What the inbox promises: see ExactlyOnceInbox.
Promise == INSTANCE ExactlyOnceInbox WITH
    accepted <- nextEvent - 1,
    applied <- {e \in Events : event[e].status = "handled"},
    version <- stateVersion

\* The inbox with its racing workers implements the exactly-once FIFO inbox.
ImplementsPromise == Promise!Spec
=============================================================================
