# Agent platform: TLA+ specifications and proofs

TLA+ models of the durable core of the agent platform (`src/packages`, `src/apps`),
the TLC runs that check them on small instances, and TLAPS proofs of the
properties that matter most for every instance.

## 1. The system

A *session* is a durable state machine. Events (client input, completed
operations, resumed waits) enter its ordered inbox; a scheduler claims the oldest
event, lets a *harness* handle it, and commits the *outcome* in one PostgreSQL
transaction: new state, history entries, operations to run, waits to open or
cancel. Operations are carried to gateways over HTTP; their completion, a reply to
a wait or its deadline is the next event. Several server processes share one
database, each with the same loops; nothing but the database is shared.

| Component | State it keeps | Operations | Talks to |
|---|---|---|---|
| Session inbox (`agent-store`) | session row (claim, lease, state version, pause), events, attempts, history | enqueue, claim, renew, record failure, abandon, block, commit, operator retry | everything that inserts an event, under the session's row lock |
| Scheduler (`agent-runtime/scheduler.rs`) | tasks in memory, one lease keeper each | process_claim: preflight, handler, renew authority, count failures, commit with retries | inbox, harness |
| Operations (`agent-store`) | operation rows (status, lease, gateway job), attempts | create, claim per phase, defer, accept, retry, postpone, complete, withdraw | inbox (completion events) |
| Dispatcher (`dispatch.rs`), completion (`completion.rs`) | tasks in memory, one lease keeper each | submit, recover by idempotency key, cancel, withdraw, poll | operations, gateways by HTTP |
| Gateway client (`agent-gateways`) | none | submit, find, get, cancel; classification of failures | gateways |
| Callback receipts (`agent-store`, `routes/callbacks.rs`) | receipt rows | verify, record, claim, match, block, complete | gateways, operations |
| Waits (`agent-store`, `routes/waits.rs`) | wait rows | create, cancel, resolve, expire | clients, inbox |
| Wait expiration (`wait_expiration.rs`) | a keyset cursor in memory | scan a batch, expire one by one | waits |
| Request cleanup (`request_cleanup.rs`) | a keyset cursor in memory | scan, delete expired requests | operations |
| Change feed (`inspection.rs`, `routes/updates.rs`, `routes/sessions.rs`) | update rows, next and retained sequence; a cursor per stream | emit, page, stream, prune, snapshot | every transaction, clients |
| Work signals (`work_signal.rs`) | a generation counter | notify, wait | polls of the loops |
| Server (`agent-server/lib.rs`) | readiness, stop token | start, supervise the loops, drain | all loops |
| Basic Codex harness | session state: phase, tool plan, steering queue, cancellation, shell sessions | handle an event: turn, tool plan, compaction, cancellation | scheduler (called by it) |

### What is hard here

Every store call is a short transaction that locks the session row, so the
difficulties are *between* transactions:

* the event to claim is chosen on a snapshot, and only its session's row is locked and
  checked again: a session that is locked just then is skipped, one that changed since
  the snapshot may be claimed with the event it showed (`claim_next_event`);
* a handler or an HTTP call runs for long while its lease may expire, its process
  may die and another task may take over;
* the answer to a submission may be lost: the job may exist, may appear later, or
  not at all;
* reads outside transactions (failure count, parent of a continuation, target of a
  cancellation) are stale when used;
* replies, deadlines and cancellations race for one wait at the deadline;
* sweeps move their cursor before they act and act on a batch that is old by then;
* a gateway's callback may come before the operation knows its job, twice or never,
  and its documents may be mixed up;
* a wake-up may fall between a scan that finds nothing and the wait that follows it;
* one loop of a process may fail while the others, and open requests, go on;
* clients follow a feed that is pruned behind them, across broken connections;
* the harness must recognise every completion of what it staged, in whatever order
  they come: one it refuses blocks the session, one it forgets leaves it waiting.

`PROJECT.json` lists these hazards at their lines with the properties that cover
them.

### What makes each component correct

* Inbox: first in, first out, exactly once, as if one worker ran at a time; a
  pause belongs to its blocked event; the history is the concatenation of what
  handled events appended; every event settles.
* Operations: no gateway job without an operation that knows of it, results equal
  what the gateway reported, one completion event each, a withdrawal never
  overlaps a submission, everything ends that is not refused for ever while uncertain.
* Results: an operation ends exactly as the job it was accepted with, its own unless the
  gateway names another one when it accepts, with or without a callback;
  a receipt is processed only for the operation of its job and blocked only unmatched;
  no kind of work starves the other and no hint is slept through.
* Server process: it exits after a signal or a failure whatever hangs, and reports
  success only after a signal, with all requests answered and all loops returned; what
  an aborted task worked on can be claimed again. Request cleanup: every expired request goes.
* Waits: one resumption with the right reason; the deadline decides; what clients
  were told stays true; due waits end.
* Basic Codex harness: exactly what is in flight is awaited; plans run in order and
  results follow their calls; messages keep their order; work with effects is not
  repeated; a cancellation stages no work, stops the processes it knows of and ends.
* Feed: what a cursor covers has been seen; no gaps; followers catch up; streams do
  not hold up a drain.

## 2. Modules

| Module | Role |
|---|---|
| `SessionInbox` | inbox, claims and scheduler tasks of one session |
| `ExactlyOnceInbox` | what the inbox promises: accept, and apply the next event |
| `SessionInboxProofs` | theorems about `SessionInbox`, and that it implements `ExactlyOnceInbox` |
| `OperationDispatch` | operations, dispatch and completion tasks, network, gateway (external) |
| `GatewayClient` | what the gateway client accepts of documents and callbacks, as pure operators |
| `ResultDelivery` | callbacks, receipts and the tasks of the completion runtime, gateway (external); extends `GatewayClient` |
| `CompletionLoop` | the completion runtime's run loop, its work signal and the listener that feeds it |
| `ServerProcess` | supervision, draining and exit of the process; extends `CompletionLoop` and composes its loop with the HTTP server and the other loops |
| `RequestCleanup` | the request cleanup worker's keyset sweep |
| `WaitLifecycle` | waits, replies, cancelling outcomes, expiration sweeps, clock |
| `UpdateLog` | change feed, retention, snapshots, streams, draining, client (external) |
| `ToolPlan` | the harness's tool plan as pure operators: parsing, segments, scheduling |
| `CodexHarness` | the Basic Codex harness's handler, with the machine its operations act on (external) |
| `OperationDispatchProofs`, `ResultDeliveryProofs`, `ServerProcessProofs`, `WaitLifecycleProofs`, `UpdateLogProofs`, `CodexHarnessProofs` | theorems about the module each extends; `ServerProcessProofs` covers `CompletionLoop`, `CodexHarnessProofs` covers `ToolPlan` |
| `CodexProjectionProofs` | theorems about the projection of `CodexHarness`, on top of `CodexHarnessProofs` |
| `MC*` | instances for TLC: symmetry sets and the values of function constants |

### SessionInbox

One session: all of the store's statements are keyed by a session id and serialised by
its row. The variables are the columns of `sessions` the protocol uses and the rows of
`session_events`, `session_event_attempts`, `session_history` and
`session_processing_retries`; `worker` is the scheduler's tasks, whose program counter
follows `process_claim`. One store transaction is one action, except `claim_next_event`,
which is `ClaimScan` (candidate query on the snapshot) and `ClaimNextEvent` (when its
row is locked, only the *session* is checked again; `SKIP LOCKED` passes over a session
that is locked at that moment, which is `ClaimMiss`).

Time is its two thresholds: a lease is live or not, an event due or not. A live lease of
a working task expires only as a fault (`HeldLeaseExpires`: a delayed lease keeper), an
orphaned one always does. `LoseTask` is a crash, an abort at shutdown, or a store error
that ends the task. The attempt id and the lease token are drawn together and are one
number. Handlers are arbitrary: they return, fail, return something invalid, or meet an
unavailable store. Other components' insertions of events are `EnqueueExternalEvent`
without a key.

### OperationDispatch

The operations of one session, `Kind` and `Ref` (parent or target) as constants, so an
instance chooses the constellation. `task` is a dispatch or completion task with its
claim; `recovering` is the claim's `recovering_uncertain`. HTTP calls are actions of
their own between transactions. The gateway keeps one job per idempotency key; a request
whose answer nobody waits for is `late` and may be lost, arrive, or arrive again.
Gateway answers are the four classes of `GatewayError`. Crashes, outages, lost or
unreadable answers are faults and finitely many; a definite refusal is not: an operation
whose acceptance is uncertain may be refused at every retry, for ever. The callback of a
gateway has one effect here, to make an accepted operation due (`OperationBecomesDue`);
the receipts behind it are in `ResultDelivery`.

### GatewayClient and ResultDelivery

`GatewayClient` has one operator per acceptance rule of `agent-gateways/src/lib.rs`. A
document is a record of the fields the client looks at; whether nested JSON parses is
part of the data. `ResultDelivery` puts the rules between a gateway that may answer with
wrong documents and the rows that must not believe them:

| Code | Model |
|---|---|
| `gateway_callback_receipts` | `receipt`, one per gateway event; `ready` is `next_attempt_at` passed |
| `session_operations`, as far as results go | `op`; `due` is `next_attempt_at` passed |
| tasks spawned by `CompletionRuntime::run`, with their claims | `slot`; the slot names the lease token |
| `receive`, `record_callback_receipt` | `RecordCallbackReceipt`, over right and wrong callbacks |
| `process_receipt` | `MatchCallbackReceipt`, `CompleteCallbackReceipt`, `BlockUnmatchedStarts`, `BlockUnmatched` |
| `process_result_claim`, `get_job`, the two identity checks | `GetJob`, `GetWrongJob`, `Decide` |

`block_unmatched_callback_receipt` is one SQL statement but two actions: its `NOT
EXISTS` reads operations from the statement's snapshot, its conditions on the receipt
are evaluated again on the row after a lock wait. A submission is reduced to what fixes
`gateway_job_id`: the answer to the submission (`AcceptSubmission`), which the client
takes for the operation's job whatever job it names, or a lookup (`AcceptLookup`), whose
key it compares; a unique index keeps two operations from one job. Job `o` belongs to
operation `o`; a `Stray` is a job somebody else submitted through the same connection.
`misnamed` is a history variable: the operations whose gateway named another job. The
response of an LLM job carries nothing that names its request, so a body mixed up under
the right job ID cannot be told from the right one and is not among the wrong documents.

### CompletionLoop and ServerProcess

`CompletionLoop` keeps the order in which rows would be claimed (`queue`), the rows
other transactions have locked, the loop's program counter and the alternation of
`claim_next`, the tasks that have ended or panicked and are not joined, the
generation of the `WorkSignal` and the notifications on their way. `heard` is a
history variable: the unclaimed items the loop has been told of, by a notification or by
the end of the task that matched a receipt. A notification that is sent while the
listener is not connected is lost. The dispatcher's loop has the same shape and the
same signal; it is not modelled a second time.

`ServerProcess` is `run_listener`: the branch its `select!` took (`main.branch`), what
that branch then waits for (`Awaited`) and what is returned (`Result`). The seven
futures of `try_join!` are the completion loop and the listener, in detail, and one
abstract loop for the other five. A failed loop drops the others where they are
(`RuntimeFails`), before the drain.

### RequestCleanup

A request becomes a candidate `request_retention` after its operation ended, later
than all other candidates; so the candidates are a sequence that grows at its end and
the cursor is a position in it. Rows in use are skipped, deletions may fail, another
process may remove a candidate, the process may stop in the middle of a batch.

### WaitLifecycle

Waits, concurrent `resolve` calls and sweeps, with a real (bounded) clock because
deadlines are compared with `clock_timestamp()` under the lock while `finished_at` is
`now()`, the start of the transaction: `begun` and `scanned` keep that difference. An
outcome that cancels waits reads the clock once to decide and again for `finished_at`;
its action is its commit, so both readings are free between the moment the lock was last
released (`freeSince`) and now, in this order, for each wait. `accepted` and `refused`
record what clients were told.

### UpdateLog

The session's visible state is a version that every transaction advances; an
update announces a version. Ageing follows sequence order because `created_at` is
taken under the row lock. The client is external and does what the repository's
README tells it to do: bootstrap, follow, reconnect with its own cursor,
resnapshot on `resnapshot_required`.

### ToolPlan and CodexHarness

One session of the Basic Codex harness: its durable state (`state/*.rs`) and one
action for each event and kind of outcome that `handler.rs` and `cancellation.rs`
take. What SessionInbox and OperationDispatch guarantee is assumed: one event at a
time, state and staged operations committed together, every operation completed
once. Completions of different operations may arrive in any order, except that a
withdrawn operation's completion precedes the withdrawal's (the order in which
`complete_withdrawal` posts them), so the arrival of a completion and its handling
are one action. A `HandlerError` is `RefuseCompletion`: the event stays at the head
of the inbox and meets the same state at every retry.

| Code | Model |
|---|---|
| `active_turn` with its phase, retry count, steering, compaction input and source hash | `turn`; the hash is the source projection itself |
| `ToolPlanState` | `plan` |
| `context_window.model_history` | `history`, items named by message, response and call |
| `executions`, `next_execution_session_id` | `executions`, `nextSess` |
| `CancellationState` | `cancel` |
| operations staged and not completed | `open`; an operation's name says what it is for, e.g. `<<"terminate", p, 2>>` |

`launched`, `running`, `listing` and `withdrawn` are the machine and the store as
far as outcomes show them. The assumptions on the machine: it starts a process of
each start operation at most once; a successful termination means the process has
ended, an interrupt reports it finished only if it has; a listing shows the
processes running when it is taken. Everything else about an outcome is free:
failed, unknown with or without a response, late. A token count is a free choice
of when to compact and how many of the oldest messages a compaction drops.
`received`, `told` and `performed` are history variables of the properties.

`ToolPlan` says what the loops of the code arrive at, with quantifiers: of a segment,
the calls that wait for a busy session, those that are prepared and those that are
refused (`Considered`, `Prepared`, `Refused`), and the segment `schedule_ready` ends at,
the first that its refusals do not complete (`PassedOver`, `Schedule`). A call's
arguments are valid, refused by the schema when the response is parsed, or refused when
the call is prepared.

## 3. Runs

| Run | Instance | What it shows |
|---|---|---|
| `inbox` | 2 workers, 2 events, 2 retry keys, history of 2, 1 retry, 1 commit retry, 1 fault | safety of the inbox, that it refines `ExactlyOnceInbox`, and that every accepted event is handled or the session is paused |
| `operations` | an LLM call, its cancellation and its withdrawal, 2 tasks, 2 faults | safety of operations |
| `operations_live` | a call, its continuation and its cancellation, 2 tasks, 1 fault | the continuation's request follows the parent's success; all but continuations end, unless refused for ever while uncertain |
| `dependency` (violation) | a call and its continuation, 1 task, 2 faults | finding 1 below |
| `results` | 1 operation and 1 stray job of either kind, 2 tasks, 1 fault | callbacks, polls, wrong answers and wrong documents race; results arrive |
| `server` | 1 receipt, 1 operation, room for 1 task, 1 fault | the completion loop in its process: wake-ups, starvation, supervision, exit |
| `cleanup` (violation) | 2 requests, batches of 1, 1 fault | finding 3 |
| `waits` | 1 wait, 2 replies by 2 callers, 2 sweeps with batches of 1, clock 0..1, 3 faults | races for one wait, and that it ends once due |
| `updates` | 5 updates, pages and prune batches of 2, 2 faults | safety and liveness of the feed |
| `codex_turns` | 2 messages, 2 rounds of tools or pauses, 3 plans, 2 output pages | turns with steering, compaction, retries and tools, and that they end |
| `codex_cancel` | 1 message, 1 cancellation, 1 round, 2 plans | cancellation at any point of a turn, and that it ends |
| `cancelled_early` (violation) | as `codex_cancel`, 2 messages | finding 2 |

The type invariant of each module is a conjunct of one of its invariants.
Each property of a passing run has a mutant in `PROJECT.json`: a plausible bug in
the modelled code that the run catches.

### Bounds

The bounds are named in each module (`Max...`). Two tasks are enough for one to be stale
while the other takes over; two faults allow a takeover to be disturbed again (a lost
task followed by an expired lease, a lost answer followed by a crash); most runs that
also check liveness have one. Two events distinguish order, and the commit of the first
may append the second; two history entries let entries of both coexist. In `inbox` no
input has a key, so that the two keys are retries': two retries take effect, one after
the other, and late copies and old revisions of the first meet the second pause. Keyed
inputs are covered by the theorems. `MaxAttempts` is never the reason a claim cannot be
made in `inbox` (otherwise `EveryEventSettles` would fail). With one wait, two replies
and two sweeps every pair of the four ways to end it meets; the code compares times with
a deadline only, so the clock needs a moment before and one at or after it; three faults
let both sweeps fail and one restart. In `results` two tasks let a receipt be matched
while another task, which found it unmatched, is about to block it, and let a stale task
finish after its successor; the stray job brings receipts that match nothing, the
documents of somebody else, and acknowledgements that name it. In `server` one place for
two kinds of work is the case in which one kind can starve the other, and one fault is
enough for the failure of any part. Five updates with pages of two give a full page, a
partial one and a cursor below, at and above the retention floor. For the harness two
messages give a new turn and steering, or two turns; two rounds let the second plan
write to a shell session the first one started; two pages a call that becomes ready
again while another waits for its session. The plans hold calls refused at both places,
two users of one session, and an exclusive call behind two parallel ones. Two commands
are enough for a cancellation to meet one completed and one in flight, and to share a
discovery.

Three runs explore only one of several behaviours that differ in names. Retry keys are
used in order (`RetryKeysInOrder`): they are interchangeable. Of two idle tasks of
`operations_live` the first one claims (`TasksInOrder`): an idle task remembers nothing,
and fairness is stated for operations and for tasks at work, never for an idle task. In
`results` both jobs are of one connection (`OneConnection`): a job of another one can be
named by no answer, and its receipt is one that matches nothing.

Deadlock is not checked where a bounded system comes to rest (all events handled, all
operations ended, a client up to date); it is checked for waits.

### Fairness

Weak fairness on the steps of a worker, a task, a sweep or a stream: the loops poll
for ever and a started task runs on (tokio), unless a fault, of which there are
finitely many, ends it. Weak fairness on time: orphaned leases expire, retry delays
pass. In `OperationDispatch` gateways finish their jobs, and the claim of a due
operation is strongly fair: claims are ordered by `next_attempt_at` and the
phases take turns, so a due operation is not overtaken for ever. In `ResultDelivery`
nothing is assumed of the gateway, and the claims of due results and receipts are
strongly fair, which is what `EveryDueItemIsClaimed` shows of the loop. There,
`join_next` and the shutdown are strongly fair because they are branches of an unbiased
`select!`, which polls its branches in random order; the claim, the wait and tasks are
weakly fair, connections, requests and the signal owe nothing. In `RequestCleanup` the
worker goes on and transactions that use a request end. Clients,
operators, handlers and the clock of `WaitLifecycle` owe nothing. In `UpdateLog` a
client that follows keeps following, and the drained server is restarted. In
`CodexHarness` completions are weakly fair: while one can be delivered to a session
that is not blocked, eventually some completion is handled, which is what
`operations_live` and `inbox` show of the platform. `CanHandle` writes out when
that step is enabled. Processes need not end and listings need not be answered.

### Findings

1. `dependency`: a continuation whose claim was lost before it could be deferred is
   recovered as uncertain for ever, and a failed parent never becomes its
   dependency failure.
2. `cancelled_early`: cancelling an idle session with tracked processes leaves no
   active turn while they are being stopped, so the next message or cancellation
   request reports `cancelled`, and the next completed control `cancelling` again.
3. `cleanup`: the cursor starts over only after an empty scan, so a request that was
   skipped or could not be deleted is not met again while other requests expire
   between the scans (`request_cleanup.rs:85`, README.md:161). A process that starts
   anew, or a quiet interval, meets it.

Also seen in the models, without a run of their own:

* `claim_next_event` evaluates `next_attempt_at` on its snapshot, so an attempt
  abandoned between the snapshot and the lock of another worker is claimed again at
  once, without the retry delay (`store.rs:536`, README.md:111).
* A deferred continuation is pending again although a stale task may hold an older
  claim of it; that task can submit it after it was withdrawn (`dispatch.rs:415`,
  README.md:293). For the same reason a cancellation of it can find nothing to cancel
  and succeed, while the stale task's job runs: the next claim of a pending operation
  is not a recovery and may fail definitely.
* The sweep of due waits has the same cursor as request cleanup
  (`wait_expiration.rs:83`): `DueWaitsEnd` holds when finitely many waits become due.
* A poll that read the job as running can overwrite the hint of a callback that came
  meanwhile; the result is then read after the fallback interval and not "immediately"
  (`store.rs:1537`, README.md:338).
* When a loop fails, `try_join!` drops the other loops at once: they receive no
  cancellation and their tasks no grace (`lib.rs:556`, architecture.md:143-146).
  `RuntimeStopped` is returned only if all loops return without having been stopped,
  which none does.
* A claim call that a shutdown drops may have committed: the item is leased to nobody
  until the lease expires (`completion.rs:189`).
* A loop whose own grace passes aborts its tasks and returns `Ok`, so the process can
  report success with work cut off (`completion.rs:235-240`); the work keeps its lease
  and is claimed again once that expires.
* The answer to a submission is taken for the operation's job without a look at its key,
  which only lookups compare (`agent-gateways/src/lib.rs:1019`): a gateway that mixes up
  its answers maps an operation to another job. `OutcomeIsAuthoritative` says that nothing
  else does.
* A definite refusal of an uncertain submission is met again at every retry
  (`dispatch.rs:771`). README.md:275-283 says that such an operation keeps recovering;
  `EveryOperationEnds` excepts it, and what waits for it.
* A wait cancelled just before its deadline may have a `finished_at` after it
  (`store.rs:883`, `store.rs:891`): the clock is read twice.
* Creating a session emits no update (`store.rs:163`, persistence.md:67).
* An unknown outcome of an execution that arrives before its withdrawal's completion
  replaces the control the withdrawal is recorded under; the withdrawal's
  completion is then refused and the session is blocked (`cancellation.rs:374`).
  `CancellationLosesNothing` says that nothing else can be refused, and `CancellationEnds`
  excepts this case.
* A second unknown execution joins the discovery under way, whose listing may be
  older than its process (`cancellation.rs:375`); a listing has at most 50
  processes; the failure of the second discovery is not recorded.
* `llm_attempts` counts per turn, not per request (`handler.rs:498`).
* A terminal failure leaves tracked processes running, and a later cancellation is
  ignored (`failure.rs:87`, `handler.rs:33`).

`PendingMeansUnsent` and `NoOrphanJob` are therefore stated for operations that
depend on no other, `CancellationTakesEffect` for targets that depend on no other,
`EveryOperationEnds` for all but continuations.

## 4. Proofs

Every theorem is proved for all values of the constants that satisfy the named
assumptions of its module. Each proof has the same shape: an inductive invariant
`IndInv` that contains the types, a lemma per action, their combination over the
disjuncts of `Next` (theorem `Inductive`), and the properties as consequences. Before
it was proved, each `IndInv` was checked with TLC on the instance of the component's
run.

| Module | Theorem | States |
|---|---|---|
| `SessionInboxProofs` | `TypeCorrect` | `TypeOK` |
| | `FifoExactlyOnce` | `HandledIsPrefix` |
| | `ClaimsAgree` | `ClaimCoherence` |
| | `PausesAgree` | `PauseMatchesBlockedHead` |
| | `HistoryOrdered` | `HistoryFollowsInbox` |
| | `PausesPairWithRetries` | `OneResumePerPause` |
| | `BudgetIsKept` | `RetryBudgetHolds` |
| | `HandlersRunSerially` | `HandlersAreSerial` |
| | `Refinement` | `ImplementsPromise`, the initial states and every step |
| `OperationDispatchProofs` | `ClaimsFitTheirRows` | `ClaimMatchesRow` |
| | `EndsAreAnnouncedOnce` | `OneCompletionEvent` |
| | `OutcomesAreTheJobs` | `ResultMatchesJob` |
| | `PendingIsUnsent` | `PendingMeansUnsent` |
| | `NoJobIsOrphaned` | `NoOrphanJob` |
| | `ContinuationsFollowParents` | `ContinuationFollowsParent` |
| | `CancellationsTakeEffect` | `CancellationTakesEffect` |
| | `EndsAreFinal` | no step changes an ended operation |
| `ResultDeliveryProofs` | `ReceiptsAreSettledRightly` | `ReceiptsSettleRightly` |
| | `OutcomesAreAuthoritative` | `OutcomeIsAuthoritative` |
| `ServerProcessProofs` | `HintsAreHeeded` | `NoHintSleptThrough` |
| | `TasksWithinCapacity` | at most `Capacity` tasks |
| | `SuccessIsEarned` | `CleanExitIsEarned` |
| `WaitLifecycleProofs` | `ResumesOnce` | `OneResumption` |
| | `DeadlineIsDecisive` | `DeadlineDecides` |
| | `AnswersAreFinal` | `AnswersStand` |
| `UpdateLogProofs` | `NoChangeIsMissed` | `NoMissedChange` |
| | `ReplayHasNoGaps` | `ReplayIsGapless` |
| `CodexHarnessProofs` | `WorkInFlightIsAwaited` | `OperationsAreAwaited` |
| | `PlansRunInOrder` | `PlanRunsInOrder` |
| | `WorkIsDoneOnce` | `WorkIsNotRepeated` |
| | `CancellationsLoseNothing` | `CancellationLosesNothing` |
| | `OnlyLateWithdrawalsBlock` | only a late withdrawal blocks a session |
| | `CancellationIsTerminal` | after a cancellation's request, only its cleanup |
| `CodexProjectionProofs` | `ProjectionStaysInOrder` | `ProjectionInOrder` |

### SessionInboxProofs

Any sets of workers, input keys and retry keys and any bounds (`BoundsAssumption`,
`KeyAssumption`). `IndInv` adds to the types:

* `InboxInv`: each row, by its place relative to the state version, has a status
  it may have: handled up to it, pending beyond the next one, absent beyond the end;
* `HeadInv`: only the event after the last handled one can be in processing or
  blocked, and `enabled` says which;
* `ClaimInv`: the row's token, event and the running attempt agree, and an attempt
  that is not the token's is finished;
* `TaskInv`: what a task believes is at most as new as the row: a scanned event is
  the head or already handled, an attempt in a task is one that was opened;
* `HistoryInv`: the history up to its end, ordered and attributed to handled events.

The decisive case is `ClaimNextEvent` with an event from an old snapshot: `TaskInv`
leaves it two possibilities, the head or a handled event, and the table's CHECK
(`EventIsOpen`) excludes the second; a blocked one is excluded by `enabled`. The
other actions follow because a task that may write holds the token.

`OneResumePerPause` is inductive relative to `IndInv`: only `RecordBlocked` and
`RetryBlockedEvent` touch the processing columns, an owned session is never paused
(`OwnerFacts`), and a resumption names the current, odd revision, which no earlier one
can have named.

`RetryBudgetHolds` counts a set of attempts, and the count was read in another
transaction than the one that records the next retry. `BudgetInv`, inductive relative
to `IndInv`, says why that is safe: only a blocked event has overdrawn its budget, and
the count that a task about to record a retry has read is still good *as long as the
task owns the session*, since only the owner records failures. When it no longer owns
it, recording is refused. The counting itself is the library's theorems on
cardinality.

`HandlersAreSerial` is about attempts that are long over: `SerialInv`, inductive relative
to `IndInv`, keeps for every attempt ever opened what `ClaimInv` knows of the running one,
that it saw the effects of the events before its own and no others (`SawItsPast`). Later
commits only add entries behind its boundary. A second commit of an event would need its
attempt to be the token's while the event is already handled.

### OperationDispatchProofs

Any operations, tasks, tokens and faults (`FaultsAssumption`, `NamesAssumption`), and
any constellation of references that `validate_references` and the table's CHECKs
admit (`ReferenceAssumption`). `IndInv` is three of the properties (`ClaimMatchesRow`,
`OneCompletionEvent`, `ResultMatchesJob`) and

* `RowInv`: what each status says of the operation's job. A pending operation that
  depends on no other is `Untouched`: no job, no request under way, and no task, dead
  claims included;
* `TaskInv`: what a task relies on at each step *whether or not its claim is still
  valid*, because a stale task still talks to the gateway: e.g. the parent of a
  continuation about to be sent has succeeded, a job about to be recorded exists, a
  completing submission is not a recovery;
* `OwnerInv`: the owner of a claim that is no recovery is the first to work on the
  operation. This carries the argument of `gateway_failure`: only such a claim may turn
  a definite rejection into a failure, and no earlier request can then be admitted.

The decisive cases are `gateway_failure`, where `OwnerInv` is used up, and the
withdrawal of a pending target, where `Untouched` is. Neither holds for an operation
that depends on another one; the attempt to prove `CancellationTakesEffect` without
that restriction is how the second half of the observation in section 3 was found.

`EndsAreFinal` is a property of steps: the row, the attempts and the announcement of an
ended operation do not change, and an accepted operation leaves its status only by
ending. A task may have gone on for long after its lease was lost; what keeps it from
writing is that the claim its transaction looks for is valid only while the row is
submitting or accepted (`RecordsFacts`), and that a withdrawal ends its target only if
the target is pending.

### ResultDeliveryProofs

Any operations, other jobs and slots (`DeliveryAssumption`, `NullAssumption`: the null
value is no job, no slot and no completeness of a response). `IndInv` adds `JobInv`,
`MappingInv` (from its acceptance on an operation has an existing job of its connection,
its own unless the gateway named another), `EndInv` (it ended as that job), `AbsentInv`,
`DueInv` (what is due or ready is not finished) and `TaskInv`: what a task remembers of
a receipt or a document is *still true* when it writes, even if its claim was taken
over. That a matched receipt stays matched, an accepted operation keeps its job and a
terminal job keeps its status makes `TaskInv` stable under the other tasks; that the
identity checks of `GatewayClient` let no wrong document through establishes it
(`Decide`). In `BlockUnmatched` the conditions evaluated again on the locked row carry
the step, not the ones of the snapshot.

### ServerProcessProofs

Any finite sets of receipts and results, any capacity (`LoopAssumption`,
`ServerAssumption`). `LoopInv`: whatever is due or leased is in the claim order
(`QueueInv`), a hint is forgotten only by claiming its item (`HeardInv`), tasks within
the capacity, and `ScanInv`, the half-way point of `claim_next`: if nothing has been
signalled, joined or locked since the snapshot of the generation, nothing the loop was
told of is of the kind it has asked for already. The decisive step is `FindsNothing` for
the second kind: with both kinds excluded nothing heard is left, and any later hint
changes the generation. `MainInv` says what each phase and branch of `run_listener`
implies of the server, the requests and the loops; `ExitInv` that a process that has
exited runs no task. That what an aborted task worked on stays claimable is `QueueInv`.

### WaitLifecycleProofs

Any finite set of waits, any requests, callers, sweepers, batch size and clock
(`WaitsAssumption`, `TimeAssumption`, `BatchAssumption`). `IndInv` is `OneResumption`,
`EndInv` (how a wait ended fits the time it did), `AcceptInv` (an accepted reply is
the resolution of its wait), `CallInv` (a reply under way began in the past, at a
wait that exists),
`BatchInv` (the deadlines of a batch had been reached when it was scanned, so an
expiration is right however late it comes), and `RefusalInv` (a refused reply can no
longer win: its wait has ended otherwise, takes no replies or is past its deadline),
which makes refusals final although copies of the reply are under way. The second half of
`DeadlineDecides` is about steps: a reply was told that it is too late by a transaction
that held the lock, `freeSince` is not before it, so a handler that cancels the wait
reads the clock later and finds the deadline reached (`ReachedStays`, `TooLateStays`).

### UpdateLogProofs

Any clients, page and prune batch sizes (`SizesAssumption`, `BoundsAssumption`).
`LogInv`: no update announces a version later than the current one. `RowInv`: what a
client's cursor covers it has seen; while it streams (`StreamInv`) the wire holds
exactly what lies between its cursor and the stream's, and the page continues it
without a gap. `PageContinues` is the lemma about `Expired` and the page query: a cursor
that has not expired lies at or above the floor, so a page starts right after it.

### CodexHarnessProofs

Any bounds (`BoundsAssumption`) and any set of plans: sequences, of any length, of calls
of the four tools, where only a `write_stdin` names a session (`PlansAssumption`, the
shape `tool_plan::parse` gives them). `IndInv` is `OperationsAreAwaited` with

* `PlanInv`, the plan while tools execute. Its parts are the shapes (`PlanShape`);
  `PlanOrder`: what is not complete lies from the active segment on, and of the calls of
  one session only the first that is left is in use; `PlanSessions`: a call in use talks
  to the process its session is tracked for; `PlanNames`: the operation of a submitted
  call is named after it; `PlanWork`: a call whose work is done is past the step that
  did it; and `PlanWaits`: a call that waits in the active segment names a known session;
* `TurnInv`, `SessionInv` and `WorkInv`: which phase awaits which request, that sessions
  are tracked once, that work belongs to requests already made;
* `ToldInv`: each process an outcome reported active and that still runs is tracked or,
  in a cancellation, being stopped;
* `CancelInv`: per target and process, the control it waits for (`TargetInv`,
  `ProcessInv`): a settled process has ended or both its terminations are recorded as
  failed; and `ListingInv`, what a discovery can have answered.

The lemmas about `ToolPlan` say what parsing, scheduling and advancing return for every
plan. Two carry the argument. `RunGoesOn`: when the loop of `schedule_ready` ends within
the plan, some call is submitted, since the first call left of a session can only wait
for one that is submitted. `ChosenIsFirst`: of two calls of a session the later one is
not chosen while the earlier is left. `WorkIsNotRepeated` needs `PlanWork` and the names:
a call that has done its work submits no operation of that step again, and operations of
different calls have different names. For a
cancellation, names again tell the controls of two targets or processes apart
(`TargetAwaited`, `ProcessAwaited`); `LateAwaited` covers the completions that change
several records at once, and shows that the withdrawal of a target whose outcome was
unknown is the only operation left that no record waits for.

Two theorems are about what cannot happen. `OnlyLateWithdrawalsBlock`: a session is
blocked only while a late withdrawal is among its operations; by `OperationsAreAwaited`
every other completion finds the record that waits for it, so it is refused in no order
of arrival. `CancellationIsTerminal` is a property of steps (`OnlyCleanup`): once
a cancellation is requested, the projection, the messages received, the request numbers
and the failure do not change, executions only leave the session, operations that are
staged are withdrawals, interrupts, terminations and listings, and what the cancellation
has recorded (completed targets, failures, settled processes) stays. Both are proved
along with `IndInv`, in the lemmas for the completions of a cancellation (`CleansUp`).

### CodexProjectionProofs

The same assumptions. The user messages of a projection are a filtered sequence, and
what a filter computes for sequences of any length would need an induction over data.
`UserItems` of `CodexHarness` is therefore written without recursion: the k-th user item is
the one up to whose place there are k (`Rank`), and that there is exactly one
(`RankExists`, `RankInjective`) follows from the library's theorems on cardinality and a
least place. The lemmas then say how user items, messages and pairs of calls and results
behave under concatenation and under dropping the oldest.

`ProjectionInv`, inductive relative to `IndInv`, has four parts:

* `InputsInv`: what clients may still send, so that the next message is a number;
* `HistoryInv`: the shapes, and that only a compaction holds the input of a turn back, so
  that no other step can put steering in front of it;
* `PairsInv`: until a cancellation, every call of the projection is followed by its
  results, except those of the plan that runs, which are the *last* item; so the results
  that `finish_completed_tool_plan` appends follow them directly;
* `MessagesInv`: the messages of the projection, then the held input, then the steering,
  are the end of what was received. The three queues have to be taken together: each
  handler moves messages from one to another, and a compaction drops some from the
  front.

The decisive case is `CompactionSucceeds`, which replaces the projection by the newest
user items, the provider's item, the held input and the steering.

### Only model-checked

* Liveness, in every module: outside the reach of the prover. Every safety property that a
  passing run checks is proved.
* `RequestCleanup`, which has only the run that violates its property.

The proofs need no induction over data: that a page, a batch, a queue or a plan has a
first element is proved from the well-foundedness of strict inclusion (`WFMin`), and
sizes from the library's theorems.

## 5. Not modelled

Text, JSON and HTTP formats, authentication, limits on sizes, configuration,
metrics, read-only queries, the image bucket, SQL beyond the transactions above,
test support, the patch grammar and its application to files, image conversion,
prompts. Of the store, `block_callback_receipt`, `renew_callback_receipt_claim`,
`retry_callback_receipt` and `delete_expired_operation_requests` have no caller outside
tests. That withdrawals end is not checked as liveness: a fourth operation is out of
TLC's reach there. Planned parts are in the next section. `PROJECT.json` has the
complete list with reasons.

## 6. Plan

In this order:

1. **Composition** of inbox, operations and waits: an outcome and the completion
   events it leads to, what a handler's bounded reads (`context.rs`) can see, and that
   the order of completions `CodexHarness` assumes is the one the store produces.
2. **Patch application** (`filesystem_tools.rs`: hunks, seek order, moves) as pure
   operators against a reference definition.
3. **Proofs**: the composition's invariants.
