--------------------------- MODULE WaitLifecycle ----------------------------
(***************************************************************************)
(* Durable waits: created and cancelled by handler outcomes, answered by   *)
(* clients, expired by sweeps (agent-store/src/store.rs,                   *)
(* agent-runtime/src/wait_expiration.rs, agent-server/src/routes/waits.rs).*)
(*                                                                         *)
(* Every transaction locks the session row and decides on what it reads    *)
(* and on clock_timestamp() under the lock, so each is one action.  Its    *)
(* now() is the time it began: a reply carries it from the moment the      *)
(* request came in, an expiration from some moment after the scan.  A      *)
(* handler outcome reads the clock twice for every wait it cancels, to     *)
(* decide and to stamp the row; its action is its commit, and its readings *)
(* are times at which it can have held the lock.  A request is an          *)
(* idempotency key with a body (compared by its hash) that matches the     *)
(* schema of the wait.                                                     *)
(***************************************************************************)
EXTENDS Integers, FiniteSets, Sequences

CONSTANTS Waits,      \* wait ids, ordered like the uuids they stand for
          Requests,   \* an idempotency key with a response
          NoRequest,  \* no resolution
          Callers,    \* concurrent resolve calls
          Sweepers,   \* wait-expiration workers, one per server process
          BatchSize,  \* batch_size
          MaxTime,    \* bound: clock
          MaxFaults   \* bound: failed expirations and restarts

ASSUME WaitsAssumption ==
    IsFiniteSet(Waits) /\ Waits \subseteq Nat \ {0} /\ NoRequest \notin Requests
ASSUME TimeAssumption == MaxTime \in Nat /\ MaxFaults \in Nat
\* WaitExpirationSettings::validate
ASSUME BatchAssumption == BatchSize \in Nat \ {0}

VARIABLES
    wait,       \* rows of session_waits
    resumed,    \* resumed[w]: reasons of the wait_resumed events inserted for w
    call,       \* resolve calls
    sweeper,    \* wait-expiration workers
    accepted,   \* <<wait, request>> answered with 202
    refused,    \* <<wait, request>> answered with 409
    now,        \* database clock
    freeSince,  \* when the last transaction released the session's row
    faults      \* faults so far, for the bound MaxFaults

vars == <<wait, resumed, call, sweeper, accepted, refused, now, freeSince, faults>>

-----------------------------------------------------------------------------
NoWait == 0
Never == MaxTime + 1                       \* expires_at IS NULL

Finished == {"resolved", "expired", "cancelled"}
Modes == {"external", "expiration", "either"}

WaitRow == [status : {"absent", "pending"} \cup Finished, mode : Modes,
            deadline : 0..Never, finishedAt : 0..MaxTime,
            resolution : Requests \cup {NoRequest}]
Call == [wait : Waits \cup {NoWait}, request : Requests \cup {NoRequest},
         begun : 0..MaxTime]
Sweeper == [cursor : Waits \cup {NoWait}, batch : SUBSET Waits, scanned : 0..MaxTime]

NoCall == [wait |-> NoWait, request |-> NoRequest, begun |-> 0]
Started == [cursor |-> NoWait, batch |-> {}, scanned |-> 0]

TypeOK ==
    /\ wait \in [Waits -> WaitRow]
    \* the table's CHECKs on deadlines and resolutions
    /\ \A w \in Waits : (wait[w].mode = "external") = (wait[w].deadline = Never)
    /\ \A w \in Waits : (wait[w].status = "resolved") = (wait[w].resolution # NoRequest)
    /\ resumed \in [Waits -> Seq(Finished)]
    /\ call \in [Callers -> Call]
    /\ sweeper \in [Sweepers -> Sweeper]
    /\ accepted \subseteq Waits \X Requests
    /\ refused \subseteq Waits \X Requests
    /\ now \in 0..MaxTime
    /\ freeSince \in 0..MaxTime
    /\ faults \in 0..MaxFaults

Init ==
    /\ wait = [w \in Waits |-> [status |-> "absent", mode |-> "external", deadline |-> Never,
                                finishedAt |-> 0, resolution |-> NoRequest]]
    /\ resumed = [w \in Waits |-> <<>>]
    /\ call = [c \in Callers |-> NoCall]
    /\ sweeper = [s \in Sweepers |-> Started]
    /\ accepted = {}
    /\ refused = {}
    /\ now = 0
    /\ freeSince = 0
    /\ faults = 0

-----------------------------------------------------------------------------
(* Shared parts *)

Pending(w) == wait[w].status = "pending"
DeadlineReached(w) == wait[w].deadline <= now

\* Mutant of MayExpire: the status the scan saw is not checked again.
MayExpireUnchecked(w) == wait[w].mode \in {"expiration", "either"} /\ DeadlineReached(w)

\* expire_wait's conditions, also those of due_waits_after.
MayExpire(w) ==
    /\ Pending(w)
    /\ wait[w].mode \in {"expiration", "either"}
    /\ DeadlineReached(w)

\* The transaction commits and lets the session's row go.
Unlock == freeSince' = now

\* The row of a wait that ends at time t.
Ended(w, status, t) == [wait[w] EXCEPT !.status = status, !.finishedAt = t]

\* insert_wait_event
Resume(w, reason) == resumed' = [resumed EXCEPT ![w] = Append(resumed[w], reason)]

-----------------------------------------------------------------------------
(* Handler outcomes *)

\* Mutant of FinishOfCancelled: a reached deadline has no precedence.
AlwaysCancelled(row, decided) == "cancelled"

\* What a cancelled wait becomes: "a deadline already reached takes precedence".
FinishOfCancelled(row, decided) ==
    IF row.mode \in {"expiration", "either"} /\ row.deadline <= decided
      THEN "expired" ELSE "cancelled"

\* WaitSpec::validate
SpecIsValid(mode, deadline) == (mode = "external") = (deadline = Never)

\* A row that commit_handler_outcome_classified cancels: the clock is read to
\* decide, and once more, later, for the row.
Cancelled(row, decided, finished) ==
    [row EXCEPT !.status = FinishOfCancelled(row, decided), !.finishedAt = finished]

\* commit_handler_outcome_classified: new waits are inserted, then the waits to
\* cancel, possibly one of the new ones, end if they are still pending.
HandlerOutcome(new, mode, deadline, cancel) ==
    /\ \A w \in new : wait[w].status = "absent"
    /\ \A w \in cancel \ new : wait[w].status # "absent"
    /\ SpecIsValid(mode, deadline)
    /\ LET inserted == [w \in Waits |->
                          IF w \in new THEN [wait[w] EXCEPT !.status = "pending", !.mode = mode,
                                                            !.deadline = deadline]
                          ELSE wait[w]]
           ends == {w \in cancel : inserted[w].status = "pending"} IN
        \E decided, finished \in [ends -> freeSince..now] :
            /\ \A w \in ends : decided[w] <= finished[w]
            /\ wait' = [w \in Waits |->
                          IF w \in ends THEN Cancelled(inserted[w], decided[w], finished[w])
                          ELSE inserted[w]]
            /\ resumed' = [w \in Waits |->
                             IF w \in ends
                               THEN Append(resumed[w], FinishOfCancelled(inserted[w], decided[w]))
                             ELSE resumed[w]]
    /\ Unlock
    /\ UNCHANGED <<call, sweeper, accepted, refused, now, faults>>

-----------------------------------------------------------------------------
(* Replies *)

\* POST /waits/{id}/resolve: the wait exists and its schema accepts the response;
\* the transaction of resolve_wait begins.
BeginResolve(c, w, r) ==
    /\ call[c] = NoCall
    /\ wait[w].status # "absent"
    /\ call' = [call EXCEPT ![c] = [wait |-> w, request |-> r, begun |-> now]]
    /\ UNCHANGED <<wait, resumed, sweeper, accepted, refused, now, freeSince, faults>>

\* The caller gets its answer.
Accept(c) ==
    /\ accepted' = accepted \cup {<<call[c].wait, call[c].request>>}
    /\ UNCHANGED refused
Refuse(c) ==
    /\ refused' = refused \cup {<<call[c].wait, call[c].request>>}
    /\ UNCHANGED accepted
Hangup(c) == call' = [call EXCEPT ![c] = NoCall]

\* Mutant of Resolvable: the deadline is compared with now(), the time the
\* transaction began, instead of clock_timestamp().
ResolvableWhenBegun(c) ==
    LET w == call[c].wait IN
    /\ Pending(w)
    /\ wait[w].mode \in {"external", "either"}
    /\ call[c].begun < wait[w].deadline

\* A reply can still win.
Resolvable(c) ==
    LET w == call[c].wait IN
    /\ Pending(w)
    /\ wait[w].mode \in {"external", "either"}
    /\ ~DeadlineReached(w)

\* resolve_wait, the reply wins.
ResolveWait(c) ==
    LET w == call[c].wait IN
    /\ call[c] # NoCall
    /\ Resolvable(c)
    /\ wait' = [wait EXCEPT ![w] = [Ended(w, "resolved", call[c].begun)
                                       EXCEPT !.resolution = call[c].request]]
    /\ Resume(w, "resolved")
    /\ Accept(c)
    /\ Hangup(c)
    /\ Unlock
    /\ UNCHANGED <<sweeper, now, faults>>

\* The request that resolved the wait comes again.
Replays(c) ==
    /\ wait[call[c].wait].status = "resolved"
    /\ wait[call[c].wait].resolution = call[c].request

\* resolve_wait: the stored event is returned once more.
ReplayResolution(c) ==
    /\ call[c] # NoCall
    /\ Replays(c)
    /\ Accept(c)
    /\ Hangup(c)
    /\ Unlock
    /\ UNCHANGED <<wait, resumed, sweeper, now, faults>>

\* resolve_wait: IdempotencyConflict or WaitNotResolvable.
RefuseReply(c) ==
    /\ call[c] # NoCall
    /\ ~Resolvable(c)
    /\ ~Replays(c)
    /\ Refuse(c)
    /\ Hangup(c)
    /\ Unlock
    /\ UNCHANGED <<wait, resumed, sweeper, now, faults>>

\* The call is lost before its transaction commits; the client may try again.
LoseCall(c) ==
    /\ call[c] # NoCall
    /\ Hangup(c)
    /\ UNCHANGED <<wait, resumed, sweeper, accepted, refused, now, freeSince, faults>>

-----------------------------------------------------------------------------
(* Expiration sweeps *)

\* ORDER BY expires_at, id
Before(v, w) ==
    \/ wait[v].deadline < wait[w].deadline
    \/ wait[v].deadline = wait[w].deadline /\ v < w

\* due_waits_after(cursor, batch_size)
DueAfter(cursor) ==
    LET due == {w \in Waits : MayExpire(w) /\ (cursor = NoWait \/ Before(cursor, w))} IN
    {w \in due : Cardinality({v \in due : Before(v, w)}) < BatchSize}

\* Mutant of CursorAfter: an empty batch leaves the cursor where it is.
CursorStays(cursor, batch) ==
    IF batch = {} THEN cursor ELSE CHOOSE w \in batch : \A v \in batch : v = w \/ Before(v, w)

\* waits.last(): past the end the next sweep starts over.
CursorAfter(cursor, batch) ==
    IF batch = {} THEN NoWait ELSE CHOOSE w \in batch : \A v \in batch : v = w \/ Before(v, w)

\* process_batch_inner: the scan moves the cursor before anything is expired.
ScanDueWaits(s) ==
    LET batch == DueAfter(sweeper[s].cursor) IN
    /\ sweeper[s].batch = {}
    /\ sweeper' = [sweeper EXCEPT ![s] = [cursor |-> CursorAfter(sweeper[s].cursor, batch),
                                          batch |-> batch, scanned |-> now]]
    /\ UNCHANGED <<wait, resumed, call, accepted, refused, now, freeSince, faults>>

\* w is the next wait of the batch.
NextInBatch(s, w) ==
    /\ w \in sweeper[s].batch
    /\ \A v \in sweeper[s].batch : v = w \/ Before(w, v)

TakeFromBatch(s, w) ==
    sweeper' = [sweeper EXCEPT ![s] = [@ EXCEPT !.batch = sweeper[s].batch \ {w}]]

\* expire_wait: it expires the wait or, when something else won, does nothing.
ExpireWait(s, w) ==
    /\ NextInBatch(s, w)
    /\ \/ /\ MayExpire(w)
          /\ \E begun \in sweeper[s].scanned..now :
                wait' = [wait EXCEPT ![w] = Ended(w, "expired", begun)]
          /\ Resume(w, "expired")
       \/ ~MayExpire(w) /\ UNCHANGED <<wait, resumed>>
    /\ TakeFromBatch(s, w)
    /\ Unlock
    /\ UNCHANGED <<call, accepted, refused, now, faults>>

\* expire_wait fails; the batch goes on.
ExpireFails(s, w) ==
    /\ NextInBatch(s, w)
    /\ faults < MaxFaults
    /\ faults' = faults + 1
    /\ TakeFromBatch(s, w)
    /\ UNCHANGED <<wait, resumed, call, accepted, refused, now, freeSince>>

\* The process stops or crashes, also in the middle of a batch, and a new one
\* starts without a cursor.
RestartSweeper(s) ==
    /\ sweeper[s] # Started
    /\ faults < MaxFaults
    /\ faults' = faults + 1
    /\ sweeper' = [sweeper EXCEPT ![s] = Started]
    /\ UNCHANGED <<wait, resumed, call, accepted, refused, now, freeSince>>

Tick ==
    /\ now < MaxTime
    /\ now' = now + 1
    /\ UNCHANGED <<wait, resumed, call, sweeper, accepted, refused, freeSince, faults>>

-----------------------------------------------------------------------------
\* Outcomes that create at most one wait.
SomeOutcome ==
    \E new \in {{}} \cup {{w} : w \in Waits}, mode \in Modes, deadline \in 0..Never,
       cancel \in SUBSET Waits :
        /\ new # {} \/ cancel # {}
        /\ HandlerOutcome(new, mode, deadline, cancel)

SweepStep(s) ==
    \/ ScanDueWaits(s)
    \/ \E w \in Waits : ExpireWait(s, w)

Next ==
    \/ SomeOutcome
    \/ \E c \in Callers, w \in Waits, r \in Requests : BeginResolve(c, w, r)
    \/ \E c \in Callers : ResolveWait(c)
    \/ \E c \in Callers : ReplayResolution(c)
    \/ \E c \in Callers : RefuseReply(c)
    \/ \E c \in Callers : LoseCall(c)
    \/ \E s \in Sweepers : SweepStep(s)
    \/ \E s \in Sweepers, w \in Waits : ExpireFails(s, w)
    \/ \E s \in Sweepers : RestartSweeper(s)
    \/ Tick

Spec == Init /\ [][Next]_vars

\* Sweeps repeat every poll_interval; clients, handlers and the clock owe nothing.
Fairness == \A s \in Sweepers : WF_vars(SweepStep(s))

FairSpec == Spec /\ Fairness

-----------------------------------------------------------------------------
(* Properties *)

\* However replies, expirations and cancellations race, a wait that ended has
\* resumed its session exactly once, with the reason it ended for, and no other
\* wait has (resolve_wait, expire_wait, commit_handler_outcome_classified).
OneResumption ==
    /\ TypeOK
    /\ \A w \in Waits :
        resumed[w] = IF wait[w].status \in Finished THEN <<wait[w].status>> ELSE <<>>

\* A reply to w was refused while w could still have taken one: w's deadline had
\* been reached.
ToldTooLate(w) ==
    /\ Pending(w) /\ wait[w].mode = "either"
    /\ \E r \in Requests : <<w, r>> \in refused

\* The deadline decides.  A wait that was answered ended before its deadline and
\* one that expired did not; and once a client was told that it is too late, the
\* wait can only expire: a handler that cancels it afterwards finds it expired
\* (README.md: "a deadline already reached takes precedence").  The finished_at of
\* a cancelled wait says nothing: commit_handler_outcome_classified reads the clock
\* for it after it has decided.
DeadlineDecides ==
    /\ [](\A w \in Waits :
            /\ wait[w].status = "resolved" => wait[w].finishedAt < wait[w].deadline
            /\ wait[w].status = "expired" => wait[w].finishedAt >= wait[w].deadline)
    /\ [][\A w \in Waits : ToldTooLate(w) => wait'[w].status \in {"pending", "expired"}]_vars

\* A client can rely on what it was told: an accepted reply is the one resolution
\* of its wait for good, and a refused reply, of which copies may still be under
\* way, is never applied (resolve_wait).
AnswersStand ==
    /\ \A a \in accepted : wait[a[1]].status = "resolved" /\ wait[a[1]].resolution = a[2]
    /\ accepted \cap refused = {}

\* A wait whose deadline has passed ends, although expirations fail, the sweep's
\* cursor has already moved past it, or its process is restarted
\* (process_batch_inner).
DueWaitsEnd == \A w \in Waits : MayExpire(w) ~> ~Pending(w)
=============================================================================
