---------------------------- MODULE CompletionLoop ----------------------------
(***************************************************************************)
(* When the completion runtime claims: CompletionRuntime::run and          *)
(* claim_next (agent-runtime/src/completion.rs), the WorkSignal that wakes *)
(* it (agent-runtime/src/work_signal.rs) and the listener that feeds the   *)
(* signal (run_work_notifications, agent-server/src/lib.rs).               *)
(*                                                                         *)
(* What a claimed task does is ResultDelivery's subject; here a task only  *)
(* ends, and its item is settled or waits for its next attempt.  The queue *)
(* holds the items whose next_attempt_at has passed in that order; a       *)
(* leased item keeps its place.  Who sets stop, and what becomes of a loop *)
(* that fails, is ServerProcess's subject.                                 *)
(***************************************************************************)
EXTENDS Integers, Sequences, FiniteSets

CONSTANTS Receipts,  \* callback receipts
          Results,   \* accepted operations
          Capacity   \* max_concurrent_results

ASSUME LoopAssumption ==
    /\ IsFiniteSet(Receipts) /\ IsFiniteSet(Results)
    /\ Receipts \cap Results = {}
    /\ Capacity \in Nat \ {0}

Items == Receipts \cup Results

VARIABLES
    stop,        \* the CancellationToken every loop of the process watches
    item,        \* absent, due, leased, abandoned (leased, but no task), later or settled
    queue,       \* the items that are due or leased, by next_attempt_at
    locked,      \* items whose row another transaction has locked
    loop,        \* run
    ended,       \* its tasks that have ended and are not joined
    panicked,    \* one of its tasks has panicked and is not joined
    generation,  \* WorkSignal
    heard,       \* unclaimed items the loop was told of
    notes,       \* notifications on their way to the listener
    listener     \* run_work_notifications

loopVars == <<item, queue, locked, loop, ended, panicked, generation, heard, notes, listener>>

\* first: claim_next asks for receipts first.  blind: the last scan failed or met a
\* locked row.
LoopState == [pc : {"top", "scan", "second", "wait", "drain", "ended", "failed", "dropped"},
              first : BOOLEAN, observed : Nat, blind : BOOLEAN]

LoopTypeOK ==
    /\ item \in [Items -> {"absent", "due", "leased", "abandoned", "later", "settled"}]
    /\ queue \in Seq(Items) /\ locked \subseteq Items
    /\ loop \in LoopState
    /\ ended \in 0..Capacity /\ panicked \in BOOLEAN
    /\ generation \in Nat
    /\ heard \subseteq Items /\ notes \subseteq Receipts
    /\ listener \in {"connecting", "listening", "ended", "dropped"}

LoopInit ==
    /\ item = [i \in Items |-> IF i \in Receipts THEN "absent" ELSE "later"]
    /\ queue = <<>> /\ locked = {}
    /\ loop = [pc |-> "top", first |-> TRUE, observed |-> 0, blind |-> FALSE]
    /\ ended = 0 /\ panicked = FALSE
    /\ generation = 0 /\ heard = {} /\ notes = {}
    /\ listener = "connecting"

-----------------------------------------------------------------------------
(* Work arrives *)

\* record_callback_receipt: the receipt is announced on CALLBACK_READY_CHANNEL.
ReceiptArrives(e) ==
    /\ item[e] = "absent"
    /\ item' = [item EXCEPT ![e] = "due"]
    /\ queue' = Append(queue, e)
    /\ notes' = IF listener = "listening" THEN notes \cup {e} ELSE notes
    /\ UNCHANGED <<locked, loop, ended, panicked, generation, heard, listener>>

\* next_attempt_at passes.
ComesDue(i) ==
    /\ item[i] = "later"
    /\ item' = [item EXCEPT ![i] = "due"]
    /\ queue' = Append(queue, i)
    /\ UNCHANGED <<locked, loop, ended, panicked, generation, heard, notes, listener>>

LeaseExpires(i) ==
    /\ item[i] = "abandoned"
    /\ item' = [item EXCEPT ![i] = "due"]
    /\ UNCHANGED <<queue, locked, loop, ended, panicked, generation, heard, notes, listener>>

\* Another transaction locks a receipt (a repeated delivery) or the session of an
\* operation.
RowLocked(i) ==
    /\ item[i] = "due" /\ i \notin locked
    /\ locked' = locked \cup {i}
    /\ UNCHANGED <<item, queue, loop, ended, panicked, generation, heard, notes, listener>>

RowUnlocked(i) ==
    /\ i \in locked
    /\ locked' = locked \ {i}
    /\ UNCHANGED <<item, queue, loop, ended, panicked, generation, heard, notes, listener>>

-----------------------------------------------------------------------------
(* run_work_notifications *)

ListenerConnects ==
    /\ listener = "connecting"
    /\ listener' = "listening"
    /\ UNCHANGED <<item, queue, locked, loop, ended, panicked, generation, heard, notes>>

\* What was on its way is lost.
ListenerDisconnects ==
    /\ listener = "listening"
    /\ listener' = "connecting" /\ notes' = {}
    /\ UNCHANGED <<item, queue, locked, loop, ended, panicked, generation, heard>>

\* WorkSignal::notify
Notify(e) ==
    /\ listener = "listening" /\ e \in notes
    /\ notes' = notes \ {e}
    /\ generation' = generation + 1
    /\ heard' = IF item[e] = "due" THEN heard \cup {e} ELSE heard
    /\ UNCHANGED <<item, queue, locked, loop, ended, panicked, listener>>

ListenerStops ==
    /\ stop
    /\ listener \in {"connecting", "listening"}
    /\ listener' = "ended" /\ notes' = {}
    /\ UNCHANGED <<item, queue, locked, loop, ended, panicked, generation, heard>>

-----------------------------------------------------------------------------
(* CompletionRuntime::run *)

Finished == {"ended", "failed", "dropped"}

Leased == {i \in Items : item[i] = "leased"}
Workers == Cardinality(Leased) + ended + IF panicked THEN 1 ELSE 0   \* workers.len()

Snapshot ==
    /\ loop.pc = "top"
    /\ loop' = [loop EXCEPT !.pc = "scan", !.observed = generation, !.blind = FALSE]
    /\ UNCHANGED <<item, queue, locked, ended, panicked, generation, heard, notes, listener>>

\* Mutant of Asked: receipts are always asked for first.
ReceiptsFirst == IF loop.pc = "scan" THEN Receipts ELSE Results

\* claim_next: what its next store call asks for.
Asked == IF loop.pc = (IF loop.first THEN "scan" ELSE "second") THEN Receipts ELSE Results

\* The places of the rows a claim chooses from.
Open == {k \in 1..Len(queue) :
            queue[k] \in Asked /\ item[queue[k]] = "due" /\ queue[k] \notin locked}

\* ORDER BY next_attempt_at ... SKIP LOCKED LIMIT 1
First == queue[CHOOSE k \in Open : \A j \in Open : k <= j]

Scanning == loop.pc \in {"scan", "second"} /\ Workers < Capacity

\* claim_callback_receipt, claim_operation; the task is spawned.
ClaimNext ==
    /\ Scanning /\ Open # {}
    /\ item' = [item EXCEPT ![First] = "leased"]
    /\ heard' = heard \ {First}
    /\ loop' = [loop EXCEPT !.pc = "scan", !.first = ~loop.first]
    /\ UNCHANGED <<queue, locked, ended, panicked, generation, notes, listener>>

\* Mutant of FindsNothing: the generation is read after the scan.
FindsNothingThenReads ==
    /\ Scanning /\ Open = {}
    /\ loop' = [loop EXCEPT !.pc = IF loop.pc = "scan" THEN "second" ELSE "wait",
                            !.first = IF loop.pc = "scan" THEN loop.first ELSE ~loop.first,
                            !.observed = generation,
                            !.blind = loop.blind \/ locked \cap Asked # {}]
    /\ UNCHANGED <<item, queue, locked, ended, panicked, generation, heard, notes, listener>>

\* Nothing of this kind: the other one is asked for, then the loop waits.
FindsNothing ==
    /\ Scanning /\ Open = {}
    /\ loop' = [loop EXCEPT !.pc = IF loop.pc = "scan" THEN "second" ELSE "wait",
                            !.first = IF loop.pc = "scan" THEN loop.first ELSE ~loop.first,
                            !.blind = loop.blind \/ locked \cap Asked # {}]
    /\ UNCHANGED <<item, queue, locked, ended, panicked, generation, heard, notes, listener>>

CapacityReached ==
    /\ loop.pc = "scan" /\ Workers >= Capacity
    /\ loop' = [loop EXCEPT !.pc = "wait"]
    /\ UNCHANGED <<item, queue, locked, ended, panicked, generation, heard, notes, listener>>

\* A scan fails; the loop waits after infrastructure_retry_delay.
ScanFails ==
    /\ Scanning
    /\ loop' = [loop EXCEPT !.pc = "wait", !.first = ~loop.first, !.blind = TRUE]
    /\ UNCHANGED <<item, queue, locked, ended, panicked, generation, heard, notes, listener>>

\* WorkSignal::wait returns: at once if the generation has moved since the snapshot,
\* else when it moves, or after poll_interval.
WaitReturns ==
    /\ loop.pc = "wait"
    /\ loop' = [loop EXCEPT !.pc = "top"]
    /\ UNCHANGED <<item, queue, locked, ended, panicked, generation, heard, notes, listener>>

\* join_next
JoinTask ==
    /\ loop.pc = "wait" /\ ended > 0
    /\ ended' = ended - 1
    /\ loop' = [loop EXCEPT !.pc = "top"]
    /\ UNCHANGED <<item, queue, locked, panicked, generation, heard, notes, listener>>

\* run is over: tasks that are still running are aborted and leave their leases.
Finish(pc) ==
    /\ loop' = [pc |-> pc, first |-> TRUE, observed |-> 0, blind |-> FALSE]
    /\ item' = [i \in Items |-> IF item[i] = "leased" THEN "abandoned" ELSE item[i]]
    /\ ended' = 0 /\ panicked' = FALSE /\ heard' = {}
    /\ UNCHANGED <<queue, locked, generation>>

\* join_next yields a panic: run returns CompletionError::Worker.
JoinPanickedTask ==
    /\ loop.pc = "wait" /\ panicked
    /\ Finish("failed")
    /\ UNCHANGED <<notes, listener>>

-----------------------------------------------------------------------------
(* Stopping *)

LoopStops ==
    /\ stop
    /\ loop.pc \in {"scan", "second", "wait"}
    /\ loop' = [loop EXCEPT !.pc = "drain"]
    /\ UNCHANGED <<item, queue, locked, ended, panicked, generation, heard, notes, listener>>

\* The claim that select! drops has committed.
LoopStopsInClaim ==
    /\ stop
    /\ Scanning /\ Open # {}
    /\ item' = [item EXCEPT ![First] = "abandoned"]
    /\ heard' = heard \ {First}
    /\ loop' = [loop EXCEPT !.pc = "drain"]
    /\ UNCHANGED <<queue, locked, ended, panicked, generation, notes, listener>>

\* Every task has ended.
DrainEnds ==
    /\ loop.pc = "drain" /\ Leased = {}
    /\ Finish("ended")
    /\ UNCHANGED <<notes, listener>>

\* The shutdown_grace of the loop has passed: run aborts the other tasks, and returns
\* Ok just the same.
DrainAborts ==
    /\ loop.pc = "drain" /\ Leased # {}
    /\ Finish("ended")
    /\ UNCHANGED <<notes, listener>>

\* The process drops the future of run, and that of run_work_notifications.
DropLoop ==
    /\ Finish(IF loop.pc \in Finished THEN loop.pc ELSE "dropped")
    /\ listener' = IF listener = "ended" THEN listener ELSE "dropped"
    /\ notes' = {}

-----------------------------------------------------------------------------
(* Tasks *)

\* The item leaves its place.
Without(i) ==
    LET k == CHOOSE k \in 1..Len(queue) : queue[k] = i
    IN  SubSeq(queue, 1, k - 1) \o SubSeq(queue, k + 1, Len(queue))

\* The item is settled, or is to be tried again later.
TaskEnds(i) ==
    /\ item[i] = "leased"
    /\ \E outcome \in {"settled", "later"} : item' = [item EXCEPT ![i] = outcome]
    /\ queue' = Without(i)
    /\ ended' = ended + 1
    /\ UNCHANGED <<locked, loop, panicked, generation, heard, notes, listener>>

\* A matched receipt makes its operation due at once (complete_callback_receipt).
ReceiptMatches(e, o) ==
    /\ item[e] = "leased" /\ item[o] = "later"
    /\ item' = [item EXCEPT ![e] = "settled", ![o] = "due"]
    /\ queue' = Append(Without(e), o)
    /\ heard' = heard \cup {o}
    /\ ended' = ended + 1
    /\ UNCHANGED <<locked, loop, panicked, generation, notes, listener>>

TaskPanics(i) ==
    /\ item[i] = "leased" /\ ~panicked
    /\ item' = [item EXCEPT ![i] = "abandoned"]
    /\ panicked' = TRUE
    /\ UNCHANGED <<queue, locked, loop, ended, generation, heard, notes, listener>>

-----------------------------------------------------------------------------
LoopStep == Snapshot \/ ClaimNext \/ FindsNothing \/ CapacityReached \/ WaitReturns

LoopFault ==
    \/ ListenerDisconnects \/ ScanFails
    \/ \E i \in Items : RowLocked(i) \/ TaskPanics(i)

\* What comes after the loop has ended is another process's work.
WorkArrives ==
    /\ loop.pc \notin Finished
    /\ \/ \E e \in Receipts : ReceiptArrives(e)
       \/ \E i \in Items : ComesDue(i) \/ LeaseExpires(i)

LoopNext ==
    \/ LoopStep \/ JoinTask \/ JoinPanickedTask
    \/ LoopStops \/ LoopStopsInClaim \/ DrainEnds \/ DrainAborts
    \/ ListenerConnects \/ ListenerStops
    \/ \E e \in Receipts : Notify(e)
    \/ \E i \in Items : RowUnlocked(i) \/ TaskEnds(i)
    \/ \E e \in Receipts, o \in Results : ReceiptMatches(e, o)

\* join_next and the cancellation are branches of an unbiased select!.
LoopFairness ==
    /\ WF_loopVars(LoopStep)
    /\ SF_loopVars(JoinTask \/ JoinPanickedTask)
    /\ SF_loopVars(LoopStops)
    /\ WF_loopVars(DrainEnds \/ DrainAborts)
    /\ WF_loopVars(ListenerStops)
    /\ \A i \in Items : WF_loopVars(TaskEnds(i)) /\ WF_loopVars(RowUnlocked(i))

-----------------------------------------------------------------------------
(* Properties *)

\* The loop does not sleep through an item it was told of, by a notification or by
\* the end of the task that matched a receipt, if the last scan could see it and
\* there is room for it (run, WorkSignal::wait).
NoHintSleptThrough ==
    /\ LoopTypeOK
    /\ (/\ loop.pc = "wait" /\ loop.observed = generation
        /\ ended = 0 /\ Workers < Capacity /\ ~loop.blind) => heard = {}

\* Whatever is due is claimed, although an unmatched receipt and a running job come
\* back for ever and there may be room for one of them only, unless the loop stops
\* (claim_next).
EveryDueItemIsClaimed ==
    \A i \in Items : item[i] = "due" ~> item[i] # "due" \/ loop.pc \in Finished
=============================================================================
