------------------------- MODULE SessionInboxProofs -------------------------
(***************************************************************************)
(* Proofs about SessionInbox for every set of workers, every retry policy  *)
(* and every bound.  The safety invariants are not inductive: they follow  *)
(* from IndInv, which says where the head event is (always right after the *)
(* last handled one), what the claim in the session row refers to, and     *)
(* what a task may still believe about a row it no longer owns.            *)
(***************************************************************************)
EXTENDS SessionInbox, FiniteSetTheorems, TLAPS

\* Events are a dense sequence whose handled part is a prefix.
InboxInv ==
    /\ stateVersion < nextEvent
    /\ \A e \in EventSeq : event[e].status = "absent" <=> e >= nextEvent
    /\ \A e \in EventSeq : event[e].status = "handled" <=> e <= stateVersion

\* At most the head is claimed or blocked.
HeadInv ==
    /\ \A e \in EventSeq : event[e].status = "processing" => e = current
    /\ \A e \in EventSeq : event[e].status = "blocked" => ~enabled /\ e = stateVersion + 1
    /\ ~enabled => /\ token = None
                   /\ stateVersion + 1 < nextEvent
                   /\ event[stateVersion + 1].status = "blocked"

\* The claim in the session row.
ClaimInv ==
    /\ (token = None) <=> (current = None)
    /\ \A a \in AttemptId : attempt[a].status = "running" => a = token
    /\ \A a \in AttemptId : a >= nextAttempt => attempt[a].status = "absent"
    /\ token # None =>
        /\ current = stateVersion + 1 /\ current < nextEvent
        /\ event[current].status = "processing"
        /\ attempt[token].status = "running"
        /\ attempt[token].event = current
        /\ attempt[token].version = stateVersion
        /\ attempt[token].through = nextHistory - 1

\* What a task remembers of its scan or its claim.
TaskInv ==
    \A w \in Workers :
        /\ worker[w].pc = "scanned" =>
             /\ worker[w].event \in EventSeq
             /\ worker[w].event < nextEvent
             /\ worker[w].event <= stateVersion + 1
        /\ worker[w].pc \notin {"idle", "scanned"} =>
             /\ worker[w].event \in EventSeq
             /\ worker[w].attempt \in AttemptId

\* The history is written up to nextHistory, by handled events, in order.
HistoryInv ==
    /\ \A i \in 1..MaxHistory :
         IF i < nextHistory THEN history[i] \in 1..stateVersion ELSE history[i] = None
    /\ \A i \in 1..MaxHistory, j \in 1..MaxHistory :
         i <= j /\ j < nextHistory => history[i] <= history[j]

IndInv == TypeOK /\ InboxInv /\ HeadInv /\ ClaimInv /\ TaskInv /\ HistoryInv

-----------------------------------------------------------------------------

\* The initial state satisfies the invariant.
LEMMA InitEstablishes == Init => IndInv
<1> SUFFICES ASSUME Init PROVE IndInv
  OBVIOUS
<1>1. TypeOK
  <2>1. /\ event \in [EventSeq -> EventRow]
        /\ attempt \in [AttemptId -> AttemptRow]
        /\ history \in [1..MaxHistory -> EventSeq \cup {None}]
    BY DEF Init, EventRow, AttemptRow, NoEvent
  <2>2. worker \in [Workers -> WorkerTask]
    BY DEF Init, WorkerTask, Idle
  <2>3. /\ nextEvent \in 1..(MaxEvents + 1) /\ nextHistory \in 1..(MaxHistory + 1)
        /\ nextAttempt \in 1..(MaxAttempts + 1) /\ faults \in 0..MaxFaults
    BY BoundsAssumption DEF Init
  <2> QED
    BY <2>1, <2>2, <2>3 DEF Init, TypeOK
<1>2. InboxInv /\ HeadInv /\ ClaimInv /\ TaskInv /\ HistoryInv
  BY BoundsAssumption
  DEF Init, InboxInv, HeadInv, ClaimInv, TaskInv, HistoryInv, Idle, NoEvent,
      EventSeq, AttemptId, None
<1> QED
  BY <1>1, <1>2 DEF IndInv

\* A step that only moves a task keeps the invariant if the task's memory is
\* still accurate.
LEMMA TaskStep ==
    ASSUME IndInv,
           UNCHANGED <<sessionVars, event, attempt, nextAttempt, history, retries>>,
           faults' \in 0..MaxFaults,
           worker' \in [Workers -> WorkerTask],
           TaskInv'
    PROVE  IndInv'
BY DEF IndInv, TypeOK, InboxInv, HeadInv, ClaimInv, HistoryInv, sessionVars

\* A task that ends leaves an idle worker.
LEMMA IdleTask ==
    ASSUME IndInv, NEW w \in Workers, BecomeIdle(w),
           nextEvent' >= nextEvent, stateVersion' >= stateVersion,
           nextEvent' \in Nat, stateVersion' \in Nat
    PROVE  worker' \in [Workers -> WorkerTask] /\ TaskInv'
<1>1. Idle \in WorkerTask
  BY DEF Idle, WorkerTask
<1>2. worker' \in [Workers -> WorkerTask]
  BY <1>1 DEF IndInv, TypeOK, BecomeIdle
<1>3. TaskInv'
  BY BoundsAssumption DEF IndInv, TypeOK, TaskInv, BecomeIdle, Idle, WorkerTask, EventSeq, None
<1> QED
  BY <1>2, <1>3

\* The candidate query finds the head, which follows the handled prefix.
LEMMA ScanPreserves ==
    ASSUME IndInv, NEW w \in Workers, ClaimScan(w)
    PROVE  IndInv'
<1>1. PICK e \in EventSeq :
        /\ IsHead(e)
        /\ worker' = [worker EXCEPT ![w] = [Idle EXCEPT !.pc = "scanned", !.event = e]]
  BY DEF ClaimScan
<1>2. e < nextEvent /\ e <= stateVersion + 1
  <2>1. e \in 1..(nextEvent - 1) /\ nextEvent \in Nat /\ stateVersion \in Nat
    BY <1>1, BoundsAssumption DEF IsHead, Events, IndInv, TypeOK
  <2>2. CASE e > stateVersion + 1
    <3>1. stateVersion + 1 \in Events /\ stateVersion + 1 \in EventSeq
      BY <2>1, <2>2, BoundsAssumption DEF Events, EventSeq
    <3>2. event[stateVersion + 1].status \in Outstanding
      BY <3>1, <2>1, <2>2 DEF IndInv, TypeOK, InboxInv, EventRow, Outstanding
    <3> QED
      BY <1>1, <2>1, <2>2, <3>1, <3>2 DEF IsHead
  <2> QED
    BY <2>1, <2>2
<1>3. worker' \in [Workers -> WorkerTask]
  BY <1>1 DEF IndInv, TypeOK, WorkerTask, Idle
<1>4. TaskInv'
  BY <1>1, <1>2 DEF IndInv, TypeOK, TaskInv, ClaimScan, Idle, WorkerTask, sessionVars
<1> QED
  BY <1>3, <1>4, TaskStep DEF ClaimScan, IndInv, TypeOK

\* Steps that end a task and touch nothing else.
LEMMA TaskEndPreserves ==
    ASSUME IndInv, NEW w \in Workers,
           ClaimMiss(w) \/ StaleClaim(w) \/ LoseTask(w)
    PROVE  IndInv'
<1>1. BecomeIdle(w)
  BY DEF ClaimMiss, StaleClaim, LoseTask
<1>2. UNCHANGED <<sessionVars, event, attempt, nextAttempt, history, retries>>
  BY DEF ClaimMiss, StaleClaim, LoseTask
<1>3. faults' \in 0..MaxFaults
  BY BoundsAssumption DEF ClaimMiss, StaleClaim, LoseTask, IndInv, TypeOK
<1>4. worker' \in [Workers -> WorkerTask] /\ TaskInv'
  BY <1>1, <1>2, IdleTask, BoundsAssumption DEF sessionVars, IndInv, TypeOK
<1> QED
  BY <1>2, <1>3, <1>4, TaskStep

\* Moving a task on keeps what it claimed.
LEMMA GoToKeepsClaim ==
    ASSUME IndInv, NEW w \in Workers,
           NEW pc \in {"handling", "authority", "counting", "recording", "committing"},
           NEW verdict \in {"none", "retry", "block", "abandon"},
           GoTo(w, pc, verdict)
    PROVE  /\ worker' \in [Workers -> WorkerTask]
           /\ \A v \in Workers : v # w => worker'[v] = worker[v]
           /\ worker'[w].event = worker[w].event /\ worker'[w].attempt = worker[w].attempt
           /\ worker'[w].pc = pc
<1> DEFINE t == [worker[w] EXCEPT !.pc = pc, !.verdict = verdict]
<1>1. worker \in [Workers -> WorkerTask] /\ worker[w] \in WorkerTask
  BY DEF IndInv, TypeOK
<1>2. t \in WorkerTask /\ t.event = worker[w].event /\ t.attempt = worker[w].attempt /\ t.pc = pc
  BY <1>1 DEF WorkerTask
<1>3. worker' = [worker EXCEPT ![w] = t]
  BY DEF GoTo
<1> HIDE DEF t
<1> QED
  BY <1>1, <1>2, <1>3

\* A step that only advances a task, keeping its claim.
TaskMoves(w) ==
    /\ UNCHANGED <<sessionVars, event, attempt, nextAttempt, history, retries>>
    /\ faults' \in 0..MaxFaults
    /\ worker' \in [Workers -> WorkerTask]
    /\ worker[w].pc \notin {"idle", "scanned"}
    /\ \A v \in Workers : v # w => worker'[v] = worker[v]
    /\ worker'[w].event = worker[w].event /\ worker'[w].attempt = worker[w].attempt
    /\ worker'[w].pc # "scanned"

\* Such a step keeps the invariant.
LEMMA MovePreserves ==
    ASSUME IndInv, NEW w \in Workers, TaskMoves(w)
    PROVE  IndInv'
<1>1. TaskInv'
  <2> SUFFICES ASSUME NEW v \in Workers
               PROVE  /\ worker'[v].pc = "scanned" =>
                           /\ worker'[v].event \in EventSeq
                           /\ worker'[v].event < nextEvent'
                           /\ worker'[v].event <= stateVersion' + 1
                      /\ worker'[v].pc \notin {"idle", "scanned"} =>
                           /\ worker'[v].event \in EventSeq
                           /\ worker'[v].attempt \in AttemptId
    BY DEF TaskInv, EventSeq, AttemptId
  <2> QED
    BY DEF IndInv, TaskInv, TaskMoves, sessionVars
<1> QED
  BY <1>1, TaskStep DEF TaskMoves

\* The steps of process_claim that touch the store only to read it.
LEMMA TaskMovePreserves ==
    ASSUME IndInv, NEW w \in Workers,
           \/ PreflightBlock(w)
           \/ \E verdict \in {"retry", "block", "abandon"} : HandlerFails(w, verdict)
           \/ HandlerReturns(w) \/ RenewAuthority(w) \/ RetryHandler(w)
           \/ CommitRollsBack(w) \/ CommitRejected(w)
    PROVE  IndInv'
<1>0. worker[w] \in WorkerTask /\ faults \in 0..MaxFaults
  BY DEF IndInv, TypeOK
<1>1. CASE PreflightBlock(w)
  <2>1. TaskMoves(w)
    BY <1>0, <1>1, GoToKeepsClaim DEF PreflightBlock, TaskMoves
  <2> QED BY <2>1, MovePreserves
<1>2. CASE \E verdict \in {"retry", "block", "abandon"} : HandlerFails(w, verdict)
  <2>1. PICK verdict \in {"retry", "block", "abandon"} : HandlerFails(w, verdict)
    BY <1>2
  <2>2. faults' \in 0..MaxFaults
    BY <1>0, <2>1, BoundsAssumption DEF HandlerFails
  <2>3. TaskMoves(w)
    BY <2>1, <2>2, GoToKeepsClaim DEF HandlerFails, TaskMoves
  <2> QED BY <2>3, MovePreserves
<1>3. CASE HandlerReturns(w)
  <2>1. TaskMoves(w)
    BY <1>0, <1>3, GoToKeepsClaim DEF HandlerReturns, TaskMoves
  <2> QED BY <2>1, MovePreserves
<1>4. CASE RenewAuthority(w)
  <2>1. worker[w].verdict \in {"none", "retry", "block", "abandon"}
    BY <1>0 DEF WorkerTask
  <2>2. TaskMoves(w)
    BY <1>0, <1>4, <2>1, GoToKeepsClaim DEF RenewAuthority, TaskMoves
  <2> QED BY <2>2, MovePreserves
<1>5. CASE RetryHandler(w)
  <2>1. TaskMoves(w)
    BY <1>0, <1>5, GoToKeepsClaim DEF RetryHandler, TaskMoves
  <2> QED BY <2>1, MovePreserves
<1>6. CASE CommitRollsBack(w)
  <2>1. faults' \in 0..MaxFaults
    BY <1>0, <1>6, BoundsAssumption DEF CommitRollsBack
  <2>2. CASE worker[w].rollbacks < CommitRetries
    <3>1. worker' = [worker EXCEPT ![w] = [@ EXCEPT !.rollbacks = worker[w].rollbacks + 1]]
      BY <1>6, <2>2 DEF CommitRollsBack
    <3>2. worker[w].rollbacks + 1 \in Nat
      BY <1>0 DEF WorkerTask
    <3>3. /\ worker' \in [Workers -> WorkerTask]
          /\ \A v \in Workers : v # w => worker'[v] = worker[v]
      <4>1. worker \in [Workers -> WorkerTask] /\ worker[w] \in WorkerTask
        BY DEF IndInv, TypeOK
      <4>2. [worker[w] EXCEPT !.rollbacks = worker[w].rollbacks + 1] \in WorkerTask
        BY <3>2, <4>1 DEF WorkerTask
      <4> QED
        BY <3>1, <4>1, <4>2
    <3>4. /\ worker'[w].event = worker[w].event
          /\ worker'[w].attempt = worker[w].attempt
          /\ worker'[w].pc = "committing"
      BY <1>6, <3>1 DEF CommitRollsBack, IndInv, TypeOK, WorkerTask
    <3> QED
      BY <1>6, <2>1, <3>3, <3>4, MovePreserves DEF CommitRollsBack, TaskMoves
  <2>3. CASE ~(worker[w].rollbacks < CommitRetries)
    <3>1. TaskMoves(w)
      BY <1>6, <2>1, <2>3, GoToKeepsClaim DEF CommitRollsBack, TaskMoves
    <3> QED BY <3>1, MovePreserves
  <2> QED BY <2>2, <2>3
<1>7. CASE CommitRejected(w)
  <2>1. TaskMoves(w)
    BY <1>0, <1>7, GoToKeepsClaim DEF CommitRejected, TaskMoves
  <2> QED BY <2>1, MovePreserves
<1> QED
  BY <1>1, <1>2, <1>3, <1>4, <1>5, <1>6, <1>7

\* Facts about the numeric variables, cited with IndInv.
LEMMA Numbers ==
    ASSUME IndInv
    PROVE  /\ nextEvent \in Nat /\ nextEvent >= 1 /\ nextEvent <= MaxEvents + 1
           /\ stateVersion \in Nat
           /\ nextHistory \in Nat /\ nextHistory >= 1 /\ nextHistory <= MaxHistory + 1
           /\ nextAttempt \in Nat /\ nextAttempt >= 1 /\ nextAttempt <= MaxAttempts + 1
           /\ MaxEvents \in Nat /\ MaxHistory \in Nat /\ MaxAttempts \in Nat
BY BoundsAssumption DEF IndInv, TypeOK

\* Time passing.
LEMMA LeaseExpiryPreserves ==
    ASSUME IndInv, OrphanLeaseExpires \/ HeldLeaseExpires
    PROVE  IndInv'
<1>1. faults' \in 0..MaxFaults
  BY BoundsAssumption DEF OrphanLeaseExpires, HeldLeaseExpires, IndInv, TypeOK
<1>2. /\ leaseLive' = FALSE
      /\ UNCHANGED <<enabled, revision, current, token, stateVersion, nextEvent, nextHistory,
                     event, attempt, nextAttempt, history, retries, worker>>
  BY DEF OrphanLeaseExpires, HeldLeaseExpires
<1>3. TypeOK'
  BY <1>1, <1>2 DEF IndInv, TypeOK
<1>4. InboxInv' /\ HeadInv' /\ ClaimInv' /\ TaskInv' /\ HistoryInv'
  BY <1>2 DEF IndInv, InboxInv, HeadInv, ClaimInv, TaskInv, HistoryInv
<1> QED
  BY <1>3, <1>4 DEF IndInv

\* A retry delay passing touches only its event.
LEMMA DuePreserves ==
    ASSUME IndInv, NEW e \in EventSeq, EventBecomesDue(e)
    PROVE  IndInv'
<1>1. /\ event' \in [EventSeq -> EventRow]
      /\ \A d \in EventSeq : event'[d].status = event[d].status
  BY DEF EventBecomesDue, IndInv, TypeOK, EventRow
<1>2. current \in EventSeq \cup {None} /\ (stateVersion + 1 < nextEvent => stateVersion + 1 \in EventSeq)
  BY Numbers DEF IndInv, TypeOK, EventSeq
<1>3. UNCHANGED <<enabled, revision, current, token, leaseLive, stateVersion, nextEvent,
                  nextHistory, attempt, nextAttempt, history, retries, worker, faults>>
  BY DEF EventBecomesDue, sessionVars
<1>4. TypeOK'
  BY <1>1, <1>3 DEF IndInv, TypeOK
<1>5. InboxInv' /\ TaskInv' /\ HistoryInv'
  BY <1>1, <1>3 DEF IndInv, InboxInv, TaskInv, HistoryInv
<1>6. HeadInv'
  BY <1>1, <1>2, <1>3 DEF IndInv, HeadInv
<1>7. ClaimInv'
  BY <1>1, <1>2, <1>3 DEF IndInv, ClaimInv, None, EventSeq
<1> QED
  BY <1>4, <1>5, <1>6, <1>7 DEF IndInv

\* A new event goes behind every other one.
LEMMA EnqueuePreserves ==
    ASSUME IndInv, NEW k \in Keys \cup {NoKey}, EnqueueExternalEvent(k)
    PROVE  IndInv'
<1>1. nextEvent \in EventSeq /\ nextEvent' = nextEvent + 1
  BY Numbers DEF EnqueueExternalEvent, EventSeq
<1>2. /\ event' \in [EventSeq -> EventRow]
      /\ event'[nextEvent].status = "pending"
      /\ \A d \in EventSeq : d # nextEvent => event'[d] = event[d]
  BY <1>1 DEF EnqueueExternalEvent, NewEvent, IndInv, TypeOK, EventRow
<1>3. UNCHANGED <<enabled, revision, current, token, leaseLive, stateVersion,
                  nextHistory, attempt, nextAttempt, history, retries, worker, faults>>
  BY DEF EnqueueExternalEvent
<1>4. TypeOK'
  BY SMTT(30), <1>1, <1>2, <1>3, Numbers DEF IndInv, TypeOK, EventSeq
<1>5. InboxInv'
  <2>1. stateVersion' < nextEvent'
    BY <1>1, <1>3, Numbers DEF IndInv, InboxInv
  <2>2. ASSUME NEW d \in EventSeq
        PROVE  /\ event'[d].status = "absent" <=> d >= nextEvent'
               /\ event'[d].status = "handled" <=> d <= stateVersion'
    <3>1. d \in Nat
      BY DEF EventSeq
    <3>2. CASE d = nextEvent
      BY <1>1, <1>2, <1>3, <3>2, Numbers DEF IndInv, InboxInv
    <3>3. CASE d # nextEvent
      BY <1>1, <1>2, <1>3, <3>1, <3>3, Numbers DEF IndInv, InboxInv
    <3> QED BY <3>2, <3>3
  <2> QED
    BY <2>1, <2>2 DEF InboxInv
<1>6. HeadInv'
  <2>1. enabled \/ (stateVersion + 1 < nextEvent /\ stateVersion + 1 \in EventSeq)
    BY Numbers DEF IndInv, HeadInv, EventSeq
  <2> QED
    BY <1>1, <1>2, <1>3, <2>1, Numbers DEF IndInv, HeadInv
<1>7. ClaimInv'
  BY <1>1, <1>2, <1>3, Numbers DEF IndInv, ClaimInv, EventSeq, TypeOK, None
<1>8. TaskInv' /\ HistoryInv'
  BY <1>1, <1>3, Numbers DEF IndInv, TaskInv, HistoryInv, EventSeq
<1> QED
  BY <1>4, <1>5, <1>6, <1>7, <1>8 DEF IndInv

\* The number of failures of an event is a natural number.
LEMMA FailuresType ==
    ASSUME NEW e \in EventSeq
    PROVE  Failures(e) \in Nat
<1> DEFINE S == {a \in AttemptId : attempt[a].event = e /\ attempt[a].status = "errored"}
<1>1. IsFiniteSet(AttemptId)
  BY FS_Interval, BoundsAssumption DEF AttemptId
<1>2. IsFiniteSet(S)
  BY <1>1, FS_Subset
<1>3. Cardinality(S) \in Nat
  BY <1>2, FS_CardinalityType
<1> QED
  BY <1>3 DEF Failures

\* An operator resumes the blocked head.
LEMMA RetryBlockedPreserves ==
    ASSUME IndInv, NEW k \in RetryKeys, NEW e \in EventSeq, NEW expected \in 0..revision,
           RetryBlockedEvent(k, e, expected)
    PROVE  IndInv'
<1>1. e = stateVersion + 1 /\ event[e].status = "blocked" /\ token = None /\ current = None
  BY DEF RetryBlockedEvent, IndInv, HeadInv
<1>2. /\ event' \in [EventSeq -> EventRow]
      /\ event'[e].status = "pending"
      /\ \A d \in EventSeq : d # e => event'[d] = event[d]
  BY FailuresType DEF RetryBlockedEvent, IndInv, TypeOK, EventRow
<1>3. UNCHANGED <<current, token, leaseLive, stateVersion, nextEvent, nextHistory,
                  attempt, nextAttempt, history, worker, faults>>
  BY DEF RetryBlockedEvent
<1>4. enabled' = TRUE /\ revision' \in Nat
  BY DEF RetryBlockedEvent, IndInv, TypeOK
<1>5. retries' \subseteq RetryRow
  BY DEF RetryBlockedEvent, IndInv, TypeOK, RetryRow
<1>6. TypeOK'
  BY <1>2, <1>3, <1>4, <1>5 DEF IndInv, TypeOK
<1>7. InboxInv'
  BY <1>1, <1>2, <1>3, Numbers DEF IndInv, InboxInv, EventSeq
<1>8. HeadInv' /\ ClaimInv'
  BY <1>1, <1>2, <1>3, <1>4 DEF IndInv, HeadInv, ClaimInv
<1>9. TaskInv' /\ HistoryInv'
  BY <1>3 DEF IndInv, TaskInv, HistoryInv
<1> QED
  BY <1>6, <1>7, <1>8, <1>9 DEF IndInv

\* A claim on a scanned event that is still open is a claim on the head: events
\* before it are handled, and it is not blocked because the session is enabled.
LEMMA ClaimPreserves ==
    ASSUME IndInv, NEW w \in Workers, ClaimNextEvent(w)
    PROVE  IndInv'
<1> DEFINE e == worker[w].event
<1>1. /\ e \in EventSeq /\ e < nextEvent /\ e = stateVersion + 1
      /\ event[e].status \in {"pending", "processing"}
  <2>1. e \in EventSeq /\ e < nextEvent /\ e <= stateVersion + 1
    BY DEF ClaimNextEvent, IndInv, TaskInv
  <2>2. e \in Nat
    BY <2>1 DEF EventSeq
  <2>3. event[e].status # "handled" /\ event[e].status # "absent"
    BY <2>1, <2>2, Numbers DEF ClaimNextEvent, EventIsOpen, IndInv, InboxInv
  <2>4. event[e].status # "blocked"
    BY <2>1 DEF ClaimNextEvent, SessionFree, IndInv, HeadInv
  <2>5. event[e].status \in {"absent", "pending", "processing", "handled", "blocked"}
    BY <2>1 DEF IndInv, TypeOK, EventRow
  <2> QED
    BY <2>1, <2>2, <2>3, <2>4, <2>5, Numbers DEF IndInv, InboxInv
<1>2. nextAttempt \in AttemptId /\ nextAttempt' = nextAttempt + 1
  BY Numbers DEF ClaimNextEvent, AttemptId
<1>3. /\ event' \in [EventSeq -> EventRow]
      /\ event'[e].status = "processing"
      /\ \A d \in EventSeq : d # e => event'[d] = event[d]
  <2>1. event' = [event EXCEPT ![e] = [@ EXCEPT !.status = "processing"]]
    BY DEF ClaimNextEvent
  <2>2. e \in EventSeq /\ event \in [EventSeq -> EventRow] /\ event[e] \in EventRow
    BY <1>1 DEF IndInv, TypeOK
  <2>3. /\ [event[e] EXCEPT !.status = "processing"] \in EventRow
        /\ [event[e] EXCEPT !.status = "processing"].status = "processing"
    BY <2>2 DEF EventRow
  <2> QED
    BY <2>1, <2>2, <2>3
<1>4. attempt' \in [AttemptId -> AttemptRow]
  <2>1. ASSUME NEW a \in AttemptId PROVE attempt'[a] \in AttemptRow
    <3>1. attempt[a] \in AttemptRow
      BY DEF IndInv, TypeOK
    <3>2. CASE a = nextAttempt
      <4>1. attempt'[a] = [event |-> e, status |-> "running",
                           version |-> stateVersion, through |-> nextHistory - 1]
        BY <3>2 DEF ClaimNextEvent
      <4> QED
        BY <4>1, <1>1, Numbers DEF AttemptRow
    <3>3. CASE a # nextAttempt
      <4>1. attempt'[a] = attempt[a] \/ attempt'[a] = [attempt[a] EXCEPT !.status = "abandoned"]
        BY <3>3 DEF ClaimNextEvent
      <4> QED
        BY <3>1, <4>1 DEF AttemptRow
    <3> QED BY <3>2, <3>3
  <2>2. attempt' = [a \in AttemptId |-> attempt'[a]]
    BY DEF ClaimNextEvent
  <2> QED
    BY <2>1, <2>2
<1>5. /\ attempt'[nextAttempt].event = e /\ attempt'[nextAttempt].status = "running"
      /\ attempt'[nextAttempt].version = stateVersion
      /\ attempt'[nextAttempt].through = nextHistory - 1
  BY <1>2 DEF ClaimNextEvent
<1>6. ASSUME NEW a \in AttemptId, a # nextAttempt
      PROVE  /\ attempt'[a].status # "running"
             /\ attempt[a].status = "absent" => attempt'[a].status = "absent"
  <2>1. attempt[a] \in AttemptRow
    BY DEF IndInv, TypeOK
  <2>2. CASE attempt[a].status = "running"
    <3>1. a = token /\ token # None
      BY <2>2 DEF IndInv, ClaimInv, AttemptId, None
    <3>2. attempt[a].event = e
      BY <3>1, <1>1 DEF IndInv, ClaimInv
    <3>3. attempt'[a] = [attempt[a] EXCEPT !.status = "abandoned"]
      BY <1>6, <2>2, <3>2 DEF ClaimNextEvent
    <3> QED
      BY <2>1, <2>2, <3>3 DEF AttemptRow
  <2>3. CASE attempt[a].status # "running"
    BY <1>6, <2>3 DEF ClaimNextEvent
  <2> QED BY <2>2, <2>3
<1>7. /\ current' = e /\ token' = nextAttempt /\ leaseLive' = TRUE
      /\ UNCHANGED <<enabled, revision, stateVersion, nextEvent, nextHistory, history,
                     retries, faults>>
  BY DEF ClaimNextEvent
<1>8. /\ worker' \in [Workers -> WorkerTask]
      /\ \A v \in Workers : v # w => worker'[v] = worker[v]
      /\ worker'[w].event = e /\ worker'[w].attempt = nextAttempt
      /\ worker'[w].pc = "handling"
  <2>1. worker' = [worker EXCEPT ![w] = [@ EXCEPT !.pc = "handling", !.attempt = nextAttempt]]
    BY DEF ClaimNextEvent
  <2>2. worker \in [Workers -> WorkerTask] /\ worker[w] \in WorkerTask
    BY DEF IndInv, TypeOK
  <2> DEFINE t == [worker[w] EXCEPT !.pc = "handling", !.attempt = nextAttempt]
  <2>3. t \in WorkerTask /\ t.event = worker[w].event /\ t.attempt = nextAttempt /\ t.pc = "handling"
    BY <1>2, <2>2 DEF WorkerTask
  <2>4. worker' = [worker EXCEPT ![w] = t]
    BY <2>1
  <2> HIDE DEF t
  <2> QED
    BY <2>2, <2>3, <2>4
<1>9. TypeOK'
  <2>1. nextAttempt' \in 1..(MaxAttempts + 1)
    BY <1>2, Numbers DEF AttemptId
  <2>2. current' \in EventSeq \cup {None} /\ token' \in AttemptId \cup {None}
    BY <1>1, <1>2, <1>7
  <2> QED
    BY <1>3, <1>4, <1>7, <1>8, <2>1, <2>2 DEF IndInv, TypeOK
<1>10. InboxInv'
  <2>1. ASSUME NEW d \in EventSeq
        PROVE  /\ event'[d].status = "absent" <=> d >= nextEvent'
               /\ event'[d].status = "handled" <=> d <= stateVersion'
    <3>1. d \in Nat
      BY DEF EventSeq
    <3>2. CASE d = e
      BY <1>1, <1>3, <1>7, <3>2, Numbers
    <3>3. CASE d # e
      BY <1>3, <1>7, <3>1, <3>3 DEF IndInv, InboxInv
    <3> QED BY <3>2, <3>3
  <2> QED
    BY <1>7, <2>1 DEF IndInv, InboxInv
<1>11. HeadInv'
  <2>1. enabled
    BY DEF ClaimNextEvent, SessionFree
  <2>2. ASSUME NEW d \in EventSeq, event[d].status = "processing"
        PROVE  d = e
    <3>1. d = current /\ d \in Nat /\ d >= 1
      BY <2>2 DEF IndInv, HeadInv, EventSeq
    <3>2. current # None
      BY <3>1 DEF None
    <3> QED
      BY <1>1, <3>1, <3>2 DEF IndInv, ClaimInv
  <2> QED
    BY <1>3, <1>7, <2>1, <2>2 DEF IndInv, HeadInv
<1>12. ClaimInv'
  <2>1. nextAttempt # None /\ e # None
    BY <1>1, <1>2 DEF AttemptId, EventSeq, None
  <2>2. \A a \in AttemptId : a >= nextAttempt' => attempt'[a].status = "absent"
    <3>1. SUFFICES ASSUME NEW a \in AttemptId, a >= nextAttempt + 1
                   PROVE  attempt'[a].status = "absent"
      BY <1>2
    <3>2. a # nextAttempt /\ a >= nextAttempt
      BY <3>1, Numbers DEF AttemptId
    <3> QED
      BY <1>6, <3>2 DEF IndInv, ClaimInv
  <2> QED
    BY <1>1, <1>2, <1>3, <1>5, <1>6, <1>7, <2>1, <2>2 DEF ClaimInv
<1>13. TaskInv'
  BY <1>1, <1>2, <1>7, <1>8 DEF IndInv, TaskInv
<1>14. HistoryInv'
  BY <1>7 DEF IndInv, HistoryInv
<1> QED
  BY <1>9, <1>10, <1>11, <1>12, <1>13, <1>14 DEF IndInv

\* A task whose claim is valid works on the head, in the only running attempt.
LEMMA OwnerFacts ==
    ASSUME IndInv, NEW w \in Workers, worker[w].pc \in {"recording", "committing"},
           ValidClaim(w)
    PROVE  /\ token \in AttemptId /\ token # None /\ worker[w].attempt = token
           /\ current \in EventSeq /\ current # None /\ worker[w].event = current
           /\ current = stateVersion + 1 /\ current < nextEvent
           /\ event[current].status = "processing"
           /\ attempt[token].status = "running" /\ attempt[token].version = stateVersion
           /\ enabled
<1>1. worker[w].event \in EventSeq /\ worker[w].attempt \in AttemptId
  BY DEF IndInv, TaskInv
<1>2. token \in AttemptId /\ current \in EventSeq
  BY <1>1 DEF ValidClaim
<1>3. token # None /\ current # None
  BY <1>2 DEF AttemptId, EventSeq, None
<1> QED
  BY <1>1, <1>2, <1>3 DEF ValidClaim, IndInv, ClaimInv, HeadInv, TypeOK

\* Releasing the claim: the attempt is finished, the head is pending again or
\* blocked with the session paused.
LEMMA RecordPreserves ==
    ASSUME IndInv, NEW w \in Workers, RecordRetry(w) \/ RecordBlocked(w)
    PROVE  IndInv'
<1>1. worker[w].pc = "recording" /\ ValidClaim(w)
  BY DEF RecordRetry, RecordBlocked
<1>2. /\ token \in AttemptId /\ token # None /\ worker[w].attempt = token
      /\ current \in EventSeq /\ current # None /\ worker[w].event = current
      /\ current = stateVersion + 1 /\ current < nextEvent
      /\ event[current].status = "processing"
      /\ attempt[token].status = "running"
      /\ enabled
  BY <1>1, OwnerFacts
<1>3. /\ event' \in [EventSeq -> EventRow]
      /\ \A d \in EventSeq : d # current => event'[d] = event[d]
      /\ \/ event'[current].status = "pending" /\ enabled' = TRUE /\ revision' = revision
         \/ event'[current].status = "blocked" /\ enabled' = FALSE /\ revision' = revision + 1
  <2>0. event \in [EventSeq -> EventRow] /\ event[current] \in EventRow /\ revision \in Nat
    BY <1>2 DEF IndInv, TypeOK
  <2>1. CASE RecordRetry(w)
    <3>1. /\ event' = [event EXCEPT ![current] = [@ EXCEPT !.status = "pending", !.due = FALSE]]
          /\ enabled' = enabled /\ revision' = revision
      BY <1>2, <2>1 DEF RecordRetry
    <3> QED
      BY <1>2, <2>0, <3>1 DEF EventRow
  <2>2. CASE RecordBlocked(w)
    <3>1. /\ event' = [event EXCEPT ![current] = [@ EXCEPT !.status = "blocked", !.due = TRUE]]
          /\ enabled' = FALSE /\ revision' = revision + 1
      BY <1>2, <2>2 DEF RecordBlocked, PauseProcessing
    <3> QED
      BY <1>2, <2>0, <3>1 DEF EventRow
  <2> QED BY <2>1, <2>2
<1>4. /\ attempt' \in [AttemptId -> AttemptRow]
      /\ \A a \in AttemptId : a # token => attempt'[a] = attempt[a]
      /\ attempt'[token].status \in {"errored", "abandoned"}
  <2>1. \E s \in {"errored", "abandoned"} : FinishAttempt(token, s)
    BY <1>2 DEF RecordRetry, RecordBlocked
  <2>2. PICK s \in {"errored", "abandoned"} :
           attempt' = [attempt EXCEPT ![token] = [@ EXCEPT !.status = s]]
    BY <1>2, <2>1 DEF FinishAttempt
  <2>3. attempt \in [AttemptId -> AttemptRow] /\ token \in AttemptId
    BY <1>2 DEF IndInv, TypeOK
  <2>4. attempt[token] \in AttemptRow
    BY <2>3
  <2>5. [attempt[token] EXCEPT !.status = s] \in AttemptRow
    BY <2>4 DEF AttemptRow
  <2>6. [attempt[token] EXCEPT !.status = s].status = s
    BY <2>4 DEF AttemptRow
  <2> QED
    BY <2>2, <2>3, <2>5, <2>6
<1>5. /\ current' = None /\ token' = None /\ leaseLive' = FALSE
      /\ UNCHANGED <<stateVersion, nextEvent, nextHistory, nextAttempt, history, retries, faults>>
      /\ BecomeIdle(w)
  BY DEF RecordRetry, RecordBlocked, ReleaseClaim
<1>6. worker' \in [Workers -> WorkerTask] /\ TaskInv'
  BY <1>5, IdleTask, Numbers
<1>7. TypeOK'
  <2>0. revision' = revision \/ revision' = revision + 1
    BY <1>3, Zenon
  <2>1. enabled' \in BOOLEAN
    BY <1>3, Zenon
  <2>2. revision' \in Nat
    BY <2>0 DEF IndInv, TypeOK
  <2> QED
    BY <1>3, <1>4, <1>5, <1>6, <2>1, <2>2 DEF IndInv, TypeOK
<1>8. InboxInv'
  <2>1. ASSUME NEW d \in EventSeq
        PROVE  /\ event'[d].status = "absent" <=> d >= nextEvent'
               /\ event'[d].status = "handled" <=> d <= stateVersion'
    <3>1. CASE d = current
      BY <1>2, <1>3, <1>5, <3>1, Numbers
    <3>2. CASE d # current
      BY <1>3, <1>5, <3>2 DEF IndInv, InboxInv
    <3> QED BY <3>1, <3>2
  <2> QED
    BY <1>5, <2>1 DEF IndInv, InboxInv
<1>9. HeadInv'
  BY <1>2, <1>3, <1>5 DEF IndInv, HeadInv
<1>10. ClaimInv'
  <2>1. \A a \in AttemptId : attempt'[a].status # "running"
    BY <1>2, <1>4 DEF IndInv, ClaimInv
  <2>2. \A a \in AttemptId : a >= nextAttempt' => attempt'[a].status = "absent"
    BY <1>2, <1>4, <1>5 DEF IndInv, ClaimInv
  <2> QED
    BY <1>5, <2>1, <2>2 DEF ClaimInv
<1>11. HistoryInv'
  BY <1>5 DEF IndInv, HistoryInv
<1> QED
  BY <1>6, <1>7, <1>8, <1>9, <1>10, <1>11 DEF IndInv

\* The commit extends the handled prefix by its head.
LEMMA CommitPreserves ==
    ASSUME IndInv, NEW w \in Workers, NEW h \in Nat, NEW n \in 0..1,
           CommitHandlerOutcome(w, h, n)
    PROVE  IndInv'
<1>1. worker[w].pc = "committing" /\ ValidClaim(w)
  BY DEF CommitHandlerOutcome
<1>2. /\ token \in AttemptId /\ token # None /\ worker[w].attempt = token
      /\ current \in EventSeq /\ current # None /\ worker[w].event = current
      /\ current = stateVersion + 1 /\ current < nextEvent
      /\ event[current].status = "processing"
      /\ attempt[token].status = "running"
      /\ enabled
  BY <1>1, OwnerFacts
<1>3. /\ nextHistory' = nextHistory + h /\ nextHistory' <= MaxHistory + 1
      /\ nextEvent' = nextEvent + n /\ nextEvent' <= MaxEvents + 1
      /\ stateVersion' = stateVersion + 1
      /\ current' = None /\ token' = None /\ leaseLive' = FALSE
      /\ UNCHANGED <<enabled, revision, nextAttempt, retries, faults>>
      /\ BecomeIdle(w)
  BY DEF CommitHandlerOutcome, AppendHistory, ReleaseClaim
<1>4. ASSUME NEW d \in EventSeq
      PROVE  event'[d] = IF d = current THEN [event[current] EXCEPT !.status = "handled"]
                         ELSE IF d \in nextEvent..(nextEvent + n - 1) THEN NewEvent(NoKey)
                         ELSE event[d]
  BY <1>2 DEF CommitHandlerOutcome
<1>5. event' \in [EventSeq -> EventRow]
  <2>1. ASSUME NEW d \in EventSeq PROVE event'[d] \in EventRow
    <3>1. event[d] \in EventRow /\ event[current] \in EventRow
      BY <1>2 DEF IndInv, TypeOK
    <3>2. [event[current] EXCEPT !.status = "handled"] \in EventRow
      BY <3>1 DEF EventRow
    <3>3. NewEvent(NoKey) \in EventRow
      BY DEF NewEvent, EventRow
    <3> QED
      BY <1>4, <3>1, <3>2, <3>3
  <2>2. event' = [d \in EventSeq |-> event'[d]]
    BY DEF CommitHandlerOutcome
  <2> QED
    BY <2>1, <2>2
<1>6. ASSUME NEW d \in EventSeq
      PROVE  event'[d].status = IF d = current THEN "handled"
                                ELSE IF d \in nextEvent..(nextEvent + n - 1) THEN "pending"
                                ELSE event[d].status
  BY <1>2, <1>4 DEF NewEvent, IndInv, TypeOK, EventRow
<1>7. /\ attempt' \in [AttemptId -> AttemptRow]
      /\ \A a \in AttemptId : a # token => attempt'[a] = attempt[a]
      /\ attempt'[token].status = "committed"
  <2>1. attempt' = [attempt EXCEPT ![token] = [@ EXCEPT !.status = "committed"]]
    BY <1>2 DEF CommitHandlerOutcome
  <2>2. attempt \in [AttemptId -> AttemptRow] /\ attempt[token] \in AttemptRow
    BY <1>2 DEF IndInv, TypeOK
  <2>3. /\ [attempt[token] EXCEPT !.status = "committed"] \in AttemptRow
        /\ [attempt[token] EXCEPT !.status = "committed"].status = "committed"
    BY <2>2 DEF AttemptRow
  <2> QED
    BY <1>2, <2>1, <2>2, <2>3
<1>8. /\ \A i \in 1..MaxHistory :
           history'[i] = IF i \in nextHistory..(nextHistory + h - 1) THEN current ELSE history[i]
      /\ history' = [i \in 1..MaxHistory |-> history'[i]]
  BY <1>2 DEF CommitHandlerOutcome, AppendHistory
<1>9. worker' \in [Workers -> WorkerTask] /\ TaskInv'
  BY <1>3, IdleTask, Numbers
<1>10. TypeOK'
  <2>1. history' \in [1..MaxHistory -> EventSeq \cup {None}]
    BY <1>2, <1>8 DEF IndInv, TypeOK
  <2>2. /\ nextEvent' \in 1..(MaxEvents + 1) /\ nextHistory' \in 1..(MaxHistory + 1)
        /\ stateVersion' \in Nat
    BY <1>3, Numbers
  <2> QED
    BY <1>3, <1>5, <1>7, <1>9, <2>1, <2>2 DEF IndInv, TypeOK
<1>11. InboxInv'
  <2>1. ASSUME NEW d \in EventSeq
        PROVE  /\ event'[d].status = "absent" <=> d >= nextEvent'
               /\ event'[d].status = "handled" <=> d <= stateVersion'
    <3>1. d \in Nat
      BY DEF EventSeq
    <3>2. /\ event[d].status = "absent" <=> d >= nextEvent
          /\ event[d].status = "handled" <=> d <= stateVersion
      BY DEF IndInv, InboxInv
    <3> QED
      BY <1>2, <1>3, <1>6, <3>1, <3>2, Numbers
  <2>2. stateVersion' < nextEvent'
    BY <1>2, <1>3, Numbers
  <2> QED
    BY <2>1, <2>2 DEF InboxInv
<1>12. HeadInv'
  BY <1>2, <1>3, <1>6 DEF IndInv, HeadInv
<1>13. ClaimInv'
  <2>1. \A a \in AttemptId : attempt'[a].status # "running"
    BY <1>2, <1>7 DEF IndInv, ClaimInv
  <2>2. \A a \in AttemptId : a >= nextAttempt' => attempt'[a].status = "absent"
    BY <1>2, <1>3, <1>7 DEF IndInv, ClaimInv
  <2> QED
    BY <1>3, <2>1, <2>2 DEF ClaimInv
<1>14. HistoryInv'
  <2>1. ASSUME NEW i \in 1..MaxHistory
        PROVE  IF i < nextHistory' THEN history'[i] \in 1..stateVersion' ELSE history'[i] = None
    <3>1. /\ i < nextHistory => history[i] \in 1..stateVersion
          /\ i >= nextHistory => history[i] = None
      BY Numbers DEF IndInv, HistoryInv
    <3>2. CASE i < nextHistory
      BY SMTT(30), <1>3, <1>8, <3>1, <3>2, Numbers
    <3>3. CASE i >= nextHistory /\ i < nextHistory + h
      <4>1. history'[i] = current
        BY <1>8, <3>3, Numbers
      <4> QED
        BY <1>2, <1>3, <3>3, <4>1, Numbers
    <3>4. CASE i >= nextHistory + h
      BY SMTT(30), <1>3, <1>8, <3>1, <3>4, Numbers
    <3> QED
      BY <3>2, <3>3, <3>4, Numbers
  <2>2. ASSUME NEW i \in 1..MaxHistory, NEW j \in 1..MaxHistory, i <= j, j < nextHistory'
        PROVE  history'[i] <= history'[j]
    <3>1. CASE j < nextHistory
      <4>1. history'[i] = history[i] /\ history'[j] = history[j]
        BY <1>8, <2>2, <3>1, Numbers
      <4> QED
        BY <2>2, <3>1, <4>1 DEF IndInv, HistoryInv
    <3>2. CASE j >= nextHistory
      <4>1. history'[j] = current
        BY SMTT(30), <1>3, <1>8, <2>2, <3>2, Numbers
      <4>2. history'[i] \in 1..stateVersion'
        BY <2>1, <2>2, <1>3, Numbers
      <4> QED
        BY <1>2, <1>3, <4>1, <4>2, Numbers
    <3> QED BY <3>1, <3>2, Numbers
  <2> QED
    BY <2>1, <2>2 DEF HistoryInv
<1> QED
  BY <1>9, <1>10, <1>11, <1>12, <1>13, <1>14 DEF IndInv

\* Every step keeps the invariant.
LEMMA NextPreserves == IndInv /\ [Next]_vars => IndInv'
<1> SUFFICES ASSUME IndInv, [Next]_vars PROVE IndInv'
  OBVIOUS
<1>1. CASE \E k \in Keys \cup {NoKey} : EnqueueExternalEvent(k)
  BY <1>1, EnqueuePreserves
<1>2. CASE \E k \in RetryKeys, e \in EventSeq, expected \in 0..revision :
             RetryBlockedEvent(k, e, expected)
  BY <1>2, RetryBlockedPreserves
<1>3. CASE \E w \in Workers : WorkerStep(w)
  <2>1. PICK w \in Workers : WorkerStep(w)
    BY <1>3
  <2>2. CASE Commit(w)
    <3>1. PICK h \in 0..MaxEntries, n \in 0..1 : CommitHandlerOutcome(w, h, n)
      BY <2>2 DEF Commit
    <3>2. h \in Nat
      BY BoundsAssumption
    <3> QED
      BY <3>1, <3>2, CommitPreserves
  <2>3. CASE RecordRetry(w) \/ RecordBlocked(w)
    BY <2>3, RecordPreserves
  <2>4. CASE ClaimScan(w)
    BY <2>4, ScanPreserves
  <2>5. CASE ClaimNextEvent(w)
    BY <2>5, ClaimPreserves
  <2>6. CASE ClaimMiss(w) \/ StaleClaim(w)
    BY <2>6, TaskEndPreserves
  <2>7. CASE \/ PreflightBlock(w)
             \/ \E verdict \in {"retry", "block", "abandon"} : HandlerFails(w, verdict)
             \/ HandlerReturns(w) \/ RenewAuthority(w) \/ RetryHandler(w)
             \/ CommitRejected(w)
    BY <2>7, TaskMovePreserves
  <2> QED
    BY <2>1, <2>2, <2>3, <2>4, <2>5, <2>6, <2>7 DEF WorkerStep
<1>4. CASE \E w \in Workers : CommitRollsBack(w)
  BY <1>4, TaskMovePreserves
<1>5. CASE \E w \in Workers : LoseTask(w)
  BY <1>5, TaskEndPreserves
<1>6. CASE OrphanLeaseExpires \/ HeldLeaseExpires
  BY <1>6, LeaseExpiryPreserves
<1>7. CASE \E e \in EventSeq : EventBecomesDue(e)
  BY <1>7, DuePreserves
<1>8. CASE UNCHANGED vars
  BY <1>8 DEF vars, sessionVars, IndInv, TypeOK, InboxInv, HeadInv, ClaimInv, TaskInv,
              HistoryInv
<1> QED
  BY <1>1, <1>2, <1>3, <1>4, <1>5, <1>6, <1>7, <1>8 DEF Next

\* IndInv is an invariant of the session inbox: the store's transactions and the
\* scheduler's tasks keep it, for any number of workers, events and faults.
THEOREM Inductive == Spec => []IndInv
BY InitEstablishes, NextPreserves, PTL DEF Spec

\* The rows the store writes and the scheduler's tasks keep their types.
THEOREM TypeCorrect == Spec => []TypeOK
<1>1. IndInv => TypeOK
  BY DEF IndInv
<1> QED
  BY <1>1, Inductive, PTL

-----------------------------------------------------------------------------
\* claim_next_event and commit_handler_outcome_classified handle events exactly once
\* and in order, for any number of workers.
THEOREM FifoExactlyOnce == Spec => []HandledIsPrefix
<1>1. IndInv => HandledIsPrefix
  <2> SUFFICES ASSUME IndInv PROVE HandledIsPrefix
    OBVIOUS
  <2>1. ASSUME NEW e \in Events
        PROVE  event[e].status = "handled" <=> e \in 1..stateVersion
    BY Numbers DEF Events, EventSeq, IndInv, InboxInv
  <2>2. ASSUME NEW e \in 1..stateVersion PROVE e \in Events
    BY Numbers DEF Events, IndInv, InboxInv
  <2> QED
    BY <2>1, <2>2 DEF HandledIsPrefix
<1> QED
  BY <1>1, Inductive, PTL

\* The head is the event after the handled prefix.
LEMMA HeadIsNext ==
    ASSUME IndInv, NEW e \in Events
    PROVE  IsHead(e) <=> e = stateVersion + 1
<1>1. \A d \in Events : event[d].status \in Outstanding <=> d > stateVersion
  <2> SUFFICES ASSUME NEW d \in Events
               PROVE  event[d].status \in Outstanding <=> d > stateVersion
    OBVIOUS
  <2>1. d \in EventSeq /\ d \in Nat /\ d < nextEvent
    BY Numbers DEF Events, EventSeq
  <2>2. event[d].status \in {"absent", "pending", "processing", "handled", "blocked"}
    BY <2>1 DEF IndInv, TypeOK, EventRow
  <2> QED
    BY <2>1, <2>2, Numbers DEF IndInv, InboxInv, Outstanding
<1>2. e \in Nat /\ e < nextEvent
  BY Numbers DEF Events
<1>3. e > stateVersion => stateVersion + 1 \in Events
  BY <1>2, Numbers DEF Events
<1>4. \A d \in Events : d \in Nat
  BY Numbers DEF Events
<1> QED
  BY <1>1, <1>2, <1>3, <1>4, Numbers DEF IsHead

\* The claim in the session row, the event it names and the attempt claim_next_event
\* opened for it agree in every state.
THEOREM ClaimsAgree == Spec => []ClaimCoherence
<1>1. IndInv => ClaimCoherence
  <2> SUFFICES ASSUME IndInv PROVE ClaimCoherence
    OBVIOUS
  <2>1. (token = None) = (current = None)
    BY DEF IndInv, ClaimInv
  <2>2. token \in AttemptId \cup {None} /\ current \in EventSeq \cup {None}
    BY DEF IndInv, TypeOK
  <2>3. {a \in AttemptId : attempt[a].status = "running"} = {token} \ {None}
    BY <2>2 DEF IndInv, ClaimInv, None, AttemptId
  <2>4. current # None => current \in Events
    BY <2>2, Numbers DEF IndInv, ClaimInv, Events, EventSeq
  <2>5. \A e \in Events : e \in EventSeq /\ e # None
    BY Numbers DEF Events, EventSeq, None
  <2>6. {e \in Events : event[e].status = "processing"} = {current} \ {None}
    BY <2>2, <2>4, <2>5 DEF IndInv, ClaimInv, HeadInv
  <2>7. token # None => IsHead(current)
    BY <2>4, HeadIsNext DEF IndInv, ClaimInv
  <2> QED
    BY <2>1, <2>3, <2>6, <2>7 DEF ClaimCoherence, IndInv, ClaimInv
<1> QED
  BY <1>1, Inductive, PTL

\* Processing is paused exactly while the head is blocked: record_handler_failure
\* and retry_blocked_event never lose a pause or let it outlive its event.
THEOREM PausesAgree == Spec => []PauseMatchesBlockedHead
<1>1. IndInv => PauseMatchesBlockedHead
  <2> SUFFICES ASSUME IndInv PROVE PauseMatchesBlockedHead
    OBVIOUS
  <2>1. \A e \in Events : e \in EventSeq
    BY Numbers DEF Events, EventSeq
  <2>2. ~enabled => stateVersion + 1 \in Events
    BY Numbers DEF IndInv, HeadInv, Events
  <2>3. ASSUME NEW e \in Events
        PROVE  event[e].status = "blocked" <=> ~enabled /\ IsHead(e)
    BY <2>1, HeadIsNext DEF IndInv, HeadInv
  <2>4. ~enabled => token = None /\ \E e \in Events : IsHead(e)
    BY <2>2, HeadIsNext DEF IndInv, HeadInv
  <2> QED
    BY <2>3, <2>4 DEF PauseMatchesBlockedHead
<1> QED
  BY <1>1, Inductive, PTL

\* The history commit_handler_outcome_classified appends is dense and follows the
\* inbox order.
THEOREM HistoryOrdered == Spec => []HistoryFollowsInbox
<1>1. IndInv => HistoryFollowsInbox
  BY Numbers DEF IndInv, HistoryInv, HistoryFollowsInbox
<1> QED
  BY <1>1, Inductive, PTL

\* The only step that advances the state is a commit.
LEMMA OnlyCommitAdvances ==
    ASSUME [Next]_vars, ~ \E w \in Workers : Commit(w)
    PROVE  stateVersion' = stateVersion
<1>1. CASE \E w \in Workers : WorkerStep(w)
  <2>1. PICK w \in Workers : WorkerStep(w)
    BY <1>1
  <2>2. CASE \/ ClaimScan(w) \/ ClaimNextEvent(w) \/ ClaimMiss(w) \/ PreflightBlock(w)
             \/ \E verdict \in {"retry", "block", "abandon"} : HandlerFails(w, verdict)
    BY <2>2 DEF ClaimScan, ClaimNextEvent, ClaimMiss, PreflightBlock, HandlerFails, sessionVars
  <2>3. CASE \/ HandlerReturns(w) \/ RenewAuthority(w) \/ RetryHandler(w) \/ RecordRetry(w)
             \/ RecordBlocked(w) \/ CommitRejected(w) \/ StaleClaim(w)
    BY <2>3 DEF HandlerReturns, RenewAuthority, RetryHandler, RecordRetry, RecordBlocked,
                CommitRejected, StaleClaim, sessionVars
  <2> QED
    BY <2>1, <2>2, <2>3 DEF WorkerStep
<1>2. CASE \/ \E k \in Keys \cup {NoKey} : EnqueueExternalEvent(k)
           \/ \E k \in RetryKeys, e \in EventSeq, expected \in 0..revision :
                RetryBlockedEvent(k, e, expected)
           \/ \E e \in EventSeq : EventBecomesDue(e)
  BY <1>2 DEF EnqueueExternalEvent, RetryBlockedEvent, EventBecomesDue, sessionVars
<1>3. CASE \/ \E w \in Workers : CommitRollsBack(w) \/ LoseTask(w)
           \/ OrphanLeaseExpires \/ HeldLeaseExpires
  BY <1>3 DEF CommitRollsBack, LoseTask, OrphanLeaseExpires, HeldLeaseExpires, sessionVars
<1>4. CASE UNCHANGED vars
  BY <1>4 DEF vars, sessionVars
<1> QED
  BY <1>1, <1>2, <1>3, <1>4 DEF Next

-----------------------------------------------------------------------------
(* Handlers run as if one at a time *)

\* What attempt a saw is the effect of the events before its own.
SawItsPast(a) ==
    /\ attempt[a].event \in 1..(stateVersion + 1)
    /\ attempt[a].version = attempt[a].event - 1
    /\ attempt[a].through < nextHistory
    /\ \A i \in 1..MaxHistory :
         i <= attempt[a].through <=> history[i] \in 1..(attempt[a].event - 1)

\* Every handled event has one committed attempt, and no other event has one.
SerialInv ==
    /\ \A a \in AttemptId : a < nextAttempt => SawItsPast(a)
    /\ \A a \in AttemptId : attempt[a].status = "committed" =>
         attempt[a].event <= stateVersion /\ a < nextAttempt
    /\ \A e \in 1..stateVersion : \E a \in AttemptId : Committed(a, e)
    /\ \A e \in EventSeq, a, b \in AttemptId : Committed(a, e) /\ Committed(b, e) => a = b

\* A step that opens no attempt, commits none and writes no history.
LEMMA SerialStays ==
    ASSUME IndInv, SerialInv,
           UNCHANGED <<stateVersion, history, nextHistory, nextAttempt>>,
           \A a \in AttemptId :
             /\ attempt'[a].event = attempt[a].event
             /\ attempt'[a].version = attempt[a].version
             /\ attempt'[a].through = attempt[a].through
             /\ attempt'[a].status = "committed" <=> attempt[a].status = "committed"
    PROVE  SerialInv'
<1>1. \A a \in AttemptId, e \in EventSeq \cup 1..stateVersion : Committed(a, e)' <=> Committed(a, e)
  BY DEF Committed
<1>2. \A a \in AttemptId : SawItsPast(a) => SawItsPast(a)'
  BY DEF SawItsPast
<1> QED
  BY <1>1, <1>2 DEF SerialInv

\* finish_attempt and a retry or block of the owner change one attempt's status,
\* and never to or from committed.
LEMMA SerialOfRecord ==
    ASSUME IndInv, SerialInv, NEW w \in Workers, RecordRetry(w) \/ RecordBlocked(w)
    PROVE  SerialInv'
<1>1. UNCHANGED <<stateVersion, history, nextHistory, nextAttempt>>
  BY DEF RecordRetry, RecordBlocked
<1>2. PICK s \in {"errored", "abandoned"} : FinishAttempt(worker[w].attempt, s)
  BY DEF RecordRetry, RecordBlocked
<1>3. worker[w].attempt \in AttemptId
  BY DEF RecordRetry, RecordBlocked, IndInv, TaskInv
<1>4. attempt \in [AttemptId -> AttemptRow]
  BY DEF IndInv, TypeOK
<1>5. ASSUME NEW a \in AttemptId
      PROVE  /\ attempt'[a].event = attempt[a].event
             /\ attempt'[a].version = attempt[a].version
             /\ attempt'[a].through = attempt[a].through
             /\ attempt'[a].status = "committed" <=> attempt[a].status = "committed"
  BY <1>2, <1>3, <1>4 DEF FinishAttempt, AttemptRow
<1> QED
  BY <1>1, <1>5, SerialStays

\* A claim opens an attempt on the event after the handled ones, and notes all the
\* history there is.
LEMMA SerialOfClaim ==
    ASSUME IndInv, SerialInv, NEW w \in Workers, ClaimNextEvent(w)
    PROVE  SerialInv'
<1> DEFINE e == worker[w].event
<1>1. e = stateVersion + 1 /\ e \in EventSeq
  <2>1. e \in EventSeq /\ e < nextEvent /\ e <= stateVersion + 1
    BY DEF ClaimNextEvent, IndInv, TaskInv
  <2>2. event[e].status # "handled"
    BY DEF ClaimNextEvent, EventIsOpen
  <2> QED
    BY <2>1, <2>2, Numbers DEF IndInv, InboxInv, EventSeq
<1> HIDE DEF e
<1>0. PICK id \in AttemptId : id = nextAttempt
  BY Numbers DEF ClaimNextEvent, AttemptId
<1>2. /\ nextAttempt' = id + 1
      /\ UNCHANGED <<stateVersion, history, nextHistory>>
  BY <1>0 DEF ClaimNextEvent
<1>3. attempt[id].status = "absent"
  BY <1>0, Numbers DEF IndInv, ClaimInv
<1>4. /\ attempt'[id].event = e
      /\ attempt'[id].status = "running"
      /\ attempt'[id].version = stateVersion
      /\ attempt'[id].through = nextHistory - 1
  BY <1>0 DEF ClaimNextEvent, e
<1>5. ASSUME NEW a \in AttemptId, a # id
      PROVE  /\ attempt'[a].event = attempt[a].event
             /\ attempt'[a].version = attempt[a].version
             /\ attempt'[a].through = attempt[a].through
             /\ attempt'[a].status = "committed" <=> attempt[a].status = "committed"
  <2>1. attempt[a] \in AttemptRow
    BY DEF IndInv, TypeOK
  <2>2. attempt'[a] = IF attempt[a].event = e /\ attempt[a].status = "running"
                        THEN [attempt[a] EXCEPT !.status = "abandoned"] ELSE attempt[a]
    BY <1>0, <1>5 DEF ClaimNextEvent, e
  <2> QED
    BY <2>1, <2>2 DEF AttemptRow
<1>6. SawItsPast(id)'
  <2>1. ASSUME NEW i \in 1..MaxHistory
        PROVE  i <= nextHistory - 1 <=> history[i] \in 1..stateVersion
    BY Numbers DEF IndInv, HistoryInv, None
  <2> QED
    BY <1>1, <1>2, <1>4, <2>1, Numbers DEF SawItsPast
<1>7. \A a \in AttemptId, d \in EventSeq \cup 1..stateVersion : Committed(a, d)' <=> Committed(a, d)
  BY <1>3, <1>4, <1>5 DEF Committed
<1>8. ASSUME NEW a \in AttemptId, a < nextAttempt'
      PROVE  SawItsPast(a)'
  <2>1. CASE a = id
    BY <1>6, <2>1
  <2>2. CASE a # id
    <3>1. SawItsPast(a)
      BY <1>0, <1>2, <1>8, <2>2, Numbers DEF SerialInv, AttemptId
    <3> QED
      BY <1>2, <1>5, <2>2, <3>1 DEF SawItsPast
  <2> QED
    BY <2>1, <2>2
<1>9. \A a \in AttemptId : attempt'[a].status = "committed" =>
        attempt'[a].event <= stateVersion' /\ a < nextAttempt'
  <2> SUFFICES ASSUME NEW a \in AttemptId, attempt'[a].status = "committed"
               PROVE  attempt'[a].event <= stateVersion' /\ a < nextAttempt'
    OBVIOUS
  <2>1. a # id
    BY <1>4
  <2>2. attempt[a].event <= stateVersion /\ a < nextAttempt /\ attempt'[a].event = attempt[a].event
    BY <1>5, <2>1 DEF SerialInv
  <2> QED
    BY <1>0, <1>2, <2>2, Numbers DEF AttemptId
<1> QED
  BY <1>2, <1>7, <1>8, <1>9 DEF SerialInv

\* A commit handles the event after the handled ones by the only running attempt,
\* and its history entries carry that event.
LEMMA SerialOfCommit ==
    ASSUME IndInv, SerialInv, NEW w \in Workers, NEW h \in Nat, NEW n \in 0..1,
           CommitHandlerOutcome(w, h, n)
    PROVE  SerialInv'
<1>1. /\ token \in AttemptId /\ current \in EventSeq /\ current = stateVersion + 1
      /\ worker[w].attempt = token /\ worker[w].event = current
      /\ attempt[token].status = "running"
  <2>1. worker[w].pc = "committing" /\ ValidClaim(w)
    BY DEF CommitHandlerOutcome
  <2> QED
    BY <2>1, OwnerFacts
<1>2. attempt[token].event = current /\ token # None /\ token < nextAttempt
  BY <1>1, Numbers DEF IndInv, ClaimInv, None, AttemptId
<1>3. /\ stateVersion' = stateVersion + 1 /\ nextHistory' = nextHistory + h
      /\ nextAttempt' = nextAttempt
  BY DEF CommitHandlerOutcome, AppendHistory
<1>4. attempt \in [AttemptId -> AttemptRow]
  BY DEF IndInv, TypeOK
<1>5. ASSUME NEW a \in AttemptId
      PROVE  /\ attempt'[a].event = attempt[a].event
             /\ attempt'[a].version = attempt[a].version
             /\ attempt'[a].through = attempt[a].through
             /\ attempt'[a].status = "committed" <=> attempt[a].status = "committed" \/ a = token
  <2>1. attempt' = [attempt EXCEPT ![token] = [@ EXCEPT !.status = "committed"]]
    BY <1>1 DEF CommitHandlerOutcome
  <2>2. CASE a = token
    BY <1>1, <1>4, <2>1, <2>2 DEF AttemptRow
  <2>3. CASE a # token
    BY <1>4, <2>1, <2>3
  <2> QED
    BY <2>2, <2>3
<1>6. ASSUME NEW a \in AttemptId, a < nextAttempt'
      PROVE  SawItsPast(a)'
  <2>1. SawItsPast(a)
    BY <1>3, <1>6 DEF SerialInv
  <2>2. PICK d \in 1..(stateVersion + 1) : d = attempt[a].event
    BY <2>1 DEF SawItsPast
  <2>3. PICK t \in Nat : t = attempt[a].through
    BY <1>4 DEF AttemptRow
  <2>4. t < nextHistory /\ \A i \in 1..MaxHistory : i <= t <=> history[i] \in 1..(d - 1)
    BY <2>1, <2>2, <2>3 DEF SawItsPast
  <2>5. ASSUME NEW i \in 1..MaxHistory
        PROVE  i <= t <=> history'[i] \in 1..(d - 1)
    <3>1. history'[i] = IF i \in nextHistory..(nextHistory + h - 1) THEN current ELSE history[i]
      BY <1>1 DEF CommitHandlerOutcome, AppendHistory
    <3>2. CASE i \in nextHistory..(nextHistory + h - 1)
      <4>1. history'[i] = stateVersion + 1
        BY <1>1, <3>1, <3>2
      <4>2. i > t
        BY <2>4, <3>2, Numbers
      <4>3. history'[i] \notin 1..(d - 1)
        BY <2>2, <4>1, Numbers
      <4> QED
        BY <4>2, <4>3, Numbers
    <3>3. CASE i \notin nextHistory..(nextHistory + h - 1)
      BY <2>4, <3>1, <3>3
    <3> QED
      BY <3>2, <3>3
  <2>6. attempt'[a].event = d /\ attempt'[a].through = t /\ attempt'[a].version = d - 1
    BY <1>5, <2>1, <2>2, <2>3 DEF SawItsPast
  <2>7. d \in 1..(stateVersion' + 1) /\ t < nextHistory'
    BY <1>3, <2>2, <2>4, Numbers
  <2> QED
    BY <2>5, <2>6, <2>7 DEF SawItsPast
<1>7. \A a \in AttemptId : attempt'[a].status = "committed" =>
        attempt'[a].event <= stateVersion' /\ a < nextAttempt'
  <2> SUFFICES ASSUME NEW a \in AttemptId, attempt'[a].status = "committed"
               PROVE  attempt'[a].event <= stateVersion' /\ a < nextAttempt'
    OBVIOUS
  <2>1. CASE a = token
    BY <1>1, <1>2, <1>3, <1>5, <2>1, Numbers
  <2>2. CASE a # token
    <3>1. attempt[a].event <= stateVersion /\ a < nextAttempt
      BY <1>5, <2>2 DEF SerialInv
    <3>2. attempt[a].event \in Int
      BY <1>4 DEF AttemptRow, EventSeq, None
    <3> QED
      BY <1>3, <1>5, <3>1, <3>2, Numbers
  <2> QED
    BY <2>1, <2>2
<1>8. \A e \in 1..stateVersion' : \E a \in AttemptId : Committed(a, e)'
  <2> SUFFICES ASSUME NEW e \in 1..stateVersion'
               PROVE  \E a \in AttemptId : Committed(a, e)'
    OBVIOUS
  <2>1. CASE e = current
    <3>0. PICK id \in AttemptId : id = token
      BY <1>1
    <3>1. Committed(id, e)'
      BY <3>0, <1>1, <1>2, <1>5, <2>1 DEF Committed
    <3> QED
      BY <3>1
  <2>2. CASE e # current
    <3>1. e \in 1..stateVersion
      BY <1>1, <1>3, <2>2, Numbers
    <3>2. PICK a \in AttemptId : Committed(a, e)
      BY <3>1 DEF SerialInv
    <3>3. Committed(a, e)'
      BY <1>5, <3>2 DEF Committed
    <3> QED
      BY <3>3
  <2> QED
    BY <2>1, <2>2
<1>9. \A e \in EventSeq, a, b \in AttemptId : Committed(a, e)' /\ Committed(b, e)' => a = b
  <2> SUFFICES ASSUME NEW e \in EventSeq, NEW a \in AttemptId, NEW b \in AttemptId,
                      Committed(a, e)', Committed(b, e)'
               PROVE  a = b
    OBVIOUS
  <2>1. ASSUME NEW c \in AttemptId, Committed(c, e)'
        PROVE  IF e = current THEN c = token ELSE Committed(c, e)
    <3>1. attempt[c].event = e /\ (attempt[c].status = "committed" \/ c = token)
      BY <1>5, <2>1 DEF Committed
    <3>2. CASE e = current
      <4>1. attempt[c].status = "committed" => e <= stateVersion
        BY <3>1 DEF SerialInv
      <4>2. ~(e <= stateVersion)
        BY <1>1, <3>2, Numbers
      <4> QED
        BY <3>1, <3>2, <4>1, <4>2
    <3>3. CASE e # current
      <4>1. c # token
        BY <1>2, <3>1, <3>3
      <4> QED
        BY <3>1, <3>3, <4>1 DEF Committed
    <3> QED
      BY <3>2, <3>3
  <2> QED
    BY <2>1 DEF SerialInv
<1> QED
  BY <1>6, <1>7, <1>8, <1>9 DEF SerialInv

\* Everything else leaves the attempts and the history alone.
LEMMA NextIsSerial == IndInv /\ SerialInv /\ [Next]_vars => SerialInv'
<1> SUFFICES ASSUME IndInv, SerialInv, [Next]_vars PROVE SerialInv'
  OBVIOUS
<1>0. ASSUME UNCHANGED <<stateVersion, history, nextHistory, nextAttempt, attempt>>
      PROVE  SerialInv'
  BY <1>0, SerialStays
<1>1. CASE \E w \in Workers : WorkerStep(w)
  <2>1. PICK w \in Workers : WorkerStep(w)
    BY <1>1
  <2>2. CASE Commit(w)
    <3>1. PICK h \in 0..MaxEntries, n \in 0..1 : CommitHandlerOutcome(w, h, n)
      BY <2>2 DEF Commit
    <3>2. h \in Nat
      BY BoundsAssumption
    <3> QED
      BY <3>1, <3>2, SerialOfCommit
  <2>3. CASE RecordRetry(w) \/ RecordBlocked(w)
    BY <2>3, SerialOfRecord
  <2>4. CASE ClaimNextEvent(w)
    BY <2>4, SerialOfClaim
  <2>5. CASE \/ ClaimScan(w) \/ ClaimMiss(w) \/ PreflightBlock(w)
             \/ \E verdict \in {"retry", "block", "abandon"} : HandlerFails(w, verdict)
             \/ HandlerReturns(w) \/ RenewAuthority(w) \/ RetryHandler(w)
             \/ CommitRejected(w) \/ StaleClaim(w)
    BY <1>0, <2>5 DEF ClaimScan, ClaimMiss, PreflightBlock, HandlerFails, HandlerReturns,
       RenewAuthority, RetryHandler, CommitRejected, StaleClaim, sessionVars
  <2> QED
    BY <2>1, <2>2, <2>3, <2>4, <2>5 DEF WorkerStep
<1>2. CASE \/ \E k \in Keys \cup {NoKey} : EnqueueExternalEvent(k)
           \/ \E k \in RetryKeys, e \in EventSeq, expected \in 0..revision :
                RetryBlockedEvent(k, e, expected)
           \/ \E e \in EventSeq : EventBecomesDue(e)
  BY <1>0, <1>2 DEF EnqueueExternalEvent, RetryBlockedEvent, EventBecomesDue, sessionVars
<1>3. CASE \/ \E w \in Workers : CommitRollsBack(w) \/ LoseTask(w)
           \/ OrphanLeaseExpires \/ HeldLeaseExpires
  BY <1>0, <1>3 DEF CommitRollsBack, LoseTask, OrphanLeaseExpires, HeldLeaseExpires, sessionVars
<1>4. CASE UNCHANGED vars
  BY <1>0, <1>4 DEF vars, sessionVars
<1> QED
  BY <1>1, <1>2, <1>3, <1>4 DEF Next

\* Every handler attempt that claim_next_event opens sees exactly the effects of the
\* events before its own, and commit_handler_outcome_classified commits one attempt
\* of each event: workers that race, crash and stall cannot be told from one worker.
THEOREM HandlersRunSerially == Spec => []HandlersAreSerial
<1>1. Init => SerialInv
  BY BoundsAssumption DEF Init, SerialInv, AttemptId, EventSeq, Committed
<1>2. IndInv /\ SerialInv => HandlersAreSerial
  <2> SUFFICES ASSUME IndInv, SerialInv PROVE HandlersAreSerial
    OBVIOUS
  <2>1. ASSUME NEW a \in 1..(nextAttempt - 1)
        PROVE  /\ attempt[a].version = attempt[a].event - 1
               /\ \A i \in 1..MaxHistory :
                    i <= attempt[a].through <=> history[i] \in 1..(attempt[a].event - 1)
    <3>1. a \in AttemptId /\ a < nextAttempt
      BY Numbers DEF AttemptId
    <3> QED
      BY <3>1 DEF SerialInv, SawItsPast
  <2>2. {e \in EventSeq : \E a \in AttemptId : Committed(a, e)} = 1..stateVersion
    <3>1. ASSUME NEW e \in 1..stateVersion
          PROVE  e \in EventSeq /\ \E a \in AttemptId : Committed(a, e)
      BY Numbers DEF SerialInv, IndInv, InboxInv, EventSeq
    <3>2. ASSUME NEW e \in EventSeq, NEW a \in AttemptId, Committed(a, e)
          PROVE  e \in 1..stateVersion
      BY <3>2, Numbers DEF SerialInv, Committed, EventSeq
    <3> QED
      BY <3>1, <3>2
  <2> QED
    BY <2>1, <2>2 DEF HandlersAreSerial, SerialInv
<1> QED
  BY <1>1, <1>2, Inductive, NextIsSerial, PTL DEF Spec

-----------------------------------------------------------------------------
(* Pauses and resumptions *)

\* The revisions of the pauses that ended before revision n.
PausesBefore(n) == {i \in 0..(n - 1) : i % 2 = 1}

\* Revisions alternate, and passing an odd one adds it to the pauses that ended.
LEMMA Alternation ==
    ASSUME NEW n \in Nat
    PROVE  /\ n % 2 = 0 => (n + 1) % 2 # 0 /\ PausesBefore(n + 1) = PausesBefore(n)
           /\ n % 2 # 0 => (n + 1) % 2 = 0 /\ PausesBefore(n + 1) = PausesBefore(n) \cup {n}
           /\ n \notin PausesBefore(n)
<1>1. n % 2 \in {0, 1} /\ (n % 2 = 0 <=> (n + 1) % 2 = 1) /\ (n + 1) % 2 \in {0, 1}
  BY SMT
<1>2. 0..((n + 1) - 1) = (0..(n - 1)) \cup {n} /\ n \notin 0..(n - 1)
  BY SMT
<1>3. CASE n % 2 = 0
  BY <1>1, <1>2, <1>3 DEF PausesBefore
<1>4. CASE n % 2 # 0
  BY <1>1, <1>2, <1>4 DEF PausesBefore
<1> QED
  BY <1>3, <1>4

\* Only a blocked event and an operator's retry touch the processing columns.
LEMMA OnlyPausesAndResumes ==
    ASSUME [Next]_vars, ~ \E w \in Workers : RecordBlocked(w),
           ~ \E k \in RetryKeys, e \in EventSeq, expected \in 0..revision :
               RetryBlockedEvent(k, e, expected)
    PROVE  UNCHANGED <<enabled, revision, retries>>
<1>1. CASE \E w \in Workers : WorkerStep(w)
  <2>1. PICK w \in Workers : WorkerStep(w)
    BY <1>1
  <2>2. CASE \/ ClaimScan(w) \/ ClaimNextEvent(w) \/ ClaimMiss(w) \/ PreflightBlock(w)
             \/ \E verdict \in {"retry", "block", "abandon"} : HandlerFails(w, verdict)
    BY <2>2 DEF ClaimScan, ClaimNextEvent, ClaimMiss, PreflightBlock, HandlerFails, sessionVars
  <2>3. CASE \/ HandlerReturns(w) \/ RenewAuthority(w) \/ RetryHandler(w) \/ RecordRetry(w)
             \/ CommitRejected(w) \/ StaleClaim(w) \/ Commit(w)
    BY <2>3 DEF HandlerReturns, RenewAuthority, RetryHandler, RecordRetry, CommitRejected,
                StaleClaim, Commit, CommitHandlerOutcome, sessionVars
  <2> QED
    BY <2>1, <2>2, <2>3 DEF WorkerStep
<1>2. CASE \/ \E k \in Keys \cup {NoKey} : EnqueueExternalEvent(k)
           \/ \E e \in EventSeq : EventBecomesDue(e)
  BY <1>2 DEF EnqueueExternalEvent, EventBecomesDue, sessionVars
<1>3. CASE \/ \E w \in Workers : CommitRollsBack(w) \/ LoseTask(w)
           \/ OrphanLeaseExpires \/ HeldLeaseExpires
  BY <1>3 DEF CommitRollsBack, LoseTask, OrphanLeaseExpires, HeldLeaseExpires, sessionVars
<1>4. CASE UNCHANGED vars
  BY <1>4 DEF vars, sessionVars
<1> QED
  BY <1>1, <1>2, <1>3, <1>4 DEF Next

\* A pause starts from an enabled session: an owned session is never paused.
LEMMA PauseKeepsPairs ==
    ASSUME IndInv, OneResumePerPause, NEW w \in Workers, RecordBlocked(w)
    PROVE  OneResumePerPause'
<1>1. revision \in Nat /\ enabled = TRUE
  <2>1. worker[w].pc = "recording" /\ ValidClaim(w)
    BY DEF RecordBlocked
  <2>2. enabled /\ enabled \in BOOLEAN
    BY <2>1, OwnerFacts DEF IndInv, TypeOK
  <2> QED
    BY <2>2, Zenon DEF IndInv, TypeOK
<1>2. enabled' = FALSE /\ revision' = revision + 1 /\ retries' = retries
  BY DEF RecordBlocked, PauseProcessing
<1>3. revision % 2 = 0
  BY <1>1 DEF OneResumePerPause
<1>4. (revision + 1) % 2 # 0 /\ PausesBefore(revision + 1) = PausesBefore(revision)
  BY <1>1, <1>3, Alternation
<1>5. {r.expected : r \in retries'} = PausesBefore(revision')
  BY <1>2, <1>4 DEF OneResumePerPause, PausesBefore
<1>6. enabled' = (revision' % 2 = 0)
  BY <1>2, <1>4
<1> QED
  BY <1>2, <1>5, <1>6 DEF OneResumePerPause, PausesBefore

\* A resumption ends the pause of its own revision, which no request named before.
LEMMA ResumeKeepsPairs ==
    ASSUME IndInv, OneResumePerPause, NEW k \in RetryKeys, NEW e \in EventSeq,
           NEW expected \in 0..revision, RetryBlockedEvent(k, e, expected)
    PROVE  OneResumePerPause'
<1> DEFINE new == [key |-> k, event |-> e, expected |-> revision]
<1>1. /\ revision \in Nat /\ retries \subseteq RetryRow
      /\ enabled' = TRUE /\ revision' = revision + 1 /\ retries' = retries \cup {new}
      /\ \A r \in retries : r.key # k
  BY DEF RetryBlockedEvent, RevisionMatches, IndInv, TypeOK
<1>2. revision % 2 # 0
  <2>1. ~enabled
    BY DEF RetryBlockedEvent
  <2> QED
    BY <2>1 DEF OneResumePerPause
<1>3. /\ (revision + 1) % 2 = 0 /\ revision \notin PausesBefore(revision)
      /\ PausesBefore(revision + 1) = PausesBefore(revision) \cup {revision}
  BY <1>1, <1>2, Alternation
<1>4. {r.expected : r \in retries} = PausesBefore(revision)
  BY DEF OneResumePerPause, PausesBefore
<1>5. new.expected = revision /\ new.key = k
  OBVIOUS
<1> HIDE DEF new
<1>6. {r.expected : r \in retries'} = PausesBefore(revision')
  BY <1>1, <1>3, <1>4, <1>5
<1>7. \A r \in retries : r.expected # revision
  BY <1>3, <1>4
<1>8. \A r, s \in retries' : r.expected = s.expected \/ r.key = s.key => r = s
  BY <1>1, <1>5, <1>7 DEF OneResumePerPause
<1>9. enabled' = (revision' % 2 = 0)
  BY <1>1, <1>3
<1> QED
  BY <1>6, <1>8, <1>9 DEF OneResumePerPause, PausesBefore

\* retry_blocked_event answers each pause once, whatever requests are prepared,
\* replayed or raced against it, for any number of keys and pauses.
THEOREM PausesPairWithRetries == Spec => []OneResumePerPause
<1>1. Init => OneResumePerPause
  <2> SUFFICES ASSUME Init PROVE OneResumePerPause
    OBVIOUS
  <2>1. enabled = TRUE /\ revision = 0 /\ retries = {}
    BY DEF Init
  <2>2. {i \in 0..(revision - 1) : i % 2 = 1} = {} /\ revision % 2 = 0
    BY <2>1, SMT
  <2> QED
    BY <2>1, <2>2 DEF OneResumePerPause
<1>2. IndInv /\ OneResumePerPause /\ [Next]_vars => OneResumePerPause'
  <2> SUFFICES ASSUME IndInv, OneResumePerPause, [Next]_vars PROVE OneResumePerPause'
    OBVIOUS
  <2>1. CASE \E w \in Workers : RecordBlocked(w)
    BY <2>1, PauseKeepsPairs
  <2>2. CASE \E k \in RetryKeys, e \in EventSeq, expected \in 0..revision :
               RetryBlockedEvent(k, e, expected)
    BY <2>2, ResumeKeepsPairs
  <2>3. CASE UNCHANGED <<enabled, revision, retries>>
    BY <2>3 DEF OneResumePerPause
  <2> QED
    BY <2>1, <2>2, <2>3, OnlyPausesAndResumes
<1> QED
  BY <1>1, <1>2, Inductive, PTL DEF Spec

-----------------------------------------------------------------------------
(* The inbox implements ExactlyOnceInbox *)

Applied == {e \in Events : event[e].status = "handled"}

\* The number of events changes by at most one per step.
LEMMA StepAccepts ==
    ASSUME IndInv, [Next]_vars
    PROVE  nextEvent' \in {nextEvent, nextEvent + 1}
<1>1. CASE \E w \in Workers : Commit(w)
  <2>1. PICK w \in Workers, h \in 0..MaxEntries, n \in 0..1 : CommitHandlerOutcome(w, h, n)
    BY <1>1 DEF Commit
  <2>2. nextEvent' = nextEvent + n
    BY <2>1 DEF CommitHandlerOutcome
  <2> QED
    BY <2>2, Numbers
<1>2. CASE \E k \in Keys \cup {NoKey} : EnqueueExternalEvent(k)
  BY <1>2 DEF EnqueueExternalEvent
<1>3. CASE \E w \in Workers : WorkerStep(w) /\ ~Commit(w)
  <2>1. PICK w \in Workers : WorkerStep(w) /\ ~Commit(w)
    BY <1>3
  <2>2. CASE \/ ClaimScan(w) \/ ClaimNextEvent(w) \/ ClaimMiss(w) \/ PreflightBlock(w)
             \/ \E verdict \in {"retry", "block", "abandon"} : HandlerFails(w, verdict)
    BY <2>2 DEF ClaimScan, ClaimNextEvent, ClaimMiss, PreflightBlock, HandlerFails, sessionVars
  <2>3. CASE \/ HandlerReturns(w) \/ RenewAuthority(w) \/ RetryHandler(w) \/ RecordRetry(w)
             \/ RecordBlocked(w) \/ CommitRejected(w) \/ StaleClaim(w)
    BY <2>3 DEF HandlerReturns, RenewAuthority, RetryHandler, RecordRetry, RecordBlocked,
                CommitRejected, StaleClaim, sessionVars
  <2> QED
    BY <2>1, <2>2, <2>3 DEF WorkerStep
<1>4. CASE \/ \E k \in RetryKeys, e \in EventSeq, expected \in 0..revision :
                RetryBlockedEvent(k, e, expected)
           \/ \E e \in EventSeq : EventBecomesDue(e)
  BY <1>4 DEF RetryBlockedEvent, EventBecomesDue, sessionVars
<1>5. CASE \/ \E w \in Workers : CommitRollsBack(w) \/ LoseTask(w)
           \/ OrphanLeaseExpires \/ HeldLeaseExpires
  BY <1>5 DEF CommitRollsBack, LoseTask, OrphanLeaseExpires, HeldLeaseExpires, sessionVars
<1>6. CASE UNCHANGED vars
  BY <1>6 DEF vars, sessionVars
<1> QED
  BY <1>1, <1>2, <1>3, <1>4, <1>5, <1>6 DEF Next

\* Every behaviour of the inbox, with its racing, crashing and stalling workers,
\* is a behaviour of the exactly-once FIFO inbox.
THEOREM Refinement == Spec => ImplementsPromise
<1>1. Init => Promise!Init
  <2> SUFFICES ASSUME Init PROVE nextEvent - 1 = 0 /\ Applied = {} /\ stateVersion = 0
    BY DEF Promise!Init, Applied
  <2> QED
    BY DEF Init, Applied, Events
<1>2. IndInv /\ HandledIsPrefix /\ HandledIsPrefix' /\ [Next]_vars
        => [Promise!Next]_<<nextEvent - 1, Applied, stateVersion>>
  <2> SUFFICES ASSUME IndInv, HandledIsPrefix, HandledIsPrefix', [Next]_vars
               PROVE  [Promise!Next]_<<nextEvent - 1, Applied, stateVersion>>
    OBVIOUS
  <2>1. Applied = 1..stateVersion /\ Applied' = 1..stateVersion'
    BY DEF HandledIsPrefix, Applied
  <2>2. nextEvent' \in {nextEvent, nextEvent + 1}
    BY StepAccepts
  <2>3. CASE \E w \in Workers : Commit(w)
    <3>1. PICK w \in Workers, h \in 0..MaxEntries, n \in 0..1 : CommitHandlerOutcome(w, h, n)
      BY <2>3 DEF Commit
    <3>2. stateVersion' = stateVersion + 1
      BY <3>1 DEF CommitHandlerOutcome
    <3>3. stateVersion + 1 \in 1..(nextEvent - 1)
      <4>1. worker[w].pc = "committing" /\ ValidClaim(w)
        BY <3>1 DEF CommitHandlerOutcome
      <4> QED
        BY <4>1, OwnerFacts, Numbers
    <3>4. Promise!Apply
      <4> DEFINE e == stateVersion + 1
      <4>1. e \notin Applied /\ \A d \in 1..(e - 1) : d \in Applied
        BY <2>1, Numbers
      <4>2. Applied' = Applied \cup {e}
        BY SMTT(30), <2>1, <3>2, Numbers
      <4>3. (nextEvent - 1)' \in {nextEvent - 1, (nextEvent - 1) + 1}
        BY <2>2, Numbers
      <4> QED
        BY <3>2, <3>3, <4>1, <4>2, <4>3 DEF Promise!Apply, Applied
    <3> QED
      BY <3>4 DEF Promise!Next
  <2>4. CASE ~ \E w \in Workers : Commit(w)
    <3>1. stateVersion' = stateVersion
      BY <2>4, OnlyCommitAdvances
    <3>2. Applied' = Applied
      BY <2>1, <3>1
    <3>3. CASE nextEvent' = nextEvent + 1
      <4>1. (nextEvent - 1)' = (nextEvent - 1) + 1
        BY <3>3, Numbers
      <4>2. Promise!Accept
        BY <3>1, <3>2, <4>1 DEF Promise!Accept, Applied
      <4> QED
        BY <4>2 DEF Promise!Next
    <3>4. CASE nextEvent' = nextEvent
      BY <3>1, <3>2, <3>4
    <3> QED
      BY <2>2, <3>3, <3>4
  <2> QED
    BY <2>3, <2>4
<1> QED
  BY <1>1, <1>2, Inductive, FifoExactlyOnce, PTL DEF Spec, ImplementsPromise, Promise!Spec, Applied

-----------------------------------------------------------------------------
(* The retry budget *)

Errored(e) == {a \in AttemptId : attempt[a].event = e /\ attempt[a].status = "errored"}

\* What an event has used of its budget since it was last resumed.
Spent(e) == Failures(e) - event[e].baseline

\* A task about to record a retry.
WillRetry(w) == worker[w].pc = "recording" /\ worker[w].verdict = "retry"

\* Only a blocked event has overdrawn its budget.  The count a task has read
\* outside the transaction stays good as long as the task owns the session.
BudgetInv ==
    /\ \A e \in EventSeq : event[e].status = "absent" => event[e].baseline = 0
    /\ \A e \in EventSeq :
         Spent(e) <= IF event[e].status = "blocked" THEN MaxRetries + 1 ELSE MaxRetries
    /\ \A w \in Workers : worker[w].attempt < nextAttempt
    /\ \A w \in Workers : WillRetry(w) /\ worker[w].attempt = token /\ worker[w].event = current =>
         Spent(worker[w].event) < MaxRetries

\* Failures and budgets are counted in numbers.
LEMMA SpentType ==
    ASSUME IndInv, NEW e \in EventSeq
    PROVE  /\ Failures(e) = Cardinality(Errored(e)) /\ IsFiniteSet(Errored(e))
           /\ Failures(e) \in Nat /\ event[e].baseline \in Nat
           /\ event[e].status \in {"absent", "pending", "processing", "handled", "blocked"}
           /\ MaxRetries \in Nat
<1>1. IsFiniteSet(AttemptId)
  BY FS_Interval, BoundsAssumption DEF AttemptId
<1>2. IsFiniteSet(Errored(e))
  BY <1>1, FS_Subset DEF Errored
<1>3. Failures(e) = Cardinality(Errored(e))
  BY DEF Failures, Errored
<1>4. event[e].baseline \in Nat
      /\ event[e].status \in {"absent", "pending", "processing", "handled", "blocked"}
  BY DEF IndInv, TypeOK, EventRow
<1> QED
  BY <1>2, <1>3, <1>4, FailuresType, BoundsAssumption

\* A step that records no failure and resumes no event.
LEMMA BudgetStays ==
    ASSUME IndInv, BudgetInv,
           \A e \in EventSeq : Errored(e)' = Errored(e),
           \A e \in EventSeq :
             /\ event'[e].baseline = event[e].baseline
             /\ event'[e].status = "absent" => event[e].status = "absent"
             /\ event[e].status = "blocked" => event'[e].status = "blocked",
           \A w \in Workers : worker'[w].attempt < nextAttempt',
           \A w \in Workers : WillRetry(w)' /\ worker'[w].attempt = token' /\ worker'[w].event = current' =>
                worker'[w].event \in EventSeq /\ Spent(worker'[w].event) < MaxRetries
    PROVE  BudgetInv'
<1>1. ASSUME NEW e \in EventSeq
      PROVE  Spent(e)' = Spent(e)
  <2>1. Failures(e)' = Failures(e)
    BY DEF Failures, Errored
  <2> QED
    BY <2>1 DEF Spent
<1>2. \A e \in EventSeq : event'[e].status = "absent" => event'[e].baseline = 0
  BY DEF BudgetInv
<1>3. ASSUME NEW e \in EventSeq
      PROVE  Spent(e)' <= IF event'[e].status = "blocked" THEN MaxRetries + 1 ELSE MaxRetries
  <2>1. Spent(e) <= IF event[e].status = "blocked" THEN MaxRetries + 1 ELSE MaxRetries
    BY DEF BudgetInv
  <2>2. Spent(e) \in Int /\ MaxRetries \in Nat
    BY SpentType DEF Spent
  <2> QED
    BY <1>1, <2>1, <2>2
<1>4. ASSUME NEW w \in Workers, WillRetry(w)', worker'[w].attempt = token', worker'[w].event = current'
      PROVE  Spent(worker[w].event)' < MaxRetries
  <2>1. PICK e \in EventSeq : e = worker'[w].event /\ Spent(e) < MaxRetries
    BY <1>4
  <2>2. Spent(e)' < MaxRetries
    BY <1>1, <2>1
  <2> QED
    BY <2>1, <2>2 DEF Spent, Failures
<1> QED
  BY <1>2, <1>3, <1>4 DEF BudgetInv

\* A record of another task cannot come between the count and the record: that
\* would take the claim.
LEMMA BudgetOfTasks ==
    ASSUME IndInv, BudgetInv, NEW w \in Workers,
           UNCHANGED <<sessionVars, event, attempt, nextAttempt>>,
           \A v \in Workers : v # w => worker'[v] = worker[v],
           worker'[w].attempt = worker[w].attempt \/ worker'[w].attempt = None,
           ~WillRetry(w)' \/ (worker'[w].event \in EventSeq /\ Spent(worker'[w].event) < MaxRetries)
    PROVE  BudgetInv'
<1>1. attempt' = attempt /\ event' = event /\ nextAttempt' = nextAttempt /\ token' = token
      /\ current' = current
  BY DEF sessionVars
<1>2. \A e \in EventSeq : Errored(e)' = Errored(e)
  BY <1>1 DEF Errored
<1>3. ASSUME NEW v \in Workers
      PROVE  worker'[v].attempt < nextAttempt'
  <2>1. worker[v].attempt < nextAttempt /\ None < nextAttempt
    BY Numbers DEF BudgetInv, None
  <2> QED
    BY <1>1, <2>1
<1>4. ASSUME NEW v \in Workers, WillRetry(v)', worker'[v].attempt = token', worker'[v].event = current'
      PROVE  worker'[v].event \in EventSeq /\ Spent(worker'[v].event) < MaxRetries
  <2>1. CASE v = w
    BY <1>4, <2>1
  <2>2. CASE v # w
    <3>1. worker'[v] = worker[v] /\ WillRetry(v)
      BY <1>4, <2>2 DEF WillRetry
    <3>2. worker[v].event \in EventSeq
      BY <3>1 DEF WillRetry, IndInv, TaskInv
    <3> QED
      BY <1>1, <1>4, <3>1, <3>2 DEF BudgetInv
  <2> QED
    BY <2>1, <2>2
<1> QED
  BY <1>1, <1>2, <1>3, <1>4, BudgetStays

\* Where GoTo leads, the claim is kept.
LEMMA GoToBudget ==
    ASSUME IndInv, BudgetInv, NEW w \in Workers,
           NEW pc \in {"handling", "authority", "counting", "recording", "committing"},
           NEW verdict \in {"none", "retry", "block", "abandon"},
           GoTo(w, pc, verdict), UNCHANGED <<sessionVars, event, attempt, nextAttempt>>,
           \/ pc # "recording" \/ verdict # "retry"
           \/ worker[w].event \in EventSeq /\ Spent(worker[w].event) < MaxRetries
    PROVE  BudgetInv'
<1> DEFINE r == [worker[w] EXCEPT !.pc = pc, !.verdict = verdict]
<1>1. worker[w] \in WorkerTask /\ worker \in [Workers -> WorkerTask]
  BY DEF IndInv, TypeOK
<1>2. /\ r.pc = pc /\ r.verdict = verdict /\ r.event = worker[w].event
      /\ r.attempt = worker[w].attempt
  BY <1>1 DEF WorkerTask
<1>3. worker' = [worker EXCEPT ![w] = r]
  BY DEF GoTo
<1> HIDE DEF r
<1>4. worker'[w] = r /\ \A v \in Workers : v # w => worker'[v] = worker[v]
  BY <1>1, <1>3
<1>5. ~WillRetry(w)' \/ (worker'[w].event \in EventSeq /\ Spent(worker'[w].event) < MaxRetries)
  BY <1>2, <1>4 DEF WillRetry
<1> QED
  BY <1>2, <1>4, <1>5, BudgetOfTasks

\* Tasks that scan, miss or end are about to record nothing.
LEMMA BudgetOfIdle ==
    ASSUME IndInv, BudgetInv, NEW w \in Workers,
           ClaimScan(w) \/ ClaimMiss(w) \/ StaleClaim(w) \/ LoseTask(w)
    PROVE  BudgetInv'
<1>1. UNCHANGED <<sessionVars, event, attempt, nextAttempt>>
  BY DEF ClaimScan, ClaimMiss, StaleClaim, LoseTask
<1>2. PICK r \in WorkerTask : /\ worker' = [worker EXCEPT ![w] = r] /\ r.attempt = None
                              /\ r.pc \in {"idle", "scanned"}
  <2>1. CASE ClaimScan(w)
    <3>1. PICK e \in EventSeq :
            worker' = [worker EXCEPT ![w] = [Idle EXCEPT !.pc = "scanned", !.event = e]]
      BY <2>1 DEF ClaimScan
    <3> DEFINE r == [Idle EXCEPT !.pc = "scanned", !.event = e]
    <3>2. r \in WorkerTask /\ r.attempt = None /\ r.pc = "scanned"
      BY DEF Idle, WorkerTask
    <3> HIDE DEF r
    <3> QED
      BY <3>1, <3>2 DEF r
  <2>2. CASE ClaimMiss(w) \/ StaleClaim(w) \/ LoseTask(w)
    <3>1. worker' = [worker EXCEPT ![w] = Idle]
      BY <2>2 DEF ClaimMiss, StaleClaim, LoseTask, BecomeIdle
    <3>2. Idle \in WorkerTask /\ Idle.attempt = None /\ Idle.pc = "idle"
      BY DEF Idle, WorkerTask
    <3> QED
      BY <3>1, <3>2
  <2> QED
    BY <2>1, <2>2
<1>3. worker'[w] = r /\ \A v \in Workers : v # w => worker'[v] = worker[v]
  BY <1>2 DEF IndInv, TypeOK
<1>4. ~WillRetry(w)'
  BY <1>2, <1>3 DEF WillRetry
<1> QED
  BY <1>1, <1>2, <1>3, <1>4, BudgetOfTasks

\* retry_handler grants a retry only within the budget.
LEMMA BudgetOfMoves ==
    ASSUME IndInv, BudgetInv, NEW w \in Workers,
           \/ PreflightBlock(w)
           \/ \E verdict \in {"retry", "block", "abandon"} : HandlerFails(w, verdict)
           \/ HandlerReturns(w) \/ RenewAuthority(w) \/ RetryHandler(w)
           \/ CommitRollsBack(w) \/ CommitRejected(w)
    PROVE  BudgetInv'
<1>0. /\ UNCHANGED <<sessionVars, event, attempt, nextAttempt>>
      /\ worker[w] \in WorkerTask /\ worker \in [Workers -> WorkerTask]
  BY DEF PreflightBlock, HandlerFails, HandlerReturns, RenewAuthority, RetryHandler,
         CommitRollsBack, CommitRejected, IndInv, TypeOK
<1>1. CASE \/ PreflightBlock(w) \/ HandlerReturns(w) \/ CommitRejected(w)
           \/ \E verdict \in {"retry", "block", "abandon"} : HandlerFails(w, verdict)
  <2>1. \/ GoTo(w, "recording", "block") \/ GoTo(w, "committing", "none")
        \/ GoTo(w, "authority", "retry") \/ GoTo(w, "authority", "block")
        \/ GoTo(w, "authority", "abandon")
    BY <1>1 DEF PreflightBlock, HandlerReturns, CommitRejected, HandlerFails
  <2> QED
    BY <1>0, <2>1, GoToBudget
<1>2. CASE RenewAuthority(w)
  <2>1. worker[w].verdict \in {"none", "retry", "block", "abandon"}
    BY <1>0 DEF WorkerTask
  <2>2. CASE worker[w].verdict = "retry"
    <3>1. GoTo(w, "counting", "retry")
      BY <1>2, <2>2 DEF RenewAuthority
    <3> QED
      BY <1>0, <3>1, GoToBudget
  <2>3. CASE worker[w].verdict # "retry"
    <3>1. GoTo(w, "recording", worker[w].verdict)
      BY <1>2, <2>3 DEF RenewAuthority
    <3> QED
      BY <1>0, <2>1, <2>3, <3>1, GoToBudget
  <2> QED
    BY <2>2, <2>3
<1>3. CASE RetryHandler(w)
  <2>1. PICK e \in EventSeq : e = worker[w].event
    BY <1>3 DEF RetryHandler, IndInv, TaskInv
  <2>2. CASE BudgetSpent(e)
    <3>1. GoTo(w, "recording", "block")
      BY <1>3, <2>1, <2>2 DEF RetryHandler
    <3> QED
      BY <1>0, <3>1, GoToBudget
  <2>3. CASE ~BudgetSpent(e)
    <3>1. GoTo(w, "recording", "retry")
      BY <1>3, <2>1, <2>3 DEF RetryHandler
    <3>2. Spent(e) < MaxRetries
      BY <2>3, SpentType DEF BudgetSpent, Spent
    <3> QED
      BY <1>0, <2>1, <3>1, <3>2, GoToBudget
  <2> QED
    BY <2>2, <2>3
<1>4. CASE CommitRollsBack(w)
  <2>1. CASE worker[w].rollbacks < CommitRetries
    <3> DEFINE r == [worker[w] EXCEPT !.rollbacks = worker[w].rollbacks + 1]
    <3>1. worker' = [worker EXCEPT ![w] = r] /\ worker[w].pc = "committing"
      BY <1>4, <2>1 DEF CommitRollsBack
    <3>2. r.pc = worker[w].pc /\ r.attempt = worker[w].attempt
      BY <1>0 DEF WorkerTask
    <3> HIDE DEF r
    <3>3. worker'[w] = r /\ \A v \in Workers : v # w => worker'[v] = worker[v]
      BY <1>0, <3>1
    <3>4. ~WillRetry(w)'
      BY <3>1, <3>2, <3>3 DEF WillRetry
    <3> QED
      BY <1>0, <3>2, <3>3, <3>4, BudgetOfTasks
  <2>2. CASE ~(worker[w].rollbacks < CommitRetries)
    <3>1. GoTo(w, "authority", "abandon")
      BY <1>4, <2>2 DEF CommitRollsBack
    <3> QED
      BY <1>0, <3>1, GoToBudget
  <2> QED
    BY <2>1, <2>2
<1> QED
  BY <1>1, <1>2, <1>3, <1>4

\* Steps of clients and of time leave attempts and tasks alone.
LEMMA BudgetOfEvents ==
    ASSUME IndInv, BudgetInv,
           \/ \E k \in Keys \cup {NoKey} : EnqueueExternalEvent(k)
           \/ OrphanLeaseExpires \/ HeldLeaseExpires
           \/ \E e \in EventSeq : EventBecomesDue(e)
    PROVE  BudgetInv'
<1>1. UNCHANGED <<attempt, nextAttempt, worker, token, current>>
  BY DEF EnqueueExternalEvent, OrphanLeaseExpires, HeldLeaseExpires, EventBecomesDue, sessionVars
<1>2. ASSUME NEW e \in EventSeq
      PROVE  /\ event'[e].baseline = event[e].baseline
             /\ event'[e].status = "absent" => event[e].status = "absent"
             /\ event[e].status = "blocked" => event'[e].status = "blocked"
  <2>1. event \in [EventSeq -> EventRow] /\ event[e] \in EventRow
    BY DEF IndInv, TypeOK
  <2>2. CASE \E k \in Keys \cup {NoKey} : EnqueueExternalEvent(k)
    <3>1. PICK k \in Keys \cup {NoKey} : event' = [event EXCEPT ![nextEvent] = NewEvent(k)]
      BY <2>2 DEF EnqueueExternalEvent
    <3>2. CASE e = nextEvent
      <4>1. event[e].status = "absent" /\ event[e].baseline = 0
        BY <3>2, Numbers DEF IndInv, InboxInv, BudgetInv
      <4>2. event'[e].baseline = 0 /\ event'[e].status = "pending"
        BY <2>1, <3>1, <3>2 DEF NewEvent
      <4> QED
        BY <4>1, <4>2
    <3>3. CASE e # nextEvent
      BY <2>1, <3>1, <3>3
    <3> QED
      BY <3>2, <3>3
  <2>3. CASE OrphanLeaseExpires \/ HeldLeaseExpires
    BY <2>3 DEF OrphanLeaseExpires, HeldLeaseExpires
  <2>4. CASE \E d \in EventSeq : EventBecomesDue(d)
    BY <2>1, <2>4 DEF EventBecomesDue, EventRow
  <2> QED
    BY <2>2, <2>3, <2>4
<1>3. \A e \in EventSeq : Errored(e)' = Errored(e)
  BY <1>1 DEF Errored
<1>4. \A w \in Workers : worker'[w].attempt < nextAttempt'
  BY <1>1 DEF BudgetInv
<1>5. ASSUME NEW w \in Workers, WillRetry(w)', worker'[w].attempt = token', worker'[w].event = current'
      PROVE  worker'[w].event \in EventSeq /\ Spent(worker'[w].event) < MaxRetries
  <2>1. WillRetry(w) /\ worker[w].attempt = token /\ worker[w].event = current
    BY <1>1, <1>5 DEF WillRetry
  <2> QED
    BY <1>1, <2>1 DEF WillRetry, IndInv, TaskInv, BudgetInv
<1> QED
  BY <1>2, <1>3, <1>4, <1>5, BudgetStays

\* An operator gives the blocked head a new budget.
LEMMA BudgetOfResume ==
    ASSUME IndInv, BudgetInv, NEW k \in RetryKeys, NEW e \in EventSeq, NEW expected \in 0..revision,
           RetryBlockedEvent(k, e, expected)
    PROVE  BudgetInv'
<1>1. /\ UNCHANGED <<attempt, nextAttempt, worker>> /\ token' = None
      /\ event' = [event EXCEPT ![e] = [@ EXCEPT !.status = "pending", !.due = TRUE,
                                                  !.baseline = Failures(e)]]
  BY DEF RetryBlockedEvent
<1>2. /\ event'[e].status = "pending" /\ event'[e].baseline = Failures(e)
      /\ \A d \in EventSeq : d # e => event'[d] = event[d]
  <2>1. event \in [EventSeq -> EventRow] /\ event[e] \in EventRow
    BY DEF IndInv, TypeOK
  <2> DEFINE row == [event[e] EXCEPT !.status = "pending", !.due = TRUE, !.baseline = Failures(e)]
  <2>2. row.status = "pending" /\ row.baseline = Failures(e)
    BY <2>1 DEF EventRow
  <2>3. event' = [event EXCEPT ![e] = row]
    BY <1>1
  <2> HIDE DEF row
  <2> QED
    BY <2>1, <2>2, <2>3
<1>3. ASSUME NEW d \in EventSeq
      PROVE  Failures(d)' = Failures(d)
  BY <1>1 DEF Failures
<1>4. \A d \in EventSeq : event'[d].status = "absent" => event'[d].baseline = 0
  BY <1>2 DEF BudgetInv
<1>5. ASSUME NEW d \in EventSeq
      PROVE  Spent(d)' <= IF event'[d].status = "blocked" THEN MaxRetries + 1 ELSE MaxRetries
  <2>1. CASE d = e
    BY <1>2, <1>3, <2>1, SpentType DEF Spent
  <2>2. CASE d # e
    BY <1>2, <1>3, <2>2 DEF Spent, BudgetInv
  <2> QED
    BY <2>1, <2>2
<1>6. \A w \in Workers : ~(WillRetry(w)' /\ worker'[w].attempt = token')
  BY <1>1 DEF WillRetry, IndInv, TaskInv, AttemptId, None
<1>7. \A w \in Workers : worker'[w].attempt < nextAttempt'
  BY <1>1 DEF BudgetInv
<1> QED
  BY <1>4, <1>5, <1>6, <1>7 DEF BudgetInv

\* A claim abandons attempts, it does not fail them; nobody else has its token.
LEMMA BudgetOfClaim ==
    ASSUME IndInv, BudgetInv, NEW w \in Workers, ClaimNextEvent(w)
    PROVE  BudgetInv'
<1>1. PICK e \in EventSeq : e = worker[w].event /\ event[e].status # "absent" /\ event[e].status # "blocked"
  <2>1. worker[w].event \in EventSeq /\ worker[w].event < nextEvent
    BY DEF ClaimNextEvent, IndInv, TaskInv
  <2>2. worker[w].event \in Nat
    BY <2>1 DEF EventSeq
  <2>3. event[worker[w].event].status # "absent"
    BY <2>1, <2>2, Numbers DEF IndInv, InboxInv
  <2>4. event[worker[w].event].status # "blocked"
    BY <2>1 DEF ClaimNextEvent, SessionFree, IndInv, HeadInv
  <2> QED
    BY <2>1, <2>3, <2>4
<1>2. /\ nextAttempt' = nextAttempt + 1 /\ token' = nextAttempt /\ nextAttempt \in AttemptId
      /\ event' = [event EXCEPT ![e].status = "processing"]
      /\ worker' = [worker EXCEPT ![w] = [@ EXCEPT !.pc = "handling", !.attempt = nextAttempt]]
  BY <1>1, Numbers DEF ClaimNextEvent, AttemptId
<1>3. ASSUME NEW a \in AttemptId, NEW d \in EventSeq
      PROVE  attempt'[a].event = d /\ attempt'[a].status = "errored" <=>
             attempt[a].event = d /\ attempt[a].status = "errored"
  <2>1. attempt'[a] = IF a = nextAttempt
                        THEN [event |-> e, status |-> "running",
                              version |-> stateVersion, through |-> nextHistory - 1]
                      ELSE IF attempt[a].event = e /\ attempt[a].status = "running"
                        THEN [attempt[a] EXCEPT !.status = "abandoned"]
                      ELSE attempt[a]
    BY <1>1 DEF ClaimNextEvent
  <2>2. attempt[nextAttempt].status = "absent"
    BY <1>2, Numbers DEF IndInv, ClaimInv
  <2>3. attempt[a] \in AttemptRow
    BY DEF IndInv, TypeOK
  <2>4. CASE a = nextAttempt
    <3>1. attempt'[a].status = "running"
      BY <2>1, <2>4
    <3> QED
      BY <2>2, <2>4, <3>1
  <2>5. CASE a # nextAttempt /\ attempt[a].event = e /\ attempt[a].status = "running"
    <3>1. attempt'[a] = [attempt[a] EXCEPT !.status = "abandoned"]
      BY <2>1, <2>5
    <3>2. attempt'[a].status = "abandoned"
      BY <2>3, <3>1 DEF AttemptRow
    <3> QED
      BY <2>5, <3>2
  <2>6. CASE a # nextAttempt /\ ~(attempt[a].event = e /\ attempt[a].status = "running")
    BY <2>1, <2>6
  <2> QED
    BY <2>4, <2>5, <2>6
<1>4. \A d \in EventSeq : Errored(d)' = Errored(d)
  BY <1>3 DEF Errored
<1>5. ASSUME NEW d \in EventSeq
      PROVE  /\ event'[d].baseline = event[d].baseline
             /\ event'[d].status = "absent" => event[d].status = "absent"
             /\ event[d].status = "blocked" => event'[d].status = "blocked"
  <2>1. event \in [EventSeq -> EventRow] /\ event[d] \in EventRow
    BY DEF IndInv, TypeOK
  <2> QED
    BY <1>1, <1>2, <2>1 DEF EventRow
<1>6. ASSUME NEW v \in Workers
      PROVE  /\ worker'[v].attempt < nextAttempt'
             /\ ~(WillRetry(v)' /\ worker'[v].attempt = token')
  <2>1. worker \in [Workers -> WorkerTask] /\ worker[w] \in WorkerTask /\ worker[v] \in WorkerTask
    BY DEF IndInv, TypeOK
  <2>2. CASE v = w
    <3>1. worker'[v].pc = "handling" /\ worker'[v].attempt = nextAttempt
      BY <1>2, <2>1, <2>2 DEF WorkerTask
    <3> QED
      BY <1>2, <3>1, Numbers DEF WillRetry
  <2>3. CASE v # w
    <3>1. worker'[v] = worker[v] /\ worker[v].attempt < nextAttempt
      BY <1>2, <2>1, <2>3 DEF BudgetInv
    <3>2. worker[v].attempt \in Nat
      BY <2>1 DEF WorkerTask, AttemptId, None
    <3> QED
      BY <1>2, <3>1, <3>2, Numbers DEF WillRetry
  <2> QED
    BY <2>2, <2>3
<1> QED
  BY <1>4, <1>5, <1>6, BudgetStays

\* The task that records a failure owns the session, so its count was good; a
\* blocked event fails no more.
LEMMA BudgetOfRecord ==
    ASSUME IndInv, BudgetInv, NEW w \in Workers, RecordRetry(w) \/ RecordBlocked(w)
    PROVE  BudgetInv'
<1>1. worker[w].pc = "recording" /\ ValidClaim(w)
  BY DEF RecordRetry, RecordBlocked
<1>2. PICK e \in EventSeq, a \in AttemptId :
        /\ worker[w].event = e /\ worker[w].attempt = a /\ current = e /\ token = a
        /\ event[e].status = "processing" /\ attempt[a].status = "running"
        /\ attempt[a].event = e
  <2>1. attempt[token].event = current
    BY <1>1, OwnerFacts DEF IndInv, ClaimInv
  <2> QED
    BY <1>1, <2>1, OwnerFacts
<1>3. PICK s \in {"errored", "abandoned"} :
        /\ attempt' = [attempt EXCEPT ![a] = [@ EXCEPT !.status = s]]
        /\ \/ RecordBlocked(w) /\ s = "errored"
           \/ RecordRetry(w) /\ (s = "errored" => worker[w].verdict = "retry")
  <2>1. CASE RecordRetry(w)
    BY <1>2, <2>1 DEF RecordRetry, FinishAttempt
  <2>2. CASE RecordBlocked(w)
    BY <1>2, <2>2 DEF RecordBlocked, FinishAttempt
  <2> QED
    BY <2>1, <2>2
<1>4. /\ attempt'[a].status = s /\ attempt'[a].event = e
      /\ \A b \in AttemptId : b # a => attempt'[b] = attempt[b]
  <2>1. attempt \in [AttemptId -> AttemptRow] /\ attempt[a] \in AttemptRow
    BY DEF IndInv, TypeOK
  <2> DEFINE row == [attempt[a] EXCEPT !.status = s]
  <2>2. row.status = s /\ row.event = attempt[a].event
    BY <2>1 DEF AttemptRow
  <2>3. attempt' = [attempt EXCEPT ![a] = row]
    BY <1>3
  <2> HIDE DEF row
  <2> QED
    BY <1>2, <2>1, <2>2, <2>3
<1>5. /\ token' = None /\ nextAttempt' = nextAttempt /\ worker' = [worker EXCEPT ![w] = Idle]
  BY DEF RecordRetry, RecordBlocked, ReleaseClaim, BecomeIdle
<1>6. /\ event'[e].baseline = event[e].baseline
      /\ event'[e].status = IF RecordBlocked(w) THEN "blocked" ELSE "pending"
      /\ \A d \in EventSeq : d # e => event'[d] = event[d]
  <2>1. event \in [EventSeq -> EventRow] /\ event[e] \in EventRow
    BY DEF IndInv, TypeOK
  <2>2. CASE RecordBlocked(w)
    <3> DEFINE row == [event[e] EXCEPT !.status = "blocked", !.due = TRUE]
    <3>1. row.status = "blocked" /\ row.baseline = event[e].baseline
      BY <2>1 DEF EventRow
    <3>2. event' = [event EXCEPT ![e] = row]
      BY <1>2, <2>2 DEF RecordBlocked
    <3> HIDE DEF row
    <3> QED
      BY <2>1, <2>2, <3>1, <3>2
  <2>3. CASE ~RecordBlocked(w)
    <3> DEFINE row == [event[e] EXCEPT !.status = "pending", !.due = FALSE]
    <3>1. row.status = "pending" /\ row.baseline = event[e].baseline
      BY <2>1 DEF EventRow
    <3>2. event' = [event EXCEPT ![e] = row]
      BY <1>2, <2>3 DEF RecordRetry
    <3> HIDE DEF row
    <3> QED
      BY <2>1, <2>3, <3>1, <3>2
  <2> QED
    BY <2>2, <2>3
<1>7. ASSUME NEW d \in EventSeq, d # e
      PROVE  Failures(d)' = Failures(d)
  <2>1. Errored(d)' = Errored(d)
    BY <1>2, <1>4, <1>7 DEF Errored
  <2> QED
    BY <2>1 DEF Failures, Errored
<1>8. Failures(e)' = IF s = "errored" THEN Failures(e) + 1 ELSE Failures(e)
  <2>1. CASE s = "errored"
    <3>1. Errored(e)' = Errored(e) \cup {a} /\ a \notin Errored(e)
      BY <1>2, <1>4, <2>1 DEF Errored
    <3>2. Cardinality(Errored(e) \cup {a}) = Cardinality(Errored(e)) + 1
      BY <3>1, SpentType, FS_AddElement
    <3>3. Failures(e)' = Cardinality(Errored(e)')
      BY DEF Failures, Errored
    <3> QED
      BY <2>1, <3>1, <3>2, <3>3, SpentType
  <2>2. CASE s # "errored"
    <3>1. Errored(e)' = Errored(e)
      BY <1>2, <1>3, <1>4, <2>2 DEF Errored
    <3> QED
      BY <2>2, <3>1 DEF Failures, Errored
  <2> QED
    BY <2>1, <2>2
<1>9. \A d \in EventSeq : event'[d].status = "absent" => event'[d].baseline = 0
  BY <1>6 DEF BudgetInv
<1>10. ASSUME NEW d \in EventSeq
       PROVE  Spent(d)' <= IF event'[d].status = "blocked" THEN MaxRetries + 1 ELSE MaxRetries
  <2>1. CASE d = e
    <3>1. Spent(e) <= MaxRetries
      BY <1>2 DEF BudgetInv
    <3>2. s = "errored" /\ ~RecordBlocked(w) => Spent(e) < MaxRetries
      BY <1>1, <1>2, <1>3 DEF BudgetInv, WillRetry
    <3>3. /\ Failures(e) \in Nat /\ event[e].baseline \in Nat /\ MaxRetries \in Nat
      BY SpentType
    <3>4. Spent(d)' = Failures(e)' - event[e].baseline
      BY <1>6, <2>1 DEF Spent, Failures
    <3>5. CASE RecordBlocked(w)
      BY <1>6, <1>8, <2>1, <3>1, <3>3, <3>4, <3>5 DEF Spent
    <3>6. CASE ~RecordBlocked(w)
      BY <1>6, <1>8, <2>1, <3>1, <3>2, <3>3, <3>4, <3>6 DEF Spent
    <3> QED
      BY <3>5, <3>6
  <2>2. CASE d # e
    BY <1>6, <1>7, <2>2 DEF Spent, BudgetInv
  <2> QED
    BY <2>1, <2>2
<1>11. ASSUME NEW v \in Workers
       PROVE  /\ worker'[v].attempt < nextAttempt'
              /\ ~(WillRetry(v)' /\ worker'[v].attempt = token')
  <2>1. worker \in [Workers -> WorkerTask]
    BY DEF IndInv, TypeOK
  <2>2. CASE v = w
    BY <1>5, <2>1, <2>2, Numbers DEF Idle, WillRetry, None
  <2>3. CASE v # w
    BY <1>5, <2>1, <2>3 DEF BudgetInv, WillRetry, IndInv, TaskInv, AttemptId, None
  <2> QED
    BY <2>2, <2>3
<1> QED
  BY <1>9, <1>10, <1>11 DEF BudgetInv

\* A commit fails no attempt.
LEMMA BudgetOfCommit ==
    ASSUME IndInv, BudgetInv, NEW w \in Workers, NEW h \in Nat, NEW n \in 0..1,
           CommitHandlerOutcome(w, h, n)
    PROVE  BudgetInv'
<1>1. worker[w].pc = "committing" /\ ValidClaim(w)
  BY DEF CommitHandlerOutcome
<1>2. PICK e \in EventSeq, a \in AttemptId :
        /\ worker[w].event = e /\ worker[w].attempt = a
        /\ event[e].status = "processing" /\ attempt[a].status = "running"
  BY <1>1, OwnerFacts
<1>3. /\ attempt' = [attempt EXCEPT ![a].status = "committed"] /\ token' = None
      /\ nextAttempt' = nextAttempt /\ worker' = [worker EXCEPT ![w] = Idle]
  BY <1>2 DEF CommitHandlerOutcome, ReleaseClaim, BecomeIdle
<1>4. ASSUME NEW b \in AttemptId, NEW d \in EventSeq
      PROVE  attempt'[b].event = d /\ attempt'[b].status = "errored" <=>
             attempt[b].event = d /\ attempt[b].status = "errored"
  <2>1. attempt \in [AttemptId -> AttemptRow] /\ attempt[a] \in AttemptRow
    BY DEF IndInv, TypeOK
  <2>2. attempt'[a].status = "committed"
    BY <1>3, <2>1 DEF AttemptRow
  <2> QED
    BY <1>2, <1>3, <2>1, <2>2
<1>5. \A d \in EventSeq : Errored(d)' = Errored(d)
  BY <1>4 DEF Errored
<1>6. ASSUME NEW d \in EventSeq
      PROVE  /\ event'[d].baseline = event[d].baseline
             /\ event'[d].status = "absent" => event[d].status = "absent"
             /\ event[d].status = "blocked" => event'[d].status = "blocked"
  <2>1. event'[d] = IF d = e THEN [event[e] EXCEPT !.status = "handled"]
                    ELSE IF d \in nextEvent..(nextEvent + n - 1) THEN NewEvent(NoKey)
                    ELSE event[d]
    BY <1>2 DEF CommitHandlerOutcome
  <2>2. event[e] \in EventRow
    BY DEF IndInv, TypeOK
  <2>3. CASE d = e
    <3>1. event'[d].status = "handled" /\ event'[d].baseline = event[e].baseline
      BY <2>1, <2>2, <2>3 DEF EventRow
    <3> QED
      BY <1>2, <2>3, <3>1
  <2>4. CASE d # e /\ d \in nextEvent..(nextEvent + n - 1)
    <3>1. event[d].status = "absent" /\ event[d].baseline = 0
      BY <2>4, Numbers DEF IndInv, InboxInv, BudgetInv
    <3>2. event'[d].baseline = 0 /\ event'[d].status = "pending"
      BY <2>1, <2>4 DEF NewEvent
    <3> QED
      BY <3>1, <3>2
  <2>5. CASE d # e /\ d \notin nextEvent..(nextEvent + n - 1)
    BY <2>1, <2>5
  <2> QED
    BY <2>3, <2>4, <2>5
<1>7. ASSUME NEW v \in Workers
      PROVE  /\ worker'[v].attempt < nextAttempt'
             /\ ~(WillRetry(v)' /\ worker'[v].attempt = token')
  <2>1. worker \in [Workers -> WorkerTask]
    BY DEF IndInv, TypeOK
  <2>2. CASE v = w
    BY <1>3, <2>1, <2>2, Numbers DEF Idle, WillRetry, None
  <2>3. CASE v # w
    BY <1>3, <2>1, <2>3 DEF BudgetInv, WillRetry, IndInv, TaskInv, AttemptId, None
  <2> QED
    BY <2>2, <2>3
<1> QED
  BY <1>5, <1>6, <1>7, BudgetStays

\* Nothing has failed yet.
LEMMA BudgetAtStart ==
    ASSUME Init
    PROVE  BudgetInv
<1>1. IndInv
  BY InitEstablishes
<1>2. ASSUME NEW e \in EventSeq
      PROVE  event[e].status = "absent" /\ event[e].baseline = 0 /\ Spent(e) = 0
  <2>1. event[e].status = "absent" /\ event[e].baseline = 0
    BY DEF Init, NoEvent
  <2>2. Errored(e) = {}
    BY DEF Init, Errored
  <2>3. Failures(e) = 0
    BY <1>1, <2>2, SpentType, FS_EmptySet
  <2> QED
    BY <2>1, <2>3 DEF Spent
<1>3. \A w \in Workers : worker[w].attempt < nextAttempt /\ ~WillRetry(w)
  BY DEF Init, Idle, None, WillRetry
<1> QED
  BY <1>2, <1>3, BoundsAssumption DEF BudgetInv

\* Every step keeps the budget.
LEMMA BudgetPreserved == IndInv /\ BudgetInv /\ [Next]_vars => BudgetInv'
<1> SUFFICES ASSUME IndInv, BudgetInv, [Next]_vars PROVE BudgetInv'
  OBVIOUS
<1>1. CASE \/ \E k \in Keys \cup {NoKey} : EnqueueExternalEvent(k)
           \/ OrphanLeaseExpires \/ HeldLeaseExpires
           \/ \E e \in EventSeq : EventBecomesDue(e)
  BY <1>1, BudgetOfEvents
<1>2. CASE \E k \in RetryKeys, e \in EventSeq, expected \in 0..revision :
             RetryBlockedEvent(k, e, expected)
  BY <1>2, BudgetOfResume
<1>3. CASE \E w \in Workers : WorkerStep(w)
  <2>1. PICK w \in Workers : WorkerStep(w)
    BY <1>3
  <2>2. CASE Commit(w)
    <3>1. PICK h \in 0..MaxEntries, n \in 0..1 : CommitHandlerOutcome(w, h, n)
      BY <2>2 DEF Commit
    <3>2. h \in Nat
      BY BoundsAssumption
    <3> QED
      BY <3>1, <3>2, BudgetOfCommit
  <2>3. CASE RecordRetry(w) \/ RecordBlocked(w)
    BY <2>3, BudgetOfRecord
  <2>4. CASE ClaimNextEvent(w)
    BY <2>4, BudgetOfClaim
  <2>5. CASE ClaimScan(w) \/ ClaimMiss(w) \/ StaleClaim(w)
    BY <2>5, BudgetOfIdle
  <2>6. CASE \/ PreflightBlock(w)
             \/ \E verdict \in {"retry", "block", "abandon"} : HandlerFails(w, verdict)
             \/ HandlerReturns(w) \/ RenewAuthority(w) \/ RetryHandler(w)
             \/ CommitRejected(w)
    BY <2>6, BudgetOfMoves
  <2> QED
    BY <2>1, <2>2, <2>3, <2>4, <2>5, <2>6 DEF WorkerStep
<1>4. CASE \E w \in Workers : CommitRollsBack(w)
  BY <1>4, BudgetOfMoves
<1>5. CASE \E w \in Workers : LoseTask(w)
  BY <1>5, BudgetOfIdle
<1>6. CASE UNCHANGED vars
  <2>1. /\ event' = event /\ attempt' = attempt /\ worker' = worker
        /\ nextAttempt' = nextAttempt /\ token' = token /\ current' = current
    BY <1>6 DEF vars, sessionVars
  <2> QED
    BY <2>1 DEF BudgetInv, Spent, Failures, WillRetry
<1> QED
  BY <1>1, <1>2, <1>3, <1>4, <1>5, <1>6 DEF Next

\* No interleaving of crashes, take-overs and operator retries lets an event fail
\* more often than its retry policy says (retry_handler, record_handler_failure).
THEOREM BudgetIsKept == Spec => []RetryBudgetHolds
<1>1. Init => BudgetInv
  BY BudgetAtStart
<1>2. IndInv /\ BudgetInv /\ [Next]_vars => BudgetInv'
  BY BudgetPreserved
<1>3. IndInv /\ BudgetInv => RetryBudgetHolds
  <2> SUFFICES ASSUME IndInv, BudgetInv, NEW e \in Events
               PROVE  Failures(e) - event[e].baseline <= MaxRetries + 1
    BY DEF RetryBudgetHolds, IndInv
  <2>1. e \in EventSeq
    BY Numbers DEF Events, EventSeq
  <2>2. Spent(e) <= IF event[e].status = "blocked" THEN MaxRetries + 1 ELSE MaxRetries
    BY <2>1 DEF BudgetInv
  <2> QED
    BY <2>1, <2>2, SpentType DEF Spent
<1> QED
  BY <1>1, <1>2, <1>3, Inductive, PTL DEF Spec

=============================================================================
