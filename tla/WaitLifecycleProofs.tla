------------------------ MODULE WaitLifecycleProofs -------------------------
(***************************************************************************)
(* Proofs about WaitLifecycle for every set of waits, requests, callers    *)
(* and sweepers, every batch size and every bound.  The three safety       *)
(* invariants are not inductive alone: what a reply under way, a scanned   *)
(* batch and a refusal remember of a wait must still be true of its row    *)
(* when they are acted on.                                                 *)
(***************************************************************************)
EXTENDS WaitLifecycle, FiniteSetTheorems, TLAPS

\* A reply under way is about an existing wait and began in the past.
CallInv ==
    \A c \in Callers : call[c] # NoCall =>
        /\ call[c].wait \in Waits /\ call[c].request \in Requests
        /\ call[c].begun <= now
        /\ wait[call[c].wait].status # "absent"

\* The deadlines of a batch had been reached when it was scanned.
BatchInv ==
    \A s \in Sweepers :
        /\ sweeper[s].scanned <= now
        /\ \A w \in sweeper[s].batch :
             wait[w].status # "absent" /\ wait[w].deadline <= sweeper[s].scanned

\* A refused reply can no longer win: its wait has ended otherwise, takes no
\* replies, or its deadline was reached before the row of the session was last let
\* go, so every later transaction decides after it.
RefusalInv ==
    \A a \in refused :
        /\ wait[a[1]].status # "absent"
        /\ wait[a[1]].status = "resolved" => wait[a[1]].resolution # a[2]
        /\ wait[a[1]].status = "pending" =>
             wait[a[1]].mode = "expiration" \/ wait[a[1]].deadline <= freeSince

\* An accepted reply is the resolution of its wait.
AcceptInv ==
    \A a \in accepted : wait[a[1]].status = "resolved" /\ wait[a[1]].resolution = a[2]

\* Answers come before the deadline, expirations do not.
EndInv ==
    \A w \in Waits :
        /\ wait[w].status = "resolved" => wait[w].finishedAt < wait[w].deadline
        /\ wait[w].status = "expired" => wait[w].finishedAt >= wait[w].deadline

IndInv ==
    /\ OneResumption /\ EndInv /\ freeSince <= now
    /\ CallInv /\ BatchInv /\ RefusalInv /\ AcceptInv

-----------------------------------------------------------------------------
\* The initial state satisfies the invariant.
LEMMA InitEstablishes == Init => IndInv
<1> SUFFICES ASSUME Init PROVE IndInv
  OBVIOUS
<1>1. wait \in [Waits -> WaitRow]
  BY TimeAssumption DEF Init, WaitRow, Never, Modes, Finished
<1>2. call \in [Callers -> Call] /\ sweeper \in [Sweepers -> Sweeper]
  BY TimeAssumption DEF Init, Call, Sweeper, NoCall, Started, NoWait
<1>3. resumed \in [Waits -> Seq(Finished)]
  BY DEF Init, Finished
<1>4. TypeOK
  BY <1>1, <1>2, <1>3, TimeAssumption DEF Init, TypeOK, Never
<1> QED
  BY <1>4, TimeAssumption DEF Init, IndInv, OneResumption, EndInv, CallInv, BatchInv,
       RefusalInv, AcceptInv, Finished, Started

-----------------------------------------------------------------------------
\* What one transaction may do to the row of w and to the events about it: it is
\* inserted once, keeps its deadline and mode from then on, and ends once.
RowMoves(w) ==
    /\ wait'[w] \in WaitRow
    /\ (wait'[w].mode = "external") = (wait'[w].deadline = Never)
    /\ (wait'[w].status = "resolved") = (wait'[w].resolution # NoRequest)
    /\ resumed'[w] \in Seq(Finished)
    /\ resumed'[w] = IF wait'[w].status \in Finished THEN <<wait'[w].status>> ELSE <<>>
    /\ wait'[w].status = "resolved" => wait'[w].finishedAt < wait'[w].deadline
    /\ wait'[w].status = "expired" => wait'[w].finishedAt >= wait'[w].deadline
    /\ wait[w].status # "absent" =>
         /\ wait'[w].status # "absent"
         /\ wait'[w].deadline = wait[w].deadline
         /\ wait'[w].mode = wait[w].mode
    /\ wait[w].status \in Finished => wait'[w] = wait[w]

\* A deadline that was reached when the row was let go stays reached.
LEMMA ReachedStays ==
    ASSUME IndInv, Unlock \/ UNCHANGED freeSince,
           NEW w \in Waits, wait[w].deadline <= freeSince
    PROVE  wait[w].deadline <= freeSince' /\ wait[w].deadline <= now
<1>1. wait[w] \in WaitRow /\ now \in 0..MaxTime /\ freeSince \in 0..MaxTime /\ freeSince <= now
  BY DEF IndInv, OneResumption, TypeOK
<1>2. wait[w].deadline \in 0..Never
  BY <1>1 DEF WaitRow
<1> QED
  BY <1>1, <1>2, TimeAssumption DEF Unlock, Never

\* A row that is not written moves.
LEMMA SameRowMoves ==
    ASSUME IndInv, NEW w \in Waits, wait'[w] = wait[w], resumed'[w] = resumed[w]
    PROVE  RowMoves(w)
<1>1. wait[w] \in WaitRow /\ resumed[w] \in Seq(Finished)
  BY DEF IndInv, OneResumption, TypeOK
<1> QED
  BY <1>1 DEF IndInv, OneResumption, TypeOK, EndInv, RowMoves

\* A pending wait that ends at t and resumes its session moves, if the deadline
\* allows that end at t.
LEMMA EndedRowMoves ==
    ASSUME IndInv, NEW w \in Waits, Pending(w),
           NEW status \in Finished, NEW t \in 0..MaxTime,
           NEW r \in Requests \cup {NoRequest},
           (status = "resolved") = (r # NoRequest),
           status = "resolved" => t < wait[w].deadline,
           status = "expired" => t >= wait[w].deadline,
           wait'[w] = [wait[w] EXCEPT !.status = status, !.finishedAt = t, !.resolution = r],
           resumed'[w] = Append(resumed[w], status)
    PROVE  RowMoves(w)
<1>1. wait[w] \in WaitRow
  BY DEF IndInv, OneResumption, TypeOK
<1>2. /\ wait'[w] \in WaitRow
      /\ wait'[w].status = status /\ wait'[w].finishedAt = t /\ wait'[w].resolution = r
      /\ wait'[w].deadline = wait[w].deadline /\ wait'[w].mode = wait[w].mode
  BY <1>1 DEF WaitRow
<1>3. resumed[w] = <<>>
  BY DEF IndInv, OneResumption, Pending, Finished
<1>4. resumed'[w] = <<status>> /\ resumed'[w] \in Seq(Finished)
  BY <1>3
<1> QED
  BY <1>1, <1>2, <1>4 DEF IndInv, OneResumption, TypeOK, RowMoves, Pending, Finished

\* If every row moves, and what is new in the answers, calls and sweepers is
\* accurate, the invariant is kept.
LEMMA MovesPreserve ==
    ASSUME IndInv,
           \A w \in Waits : RowMoves(w),
           wait' = [w \in Waits |-> wait'[w]],
           resumed' = [w \in Waits |-> resumed'[w]],
           Unlock, UNCHANGED <<now, faults>>,
           UNCHANGED call \/ \E c \in Callers : call' = [call EXCEPT ![c] = NoCall],
           UNCHANGED sweeper \/ \E s \in Sweepers, w \in Waits : TakeFromBatch(s, w),
           accepted' \subseteq Waits \X Requests, UNCHANGED refused,
           AcceptInv', RefusalInv'
    PROVE  IndInv'
<1>1. wait' \in [Waits -> WaitRow] /\ resumed' \in [Waits -> Seq(Finished)]
  BY DEF RowMoves
<1>2. NoCall \in Call /\ call \in [Callers -> Call]
  BY TimeAssumption DEF NoCall, Call, NoWait, IndInv, OneResumption, TypeOK
<1>3. /\ call' \in [Callers -> Call]
      /\ \A c \in Callers : call'[c] # NoCall => call'[c] = call[c]
  BY <1>2
<1>4. sweeper \in [Sweepers -> Sweeper]
  BY DEF IndInv, OneResumption, TypeOK
<1>5. /\ sweeper' \in [Sweepers -> Sweeper]
      /\ \A s \in Sweepers : /\ sweeper'[s].batch \subseteq sweeper[s].batch
                             /\ sweeper'[s].scanned = sweeper[s].scanned
  <2>1. CASE UNCHANGED sweeper
    BY <2>1, <1>4
  <2>2. ASSUME NEW s \in Sweepers, NEW w \in Waits, TakeFromBatch(s, w)
        PROVE  <1>5!1 /\ <1>5!2
    <3> DEFINE t == [sweeper[s] EXCEPT !.batch = sweeper[s].batch \ {w}]
    <3>1. sweeper[s] \in Sweeper
      BY <1>4
    <3>2. /\ t \in Sweeper /\ t.batch \subseteq sweeper[s].batch
          /\ t.scanned = sweeper[s].scanned
      BY <3>1 DEF Sweeper
    <3>3. sweeper' = [sweeper EXCEPT ![s] = t]
      BY <2>2 DEF TakeFromBatch
    <3> HIDE DEF t
    <3> QED
      BY <1>4, <3>2, <3>3
  <2> QED
    BY <2>1, <2>2
<1>6. TypeOK' /\ freeSince' <= now'
  BY <1>1, <1>3, <1>5 DEF IndInv, OneResumption, TypeOK, RowMoves, Unlock
<1>7. OneResumption' /\ EndInv'
  BY <1>6 DEF OneResumption, EndInv, RowMoves
<1>8. CallInv'
  <2> SUFFICES ASSUME NEW c \in Callers, call'[c] # NoCall
               PROVE  /\ call'[c].wait \in Waits /\ call'[c].request \in Requests
                      /\ call'[c].begun <= now'
                      /\ wait'[call'[c].wait].status # "absent"
    BY DEF CallInv
  <2> QED
    BY <1>3 DEF IndInv, CallInv, RowMoves
<1>9. BatchInv'
  <2> SUFFICES ASSUME NEW s \in Sweepers
               PROVE  /\ sweeper'[s].scanned <= now'
                      /\ \A w \in sweeper'[s].batch :
                           wait'[w].status # "absent" /\ wait'[w].deadline <= sweeper'[s].scanned
    BY DEF BatchInv
  <2>1. sweeper[s].batch \subseteq Waits
    BY <1>4 DEF Sweeper
  <2> QED
    BY <1>5, <2>1 DEF IndInv, BatchInv, RowMoves
<1> QED
  BY <1>6, <1>7, <1>8, <1>9 DEF IndInv

-----------------------------------------------------------------------------
\* commit_handler_outcome_classified: waits are inserted, and pending ones end as
\* cancelled, or expired where the deadline has been reached.
LEMMA OutcomePreserves ==
    ASSUME IndInv, NEW new \in SUBSET Waits, NEW mode \in Modes,
           NEW deadline \in 0..Never, NEW cancel \in SUBSET Waits,
           HandlerOutcome(new, mode, deadline, cancel)
    PROVE  IndInv'
<1> DEFINE inserted == [w \in Waits |->
                          IF w \in new THEN [wait[w] EXCEPT !.status = "pending", !.mode = mode,
                                                            !.deadline = deadline]
                          ELSE wait[w]]
           ends == {w \in cancel : inserted[w].status = "pending"}
<1>1. PICK decided \in [ends -> freeSince..now], finished \in [ends -> freeSince..now] :
        /\ wait' = [w \in Waits |->
                      IF w \in ends THEN Cancelled(inserted[w], decided[w], finished[w])
                      ELSE inserted[w]]
        /\ \A w \in ends : decided[w] <= finished[w]
        /\ resumed' = [w \in Waits |->
                         IF w \in ends
                           THEN Append(resumed[w], FinishOfCancelled(inserted[w], decided[w]))
                         ELSE resumed[w]]
  BY DEF HandlerOutcome
<1>2. ASSUME NEW w \in Waits
      PROVE  /\ RowMoves(w)
             /\ wait'[w].status = "resolved" => wait'[w] = wait[w]
             /\ wait'[w].status = "pending" /\ wait[w].status # "absent" => wait'[w] = wait[w]
  <2>1. /\ wait[w] \in WaitRow /\ now \in 0..MaxTime /\ resumed[w] \in Seq(Finished)
        /\ freeSince \in 0..MaxTime
        /\ (wait[w].mode = "external") = (wait[w].deadline = Never)
        /\ (wait[w].status = "resolved") = (wait[w].resolution # NoRequest)
        /\ resumed[w] = IF wait[w].status \in Finished THEN <<wait[w].status>> ELSE <<>>
    BY DEF IndInv, OneResumption, TypeOK
  <2> DEFINE row == inserted[w]
  <2>2. /\ row \in WaitRow
        /\ (row.mode = "external") = (row.deadline = Never)
        /\ (row.status = "resolved") = (row.resolution # NoRequest)
        /\ row.finishedAt = wait[w].finishedAt
        /\ w \in new => row.status = "pending"
        /\ w \notin new => row = wait[w]
        /\ w \in new => wait[w].status = "absent"
    BY <2>1 DEF WaitRow, HandlerOutcome, SpecIsValid
  <2>3. /\ w \in ends => row.status = "pending"
        /\ w \notin ends => wait'[w] = row /\ resumed'[w] = resumed[w]
        /\ w \in ends => /\ wait'[w] = Cancelled(row, decided[w], finished[w])
                         /\ resumed'[w] = Append(resumed[w], FinishOfCancelled(row, decided[w]))
                         /\ decided[w] \in freeSince..now /\ finished[w] \in freeSince..now
                         /\ decided[w] <= finished[w]
    BY <1>1
  <2> HIDE DEF row, ends
  <2>4. CASE w \notin ends
    <3>1. wait'[w] = row /\ resumed'[w] = resumed[w]
      BY <2>3, <2>4
    <3>2. CASE w \in new
      BY <3>1, <3>2, <2>1, <2>2 DEF RowMoves, Finished
    <3>3. CASE w \notin new
      BY <3>1, <3>3, <2>2, SameRowMoves
    <3> QED
      BY <3>2, <3>3
  <2>5. CASE w \in ends
    <3> DEFINE s == FinishOfCancelled(row, decided[w])
               f == finished[w]
    <3>1. decided[w] \in 0..MaxTime /\ f \in 0..MaxTime /\ decided[w] <= f
      BY <2>1, <2>3, <2>5, TimeAssumption
    <3>2. /\ s \in {"expired", "cancelled"}
          /\ s = "expired" => f >= row.deadline
      BY <2>2, <3>1, TimeAssumption DEF FinishOfCancelled, WaitRow, Never
    <3>3. /\ wait'[w] = [row EXCEPT !.status = s, !.finishedAt = f]
          /\ resumed'[w] = Append(resumed[w], s)
          /\ row.status = "pending"
      BY <2>3, <2>5 DEF Cancelled
    <3> HIDE DEF s, f
    <3>4. /\ wait'[w] \in WaitRow
          /\ wait'[w].status = s /\ wait'[w].finishedAt = f
          /\ wait'[w].mode = row.mode /\ wait'[w].deadline = row.deadline
          /\ wait'[w].resolution = row.resolution
      BY <3>1, <3>2, <3>3, <2>2 DEF WaitRow, Finished
    <3>5. resumed[w] = <<>> /\ s \in Finished
      BY <2>1, <2>2, <3>2, <3>3 DEF Finished
    <3>6. resumed'[w] = <<s>> /\ resumed'[w] \in Seq(Finished)
      BY <3>3, <3>5
    <3>7. wait[w].status \in {"absent", "pending"}
      BY <2>2, <3>3
    <3> QED
      BY <3>2, <3>3, <3>4, <3>5, <3>6, <3>7, <2>1, <2>2 DEF RowMoves, Finished
  <2> QED
    BY <2>4, <2>5
<1> HIDE DEF inserted, ends
<1>3. AcceptInv' /\ RefusalInv'
  <2>1. accepted \subseteq Waits \X Requests /\ refused \subseteq Waits \X Requests
    BY DEF IndInv, OneResumption, TypeOK
  <2>2. \A a \in accepted \cup refused : a[1] \in Waits
    BY <2>1
  <2>3. UNCHANGED <<accepted, refused, now>> /\ Unlock
    BY DEF HandlerOutcome
  <2>4. \A w \in Waits : wait[w].status = "resolved" => wait'[w] = wait[w]
    BY <1>2 DEF RowMoves, Finished
  <2>5. AcceptInv'
    BY <2>2, <2>3, <2>4 DEF IndInv, AcceptInv
  <2>6. RefusalInv'
    <3> SUFFICES ASSUME NEW a \in refused
                 PROVE  /\ wait'[a[1]].status # "absent"
                        /\ wait'[a[1]].status = "resolved" => wait'[a[1]].resolution # a[2]
                        /\ wait'[a[1]].status = "pending" =>
                             \/ wait'[a[1]].mode = "expiration"
                             \/ wait'[a[1]].deadline <= freeSince'
      BY <2>3 DEF RefusalInv
    <3> QED
      BY <1>2, <2>2, <2>3, ReachedStays DEF IndInv, RefusalInv, RowMoves
  <2> QED
    BY <2>5, <2>6
<1> QED
  BY <1>1, <1>2, <1>3, MovesPreserve DEF HandlerOutcome, IndInv, OneResumption, TypeOK

\* resolve_wait, the reply wins: it is in time by the clock, so also by the moment
\* it began.
LEMMA ResolvePreserves ==
    ASSUME IndInv, NEW c \in Callers, ResolveWait(c)
    PROVE  IndInv'
<1> DEFINE w == call[c].wait
           r == call[c].request
<1>1. /\ w \in Waits /\ r \in Requests /\ r # NoRequest
      /\ call[c].begun \in 0..MaxTime /\ call[c].begun <= now
      /\ wait[w] \in WaitRow /\ now \in 0..MaxTime
  BY WaitsAssumption DEF ResolveWait, IndInv, CallInv, OneResumption, TypeOK, Call
<1>2. /\ Pending(w) /\ wait[w].mode \in {"external", "either"} /\ now < wait[w].deadline
      /\ wait' = [wait EXCEPT ![w] = [Ended(w, "resolved", call[c].begun) EXCEPT !.resolution = r]]
      /\ resumed' = [resumed EXCEPT ![w] = Append(resumed[w], "resolved")]
      /\ accepted' = accepted \cup {<<w, r>>} /\ refused' = refused
      /\ UNCHANGED <<sweeper, now, faults>> /\ Unlock
      /\ call' = [call EXCEPT ![c] = NoCall]
  BY <1>1, TimeAssumption
     DEF ResolveWait, Resolvable, DeadlineReached, Resume, Accept, Hangup, WaitRow, Never
<1> HIDE DEF w, r
<1>3. wait \in [Waits -> WaitRow] /\ resumed \in [Waits -> Seq(Finished)]
  BY DEF IndInv, OneResumption, TypeOK
<1>4. /\ wait'[w] = [wait[w] EXCEPT !.status = "resolved", !.finishedAt = call[c].begun,
                                    !.resolution = r]
      /\ resumed'[w] = Append(resumed[w], "resolved")
      /\ \A v \in Waits : v # w => wait'[v] = wait[v] /\ resumed'[v] = resumed[v]
  BY <1>1, <1>2, <1>3 DEF Ended
<1>5. RowMoves(w)
  <2>1. call[c].begun < wait[w].deadline
    BY <1>1, <1>2, TimeAssumption DEF WaitRow, Never
  <2> QED
    BY <1>1, <1>2, <1>4, <2>1, EndedRowMoves DEF Finished
<1>6. \A v \in Waits : RowMoves(v)
  BY <1>4, <1>5, SameRowMoves
<1>7. wait'[w].status = "resolved" /\ wait'[w].resolution = r
  BY <1>1, <1>4 DEF WaitRow
<1>8. accepted \subseteq Waits \X Requests /\ refused \subseteq Waits \X Requests
  BY DEF IndInv, OneResumption, TypeOK
<1>9. AcceptInv'
  <2> SUFFICES ASSUME NEW a \in accepted'
               PROVE  wait'[a[1]].status = "resolved" /\ wait'[a[1]].resolution = a[2]
    BY DEF AcceptInv
  <2>1. CASE a \in accepted
    BY <2>1, <1>2, <1>4, <1>8 DEF IndInv, AcceptInv, Pending
  <2>2. CASE a = <<w, r>>
    BY <2>2, <1>7
  <2> QED
    BY <2>1, <2>2, <1>2
<1>10. RefusalInv'
  <2> SUFFICES ASSUME NEW a \in refused
               PROVE  /\ wait'[a[1]].status # "absent"
                      /\ wait'[a[1]].status = "resolved" => wait'[a[1]].resolution # a[2]
                      /\ wait'[a[1]].status = "pending" =>
                           \/ wait'[a[1]].mode = "expiration"
                           \/ wait'[a[1]].deadline <= freeSince'
    BY <1>2 DEF RefusalInv
  <2>1. a[1] # w
    <3> SUFFICES ASSUME a[1] = w PROVE FALSE
      OBVIOUS
    <3>1. wait[w].deadline <= freeSince
      BY <1>2 DEF IndInv, RefusalInv, Pending
    <3>2. wait[w].deadline <= now
      BY <1>1, <1>2, <3>1, ReachedStays
    <3> QED
      BY <1>1, <1>2, <3>2, TimeAssumption DEF WaitRow, Never
  <2> QED
    BY <2>1, <1>2, <1>4, <1>8, ReachedStays DEF IndInv, RefusalInv
<1>11. /\ wait' = [v \in Waits |-> wait'[v]] /\ resumed' = [v \in Waits |-> resumed'[v]]
       /\ accepted' \subseteq Waits \X Requests
  <2>1. wait' = [v \in Waits |-> wait'[v]]
    BY <1>2, <1>3
  <2>2. resumed' = [v \in Waits |-> resumed'[v]]
    BY <1>2, <1>3
  <2>3. <<w, r>> \in Waits \X Requests
    BY <1>1
  <2> QED
    BY <1>2, <1>8, <2>1, <2>2, <2>3
<1> QED
  BY <1>2, <1>6, <1>9, <1>10, <1>11, MovesPreserve

\* expire_wait: the deadline had been reached at the scan, so also when its
\* transaction began.
LEMMA ExpirePreserves ==
    ASSUME IndInv, NEW s \in Sweepers, NEW w \in Waits, ExpireWait(s, w)
    PROVE  IndInv'
<1>1. /\ w \in sweeper[s].batch
      /\ sweeper[s] \in Sweeper /\ wait[w] \in WaitRow /\ now \in 0..MaxTime
      /\ wait \in [Waits -> WaitRow] /\ resumed \in [Waits -> Seq(Finished)]
      /\ sweeper[s].scanned <= now /\ wait[w].deadline <= sweeper[s].scanned
      /\ accepted \subseteq Waits \X Requests /\ refused \subseteq Waits \X Requests
  BY DEF ExpireWait, NextInBatch, IndInv, OneResumption, TypeOK, BatchInv
<1>2. UNCHANGED <<call, accepted, refused, now, faults>> /\ Unlock /\ TakeFromBatch(s, w)
  BY DEF ExpireWait
<1>3. CASE UNCHANGED <<wait, resumed>>
  <2>1. \A v \in Waits : RowMoves(v)
    BY <1>3, SameRowMoves
  <2>2. /\ wait' = [v \in Waits |-> wait'[v]] /\ resumed' = [v \in Waits |-> resumed'[v]]
        /\ AcceptInv' /\ RefusalInv'
    BY <1>1, <1>2, <1>3, ReachedStays DEF IndInv, AcceptInv, RefusalInv
  <2> QED
    BY <1>1, <1>2, <2>1, <2>2, MovesPreserve
<1>4. ASSUME NEW begun \in sweeper[s].scanned..now, MayExpire(w), Resume(w, "expired"),
             wait' = [wait EXCEPT ![w] = Ended(w, "expired", begun)]
      PROVE  IndInv'
  <2>1. begun \in 0..MaxTime /\ begun >= wait[w].deadline
    BY <1>1, TimeAssumption DEF Sweeper, WaitRow, Never
  <2>2. Pending(w) /\ wait[w].resolution = NoRequest
    BY <1>4 DEF MayExpire, IndInv, OneResumption, TypeOK, Pending
  <2>3. /\ wait'[w] = [wait[w] EXCEPT !.status = "expired", !.finishedAt = begun]
        /\ resumed'[w] = Append(resumed[w], "expired")
        /\ \A v \in Waits : v # w => wait'[v] = wait[v] /\ resumed'[v] = resumed[v]
    BY <1>1, <1>4 DEF Ended, Resume
  <2>4. wait'[w] = [wait[w] EXCEPT !.status = "expired", !.finishedAt = begun,
                                   !.resolution = NoRequest]
    BY <1>1, <2>2, <2>3 DEF WaitRow
  <2>5. RowMoves(w)
    BY <2>1, <2>2, <2>3, <2>4, EndedRowMoves DEF Finished
  <2>6. \A v \in Waits : RowMoves(v)
    BY <2>3, <2>5, SameRowMoves
  <2>7. wait'[w].status = "expired"
    BY <1>1, <2>3 DEF WaitRow
  <2>8. AcceptInv' /\ RefusalInv'
    BY <1>1, <1>2, <2>2, <2>3, <2>7, ReachedStays DEF IndInv, AcceptInv, RefusalInv, Pending
  <2>9. /\ wait' = [v \in Waits |-> wait'[v]] /\ resumed' = [v \in Waits |-> resumed'[v]]
    BY <1>1, <1>4 DEF Resume
  <2> QED
    BY <1>1, <1>2, <2>6, <2>8, <2>9, MovesPreserve
<1> QED
  BY <1>3, <1>4 DEF ExpireWait

-----------------------------------------------------------------------------
\* Steps that leave the rows, their events and the clock alone keep the invariant
\* if calls, sweepers and refusals stay accurate.
LEMMA QuietPreserves ==
    ASSUME IndInv, UNCHANGED <<wait, resumed, now>>, Unlock \/ UNCHANGED freeSince,
           call' \in [Callers -> Call], sweeper' \in [Sweepers -> Sweeper],
           accepted' \subseteq Waits \X Requests, refused' \subseteq Waits \X Requests,
           faults' \in 0..MaxFaults,
           CallInv', BatchInv', AcceptInv', RefusalInv'
    PROVE  IndInv'
<1>1. TypeOK' /\ freeSince' <= now'
  BY DEF IndInv, OneResumption, TypeOK, Unlock
<1> QED
  BY <1>1 DEF IndInv, OneResumption, EndInv

\* A reply begins, is answered, or is lost.
LEMMA CallPreserves ==
    ASSUME IndInv, NEW c \in Callers,
           \/ \E w \in Waits, r \in Requests : BeginResolve(c, w, r)
           \/ ReplayResolution(c) \/ RefuseReply(c) \/ LoseCall(c)
    PROVE  IndInv'
<1>1. /\ UNCHANGED <<wait, resumed, now, sweeper, faults>> /\ (Unlock \/ UNCHANGED freeSince)
      /\ call \in [Callers -> Call] /\ wait \in [Waits -> WaitRow]
      /\ accepted \subseteq Waits \X Requests /\ refused \subseteq Waits \X Requests
      /\ sweeper \in [Sweepers -> Sweeper] /\ faults \in 0..MaxFaults /\ now \in 0..MaxTime
  BY DEF IndInv, OneResumption, TypeOK, BeginResolve, ReplayResolution, RefuseReply, LoseCall
<1>2. BatchInv'
  BY <1>1 DEF IndInv, BatchInv
<1>3. ASSUME NEW w \in Waits, NEW r \in Requests, BeginResolve(c, w, r)
      PROVE  IndInv'
  <2> DEFINE n == [wait |-> w, request |-> r, begun |-> now]
  <2>1. n \in Call /\ n.wait = w /\ n.request = r /\ n.begun = now
    BY <1>1 DEF Call
  <2>2. /\ call' = [call EXCEPT ![c] = n] /\ wait[w].status # "absent"
        /\ UNCHANGED <<accepted, refused>>
    BY <1>3 DEF BeginResolve
  <2> HIDE DEF n
  <2>3. call' \in [Callers -> Call]
    BY <1>1, <2>1, <2>2
  <2>4. CallInv'
    BY <1>1, <2>1, <2>2 DEF IndInv, CallInv
  <2>5. AcceptInv' /\ RefusalInv'
    BY <1>1, <2>2, ReachedStays DEF IndInv, AcceptInv, RefusalInv
  <2> QED
    BY <1>1, <1>2, <2>2, <2>3, <2>4, <2>5, QuietPreserves
<1>4. CASE ReplayResolution(c) \/ RefuseReply(c) \/ LoseCall(c)
  <2>1. call' = [call EXCEPT ![c] = NoCall] /\ call[c] # NoCall
    BY <1>4 DEF ReplayResolution, RefuseReply, LoseCall, Hangup
  <2>2. NoCall \in Call
    BY TimeAssumption DEF NoCall, Call, NoWait
  <2>3. call' \in [Callers -> Call]
    BY <1>1, <2>1, <2>2
  <2>4. CallInv'
    BY <1>1, <2>1 DEF IndInv, CallInv
  <2>5. /\ call[c].wait \in Waits /\ call[c].request \in Requests
        /\ wait[call[c].wait].status # "absent"
        /\ <<call[c].wait, call[c].request>> \in Waits \X Requests
    BY <2>1 DEF IndInv, CallInv
  <2>6. CASE ReplayResolution(c)
    <3>1. /\ accepted' = accepted \cup {<<call[c].wait, call[c].request>>} /\ refused' = refused
          /\ wait[call[c].wait].status = "resolved"
          /\ wait[call[c].wait].resolution = call[c].request
      BY <2>6 DEF ReplayResolution, Accept, Replays
    <3>2. AcceptInv' /\ RefusalInv'
      BY <1>1, <3>1, ReachedStays DEF IndInv, AcceptInv, RefusalInv
    <3> QED
      BY <1>1, <1>2, <2>3, <2>4, <2>5, <3>1, <3>2, QuietPreserves
  <2>7. CASE RefuseReply(c)
    <3>1. /\ refused' = refused \cup {<<call[c].wait, call[c].request>>} /\ accepted' = accepted
          /\ ~Resolvable(c) /\ ~Replays(c) /\ freeSince' = now
      BY <2>7 DEF RefuseReply, Refuse, Unlock
    <3>2. wait[call[c].wait] \in WaitRow
      BY <1>1, <2>5
    <3>3. /\ wait[call[c].wait].status = "resolved" =>
               wait[call[c].wait].resolution # call[c].request
          /\ wait[call[c].wait].status = "pending" =>
               \/ wait[call[c].wait].mode = "expiration"
               \/ wait[call[c].wait].deadline <= freeSince'
      BY <3>1, <3>2 DEF Resolvable, Replays, Pending, DeadlineReached, WaitRow, Modes
    <3>4. AcceptInv' /\ RefusalInv'
      BY <1>1, <2>5, <3>1, <3>3, ReachedStays DEF IndInv, AcceptInv, RefusalInv
    <3> QED
      BY <1>1, <1>2, <2>3, <2>4, <2>5, <3>1, <3>4, QuietPreserves
  <2>8. CASE LoseCall(c)
    <3>1. UNCHANGED <<accepted, refused>>
      BY <2>8 DEF LoseCall
    <3>2. AcceptInv' /\ RefusalInv'
      BY <1>1, <3>1, ReachedStays DEF IndInv, AcceptInv, RefusalInv
    <3> QED
      BY <1>1, <1>2, <2>3, <2>4, <3>1, <3>2, QuietPreserves
  <2> QED
    BY <1>4, <2>6, <2>7, <2>8
<1> QED
  BY <1>3, <1>4

\* ORDER BY expires_at, id is a total order, so a scanned batch has a last wait:
\* the one with the fewest waits behind it.
LEMMA BatchHasLast ==
    ASSUME TypeOK, NEW batch \in SUBSET Waits, batch # {}
    PROVE  \E w \in batch : \A v \in batch : v = w \/ Before(v, w)
<1> DEFINE After(w) == {v \in batch : Before(w, v)}
           Tails == {After(w) : w \in batch}
<1>1. \A w \in batch : w \in Nat /\ wait[w].deadline \in Nat
  <2>1. wait \in [Waits -> WaitRow] /\ Never \in Nat
    BY TimeAssumption DEF TypeOK, Never
  <2>2. \A w \in batch : wait[w] \in WaitRow
    BY <2>1
  <2> QED
    BY <2>1, <2>2, WaitsAssumption DEF WaitRow
<1>2. /\ \A u, v, w \in batch : Before(u, v) /\ Before(v, w) => Before(u, w)
      /\ \A v \in batch : ~Before(v, v)
      /\ \A v, w \in batch : v = w \/ Before(v, w) \/ Before(w, v)
  BY <1>1 DEF Before
<1>3. \A w \in batch : After(w) \in FiniteSubsetsOf(batch)
  <2>1. IsFiniteSet(batch)
    BY WaitsAssumption, FS_Subset
  <2> QED
    BY <2>1, FS_FiniteSubsetsOfFinite
<1>4. PICK tail \in Tails : \A t \in Tails : ~(<<t, tail>> \in StrictSubsetOrdering(batch))
  <2>1. Tails \subseteq FiniteSubsetsOf(batch) /\ Tails # {}
    BY <1>3
  <2>2. IsWellFoundedOn(StrictSubsetOrdering(batch), FiniteSubsetsOf(batch))
    BY FS_StrictSubsetOrderingWellFounded
  <2> HIDE DEF Tails
  <2> QED
    BY <2>1, <2>2, WFMin
<1>5. PICK w \in batch : tail = After(w)
  OBVIOUS
<1>6. ASSUME NEW v \in batch, Before(w, v)
      PROVE  FALSE
  <2>1. After(v) \subseteq After(w) /\ v \in After(w) /\ v \notin After(v)
    BY <1>2, <1>6
  <2>2. <<After(v), After(w)>> \in StrictSubsetOrdering(batch)
    <3>1. After(v) \in SUBSET batch /\ After(w) \in SUBSET batch
      OBVIOUS
    <3>2. After(v) # After(w)
      BY <2>1
    <3> HIDE DEF After
    <3> QED
      BY <2>1, <3>1, <3>2 DEF StrictSubsetOrdering
  <2>3. After(v) \in Tails
    OBVIOUS
  <2> QED
    BY <1>4, <1>5, <2>2, <2>3
<1> QED
  BY <1>2, <1>6

\* process_batch_inner and restarts: a scan takes only waits whose deadline has been
\* reached; a failed expiration and a restart only forget.
LEMMA SweepPreserves ==
    ASSUME IndInv, NEW s \in Sweepers,
           \/ ScanDueWaits(s) \/ RestartSweeper(s)
           \/ \E w \in Waits : ExpireFails(s, w)
    PROVE  IndInv'
<1>1. /\ UNCHANGED <<wait, resumed, now, freeSince, call, accepted, refused>>
      /\ call \in [Callers -> Call] /\ wait \in [Waits -> WaitRow]
      /\ accepted \subseteq Waits \X Requests /\ refused \subseteq Waits \X Requests
      /\ sweeper \in [Sweepers -> Sweeper] /\ sweeper[s] \in Sweeper
      /\ faults \in 0..MaxFaults /\ now \in 0..MaxTime
  BY DEF IndInv, OneResumption, TypeOK, ScanDueWaits, RestartSweeper, ExpireFails
<1>2. faults' \in 0..MaxFaults
  BY <1>1, TimeAssumption DEF ScanDueWaits, RestartSweeper, ExpireFails
<1>3. CallInv' /\ AcceptInv' /\ RefusalInv'
  BY <1>1 DEF IndInv, CallInv, AcceptInv, RefusalInv
<1>4. ASSUME NEW t \in Sweeper, sweeper' = [sweeper EXCEPT ![s] = t],
             t.scanned <= now,
             \A w \in t.batch : wait[w].status # "absent" /\ wait[w].deadline <= t.scanned
      PROVE  IndInv'
  <2>1. sweeper' \in [Sweepers -> Sweeper]
    BY <1>1, <1>4
  <2>2. BatchInv'
    BY <1>1, <1>4 DEF IndInv, BatchInv
  <2> QED
    BY <1>1, <1>2, <1>3, <2>1, <2>2, QuietPreserves
<1>5. CASE ScanDueWaits(s)
  <2> DEFINE batch == DueAfter(sweeper[s].cursor)
             next == CursorAfter(sweeper[s].cursor, batch)
             t == [cursor |-> next, batch |-> batch, scanned |-> now]
  <2>1. batch \in SUBSET Waits /\ \A w \in batch : MayExpire(w)
    BY DEF DueAfter
  <2>2. next \in Waits \cup {NoWait}
    <3> HIDE DEF batch
    <3>1. batch # {} => \E w \in batch : \A v \in batch : v = w \/ Before(v, w)
      BY <2>1, BatchHasLast DEF IndInv, OneResumption
    <3> QED
      BY <2>1, <3>1 DEF CursorAfter
  <2>3. sweeper' = [sweeper EXCEPT ![s] = t]
    BY <1>5 DEF ScanDueWaits
  <2> HIDE DEF batch, next
  <2>4. t \in Sweeper /\ t.batch = batch /\ t.scanned = now
    BY <1>1, <2>1, <2>2 DEF Sweeper
  <2>5. \A w \in batch : wait[w].status # "absent" /\ wait[w].deadline <= now
    BY <2>1 DEF MayExpire, Pending, DeadlineReached
  <2> HIDE DEF t
  <2>6. t.scanned <= now
    BY <1>1, <2>4
  <2>7. \A w \in t.batch : wait[w].status # "absent" /\ wait[w].deadline <= t.scanned
    BY <2>4, <2>5
  <2> QED
    BY <1>4, <2>3, <2>4, <2>6, <2>7
<1>6. CASE RestartSweeper(s)
  <2>1. Started \in Sweeper /\ Started.scanned = 0 /\ Started.batch = {}
    BY TimeAssumption DEF Started, Sweeper, NoWait
  <2>2. sweeper' = [sweeper EXCEPT ![s] = Started] /\ Started.scanned <= now
    BY <1>1, <1>6, <2>1 DEF RestartSweeper
  <2> QED
    BY <1>4, <2>1, <2>2
<1>7. ASSUME NEW w \in Waits, ExpireFails(s, w)
      PROVE  IndInv'
  <2> DEFINE t == [sweeper[s] EXCEPT !.batch = sweeper[s].batch \ {w}]
  <2>1. /\ t \in Sweeper /\ t.batch \subseteq sweeper[s].batch
        /\ t.scanned = sweeper[s].scanned
    BY <1>1 DEF Sweeper
  <2>2. sweeper' = [sweeper EXCEPT ![s] = t]
    BY <1>7 DEF ExpireFails, TakeFromBatch
  <2> HIDE DEF t
  <2> QED
    BY <1>4, <2>1, <2>2 DEF IndInv, BatchInv
<1> QED
  BY <1>5, <1>6, <1>7

\* Time passes: deadlines that have been reached stay reached.
LEMMA TickPreserves == ASSUME IndInv, Tick PROVE IndInv'
<1>1. /\ now \in 0..MaxTime /\ now' = now + 1 /\ now' \in 0..MaxTime
      /\ UNCHANGED <<wait, resumed, call, sweeper, accepted, refused, freeSince, faults>>
      /\ wait \in [Waits -> WaitRow] /\ call \in [Callers -> Call]
      /\ sweeper \in [Sweepers -> Sweeper] /\ refused \subseteq Waits \X Requests
  BY TimeAssumption DEF Tick, IndInv, OneResumption, TypeOK
<1>2. OneResumption' /\ EndInv' /\ AcceptInv'
  BY <1>1 DEF IndInv, OneResumption, TypeOK, EndInv, AcceptInv
<1>3. CallInv'
  <2>1. \A c \in Callers : call[c].begun \in 0..MaxTime
    BY <1>1 DEF Call
  <2> QED
    BY <1>1, <2>1 DEF IndInv, CallInv
<1>4. BatchInv'
  <2>1. \A s \in Sweepers : sweeper[s].scanned \in 0..MaxTime
    BY <1>1 DEF Sweeper
  <2> QED
    BY <1>1, <2>1 DEF IndInv, BatchInv
<1>5. RefusalInv' /\ freeSince' <= now'
  BY <1>1 DEF IndInv, OneResumption, TypeOK, RefusalInv
<1> QED
  BY <1>2, <1>3, <1>4, <1>5 DEF IndInv

-----------------------------------------------------------------------------
\* Every step keeps the invariant.
LEMMA NextPreserves == IndInv /\ [Next]_vars => IndInv'
<1> SUFFICES ASSUME IndInv, [Next]_vars PROVE IndInv'
  OBVIOUS
<1>1. CASE SomeOutcome
  <2>1. PICK new \in {{}} \cup {{w} : w \in Waits}, mode \in Modes, deadline \in 0..Never,
             cancel \in SUBSET Waits : HandlerOutcome(new, mode, deadline, cancel)
    BY <1>1 DEF SomeOutcome
  <2>2. new \in SUBSET Waits
    OBVIOUS
  <2> QED
    BY <2>1, <2>2, OutcomePreserves
<1>2. CASE \E c \in Callers, w \in Waits, r \in Requests : BeginResolve(c, w, r)
  BY <1>2, CallPreserves
<1>3. CASE \E c \in Callers : ResolveWait(c)
  BY <1>3, ResolvePreserves
<1>4. CASE \E c \in Callers : ReplayResolution(c) \/ RefuseReply(c) \/ LoseCall(c)
  BY <1>4, CallPreserves
<1>5. CASE \E s \in Sweepers : SweepStep(s)
  BY <1>5, SweepPreserves, ExpirePreserves DEF SweepStep
<1>6. CASE \E s \in Sweepers : RestartSweeper(s) \/ \E w \in Waits : ExpireFails(s, w)
  BY <1>6, SweepPreserves
<1>7. CASE Tick
  BY <1>7, TickPreserves
<1>8. CASE UNCHANGED vars
  <2>1. UNCHANGED <<wait, resumed, call, sweeper, accepted, refused, now, freeSince, faults>>
    BY <1>8 DEF vars
  <2> QED
    BY <2>1 DEF IndInv, OneResumption, TypeOK, EndInv, CallInv, BatchInv, RefusalInv,
                AcceptInv
<1> QED
  BY <1>1, <1>2, <1>3, <1>4, <1>5, <1>6, <1>7, <1>8 DEF Next

\* The invariant holds in every reachable state.
THEOREM Inductive == Spec => []IndInv
BY InitEstablishes, NextPreserves, PTL DEF Spec

\* However replies, expirations and cancellations race, a wait that ended has resumed
\* its session exactly once, for the reason it ended (resolve_wait, expire_wait,
\* commit_handler_outcome_classified).
THEOREM ResumesOnce == Spec => []OneResumption
<1>1. IndInv => OneResumption
  BY DEF IndInv
<1> QED
  BY <1>1, Inductive, PTL

\* commit_handler_outcome_classified: the deadline of a wait whose reply was refused
\* as too late was reached before any later transaction locks the session, so before
\* it reads the clock to decide: the wait cannot be cancelled.
LEMMA OutcomeExpiresLate ==
    ASSUME IndInv, NEW new \in SUBSET Waits, NEW mode \in Modes,
           NEW deadline \in 0..Never, NEW cancel \in SUBSET Waits,
           HandlerOutcome(new, mode, deadline, cancel),
           NEW w \in Waits, ToldTooLate(w)
    PROVE  wait'[w].status \in {"pending", "expired"}
<1> DEFINE inserted == [v \in Waits |->
                          IF v \in new THEN [wait[v] EXCEPT !.status = "pending", !.mode = mode,
                                                            !.deadline = deadline]
                          ELSE wait[v]]
           ends == {v \in cancel : inserted[v].status = "pending"}
<1>1. PICK decided \in [ends -> freeSince..now], finished \in [ends -> freeSince..now] :
        wait' = [v \in Waits |-> IF v \in ends THEN Cancelled(inserted[v], decided[v], finished[v])
                                 ELSE inserted[v]]
  BY DEF HandlerOutcome
<1>2. /\ wait[w] \in WaitRow /\ freeSince \in 0..MaxTime /\ now \in 0..MaxTime
      /\ wait[w].status = "pending" /\ wait[w].mode = "either"
  BY DEF IndInv, OneResumption, TypeOK, ToldTooLate, Pending
<1>3. wait[w].deadline <= freeSince
  BY <1>2 DEF IndInv, RefusalInv, ToldTooLate
<1>4. inserted[w] = wait[w]
  BY <1>2 DEF HandlerOutcome
<1>5. w \in ends => decided[w] \in freeSince..now
  OBVIOUS
<1>6. w \in ends => FinishOfCancelled(wait[w], decided[w]) = "expired"
  <2> SUFFICES ASSUME w \in ends PROVE FinishOfCancelled(wait[w], decided[w]) = "expired"
    OBVIOUS
  <2> HIDE DEF ends
  <2>1. PICK d \in freeSince..now : d = decided[w]
    BY <1>5
  <2>2. wait[w].deadline \in 0..Never
    BY <1>2 DEF WaitRow
  <2>3. wait[w].deadline <= d
    BY <1>2, <1>3, <2>2, TimeAssumption DEF Never
  <2> QED
    BY <1>2, <2>1, <2>3, Zenon DEF FinishOfCancelled
<1>7. wait'[w] = IF w \in ends THEN Cancelled(wait[w], decided[w], finished[w]) ELSE wait[w]
  BY <1>1, <1>4
<1> HIDE DEF ends
<1> QED
  BY <1>2, <1>6, <1>7 DEF Cancelled, WaitRow

\* resolve_wait, expire_wait: nor can it be answered any more, and the rows of other
\* waits are not touched.
LEMMA TooLateStays ==
    ASSUME IndInv, Next, NEW w \in Waits, ToldTooLate(w)
    PROVE  wait'[w].status \in {"pending", "expired"}
<1>1. /\ wait \in [Waits -> WaitRow] /\ now \in 0..MaxTime
      /\ wait[w].status = "pending" /\ wait[w].deadline <= now
  <2>1. wait[w].deadline <= freeSince
    BY DEF IndInv, RefusalInv, ToldTooLate, Pending
  <2>2. wait[w] \in WaitRow /\ freeSince \in 0..MaxTime
    BY DEF IndInv, OneResumption, TypeOK
  <2> QED
    BY <2>1, <2>2, TimeAssumption
       DEF IndInv, OneResumption, TypeOK, ToldTooLate, Pending, WaitRow, Never
<1>2. CASE SomeOutcome
  <2>1. PICK new \in {{}} \cup {{v} : v \in Waits}, mode \in Modes, deadline \in 0..Never,
             cancel \in SUBSET Waits : HandlerOutcome(new, mode, deadline, cancel)
    BY <1>2 DEF SomeOutcome
  <2>2. new \in SUBSET Waits
    OBVIOUS
  <2> QED
    BY <2>1, <2>2, OutcomeExpiresLate
<1>3. ASSUME NEW c \in Callers, ResolveWait(c)
      PROVE  wait'[w].status \in {"pending", "expired"}
  <2>1. call[c].wait # w
    BY <1>3, <1>1 DEF ResolveWait, Resolvable, DeadlineReached
  <2> QED
    BY <1>1, <1>3, <2>1 DEF ResolveWait
<1>4. ASSUME NEW s \in Sweepers, NEW v \in Waits, ExpireWait(s, v)
      PROVE  wait'[w].status \in {"pending", "expired"}
  <2>1. CASE UNCHANGED wait
    BY <1>1, <2>1
  <2>2. ASSUME NEW begun, wait' = [wait EXCEPT ![v] = Ended(v, "expired", begun)]
        PROVE  wait'[w].status \in {"pending", "expired"}
    BY <1>1, <2>2 DEF Ended, WaitRow
  <2> QED
    BY <1>4, <2>1, <2>2 DEF ExpireWait
<1>5. UNCHANGED wait => wait'[w].status \in {"pending", "expired"}
  BY <1>1
<1> QED
  BY <1>2, <1>3, <1>4, <1>5
     DEF Next, SweepStep, BeginResolve, ReplayResolution, RefuseReply, LoseCall, ScanDueWaits,
         ExpireFails, RestartSweeper, Tick

\* The deadline decides between reply, cancellation and expiration, although replies
\* and expirations carry the time their transaction began and a cancellation reads
\* the clock once to decide and once more for the row (resolve_wait, expire_wait,
\* commit_handler_outcome_classified).
THEOREM DeadlineIsDecisive == Spec => DeadlineDecides
<1> DEFINE Ends == \A w \in Waits :
                     /\ wait[w].status = "resolved" => wait[w].finishedAt < wait[w].deadline
                     /\ wait[w].status = "expired" => wait[w].finishedAt >= wait[w].deadline
           Step == \A w \in Waits : ToldTooLate(w) => wait'[w].status \in {"pending", "expired"}
<1>1. IndInv => Ends
  BY DEF IndInv, EndInv
<1>2. IndInv /\ [Next]_vars => [Step]_vars
  BY TooLateStays
<1>3. Spec => []Ends
  BY <1>1, Inductive, PTL
<1>4. Spec => [][Step]_vars
  BY <1>2, Inductive, PTL DEF Spec
<1> QED
  BY <1>3, <1>4 DEF DeadlineDecides

\* What a client was told about its reply stays true (resolve_wait).
THEOREM AnswersAreFinal == Spec => []AnswersStand
<1>1. IndInv => AnswersStand
  <2> SUFFICES ASSUME IndInv PROVE AnswersStand
    OBVIOUS
  <2>1. \A a \in accepted : wait[a[1]].status = "resolved" /\ wait[a[1]].resolution = a[2]
    BY DEF IndInv, AcceptInv
  <2>2. \A a \in refused : wait[a[1]].status = "resolved" => wait[a[1]].resolution # a[2]
    BY DEF IndInv, RefusalInv
  <2> QED
    BY <2>1, <2>2 DEF AnswersStand
<1> QED
  BY <1>1, Inductive, PTL

=============================================================================
