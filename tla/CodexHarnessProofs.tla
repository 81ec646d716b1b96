------------------------- MODULE CodexHarnessProofs -------------------------
(***************************************************************************)
(* Proofs about CodexHarness and the ToolPlan it runs, for every set of    *)
(* plans a model may ask for and every bound.  What is in flight is what   *)
(* the state awaits because calls, targets and processes name their        *)
(* operations apart (PlanInv, TargetInv, ProcessInv); a plan goes on       *)
(* because a call waits only for a session that an earlier call holds; and *)
(* a cancellation loses no process because each one an outcome reported    *)
(* active is tracked or being stopped (ToldInv).                           *)
(***************************************************************************)
EXTENDS CodexHarness, FiniteSetTheorems, SequenceTheorems, TLAPS

\* The shapes of the records.
IsTurn(t) ==
    DOMAIN t = {"phase", "id", "op", "attempt", "input", "source", "retries", "steering"}

IsCancel(c) ==
    DOMAIN c = {"requested", "turn", "targets", "processes", "discovery", "attempt", "listings",
                "failures"}

IsTarget(r) == DOMAIN r = {"completed", "control", "attempt"}

IsProcess(r) == DOMAIN r = {"sess", "control", "attempt"}

IsPlan(p) ==
    p = [assistant |-> p.assistant, calls |-> p.calls, segments |-> p.segments, active |-> p.active]

IsCall(c) ==
    c = [tool |-> c.tool, sess |-> c.sess, args |-> c.args, step |-> c.step, pages |-> c.pages,
         op |-> c.op, proc |-> c.proc, status |-> c.status]

IsFunction(f) == f = [x \in DOMAIN f |-> f[x]]

-----------------------------------------------------------------------------
(* The plan.                                                               *)

InUse(c) == c.status \in {"submitted", "ready"}

CallShape(c) ==
    /\ IsCall(c)
    /\ c.tool \in Tools /\ c.sess \in Nat /\ c.args \in {"ok", "schema", "prepare"}
    /\ c.step \in ExecutionKinds /\ c.pages \in Nat
    /\ c.status \in {"pending", "ready", "submitted", "completed"}
    /\ IsShell(c.tool) <=> c.step \in ProcessKinds
    /\ ~IsShell(c.tool) => c.sess = NoSess
    /\ c.status = "pending" =>
         c.step = FirstStep(c.tool) /\ (c.tool # "write_stdin" => c.sess = NoSess)
    /\ c.status = "ready" /\ IsShell(c.tool) => c.step = "observe"

PlanShape(p) ==
    /\ IsPlan(p)
    /\ p.assistant \in Nat
    /\ IsFunction(p.calls) /\ DOMAIN p.calls \subseteq Nat /\ IsFiniteSet(DOMAIN p.calls)
    /\ \A i \in DOMAIN p.calls : CallShape(p.calls[i])
    /\ p.segments \in Seq(SUBSET DOMAIN p.calls)
    /\ p.active \in 1 .. Len(p.segments) + 1

\* What is not complete is in a segment from the active one on; only calls of the
\* active segment are in use, and of one session only the first that is left.
PlanOrder(p) ==
    /\ \A i \in DOMAIN p.calls : p.calls[i].status # "completed" =>
         \E k \in p.active .. Len(p.segments) : i \in p.segments[k]
    /\ \A k \in 1 .. p.active - 1 : SegmentComplete(p, k)
    /\ \A i \in DOMAIN p.calls : InUse(p.calls[i]) =>
         /\ p.active \in DOMAIN p.segments /\ i \in p.segments[p.active]
         /\ \A j \in p.segments[p.active] :
              j < i /\ p.calls[j].sess = p.calls[i].sess /\ p.calls[i].sess # NoSess =>
                  p.calls[j].status = "completed"

\* Sessions in use are known, and a call that waits in the active segment names one.
\* A call talks to the process its session is tracked for.
PlanSessions(p, tracked, known) ==
    \A i \in DOMAIN p.calls : InUse(p.calls[i]) =>
        /\ p.calls[i].sess < known
        /\ \A x \in tracked : x.sess = p.calls[i].sess => x.proc = p.calls[i].proc

PlanWaits(p, known) ==
    \A i \in DOMAIN p.calls :
        p.active \in DOMAIN p.segments /\ i \in p.segments[p.active] /\ p.calls[i].status = "pending" =>
            p.calls[i].sess # NoSess /\ p.calls[i].sess < known

\* The name of a submitted call's operation, and the process it is about.
PlanNames(p) ==
    \A i \in DOMAIN p.calls : p.calls[i].status = "submitted" =>
        LET c == p.calls[i] IN
        /\ c.op = <<c.step, <<p.assistant, i>>, c.pages, c.op[4]>>
        /\ c.proc = IF c.step = "start" THEN c.op ELSE c.op[4]

\* A call that has done its work is past the step that did it.
PlanWork(p, done) ==
    \A x \in done, i \in DOMAIN p.calls : x[2] = <<p.assistant, i>> =>
        \/ p.calls[i].status = "completed"
        \/ x[1] \in {"start", "interact"} /\ p.calls[i].step = "observe"
        \/ x[1] = "mutate" /\ p.calls[i].step = "reconcile"

\* A plan that schedule_ready may be called with.
PlanReady(p, tracked, known, done) ==
    PlanShape(p) /\ PlanOrder(p) /\ PlanSessions(p, tracked, known) /\ PlanNames(p) /\ PlanWork(p, done)

PlanInv ==
    turn.phase = "executing_tools" =>
        /\ PlanReady(plan, executions, nextSess, performed)
        /\ PlanWaits(plan, nextSess)
        /\ plan.assistant = requests
        /\ \E i \in DOMAIN plan.calls : plan.calls[i].status = "submitted"

-----------------------------------------------------------------------------
(* The turn, the tracked sessions and the work done.                       *)

TurnInv ==
    /\ IsTurn(turn) /\ requests \in Nat
    /\ turn.phase \in {"awaiting_llm", "compacting"} => turn.op = Llm(requests) /\ requests > 0
    /\ turn.phase = "executing_tools" => requests > 0
    /\ turn.phase = "compacting" => history = turn.source
    /\ IF cancel.requested THEN turn.phase \in {"none", "cancelling"} ELSE turn.phase # "cancelling"
    /\ failed => turn.phase = "none" /\ ~cancel.requested

SessionInv ==
    /\ nextSess \in Nat \ {0}
    /\ \A x, y \in executions : x.sess = y.sess => x = y

WorkInv ==
    /\ WorkIsNotRepeated
    /\ \A x \in performed : x[1] \in WorkKinds
    /\ \A x \in launched : x[1] = "start"
    /\ ~cancel.requested => \A x \in performed :
         /\ x[2][1] \in Nat /\ x[2][1] <= requests
         /\ turn.phase \in {"awaiting_llm", "compacting"} => x[2][1] < requests

\* No process that is known to be active is forgotten.
ToldInv ==
    /\ told \subseteq launched
    /\ \A p \in told \cap running :
         IF cancel.requested THEN p \in DOMAIN cancel.processes ELSE \E x \in executions : x.proc = p

-----------------------------------------------------------------------------
(* The cancellation.                                                       *)

TargetInv(t, r) ==
    /\ IsTarget(r)
    /\ r.control \in {"withdraw", "llm_cancel", "completion", "discovery", "settled"}
    /\ r.completed \in BOOLEAN /\ r.attempt \in Nat
    /\ t[1] \in {"llm"} \cup ExecutionKinds
    /\ r.control = "llm_cancel" => t[1] = "llm"

ProcessInv(p, r, failures, started, alive) ==
    /\ IsProcess(r)
    /\ p \in started
    /\ r.control \in {"interrupt", "terminate", "settled"}
    /\ r.control = "terminate" =>
         /\ r.attempt \in {1, 2}
         /\ r.attempt = 2 => <<"terminate", p, 1>> \in failures
    /\ r.control = "settled" =>
         \/ p \notin alive
         \/ <<"terminate", p, 1>> \in failures /\ <<"terminate", p, 2>> \in failures

CancelRecord(c, started, alive) ==
    /\ IsCancel(c) /\ c.requested = TRUE
    /\ IsFunction(c.targets) /\ IsFunction(c.processes)
    /\ c.listings \in Nat /\ c.attempt \in Nat
    /\ c.discovery \in {None, <<"list", c.listings, 0>>}
    /\ \A t \in DOMAIN c.targets : TargetInv(t, c.targets[t])
    /\ \A p \in DOMAIN c.processes : ProcessInv(p, c.processes[p], c.failures, started, alive)

CancelInv ==
    \/ cancel = NoCancel
    \/ CancelRecord(cancel, launched, running) /\ None \notin open

ListingInv ==
    /\ listing = [answered |-> listing.answered, procs |-> listing.procs]
    /\ listing.answered \in BOOLEAN /\ listing.procs \subseteq launched
    /\ ~listing.answered => listing.procs = {}

IndInv ==
    /\ OperationsAreAwaited
    /\ TurnInv
    /\ PlanInv
    /\ SessionInv
    /\ WorkInv
    /\ ToldInv
    /\ CancelInv
    /\ ListingInv

-----------------------------------------------------------------------------
(* Segments.                                                               *)

\* A nonempty finite set of numbers has a least element.
LEMMA LeastExists ==
    ASSUME NEW S \in SUBSET Nat, S # {}, IsFiniteSet(S)
    PROVE  \E k \in S : \A j \in S : k <= j
<1> DEFINE Below(k) == {j \in S : j < k}
           Bottoms == {Below(k) : k \in S}
<1>2. \A k \in S : Below(k) \in FiniteSubsetsOf(S)
  BY FS_FiniteSubsetsOfFinite
<1>3. PICK low \in Bottoms : \A h \in Bottoms : ~(<<h, low>> \in StrictSubsetOrdering(S))
  <2>1. Bottoms \subseteq FiniteSubsetsOf(S) /\ Bottoms # {}
    BY <1>2
  <2>2. IsWellFoundedOn(StrictSubsetOrdering(S), FiniteSubsetsOf(S))
    BY FS_StrictSubsetOrderingWellFounded
  <2> HIDE DEF Bottoms
  <2> QED
    BY <2>1, <2>2, WFMin
<1>4. PICK k \in S : low = Below(k)
  OBVIOUS
<1>5. ASSUME NEW j \in S, j < k
      PROVE  FALSE
  <2>1. Below(j) \subseteq Below(k) /\ j \in Below(k) /\ j \notin Below(j)
    <3>1. \A x \in S : x < j => x < k
      BY <1>5
    <3>2. ~(j < j)
      OBVIOUS
    <3> QED
      BY <1>5, <3>1, <3>2
  <2>2. <<Below(j), Below(k)>> \in StrictSubsetOrdering(S)
    <3>1. Below(j) \in SUBSET S /\ Below(k) \in SUBSET S
      OBVIOUS
    <3>2. Below(j) # Below(k)
      BY <2>1
    <3> HIDE DEF Below
    <3> QED
      BY <2>1, <3>1, <3>2 DEF StrictSubsetOrdering
  <2>3. Below(j) \in Bottoms
    OBVIOUS
  <2> QED
    BY <1>3, <1>4, <2>2, <2>3
<1> QED
  BY <1>5

\* From a on there is a first number up to n that is not done, or all are done.
LEMMA FirstLeft ==
    ASSUME NEW n \in Nat, NEW a \in 1 .. n + 1, NEW done
    PROVE  \E k \in a .. n + 1 :
               /\ \A j \in a .. k - 1 : j \in done
               /\ k \in 1 .. n => k \notin done
<1> DEFINE S == {k \in a .. n + 1 : k = n + 1 \/ k \notin done}
<1>1. S \in SUBSET Nat /\ S # {}
  BY n + 1 \in S
<1>2. IsFiniteSet(S)
  <2>1. IsFiniteSet(a .. n + 1)
    BY FS_Interval
  <2> QED
    BY <2>1, FS_Subset
<1>3. PICK k \in S : \A j \in S : k <= j
  <2> HIDE DEF S
  <2> QED
    BY <1>1, <1>2, LeastExists
<1>4. \A j \in a .. k - 1 : j \in done
  <2> SUFFICES ASSUME NEW j \in a .. k - 1, j \notin done
               PROVE  FALSE
    OBVIOUS
  <2>1. j \in a .. n + 1 /\ j < k
    OBVIOUS
  <2> QED
    BY <1>3, <2>1
<1> QED
  BY <1>4

\* advance_completed_segments.
LEMMA AdvanceFacts ==
    ASSUME NEW p, PlanShape(p)
    PROVE  LET q == AdvanceCompletedSegments(p) IN
           /\ q = [assistant |-> p.assistant, calls |-> p.calls, segments |-> p.segments,
                   active |-> q.active]
           /\ q.active \in p.active .. Len(p.segments) + 1
           /\ \A j \in p.active .. q.active - 1 : SegmentComplete(p, j)
           /\ q.active \in DOMAIN p.segments => ~SegmentComplete(p, q.active)
<1> DEFINE n == Len(p.segments)
           Stops(k) == /\ \A j \in p.active .. k - 1 : SegmentComplete(p, j)
                       /\ k \in DOMAIN p.segments => ~SegmentComplete(p, k)
           k == CHOOSE k \in p.active .. n + 1 : Stops(k)
<1>1. n \in Nat /\ p.active \in 1 .. n + 1 /\ DOMAIN p.segments = 1 .. n
  BY DEF PlanShape
<1>2. \E m \in p.active .. n + 1 : Stops(m)
  <2> DEFINE done == {j \in 1 .. n : SegmentComplete(p, j)}
  <2>1. PICK m \in p.active .. n + 1 :
            /\ \A j \in p.active .. m - 1 : j \in done
            /\ m \in 1 .. n => m \notin done
    <3> HIDE DEF done, n
    <3> QED
      BY <1>1, FirstLeft
  <2> QED
    BY <1>1, <2>1
<1>3. k \in p.active .. n + 1 /\ Stops(k)
  <2> HIDE DEF n, Stops
  <2> QED
    BY <1>2
<1>4. AdvanceCompletedSegments(p) = [p EXCEPT !.active = k]
  BY DEF AdvanceCompletedSegments
<1>5. AdvanceCompletedSegments(p) =
        [assistant |-> p.assistant, calls |-> p.calls, segments |-> p.segments, active |-> k]
  <2> HIDE DEF k
  <2> QED
    BY <1>4 DEF PlanShape, IsPlan
<1> HIDE DEF k
<1> QED
  BY <1>3, <1>5

-----------------------------------------------------------------------------
(* schedule_ready.                                                         *)

Refusals(p, k, tracked) ==
    UNION {Refused(p, j, tracked) : j \in (p.active .. k) \cap DOMAIN p.segments}

Chosen(p, k, tracked) == IF k \in DOMAIN p.segments THEN Prepared(p, k, tracked) ELSE {}

\* Where the loop ends.
StopsAt(p, k, tracked) ==
    /\ k \in p.active .. Len(p.segments) + 1
    /\ \A j \in p.active .. k - 1 : PassedOver(p, j, tracked)
    /\ k \in DOMAIN p.segments => ~PassedOver(p, k, tracked)

\* The loop of schedule_ready ends at one segment: the first from the active one on
\* that its refusals do not complete.
LEMMA ScheduleStops ==
    ASSUME NEW p, PlanShape(p), NEW tracked
    PROVE  \E k : StopsAt(p, k, tracked) /\ Schedule(p, tracked) = Arrive(p, k, tracked)
<1> DEFINE n == Len(p.segments)
           Stops(k) == /\ \A j \in p.active .. k - 1 : PassedOver(p, j, tracked)
                       /\ k \in DOMAIN p.segments => ~PassedOver(p, k, tracked)
           stop == CHOOSE k \in p.active .. n + 1 : Stops(k)
<1>1. n \in Nat /\ p.active \in 1 .. n + 1 /\ DOMAIN p.segments = 1 .. n
  BY DEF PlanShape
<1>2. \E m \in p.active .. n + 1 : Stops(m)
  <2> DEFINE done == {j \in 1 .. n : PassedOver(p, j, tracked)}
  <2>1. PICK m \in p.active .. n + 1 :
            /\ \A j \in p.active .. m - 1 : j \in done
            /\ m \in 1 .. n => m \notin done
    <3> HIDE DEF done, n
    <3> QED
      BY <1>1, FirstLeft
  <2> QED
    BY <1>1, <2>1
<1>3. stop \in p.active .. n + 1 /\ Stops(stop)
  <2> HIDE DEF n, Stops
  <2> QED
    BY <1>2
<1>4. StopsAt(p, stop, tracked)
  <2> HIDE DEF stop
  <2> QED
    BY <1>3 DEF StopsAt
<1>5. Schedule(p, tracked) = Arrive(p, stop, tracked)
  BY DEF Schedule
<1> QED
  BY <1>4, <1>5

\* What is refused was pending; what is prepared is in the segment the loop ends at.
LEMMA ChoiceFacts ==
    ASSUME NEW p, PlanShape(p), NEW tracked, NEW k
    PROVE  /\ \A i \in Refusals(p, k, tracked) :
                i \in DOMAIN p.calls /\ p.calls[i].status = "pending"
                /\ ~CanPrepare(p.calls[i], tracked)
           /\ \A i \in Chosen(p, k, tracked) :
                /\ i \in DOMAIN p.calls /\ k \in DOMAIN p.segments /\ i \in p.segments[k]
                /\ IsOpen(p.calls[i]) /\ CanPrepare(p.calls[i], tracked)
                /\ ~Busy(p.calls[i], ResourcesBefore(p, k, i, tracked))
<1>1. \A j \in DOMAIN p.segments : p.segments[j] \subseteq DOMAIN p.calls
  BY DEF PlanShape
<1>2. ASSUME NEW j \in DOMAIN p.segments, NEW i \in Refused(p, j, tracked)
      PROVE  i \in DOMAIN p.calls /\ p.calls[i].status = "pending" /\ ~CanPrepare(p.calls[i], tracked)
  BY <1>1, <1>2 DEF Refused, Considered, CanPrepare
<1>3. ASSUME NEW i \in Chosen(p, k, tracked)
      PROVE  k \in DOMAIN p.segments /\ i \in Prepared(p, k, tracked)
  BY <1>3 DEF Chosen
<1>4. \A i \in Refusals(p, k, tracked) : \E j \in DOMAIN p.segments : i \in Refused(p, j, tracked)
  BY DEF Refusals
<1> QED
  BY <1>1, <1>2, <1>3, <1>4 DEF Prepared, Considered

\* A plan after schedule_ready replaced its calls, and after its active segment moved.
LEMMA PlanExcept ==
    ASSUME NEW p, IsPlan(p), NEW k, NEW calls
    PROVE  /\ [p EXCEPT !.calls = calls] =
                [assistant |-> p.assistant, calls |-> calls, segments |-> p.segments,
                 active |-> p.active]
           /\ [p EXCEPT !.active = k, !.calls = calls] =
                [assistant |-> p.assistant, calls |-> calls, segments |-> p.segments, active |-> k]
<1> DEFINE m == [p EXCEPT !.active = k]
<1>1. m = [assistant |-> p.assistant, calls |-> p.calls, segments |-> p.segments, active |-> k]
  BY DEF IsPlan
<1>2. [m EXCEPT !.calls = calls] =
        [assistant |-> p.assistant, calls |-> calls, segments |-> p.segments, active |-> k]
  <2> HIDE DEF m
  <2> QED
    BY <1>1
<1>3. [p EXCEPT !.active = k, !.calls = calls] = [m EXCEPT !.calls = calls]
  OBVIOUS
<1>4. [p EXCEPT !.calls = calls] =
        [assistant |-> p.assistant, calls |-> calls, segments |-> p.segments, active |-> p.active]
  BY DEF IsPlan
<1> QED
  BY <1>2, <1>3, <1>4

\* A call after it was refused, and after it was submitted.
RefusedCall(c) ==
    [tool |-> c.tool, sess |-> c.sess, args |-> c.args, step |-> c.step, pages |-> c.pages,
     op |-> c.op, proc |-> c.proc, status |-> "completed"]

AtGateway(n, i, c, peer) ==
    LET op == <<c.step, <<n, i>>, c.pages, peer>> IN
    [tool |-> c.tool, sess |-> c.sess, args |-> c.args, step |-> c.step, pages |-> c.pages,
     op |-> op, proc |-> IF c.step = "start" THEN op ELSE peer, status |-> "submitted"]

\* submit_call writes the operation, the process and the status into the call and
\* leaves the rest of it alone.
LEMMA SubmitCall ==
    ASSUME NEW c, IsCall(c), NEW n, NEW i, NEW tracked
    PROVE  SubmittedCall(n, i, c, tracked) = AtGateway(n, i, c, Peer(c, tracked))
<1>1. PICK peer : peer = Peer(c, tracked)
  OBVIOUS
<1>2. PICK op : op = <<c.step, <<n, i>>, c.pages, peer>>
  OBVIOUS
<1>3. PICK proc : proc = IF c.step = "start" THEN op ELSE peer
  OBVIOUS
<1>4. op[4] = peer
  BY <1>2
<1> DEFINE c1 == [c EXCEPT !.status = "submitted"]
           c2 == [c1 EXCEPT !.op = op]
<1>5. c1 = [tool |-> c.tool, sess |-> c.sess, args |-> c.args, step |-> c.step,
            pages |-> c.pages, op |-> c.op, proc |-> c.proc, status |-> "submitted"]
  BY DEF IsCall
<1>6. c2 = [tool |-> c.tool, sess |-> c.sess, args |-> c.args, step |-> c.step,
            pages |-> c.pages, op |-> op, proc |-> c.proc, status |-> "submitted"]
  <2> HIDE DEF c1
  <2> QED
    BY <1>5
<1>7. [c2 EXCEPT !.proc = proc] =
           [tool |-> c.tool, sess |-> c.sess, args |-> c.args, step |-> c.step,
            pages |-> c.pages, op |-> op, proc |-> proc, status |-> "submitted"]
  <2> HIDE DEF c2
  <2> QED
    BY <1>6
<1>8. [c EXCEPT !.status = "submitted", !.op = op, !.proc = proc] = [c2 EXCEPT !.proc = proc]
  OBVIOUS
<1> HIDE DEF c2
<1>9. AtGateway(n, i, c, peer) =
           [tool |-> c.tool, sess |-> c.sess, args |-> c.args, step |-> c.step,
            pages |-> c.pages, op |-> op, proc |-> proc, status |-> "submitted"]
  BY <1>2, <1>3 DEF AtGateway
<1>10. CallOperation(n, i, c, Peer(c, tracked)) = op
  BY <1>1, <1>2 DEF CallOperation
<1>11. SubmittedCall(n, i, c, tracked) = [c EXCEPT !.status = "submitted", !.op = op, !.proc = proc]
  BY <1>3, <1>4, <1>10 DEF SubmittedCall
<1> QED
  BY <1>1, <1>7, <1>8, <1>9, <1>11

\* The plan schedule_ready leaves, call by call.
LEMMA PlanAfter ==
    ASSUME NEW p, PlanShape(p), NEW tracked, NEW k, NEW q,
           q = Submit(Arrive(p, k, tracked).plan, Arrive(p, k, tracked).prepared, tracked)
    PROVE  /\ Arrive(p, k, tracked).prepared = Chosen(p, k, tracked)
           /\ q = [assistant |-> p.assistant, calls |-> q.calls, segments |-> p.segments, active |-> k]
           /\ IsFunction(q.calls) /\ DOMAIN q.calls = DOMAIN p.calls
           /\ \A i \in DOMAIN p.calls :
                q.calls[i] = IF i \in Chosen(p, k, tracked)
                             THEN AtGateway(p.assistant, i, p.calls[i], Peer(p.calls[i], tracked))
                             ELSE IF i \in Refusals(p, k, tracked) THEN RefusedCall(p.calls[i])
                             ELSE p.calls[i]
<1> DEFINE refused == Refusals(p, k, tracked)
           prepared == Chosen(p, k, tracked)
           half == [i \in DOMAIN p.calls |->
                       IF i \in refused THEN [p.calls[i] EXCEPT !.status = "completed"] ELSE p.calls[i]]
           plan1 == [p EXCEPT !.active = k, !.calls = half]
           final == [i \in DOMAIN half |->
                       IF i \in prepared THEN SubmittedCall(p.assistant, i, half[i], tracked)
                       ELSE half[i]]
<1>1. Arrive(p, k, tracked) = [plan |-> plan1, prepared |-> prepared]
  BY DEF Arrive, Refusals, Chosen
<1>2. plan1 = [assistant |-> p.assistant, calls |-> half, segments |-> p.segments, active |-> k]
  <2> HIDE DEF half
  <2> QED
    BY PlanExcept DEF PlanShape
<1>3. q = [plan1 EXCEPT !.calls = final]
  <2>1. q = Submit(plan1, prepared, tracked)
    BY <1>1
  <2>2. plan1.assistant = p.assistant /\ plan1.calls = half
    <3> HIDE DEF plan1, half
    <3> QED
      BY <1>2
  <2> HIDE DEF plan1, half, prepared
  <2> QED
    BY <2>1, <2>2 DEF Submit
<1>4. q = [assistant |-> p.assistant, calls |-> final, segments |-> p.segments, active |-> k]
  <2> HIDE DEF half, final, plan1
  <2> QED
    BY <1>2, <1>3
<1>5. \A i \in DOMAIN p.calls : IsCall(p.calls[i])
  BY DEF PlanShape, CallShape
<1>6. ASSUME NEW i \in DOMAIN p.calls
      PROVE  final[i] = IF i \in prepared
                        THEN AtGateway(p.assistant, i, p.calls[i], Peer(p.calls[i], tracked))
                        ELSE IF i \in refused THEN RefusedCall(p.calls[i])
                        ELSE p.calls[i]
  <2>1. PICK c : c = p.calls[i]
    OBVIOUS
  <2>2. IsCall(c)
    BY <1>5, <2>1
  <2>3. half[i] = IF i \in refused THEN RefusedCall(c) ELSE c
    <3>1. [c EXCEPT !.status = "completed"] = RefusedCall(c)
      BY <2>2 DEF IsCall, RefusedCall
    <3> HIDE DEF refused
    <3> QED
      BY <2>1, <3>1
  <2>4. SubmittedCall(p.assistant, i, c, tracked) = AtGateway(p.assistant, i, c, Peer(c, tracked))
    BY <2>2, SubmitCall
  <2>5. i \in prepared => i \notin refused
    BY ChoiceFacts
  <2>6. final[i] = IF i \in prepared THEN SubmittedCall(p.assistant, i, half[i], tracked) ELSE half[i]
    OBVIOUS
  <2> HIDE DEF half, final, prepared, refused
  <2> QED
    BY <2>1, <2>3, <2>4, <2>5, <2>6
<1>7. DOMAIN final = DOMAIN p.calls /\ IsFunction(final)
  BY DEF IsFunction
<1>8. q.calls = final /\ Arrive(p, k, tracked).prepared = prepared
  <2> HIDE DEF final, plan1, prepared
  <2> QED
    BY <1>1, <1>4
<1> HIDE DEF final, half, plan1, prepared, refused
<1>9. q = [assistant |-> p.assistant, calls |-> q.calls, segments |-> p.segments, active |-> k]
  BY <1>4, <1>8
<1> QED
  BY <1>6, <1>7, <1>8, <1>9 DEF prepared, refused

\* The loop over plan p ends at segment k and leaves q.
Runs(p, k, tracked, q) ==
    /\ StopsAt(p, k, tracked)
    /\ q = [assistant |-> p.assistant, calls |-> q.calls, segments |-> p.segments, active |-> k]
    /\ IsFunction(q.calls) /\ DOMAIN q.calls = DOMAIN p.calls
    /\ \A i \in DOMAIN p.calls :
         q.calls[i] = IF i \in Chosen(p, k, tracked)
                      THEN AtGateway(p.assistant, i, p.calls[i], Peer(p.calls[i], tracked))
                      ELSE IF i \in Refusals(p, k, tracked) THEN RefusedCall(p.calls[i])
                      ELSE p.calls[i]

\* What schedule_ready does to one call: it is submitted if the loop chose it,
\* completed if it was refused, and left alone otherwise.
LEMMA CallAfter ==
    ASSUME NEW p, PlanShape(p), NEW tracked, NEW k, NEW q, Runs(p, k, tracked, q),
           NEW i \in DOMAIN p.calls
    PROVE  LET c == p.calls[i]
               d == q.calls[i]
           IN  /\ IsCall(d) /\ d.tool = c.tool /\ d.sess = c.sess /\ d.args = c.args
               /\ d.step = c.step /\ d.pages = c.pages
               /\ i \in Chosen(p, k, tracked) =>
                    /\ d.status = "submitted"
                    /\ d.op = <<c.step, <<p.assistant, i>>, c.pages, Peer(c, tracked)>>
                    /\ d.proc = IF c.step = "start" THEN d.op ELSE Peer(c, tracked)
               /\ i \notin Chosen(p, k, tracked) =>
                    /\ d.op = c.op /\ d.proc = c.proc
                    /\ d.status = IF i \in Refusals(p, k, tracked) THEN "completed" ELSE c.status
<1>1. PICK c : c = p.calls[i]
  OBVIOUS
<1>2. PICK d : d = q.calls[i]
  OBVIOUS
<1>3. PICK peer : peer = Peer(c, tracked)
  OBVIOUS
<1>4. IsCall(c)
  BY <1>1 DEF PlanShape, CallShape
<1>5. d = IF i \in Chosen(p, k, tracked) THEN AtGateway(p.assistant, i, c, peer)
          ELSE IF i \in Refusals(p, k, tracked) THEN RefusedCall(c) ELSE c
  BY <1>1, <1>2, <1>3 DEF Runs
<1>6. CASE i \in Chosen(p, k, tracked)
  <2>1. d = AtGateway(p.assistant, i, c, peer)
    BY <1>5, <1>6
  <2> QED
    BY <1>1, <1>2, <1>3, <1>6, <2>1 DEF AtGateway, IsCall
<1>7. CASE i \notin Chosen(p, k, tracked) /\ i \in Refusals(p, k, tracked)
  <2>1. d = RefusedCall(c)
    BY <1>5, <1>7
  <2> QED
    BY <1>1, <1>2, <1>7, <2>1 DEF RefusedCall, IsCall
<1>8. CASE i \notin Chosen(p, k, tracked) /\ i \notin Refusals(p, k, tracked)
  BY <1>1, <1>2, <1>4, <1>5, <1>8
<1> QED
  BY <1>6, <1>7, <1>8

\* The loop keeps the shape of the plan.
LEMMA RunShape ==
    ASSUME NEW p, PlanShape(p), NEW tracked, NEW k, NEW q, Runs(p, k, tracked, q)
    PROVE  PlanShape(q) /\ q.assistant = p.assistant /\ q.segments = p.segments /\ q.active = k
           /\ DOMAIN q.calls = DOMAIN p.calls
<1>1. q.assistant = p.assistant /\ q.segments = p.segments /\ q.active = k
  BY DEF Runs
<1>2. IsPlan(q)
  BY <1>1 DEF Runs, IsPlan
<1>3. k \in 1 .. Len(p.segments) + 1
  BY DEF Runs, StopsAt, PlanShape
<1>4. ASSUME NEW i \in DOMAIN p.calls
      PROVE  CallShape(q.calls[i])
  <2>1. CallShape(p.calls[i])
    BY DEF PlanShape
  <2>2. q.calls[i].status \in {p.calls[i].status, "submitted", "completed"}
    BY CallAfter
  <2> QED
    BY <2>1, <2>2, CallAfter DEF CallShape
<1>5. IsFunction(q.calls) /\ DOMAIN q.calls = DOMAIN p.calls
  BY DEF Runs
<1> QED
  BY <1>1, <1>2, <1>3, <1>4, <1>5 DEF PlanShape

\* What a segment that was passed over, or left, holds afterwards.
LEMMA PassedIsComplete ==
    ASSUME NEW p, PlanShape(p), NEW tracked, NEW k, NEW q, Runs(p, k, tracked, q),
           NEW j \in DOMAIN p.segments, j < k, j >= p.active \/ SegmentComplete(p, j),
           NEW i \in p.segments[j]
    PROVE  q.calls[i].status = "completed"
<1>1. i \in DOMAIN p.calls /\ j \in Nat /\ p.active \in Nat /\ k \in Nat
  BY DEF PlanShape, Runs, StopsAt
<1>2. p.calls[i].status = "completed" => q.calls[i].status = "completed"
  <2> SUFFICES ASSUME p.calls[i].status = "completed"
               PROVE  q.calls[i].status = "completed"
    OBVIOUS
  <2>1. i \notin Chosen(p, k, tracked)
    BY ChoiceFacts DEF IsOpen
  <2> QED
    BY <1>1, <2>1, CallAfter
<1>3. CASE SegmentComplete(p, j)
  BY <1>2, <1>3 DEF SegmentComplete
<1>4. CASE j >= p.active
  <2>1. PassedOver(p, j, tracked)
    BY <1>1, <1>4 DEF Runs, StopsAt
  <2>2. p.calls[i].status = "completed" \/ i \in Refused(p, j, tracked)
    BY <2>1 DEF PassedOver
  <2>3. ASSUME i \in Refused(p, j, tracked)
        PROVE  q.calls[i].status = "completed"
    <3>1. j \in (p.active .. k) \cap DOMAIN p.segments
      BY <1>1, <1>4
    <3>2. i \in Refusals(p, k, tracked)
      BY <2>3, <3>1 DEF Refusals
    <3>3. i \notin Chosen(p, k, tracked)
      BY <3>2, ChoiceFacts
    <3> QED
      BY <1>1, <3>2, <3>3, CallAfter
  <2> QED
    BY <1>2, <2>2, <2>3
<1> QED
  BY <1>3, <1>4

\* A call that is not complete after the loop is in a segment from k on.
LEMMA LeftIsAhead ==
    ASSUME NEW p, PlanShape(p), PlanOrder(p), NEW tracked, NEW k, NEW q, Runs(p, k, tracked, q),
           NEW i \in DOMAIN p.calls, q.calls[i].status # "completed"
    PROVE  /\ p.calls[i].status # "completed"
           /\ \A m \in DOMAIN p.segments : i \in p.segments[m] => k <= m
           /\ \E m \in k .. Len(p.segments) : i \in p.segments[m]
<1>1. DOMAIN p.segments = 1 .. Len(p.segments) /\ Len(p.segments) \in Nat /\ k \in Nat
      /\ p.active \in 1 .. Len(p.segments) + 1 /\ k >= p.active
  BY DEF PlanShape, Runs, StopsAt
<1>2. ASSUME NEW m \in DOMAIN p.segments, i \in p.segments[m]
      PROVE  k <= m
  <2> SUFFICES ASSUME m < k
               PROVE  FALSE
    BY <1>1
  <2>1. m >= p.active \/ SegmentComplete(p, m)
    BY <1>1 DEF PlanOrder
  <2> QED
    BY <1>2, <2>1, PassedIsComplete
<1>3. p.calls[i].status # "completed"
  <2> SUFFICES ASSUME p.calls[i].status = "completed"
               PROVE  FALSE
    OBVIOUS
  <2>1. i \notin Chosen(p, k, tracked)
    BY ChoiceFacts DEF IsOpen
  <2> QED
    BY <2>1, CallAfter
<1>4. PICK m \in p.active .. Len(p.segments) : i \in p.segments[m]
  BY <1>3 DEF PlanOrder
<1> QED
  BY <1>1, <1>2, <1>3, <1>4

\* Of one session the loop prepares only the first call that is left.
LEMMA ChosenIsFirst ==
    ASSUME NEW p, PlanShape(p), NEW tracked, NEW k, NEW q, Runs(p, k, tracked, q),
           NEW i \in Chosen(p, k, tracked), NEW j \in p.segments[k], j < i,
           p.calls[j].sess = p.calls[i].sess, p.calls[i].sess # NoSess
    PROVE  q.calls[j].status = "completed"
<1> DEFINE s == p.calls[i].sess
<1>1. /\ i \in DOMAIN p.calls /\ k \in DOMAIN p.segments /\ i \in p.segments[k]
      /\ ~Busy(p.calls[i], ResourcesBefore(p, k, i, tracked))
      /\ IsOpen(p.calls[i])
  BY ChoiceFacts
<1>2. j \in DOMAIN p.calls /\ DOMAIN p.calls \subseteq Nat
  BY <1>1 DEF PlanShape
<1>3. IsShell(p.calls[i].tool) /\ IsShell(p.calls[j].tool)
  BY <1>1, <1>2 DEF PlanShape, CallShape
<1>4. s \notin ResourcesBefore(p, k, i, tracked)
  BY <1>1, <1>3 DEF Busy, IsOpen
<1>5. p.calls[j].status # "submitted"
  <2> SUFFICES ASSUME p.calls[j].status = "submitted"
               PROVE  FALSE
    OBVIOUS
  <2>1. s \in SubmittedResources(p.calls)
    BY <1>2, <1>3 DEF SubmittedResources
  <2> QED
    BY <1>4, <2>1 DEF ResourcesBefore
<1>6. ~(IsOpen(p.calls[j]) /\ CanPrepare(p.calls[j], tracked))
  BY <1>4 DEF ResourcesBefore
<1>7. ResourcesBefore(p, k, j, tracked) \subseteq ResourcesBefore(p, k, i, tracked)
  <2>1. \A m \in p.segments[k] : m \in Nat
    BY <1>1, <1>2 DEF PlanShape
  <2>2. \A m \in p.segments[k] : m < j => m < i
    BY <1>1, <1>2, <2>1
  <2> QED
    BY <2>2 DEF ResourcesBefore
<1>8. ~Busy(p.calls[j], ResourcesBefore(p, k, j, tracked))
  BY <1>4, <1>7 DEF Busy
<1>9. CASE p.calls[j].status = "completed"
  <2>1. j \notin Chosen(p, k, tracked)
    BY <1>9, ChoiceFacts DEF IsOpen
  <2> QED
    BY <1>2, <1>9, <2>1, CallAfter
<1>10. CASE IsOpen(p.calls[j])
  <2>1. j \in Refused(p, k, tracked)
    BY <1>6, <1>8, <1>10 DEF Refused, Considered
  <2>2. k \in (p.active .. k) \cap DOMAIN p.segments
    BY <1>1 DEF Runs, StopsAt, PlanShape
  <2>3. j \in Refusals(p, k, tracked)
    BY <2>1, <2>2 DEF Refusals
  <2>4. j \notin Chosen(p, k, tracked)
    BY <2>3, ChoiceFacts
  <2> QED
    BY <1>2, <2>3, <2>4, CallAfter
<1>11. p.calls[j].status \in {"pending", "ready", "submitted", "completed"}
  BY <1>2 DEF PlanShape, CallShape
<1> QED
  BY <1>5, <1>9, <1>10, <1>11 DEF IsOpen

\* The loop keeps the order of the plan.
LEMMA RunOrder ==
    ASSUME NEW p, PlanShape(p), PlanOrder(p), NEW tracked, NEW k, NEW q, Runs(p, k, tracked, q)
    PROVE  PlanOrder(q)
<1>1. DOMAIN p.segments = 1 .. Len(p.segments) /\ Len(p.segments) \in Nat /\ k \in Nat
      /\ p.active \in 1 .. Len(p.segments) + 1 /\ k >= p.active /\ k <= Len(p.segments) + 1
  BY DEF PlanShape, Runs, StopsAt
<1>2. q.segments = p.segments /\ q.active = k /\ DOMAIN q.calls = DOMAIN p.calls
  BY RunShape
<1>3. ASSUME NEW i \in DOMAIN p.calls, q.calls[i].status # "completed"
      PROVE  \E m \in k .. Len(p.segments) : i \in p.segments[m]
  BY <1>3, LeftIsAhead
<1>4. ASSUME NEW m \in 1 .. k - 1
      PROVE  SegmentComplete(q, m)
  <2>1. m \in DOMAIN p.segments /\ m < k /\ (m >= p.active \/ SegmentComplete(p, m))
    BY <1>1 DEF PlanOrder
  <2>2. \A i \in p.segments[m] : q.calls[i].status = "completed"
    BY <2>1, PassedIsComplete
  <2> QED
    BY <1>2, <2>2 DEF SegmentComplete
<1>5. ASSUME NEW i \in DOMAIN p.calls, InUse(q.calls[i])
      PROVE  /\ k \in DOMAIN p.segments /\ i \in p.segments[k]
             /\ \A j \in p.segments[k] :
                  j < i /\ q.calls[j].sess = q.calls[i].sess /\ q.calls[i].sess # NoSess =>
                      q.calls[j].status = "completed"
  <2>1. CASE i \in Chosen(p, k, tracked)
    <3>1. k \in DOMAIN p.segments /\ i \in p.segments[k]
      BY <2>1, ChoiceFacts
    <3>2. \A j \in p.segments[k] : j \in DOMAIN p.calls /\ q.calls[j].sess = p.calls[j].sess
      <4>1. \A j \in p.segments[k] : j \in DOMAIN p.calls
        BY <3>1 DEF PlanShape
      <4> QED
        BY <4>1, CallAfter
    <3>3. \A j \in p.segments[k] : j < i /\ p.calls[j].sess = p.calls[i].sess /\ p.calls[i].sess # NoSess
                                    => q.calls[j].status = "completed"
      BY <2>1, ChosenIsFirst
    <3> QED
      BY <3>1, <3>2, <3>3
  <2>2. CASE i \notin Chosen(p, k, tracked)
    <3>1. q.calls[i].status # "completed"
      BY <1>5 DEF InUse
    <3>2. q.calls[i].status = p.calls[i].status
      BY <2>2, <3>1, CallAfter
    <3>3. InUse(p.calls[i])
      BY <1>5, <3>2 DEF InUse
    <3>4. /\ p.active \in DOMAIN p.segments /\ i \in p.segments[p.active]
          /\ \A j \in p.segments[p.active] :
               j < i /\ p.calls[j].sess = p.calls[i].sess /\ p.calls[i].sess # NoSess =>
                   p.calls[j].status = "completed"
      BY <3>3 DEF PlanOrder
    <3>5. k = p.active
      <4>1. k <= p.active
        BY <3>1, <3>4, LeftIsAhead
      <4> QED
        BY <1>1, <4>1
    <3>6. ASSUME NEW j \in p.segments[k]
          PROVE  /\ j \in DOMAIN p.calls /\ q.calls[j].sess = p.calls[j].sess
                 /\ p.calls[j].status = "completed" => q.calls[j].status = "completed"
      <4>1. j \in DOMAIN p.calls
        BY <3>4, <3>5 DEF PlanShape
      <4>2. q.calls[j].sess = p.calls[j].sess
        BY <4>1, CallAfter
      <4>3. p.calls[j].status = "completed" => j \notin Chosen(p, k, tracked)
        BY ChoiceFacts DEF IsOpen
      <4>4. p.calls[j].status = "completed" => q.calls[j].status = "completed"
        BY <4>1, <4>3, CallAfter
      <4> QED
        BY <4>1, <4>2, <4>4
    <3>7. q.calls[i].sess = p.calls[i].sess
      BY CallAfter
    <3> QED
      BY <3>4, <3>5, <3>6, <3>7
  <2> QED
    BY <2>1, <2>2
<1> QED
  BY <1>2, <1>3, <1>4, <1>5 DEF PlanOrder

Tracks(tracked, known) ==
    /\ known \in Nat \ {0}
    /\ \A x \in tracked : x.sess \in 1 .. known - 1
    /\ \A x, y \in tracked : x.sess = y.sess => x = y

\* A session that a call can take is known.
LEMMA TakenIsKnown ==
    ASSUME NEW p, PlanShape(p), NEW tracked, NEW known, Tracks(tracked, known),
           PlanSessions(p, tracked, known),
           NEW i \in DOMAIN p.calls, IsOpen(p.calls[i]), CanPrepare(p.calls[i], tracked)
    PROVE  p.calls[i].sess < known
<1>1. CallShape(p.calls[i])
  BY DEF PlanShape
<1>2. CASE p.calls[i].status = "ready"
  BY <1>2 DEF PlanSessions, InUse
<1>3. CASE p.calls[i].status = "pending" /\ p.calls[i].tool = "write_stdin"
  <2>1. PICK x \in tracked : x.sess = p.calls[i].sess
    BY <1>3 DEF CanPrepare
  <2> QED
    BY <2>1 DEF Tracks
<1>4. CASE p.calls[i].status = "pending" /\ p.calls[i].tool # "write_stdin"
  BY <1>1, <1>4 DEF CallShape, Tracks, NoSess
<1> QED
  BY <1>2, <1>3, <1>4 DEF IsOpen

\* The sessions calls hold are known, and tracked for the process they talk to.
LEMMA RunSessions ==
    ASSUME NEW p, PlanShape(p), NEW tracked, NEW known, Tracks(tracked, known),
           PlanSessions(p, tracked, known), NEW k, NEW q, Runs(p, k, tracked, q)
    PROVE  PlanSessions(q, tracked, known)
<1> SUFFICES ASSUME NEW i \in DOMAIN p.calls, InUse(q.calls[i])
             PROVE  /\ q.calls[i].sess < known
                    /\ \A x \in tracked : x.sess = q.calls[i].sess => x.proc = q.calls[i].proc
  BY RunShape DEF PlanSessions
<1>1. CASE i \notin Chosen(p, k, tracked)
  <2>1. q.calls[i].status = p.calls[i].status
    BY <1>1, CallAfter DEF InUse
  <2>2. InUse(p.calls[i])
    BY <2>1 DEF InUse
  <2>3. q.calls[i].sess = p.calls[i].sess /\ q.calls[i].proc = p.calls[i].proc
    BY <1>1, CallAfter
  <2> QED
    BY <2>2, <2>3 DEF PlanSessions
<1>2. CASE i \in Chosen(p, k, tracked)
  <2>1. IsOpen(p.calls[i]) /\ CanPrepare(p.calls[i], tracked)
    BY <1>2, ChoiceFacts
  <2>2. q.calls[i].sess < known
    BY <2>1, TakenIsKnown, CallAfter
  <2>3. CallShape(p.calls[i])
    BY DEF PlanShape
  <2>4. ASSUME NEW x \in tracked, x.sess = p.calls[i].sess
        PROVE  x.proc = q.calls[i].proc
    <3>1. p.calls[i].sess # NoSess
      BY <2>4 DEF Tracks, NoSess
    <3>2. IsShell(p.calls[i].tool)
      BY <2>3, <3>1 DEF CallShape
    <3>3. CASE p.calls[i].status = "ready"
      <4>1. p.calls[i].step = "observe"
        BY <2>3, <3>2, <3>3 DEF CallShape
      <4>2. q.calls[i].proc = p.calls[i].proc
        BY <1>2, <4>1, CallAfter DEF Peer
      <4> QED
        BY <2>4, <3>3, <4>2 DEF PlanSessions, InUse
    <3>4. CASE p.calls[i].status = "pending"
      <4>1. p.calls[i].tool = "write_stdin" /\ p.calls[i].step = "interact"
        BY <2>3, <3>1, <3>4 DEF CallShape, FirstStep
      <4>2. (CHOOSE y \in tracked : y.sess = p.calls[i].sess) = x
        BY <2>4 DEF Tracks
      <4>3. Peer(p.calls[i], tracked) = x.proc
        BY <4>1, <4>2 DEF Peer
      <4>4. q.calls[i].proc = x.proc
        BY <1>2, <4>1, <4>3, CallAfter
      <4> QED
        BY <4>4
    <3> QED
      BY <2>1, <3>3, <3>4 DEF IsOpen
  <2> QED
    BY <2>2, <2>4, CallAfter
<1> QED
  BY <1>1, <1>2

\* A call that still waits in the segment names a session in use.
LEMMA RunWaits ==
    ASSUME NEW p, PlanShape(p), NEW tracked, NEW known, Tracks(tracked, known),
           PlanSessions(p, tracked, known), NEW k, NEW q, Runs(p, k, tracked, q)
    PROVE  PlanWaits(q, known)
<1> SUFFICES ASSUME NEW i \in DOMAIN p.calls, k \in DOMAIN p.segments, i \in p.segments[k],
                    q.calls[i].status = "pending"
             PROVE  q.calls[i].sess # NoSess /\ q.calls[i].sess < known
  BY RunShape DEF PlanWaits
<1> DEFINE before == ResourcesBefore(p, k, i, tracked)
<1>1. i \notin Chosen(p, k, tracked) /\ i \notin Refusals(p, k, tracked)
  BY CallAfter
<1>2. p.calls[i].status = "pending" /\ q.calls[i].sess = p.calls[i].sess
  BY <1>1, CallAfter
<1>3. k \in (p.active .. k) \cap DOMAIN p.segments
  BY DEF Runs, StopsAt, PlanShape
<1>4. i \notin Considered(p, k, tracked)
  BY <1>1, <1>3 DEF Chosen, Refusals, Prepared, Refused
<1>5. Busy(p.calls[i], before)
  BY <1>2, <1>4 DEF Considered, IsOpen
<1>6. p.calls[i].sess \in before
  BY <1>5 DEF Busy
<1>7. CASE p.calls[i].sess \in SubmittedResources(p.calls)
  <2>1. PICK j \in DOMAIN p.calls : p.calls[j].status = "submitted" /\ p.calls[j].sess = p.calls[i].sess
    BY <1>7 DEF SubmittedResources
  <2> QED
    BY <1>2, <1>7, <2>1 DEF SubmittedResources, PlanSessions, InUse
<1>8. CASE p.calls[i].sess \notin SubmittedResources(p.calls)
  <2>1. PICK j \in p.segments[k] : /\ IsOpen(p.calls[j]) /\ CanPrepare(p.calls[j], tracked)
                                   /\ p.calls[j].sess = p.calls[i].sess
    BY <1>6, <1>8 DEF ResourcesBefore
  <2>2. j \in DOMAIN p.calls
    BY DEF PlanShape
  <2>3. p.calls[j].sess < known
    BY <2>1, <2>2, TakenIsKnown
  <2>4. p.calls[i].sess # NoSess
    BY <1>6, <1>8 DEF ResourcesBefore
  <2> QED
    BY <1>2, <2>1, <2>3, <2>4
<1> QED
  BY <1>7, <1>8

\* Submitted calls name their operations, and none that has done its work already.
LEMMA RunNames ==
    ASSUME NEW p, PlanShape(p), NEW tracked, NEW done, PlanNames(p), PlanWork(p, done),
           NEW k, NEW q, Runs(p, k, tracked, q)
    PROVE  /\ PlanNames(q) /\ PlanWork(q, done)
           /\ \A i \in Chosen(p, k, tracked) : q.calls[i].op \notin done
<1>1. q.assistant = p.assistant /\ DOMAIN q.calls = DOMAIN p.calls
  BY RunShape
<1>2. ASSUME NEW i \in DOMAIN p.calls, q.calls[i].status = "submitted"
      PROVE  LET c == q.calls[i] IN
             /\ c.op = <<c.step, <<p.assistant, i>>, c.pages, c.op[4]>>
             /\ c.proc = IF c.step = "start" THEN c.op ELSE c.op[4]
  <2>1. CASE i \in Chosen(p, k, tracked)
    <3>1. PICK peer : peer = Peer(p.calls[i], tracked)
      OBVIOUS
    <3>2. q.calls[i].op = <<q.calls[i].step, <<p.assistant, i>>, q.calls[i].pages, peer>>
      BY <2>1, <3>1, CallAfter
    <3>3. q.calls[i].op[4] = peer
      BY <3>2
    <3>4. q.calls[i].proc = IF q.calls[i].step = "start" THEN q.calls[i].op ELSE peer
      BY <2>1, <3>1, CallAfter
    <3> QED
      BY <3>2, <3>3, <3>4
  <2>2. CASE i \notin Chosen(p, k, tracked)
    <3>1. p.calls[i].status = "submitted"
      BY <1>2, <2>2, CallAfter
    <3>2. /\ q.calls[i].op = p.calls[i].op /\ q.calls[i].proc = p.calls[i].proc
          /\ q.calls[i].step = p.calls[i].step /\ q.calls[i].pages = p.calls[i].pages
      BY <2>2, CallAfter
    <3> QED
      BY <3>1, <3>2 DEF PlanNames
  <2> QED
    BY <2>1, <2>2
<1>3. ASSUME NEW x \in done, NEW i \in DOMAIN p.calls, x[2] = <<p.assistant, i>>
      PROVE  \/ q.calls[i].status = "completed"
             \/ x[1] \in {"start", "interact"} /\ q.calls[i].step = "observe"
             \/ x[1] = "mutate" /\ q.calls[i].step = "reconcile"
  <2>1. p.calls[i].status = "completed" => q.calls[i].status = "completed"
    <3>1. p.calls[i].status = "completed" => i \notin Chosen(p, k, tracked)
      BY ChoiceFacts DEF IsOpen
    <3> QED
      BY <3>1, CallAfter
  <2> QED
    BY <1>3, <2>1, CallAfter DEF PlanWork
<1>4. ASSUME NEW i \in Chosen(p, k, tracked), q.calls[i].op \in done
      PROVE  FALSE
  <2>1. i \in DOMAIN p.calls /\ p.calls[i].status # "completed"
    BY ChoiceFacts DEF IsOpen
  <2>2. PICK x \in done : x = q.calls[i].op
    BY <1>4
  <2>3. x[1] = p.calls[i].step /\ x[2] = <<p.assistant, i>>
    BY <2>1, <2>2, CallAfter
  <2> QED
    BY <2>1, <2>3 DEF PlanWork
<1> QED
  BY <1>1, <1>2, <1>3, <1>4 DEF PlanNames, PlanWork

\* A plan that is not complete waits for a call: the first one of a session that the
\* calls of the segment are left for is prepared, unless the session is in use.
LEMMA RunGoesOn ==
    ASSUME NEW p, PlanShape(p), PlanOrder(p), NEW tracked, NEW k, NEW q, Runs(p, k, tracked, q),
           ~IsComplete(q)
    PROVE  \E i \in DOMAIN p.calls : q.calls[i].status = "submitted"
<1>1. DOMAIN p.segments = 1 .. Len(p.segments) /\ Len(p.segments) \in Nat /\ k \in Nat
      /\ p.active \in 1 .. Len(p.segments) + 1 /\ k >= p.active
  BY DEF PlanShape, Runs, StopsAt
<1>2. PICK left \in DOMAIN p.calls : q.calls[left].status # "completed"
  BY RunShape DEF IsComplete
<1>3. k \in DOMAIN p.segments
  <2>1. PICK m \in k .. Len(p.segments) : left \in p.segments[m]
    BY <1>2, LeftIsAhead
  <2> QED
    BY <1>1
<1>4. PICK i \in p.segments[k] : p.calls[i].status # "completed" /\ i \notin Refused(p, k, tracked)
  BY <1>3 DEF Runs, StopsAt, PassedOver
<1>5. /\ \A j \in p.segments[k] : j \in DOMAIN p.calls /\ j \in Nat
      /\ IsFiniteSet(p.segments[k])
  BY <1>3, FS_Subset DEF PlanShape
<1>6. \A j \in DOMAIN p.calls : p.calls[j].status = "submitted" => q.calls[j].status = "submitted"
  <2>1. \A j \in DOMAIN p.calls : p.calls[j].status = "submitted" =>
            j \notin Chosen(p, k, tracked) /\ j \notin Refusals(p, k, tracked)
    BY ChoiceFacts DEF IsOpen
  <2> QED
    BY <2>1, CallAfter
<1>7. \A j \in Prepared(p, k, tracked) : j \in DOMAIN p.calls /\ q.calls[j].status = "submitted"
  <2>1. \A j \in Prepared(p, k, tracked) : j \in Chosen(p, k, tracked)
    BY <1>3 DEF Chosen
  <2>2. \A j \in Chosen(p, k, tracked) : j \in DOMAIN p.calls
    BY ChoiceFacts
  <2> QED
    BY <2>1, <2>2, CallAfter
<1>8. CASE p.calls[i].status = "submitted"
  BY <1>5, <1>6, <1>8
<1>9. CASE i \in Considered(p, k, tracked)
  <2>1. i \in Prepared(p, k, tracked)
    BY <1>4, <1>9 DEF Prepared, Refused
  <2> QED
    BY <1>7, <2>1
<1>10. CASE p.calls[i].status # "submitted" /\ i \notin Considered(p, k, tracked)
  <2>1. IsOpen(p.calls[i])
    BY <1>4, <1>5, <1>10 DEF PlanShape, CallShape, IsOpen
  <2>2. p.calls[i].sess \in ResourcesBefore(p, k, i, tracked)
    BY <1>10, <2>1 DEF Considered, Busy
  <2>3. CASE p.calls[i].sess \in SubmittedResources(p.calls)
    <3>1. PICK j \in DOMAIN p.calls : p.calls[j].status = "submitted"
      BY <2>3 DEF SubmittedResources
    <3> QED
      BY <1>6, <3>1
  <2>4. CASE p.calls[i].sess \notin SubmittedResources(p.calls)
    <3> DEFINE Sharers == {j \in p.segments[k] : /\ IsOpen(p.calls[j]) /\ CanPrepare(p.calls[j], tracked)
                                               /\ p.calls[j].sess = p.calls[i].sess}
    <3>1. Sharers # {} /\ p.calls[i].sess # NoSess
      BY <2>2, <2>4 DEF ResourcesBefore
    <3>2. Sharers \in SUBSET Nat /\ IsFiniteSet(Sharers)
      BY <1>5, FS_Subset
    <3>3. PICK j \in Sharers : \A m \in Sharers : j <= m
      <4> HIDE DEF Sharers
      <4> QED
        BY <3>1, <3>2, LeastExists
    <3>4. p.calls[j].sess \notin ResourcesBefore(p, k, j, tracked)
      <4>1. SUFFICES ASSUME NEW m \in p.segments[k], m < j, IsOpen(p.calls[m]),
                            CanPrepare(p.calls[m], tracked), p.calls[m].sess = p.calls[j].sess
                     PROVE  FALSE
        BY <2>4 DEF ResourcesBefore
      <4>2. m \in Sharers
        BY <4>1
      <4>3. j <= m /\ j \in Nat /\ m \in Nat
        BY <3>2, <3>3, <4>2
      <4> QED
        BY <4>1, <4>3
    <3>5. j \in Prepared(p, k, tracked)
      BY <3>4 DEF Prepared, Considered, Busy
    <3> QED
      BY <1>7, <3>5
  <2> QED
    BY <2>3, <2>4
<1> QED
  BY <1>8, <1>9, <1>10

\* What schedule_ready does with a plan.
LEMMA RunFacts ==
    ASSUME NEW p, NEW tracked, NEW known, NEW done, PlanReady(p, tracked, known, done),
           Tracks(tracked, known), NEW s, s = Schedule(p, tracked),
           NEW q, q = Submit(s.plan, s.prepared, tracked)
    PROVE  /\ PlanReady(q, tracked, known, done) /\ PlanWaits(q, known)
           /\ q.assistant = p.assistant /\ DOMAIN q.calls = DOMAIN p.calls
           /\ s.prepared \subseteq DOMAIN p.calls
           /\ \A i \in DOMAIN p.calls :
                /\ q.calls[i].status = "submitted" <=>
                     p.calls[i].status = "submitted" \/ i \in s.prepared
                /\ p.calls[i].status = "submitted" => q.calls[i] = p.calls[i]
           /\ \A i \in s.prepared : q.calls[i].op \notin done
           /\ ~IsComplete(q) => \E i \in DOMAIN q.calls : q.calls[i].status = "submitted"
<1>0. /\ PlanShape(p) /\ PlanOrder(p) /\ PlanSessions(p, tracked, known)
      /\ PlanNames(p) /\ PlanWork(p, done)
  BY DEF PlanReady
<1>1. PICK k : StopsAt(p, k, tracked) /\ s = Arrive(p, k, tracked)
  BY <1>0, ScheduleStops
<1>2. s.prepared = Chosen(p, k, tracked) /\ Runs(p, k, tracked, q)
  BY <1>0, <1>1, PlanAfter DEF Runs
<1>3. PlanReady(q, tracked, known, done)
  <2>1. PlanShape(q)
    BY <1>0, <1>2, RunShape
  <2>2. PlanOrder(q)
    BY <1>0, <1>2, RunOrder
  <2>3. PlanSessions(q, tracked, known)
    BY <1>0, <1>2, RunSessions
  <2>4. PlanNames(q) /\ PlanWork(q, done)
    BY <1>0, <1>2, RunNames
  <2> QED
    BY <2>1, <2>2, <2>3, <2>4 DEF PlanReady
<1>4. PlanWaits(q, known)
  BY <1>0, <1>2, RunWaits
<1>5. q.assistant = p.assistant /\ DOMAIN q.calls = DOMAIN p.calls
  BY <1>0, <1>2, RunShape
<1>6. s.prepared \subseteq DOMAIN p.calls
  BY <1>0, <1>2, ChoiceFacts
<1>7. ASSUME NEW i \in DOMAIN p.calls
      PROVE  /\ q.calls[i].status = "submitted" <=>
                  p.calls[i].status = "submitted" \/ i \in s.prepared
             /\ p.calls[i].status = "submitted" => q.calls[i] = p.calls[i]
  <2>1. p.calls[i].status = "submitted" =>
            i \notin Chosen(p, k, tracked) /\ i \notin Refusals(p, k, tracked)
    BY <1>0, ChoiceFacts DEF IsOpen
  <2>2. p.calls[i].status = "submitted" => q.calls[i] = p.calls[i]
    BY <1>2, <2>1 DEF Runs
  <2>3. i \in s.prepared => q.calls[i].status = "submitted"
    BY <1>0, <1>2, CallAfter
  <2>4. i \notin s.prepared /\ q.calls[i].status = "submitted" => p.calls[i].status = "submitted"
    BY <1>0, <1>2, CallAfter
  <2> QED
    BY <2>2, <2>3, <2>4
<1>8. \A i \in s.prepared : q.calls[i].op \notin done
  BY <1>0, <1>2, RunNames
<1>9. ~IsComplete(q) => \E i \in DOMAIN q.calls : q.calls[i].status = "submitted"
  BY <1>0, <1>2, <1>5, RunGoesOn
<1> QED
  BY <1>3, <1>4, <1>5, <1>6, <1>7, <1>8, <1>9

-----------------------------------------------------------------------------
(* tool_plan::parse and advance_completed_segments.                        *)

\* build_segments puts every pending call in a segment.
LEMMA SegmentsFacts ==
    ASSUME NEW calls, DOMAIN calls \subseteq Nat, IsFiniteSet(DOMAIN calls)
    PROVE  LET segments == BuildSegments(calls) IN
           /\ segments \in Seq(SUBSET DOMAIN calls)
           /\ \A i \in DOMAIN calls : calls[i].status = "pending" =>
                \E k \in 1 .. Len(segments) : i \in segments[k]
<1> DEFINE queued == {i \in DOMAIN calls : calls[i].status = "pending"}
           Earlier(i) == {j \in queued : j < i}
           Opens(i) == \/ Earlier(i) = {}
                       \/ ~ParallelSafe(calls[i].tool)
                       \/ ~ParallelSafe(calls[Max(Earlier(i))].tool)
           All == {j \in queued : Opens(j)}
           Opened(i) == {j \in queued : j <= i /\ Opens(j)}
           n == Cardinality(All)
           Seg(k) == {i \in queued : Cardinality(Opened(i)) = k}
<1>1. BuildSegments(calls) = [k \in 1 .. n |-> Seg(k)]
  BY DEF BuildSegments
<1>2. queued \in SUBSET Nat /\ IsFiniteSet(queued) /\ queued \subseteq DOMAIN calls
  BY FS_Subset
<1>3. IsFiniteSet(All) /\ n \in Nat
  <2>1. All \subseteq queued
    OBVIOUS
  <2> HIDE DEF All, queued
  <2> QED
    BY <1>2, <2>1, FS_Subset, FS_CardinalityType
<1>4. ASSUME NEW i \in queued
      PROVE  Cardinality(Opened(i)) \in 1 .. n
  <2>1. Opened(i) \subseteq All
    OBVIOUS
  <2>2. PICK m \in queued : \A j \in queued : m <= j
    <3> HIDE DEF queued
    <3> QED
      BY <1>2, <1>4, LeastExists
  <2>3. Opens(m)
    <3>1. \A j \in queued : ~(j < m)
      <4>1. \A j \in queued : j \in Nat /\ m \in Nat
        BY <1>2
      <4> QED
        BY <2>2, <4>1
    <3>2. Earlier(m) = {}
      BY <3>1
    <3> QED
      BY <3>2
  <2>4. m \in Opened(i)
    BY <2>2, <2>3
  <2> HIDE DEF Opened, All
  <2>5. IsFiniteSet(Opened(i)) /\ Cardinality(Opened(i)) <= n
    BY <1>3, <2>1, FS_Subset
  <2>6. Cardinality(Opened(i)) \in Nat /\ Cardinality(Opened(i)) # 0
    BY <2>4, <2>5, FS_CardinalityType, FS_EmptySet
  <2> QED
    BY <1>3, <2>5, <2>6
<1>5. \A k : Seg(k) \in SUBSET DOMAIN calls
  OBVIOUS
<1>6. \A i \in queued : i \in Seg(Cardinality(Opened(i)))
  OBVIOUS
<1> HIDE DEF n, Seg, Opened
<1>7. [k \in 1 .. n |-> Seg(k)] \in Seq(SUBSET DOMAIN calls) /\ Len([k \in 1 .. n |-> Seg(k)]) = n
  BY <1>3, <1>5
<1>8. ASSUME NEW i \in queued
      PROVE  \E k \in 1 .. n : i \in Seg(k)
  BY <1>4, <1>6
<1>9. PICK segments : segments = [k \in 1 .. n |-> Seg(k)]
  OBVIOUS
<1>10. segments \in Seq(SUBSET DOMAIN calls) /\ Len(segments) = n
  BY <1>7, <1>9
<1>11. ASSUME NEW i \in DOMAIN calls, calls[i].status = "pending"
       PROVE  \E k \in 1 .. Len(segments) : i \in segments[k]
  <2>1. i \in queued
    BY <1>11
  <2>2. PICK k \in 1 .. n : i \in Seg(k)
    BY <1>8, <2>1
  <2>3. segments[k] = Seg(k)
    BY <1>9
  <2> QED
    BY <1>10, <2>2, <2>3
<1>12. BuildSegments(calls) = segments
  BY <1>1, <1>9
<1> QED
  BY <1>10, <1>11, <1>12

\* A call as it was asked for.
IsAsked(c) ==
    /\ c.tool \in Tools /\ c.sess \in Nat /\ c.args \in {"ok", "schema", "prepare"}
    /\ c.tool # "write_stdin" => c.sess = NoSess

\* A parsed call is pending or completed, at the first step of its tool.
LEMMA ParsedCallFacts ==
    ASSUME NEW c, IsAsked(c)
    PROVE  CallShape(ParsedCall(c)) /\ ParsedCall(c).status \in {"pending", "completed"}
<1>1. PICK st : st = IF c.args = "schema" THEN "completed" ELSE "pending"
  OBVIOUS
<1>2. PICK step : step = FirstStep(c.tool)
  OBVIOUS
<1>3. PICK d : d = ParsedCall(c)
  OBVIOUS
<1>4. d = [tool |-> c.tool, sess |-> c.sess, args |-> c.args, step |-> step,
           pages |-> 0, op |-> None, proc |-> None, status |-> st]
  BY <1>1, <1>2, <1>3 DEF ParsedCall
<1>5. IsCall(d) /\ d.tool = c.tool /\ d.sess = c.sess /\ d.args = c.args /\ d.step = step
      /\ d.pages = 0 /\ d.status = st
  BY <1>4 DEF IsCall
<1>6. step \in ExecutionKinds /\ (IsShell(c.tool) <=> step \in ProcessKinds)
  BY <1>2 DEF IsAsked, Tools, FirstStep, ExecutionKinds, ProcessKinds, IsShell
<1>7. ~IsShell(c.tool) => c.sess = NoSess
  BY DEF IsAsked, IsShell
<1> QED
  BY <1>1, <1>2, <1>3, <1>5, <1>6, <1>7 DEF CallShape, IsAsked

\* tool_plan::parse makes a plan that schedule_ready may be called with.
LEMMA ParseFacts ==
    ASSUME NEW n \in Nat, NEW asked \in Plans, NEW tracked, NEW known, NEW done,
           \A x \in done : x[2][1] # n, NEW p, p = ParsePlan(n, asked)
    PROVE  /\ PlanReady(p, tracked, known, done) /\ p.assistant = n
           /\ \A i \in DOMAIN p.calls : p.calls[i].status # "submitted"
<1>1. /\ asked \in Seq([tool : Tools, sess : Nat, args : {"ok", "schema", "prepare"}])
      /\ \A i \in DOMAIN asked : IsAsked(asked[i])
  <2> DEFINE Asked == [tool : Tools, sess : Nat, args : {"ok", "schema", "prepare"}]
  <2>1. asked \in Seq(Asked)
    BY PlansAssumption DEF PlansAssumption
  <2>2. ASSUME NEW i \in DOMAIN asked
        PROVE  IsAsked(asked[i])
    <3>1. asked[i] \in Asked
      <4> HIDE DEF Asked
      <4> QED
        BY <2>1
    <3>2. asked[i].tool # "write_stdin" => asked[i].sess = NoSess
      BY PlansAssumption DEF PlansAssumption
    <3> QED
      BY <3>1, <3>2 DEF IsAsked
  <2> QED
    BY <2>1, <2>2
<1> DEFINE calls == [i \in DOMAIN asked |-> ParsedCall(asked[i])]
<1>2. p = [assistant |-> n, calls |-> calls, segments |-> BuildSegments(calls), active |-> 1]
  BY DEF ParsePlan
<1>3. DOMAIN calls = 1 .. Len(asked) /\ Len(asked) \in Nat
  BY <1>1
<1>4. DOMAIN calls \subseteq Nat /\ IsFiniteSet(DOMAIN calls) /\ IsFunction(calls)
  <2>1. IsFiniteSet(1 .. Len(asked))
    BY <1>3, FS_Interval
  <2>2. IsFunction(calls)
    BY DEF IsFunction
  <2> HIDE DEF calls
  <2> QED
    BY <1>3, <2>1, <2>2
<1>5. \A i \in DOMAIN calls : CallShape(calls[i]) /\ calls[i].status \in {"pending", "completed"}
  BY <1>1, ParsedCallFacts
<1> HIDE DEF calls
<1>6. PICK segments : segments = BuildSegments(calls)
  OBVIOUS
<1>7. /\ segments \in Seq(SUBSET DOMAIN calls)
      /\ \A i \in DOMAIN calls : calls[i].status = "pending" =>
           \E k \in 1 .. Len(segments) : i \in segments[k]
  BY <1>4, <1>6, SegmentsFacts
<1>8. IsPlan(p) /\ p.assistant = n /\ p.calls = calls /\ p.segments = segments /\ p.active = 1
  BY <1>2, <1>6 DEF IsPlan
<1>9. PlanShape(p)
  BY <1>4, <1>5, <1>7, <1>8 DEF PlanShape
<1>10. PlanOrder(p)
  BY <1>5, <1>7, <1>8 DEF PlanOrder, InUse
<1>11. PlanSessions(p, tracked, known)
  BY <1>5, <1>8 DEF PlanSessions, InUse
<1>12. PlanNames(p)
  BY <1>5, <1>8 DEF PlanNames
<1>13. PlanWork(p, done)
  <2>1. ASSUME NEW x \in done, NEW i, x[2] = <<n, i>>
        PROVE  FALSE
    BY <2>1
  <2> QED
    BY <1>8, <2>1 DEF PlanWork
<1> QED
  BY <1>5, <1>8, <1>9, <1>10, <1>11, <1>12, <1>13 DEF PlanReady

\* Plan q is p with call i answered by d, and the complete segments passed.
Answers(p, i, d, q) ==
    /\ IsPlan(q) /\ q.assistant = p.assistant /\ q.segments = p.segments
    /\ IsFunction(q.calls) /\ DOMAIN q.calls = DOMAIN p.calls
    /\ q.calls[i] = d
    /\ \A j \in DOMAIN p.calls : j # i => q.calls[j] = p.calls[j]
    /\ q.active \in p.active .. Len(p.segments) + 1
    /\ \A k \in p.active .. q.active - 1 : SegmentComplete(q, k)

\* What apply_response may make of a submitted call c, given the sessions handed out.
Continues(c, d, known) ==
    /\ CallShape(d)
    /\ d.status \in {"ready", "completed"}
    /\ d.sess = c.sess \/ d.sess = known
    /\ d.status = "ready" =>
         \/ c.step \in ProcessKinds /\ d.step = "observe"
         \/ c.step = "read" /\ d.step = "mutate"
         \/ c.step = "mutate" /\ d.step = "reconcile"

\* Setting a call and advancing.
LEMMA AdvanceAfter ==
    ASSUME NEW p, PlanShape(p), NEW i \in DOMAIN p.calls, NEW d, CallShape(d),
           NEW q, q = AdvanceCompletedSegments([p EXCEPT !.calls[i] = d])
    PROVE  Answers(p, i, d, q)
<1> DEFINE calls == [p.calls EXCEPT ![i] = d]
<1>1. PICK r : r = [p EXCEPT !.calls[i] = d]
  OBVIOUS
<1>2. r = [assistant |-> p.assistant, calls |-> calls, segments |-> p.segments, active |-> p.active]
  <2>1. r = [p EXCEPT !.calls = calls]
    BY <1>1 DEF PlanShape, IsPlan
  <2> HIDE DEF calls
  <2> QED
    BY <2>1, PlanExcept DEF PlanShape
<1>3. /\ DOMAIN calls = DOMAIN p.calls /\ IsFunction(calls) /\ calls[i] = d
      /\ \A j \in DOMAIN p.calls : j # i => calls[j] = p.calls[j]
  BY DEF IsFunction, PlanShape
<1> HIDE DEF calls
<1>4. IsPlan(r) /\ r.assistant = p.assistant /\ r.calls = calls /\ r.segments = p.segments
      /\ r.active = p.active
  BY <1>2 DEF IsPlan
<1>5. PlanShape(r)
  BY <1>3, <1>4 DEF PlanShape
<1>6. /\ q = [assistant |-> r.assistant, calls |-> r.calls, segments |-> r.segments,
              active |-> q.active]
      /\ q.active \in r.active .. Len(r.segments) + 1
      /\ \A j \in r.active .. q.active - 1 : SegmentComplete(r, j)
  BY <1>1, <1>5, AdvanceFacts
<1>7. IsPlan(q) /\ q.assistant = p.assistant /\ q.calls = calls /\ q.segments = p.segments
  BY <1>4, <1>6 DEF IsPlan
<1>8. \A j \in p.active .. q.active - 1 : SegmentComplete(q, j)
  BY <1>4, <1>6, <1>7 DEF SegmentComplete
<1> QED
  BY <1>3, <1>4, <1>6, <1>7, <1>8 DEF Answers

\* An answered call leaves a well-formed plan (advance_completed_segments moves the
\* active segment within the plan).
LEMMA AnswerShape ==
    ASSUME NEW p, PlanShape(p), NEW i \in DOMAIN p.calls, NEW d, CallShape(d),
           NEW q, Answers(p, i, d, q)
    PROVE  PlanShape(q)
<1>1. \A j \in DOMAIN q.calls : CallShape(q.calls[j])
  BY DEF Answers, PlanShape
<1>2. q.active \in 1 .. Len(q.segments) + 1
  BY DEF Answers, PlanShape
<1> QED
  BY <1>1, <1>2 DEF Answers, PlanShape

\* The answer keeps the order: a fresh session is named by no other call of the segment.
LEMMA AnswerOrder ==
    ASSUME NEW p, PlanShape(p), PlanOrder(p), NEW tracked, NEW known \in Nat,
           PlanSessions(p, tracked, known), PlanWaits(p, known),
           NEW i \in DOMAIN p.calls, p.calls[i].status = "submitted",
           NEW d, Continues(p.calls[i], d, known), NEW q, Answers(p, i, d, q)
    PROVE  PlanOrder(q)
<1>1. /\ Len(p.segments) \in Nat /\ DOMAIN p.segments = 1 .. Len(p.segments)
      /\ p.active \in 1 .. Len(p.segments) + 1 /\ q.active \in p.active .. Len(p.segments) + 1
      /\ q.segments = p.segments /\ DOMAIN q.calls = DOMAIN p.calls
  BY DEF PlanShape, Answers
<1>2. \A j \in DOMAIN p.calls : q.calls[j].status # "completed" => p.calls[j].status # "completed"
  BY DEF Answers
<1>3. \A j \in DOMAIN p.calls : InUse(q.calls[j]) => InUse(p.calls[j])
  BY DEF Answers, InUse
<1>4. \A k \in 1 .. q.active - 1 : SegmentComplete(q, k)
  <2> SUFFICES ASSUME NEW k \in 1 .. q.active - 1
               PROVE  SegmentComplete(q, k)
    OBVIOUS
  <2>1. CASE k >= p.active
    BY <1>1, <2>1 DEF Answers
  <2>2. CASE k < p.active
    <3>1. SegmentComplete(p, k)
      BY <1>1, <2>2 DEF PlanOrder
    <3>2. p.segments[k] \subseteq DOMAIN p.calls
      BY <1>1 DEF PlanShape
    <3> QED
      BY <1>1, <1>2, <3>1, <3>2 DEF SegmentComplete
  <2> QED
    BY <1>1, <2>1, <2>2
<1>5. ASSUME NEW j \in DOMAIN p.calls, q.calls[j].status # "completed"
      PROVE  \E k \in q.active .. Len(p.segments) : j \in p.segments[k]
  <2>1. PICK k \in p.active .. Len(p.segments) : j \in p.segments[k]
    BY <1>2, <1>5 DEF PlanOrder
  <2>2. k >= q.active
    <3>1. ~SegmentComplete(q, k)
      BY <1>1, <1>5, <2>1 DEF SegmentComplete
    <3> QED
      BY <1>1, <1>4, <3>1
  <2> QED
    BY <1>1, <2>1, <2>2
<1>6. ASSUME NEW j \in DOMAIN p.calls, InUse(q.calls[j])
      PROVE  /\ q.active = p.active
             /\ p.active \in DOMAIN p.segments /\ j \in p.segments[p.active]
             /\ \A m \in p.segments[p.active] :
                  m < j /\ q.calls[m].sess = q.calls[j].sess /\ q.calls[j].sess # NoSess =>
                      q.calls[m].status = "completed"
  <2>1. InUse(p.calls[j])
    BY <1>3, <1>6
  <2>2. /\ p.active \in DOMAIN p.segments /\ j \in p.segments[p.active]
        /\ \A m \in p.segments[p.active] :
             m < j /\ p.calls[m].sess = p.calls[j].sess /\ p.calls[j].sess # NoSess =>
                 p.calls[m].status = "completed"
        /\ p.calls[j].sess < known
    BY <2>1 DEF PlanOrder, PlanSessions
  <2>3. q.active = p.active
    <3>1. ~SegmentComplete(q, p.active)
      BY <1>1, <1>6, <2>2 DEF SegmentComplete, InUse
    <3> QED
      BY <1>1, <1>4, <3>1
  <2>4. ASSUME NEW m \in p.segments[p.active], m < j, q.calls[m].sess = q.calls[j].sess,
               q.calls[j].sess # NoSess, q.calls[m].status # "completed"
        PROVE  FALSE
    <3>1. m \in DOMAIN p.calls /\ m \in Nat /\ j \in Nat /\ m # j
      BY <2>2, <2>4 DEF PlanShape
    <3>2. CallShape(p.calls[m]) /\ p.calls[m].status # "completed"
      BY <1>2, <2>4, <3>1 DEF PlanShape
    <3>3. p.calls[m].sess < known
      <4>1. CASE InUse(p.calls[m])
        BY <3>1, <4>1 DEF PlanSessions
      <4>2. CASE p.calls[m].status = "pending"
        BY <2>2, <3>1, <4>2 DEF PlanWaits
      <4> QED
        BY <3>2, <4>1, <4>2 DEF CallShape, InUse
    <3>4. p.calls[m].sess \in Nat /\ p.calls[j].sess \in Nat
      BY <3>1 DEF PlanShape, CallShape
    <3>5. q.calls[j].sess = p.calls[j].sess \/ (j = i /\ q.calls[j].sess = known)
      BY DEF Answers, Continues
    <3>6. q.calls[m].sess = p.calls[m].sess \/ (m = i /\ q.calls[m].sess = known)
      BY <3>1 DEF Answers, Continues
    <3>7. p.calls[m].sess = p.calls[j].sess /\ p.calls[j].sess # NoSess
      BY <2>2, <2>4, <3>1, <3>3, <3>4, <3>5, <3>6
    <3> QED
      BY <2>2, <2>4, <3>2, <3>7
  <2> QED
    BY <2>2, <2>3, <2>4
<1> QED
  BY <1>1, <1>4, <1>5, <1>6 DEF PlanOrder

\* The sessions after the answer: only the call's own may have changed hands.
LEMMA AnswerSessions ==
    ASSUME NEW p, PlanShape(p), PlanOrder(p), NEW tracked, NEW known \in Nat,
           PlanSessions(p, tracked, known),
           NEW i \in DOMAIN p.calls, p.calls[i].status = "submitted",
           NEW d, Continues(p.calls[i], d, known), NEW q, Answers(p, i, d, q),
           NEW tracked2, NEW known2 \in Nat, known <= known2,
           \A x \in tracked2 : x \in tracked \/ x.sess = d.sess,
           \A x \in tracked2 : x.sess # NoSess,
           d.status = "ready" => d.sess < known2,
           d.status = "ready" => \A x \in tracked2 : x.sess = d.sess => x.proc = d.proc
    PROVE  PlanSessions(q, tracked2, known2)
<1> SUFFICES ASSUME NEW j \in DOMAIN p.calls, InUse(q.calls[j])
             PROVE  /\ q.calls[j].sess < known2
                    /\ \A x \in tracked2 : x.sess = q.calls[j].sess => x.proc = q.calls[j].proc
  BY DEF PlanSessions, Answers
<1>1. CASE j = i
  BY <1>1 DEF Answers, Continues, InUse
<1>2. CASE j # i
  <2>1. q.calls[j] = p.calls[j]
    BY <1>2 DEF Answers
  <2>2. /\ InUse(p.calls[j]) /\ InUse(p.calls[i])
        /\ p.calls[j].sess < known /\ p.calls[j].sess \in Nat /\ i \in Nat /\ j \in Nat
        /\ \A x \in tracked : x.sess = p.calls[j].sess => x.proc = p.calls[j].proc
    BY <2>1 DEF PlanSessions, InUse, PlanShape, CallShape
  <2>3. ASSUME NEW x \in tracked2, x.sess = p.calls[j].sess
        PROVE  x \in tracked
    <3>1. SUFFICES ASSUME d.sess = p.calls[j].sess, d.sess # NoSess
                   PROVE  FALSE
      BY <2>3
    <3>2. p.calls[i].sess = p.calls[j].sess
      BY <2>2, <3>1 DEF Continues
    <3>3. i \in p.segments[p.active] /\ j \in p.segments[p.active]
      BY <2>2 DEF PlanOrder
    <3>4. CASE i < j
      BY <2>2, <3>1, <3>2, <3>3, <3>4 DEF PlanOrder, InUse
    <3>5. CASE j < i
      BY <2>2, <3>1, <3>2, <3>3, <3>5 DEF PlanOrder, InUse
    <3> QED
      BY <1>2, <2>2, <3>4, <3>5
  <2> QED
    BY <2>1, <2>2, <2>3
<1> QED
  BY <1>1, <1>2

\* The answered call is past the step whose work is done.
LEMMA AnswerNames ==
    ASSUME NEW p, PlanShape(p), PlanNames(p), NEW done, PlanWork(p, done), NEW known,
           NEW i \in DOMAIN p.calls, p.calls[i].status = "submitted",
           NEW d, Continues(p.calls[i], d, known), NEW q, Answers(p, i, d, q),
           NEW done2, \A x \in done2 : x \in done \/ (x = p.calls[i].op /\ x[1] \in WorkKinds)
    PROVE  PlanNames(q) /\ PlanWork(q, done2)
<1>1. PlanNames(q)
  <2> SUFFICES ASSUME NEW j \in DOMAIN p.calls, q.calls[j].status = "submitted"
               PROVE  LET c == q.calls[j] IN
                      /\ c.op = <<c.step, <<p.assistant, j>>, c.pages, c.op[4]>>
                      /\ c.proc = IF c.step = "start" THEN c.op ELSE c.op[4]
    BY DEF PlanNames, Answers
  <2>1. j # i
    BY DEF Answers, Continues
  <2>2. q.calls[j] = p.calls[j]
    BY <2>1 DEF Answers
  <2> QED
    BY <2>2 DEF PlanNames
<1>2. ASSUME NEW x \in done2, NEW j \in DOMAIN p.calls, x[2] = <<p.assistant, j>>
      PROVE  \/ q.calls[j].status = "completed"
             \/ x[1] \in {"start", "interact"} /\ q.calls[j].step = "observe"
             \/ x[1] = "mutate" /\ q.calls[j].step = "reconcile"
  <2>1. CASE x \in done /\ j # i
    BY <1>2, <2>1 DEF PlanWork, Answers
  <2>2. CASE x \in done /\ j = i
    <3>1. \/ x[1] \in {"start", "interact"} /\ p.calls[i].step = "observe"
          \/ x[1] = "mutate" /\ p.calls[i].step = "reconcile"
      BY <1>2, <2>2 DEF PlanWork
    <3> QED
      BY <2>2, <3>1 DEF Answers, Continues, ProcessKinds
  <2>3. CASE x \notin done
    <3>1. x = p.calls[i].op /\ x[1] \in WorkKinds
      BY <2>3
    <3>2. x[1] = p.calls[i].step /\ x[2] = <<p.assistant, i>>
      BY <3>1 DEF PlanNames
    <3>3. i = j
      BY <1>2, <3>2
    <3> QED
      BY <3>1, <3>2, <3>3 DEF Answers, Continues, WorkKinds, ProcessKinds
  <2> QED
    BY <2>1, <2>2, <2>3
<1> QED
  BY <1>1, <1>2 DEF PlanWork, Answers

-----------------------------------------------------------------------------
(* Steps of a live session.                                                *)

\* A well-formed call has the types of ToolCallState.
LEMMA CallTyped ==
    ASSUME NEW c, CallShape(c)
    PROVE  [f \in {"tool", "args", "step", "status"} |-> c[f]] \in CallType
<1>1. /\ c["tool"] \in Tools /\ c["args"] \in {"ok", "schema", "prepare"}
      /\ c["step"] \in ExecutionKinds
      /\ c["status"] \in {"pending", "ready", "submitted", "completed"}
  BY DEF CallShape
<1> QED
  BY <1>1 DEF CallType

\* The tracked sessions, and the processes an outcome reported active.
SessionsHold ==
    /\ SessionInv /\ ToldInv
    /\ executions \subseteq [sess : 1 .. nextSess - 1, proc : launched]

\* A step that leaves the tracked sessions and the machine alone keeps what holds of them.
LEMMA SessionsStay ==
    ASSUME IndInv, UNCHANGED <<executions, nextSess, told, launched, running, cancel>>
    PROVE  SessionsHold'
<1>1. SessionsHold
  BY DEF IndInv, OperationsAreAwaited, TypeOK, SessionsHold
<1> QED
  BY <1>1 DEF SessionsHold, SessionInv, ToldInv

\* What is staged, and what counts as done, when one request replaces what was open.
RequestStaged ==
    /\ requests' = requests + 1
    /\ open' = {Llm(requests + 1)}
    /\ status' = "running"
    /\ performed \subseteq performed'
    /\ \A x \in performed' : x \in performed \/ (x[1] \in WorkKinds /\ x[2][1] = requests)
    /\ \A x \in open : x[1] = "start" => x \in performed'

\* A live session that stages a model request and waits for it.
LEMMA LiveRequest ==
    ASSUME IndInv, Live, RequestStaged, SessionsHold',
           IsTurn(turn'), turn'.phase \in {"awaiting_llm", "compacting"},
           turn'.op = Llm(requests + 1),
           turn'.phase = "compacting" => history' = turn'.source,
           turn'.id \in 0 .. requests + 1, turn'.attempt \in 0 .. 2,
           turn'.retries \in 0 .. MaxLlmRetries, plan' = NoPlan,
           UNCHANGED <<cancel, failed, error, platform>>
    PROVE  IndInv'
<1>1. requests \in Nat /\ ~cancel.requested /\ ~failed /\ ~error /\ cancel = NoCancel
  BY DEF IndInv, TurnInv, CancelInv, CancelRecord, Live
<1>2. TurnInv'
  BY <1>1 DEF TurnInv, RequestStaged
<1>3. PlanInv'
  BY DEF PlanInv
<1>4. SessionInv' /\ ToldInv'
  BY DEF SessionsHold
<1>5. CancelInv'
  BY <1>1 DEF CancelInv
<1>6. ListingInv'
  BY DEF IndInv, ListingInv, platform
<1>7. (\A x \in performed' : x[1] \in WorkKinds) /\ (\A x \in launched : x[1] = "start")
      /\ (\A x \in performed : x[2][1] \in Nat /\ x[2][1] <= requests)
  BY <1>1 DEF IndInv, WorkInv, RequestStaged
<1>8. WorkIsNotRepeated'
  <2>1. Llm(requests + 1)[1] = "llm"
    BY DEF Llm
  <2> QED
    BY <1>7, <2>1 DEF WorkIsNotRepeated, RequestStaged, WorkKinds
<1>9. WorkInv'
  <2>1. ASSUME NEW x \in performed'
        PROVE  x[2][1] \in Nat /\ x[2][1] <= requests' /\ x[2][1] < requests'
    BY <1>1, <1>7, <2>1 DEF RequestStaged
  <2> QED
    BY <1>7, <1>8, <2>1 DEF WorkInv, platform
<1>10. TypeOK'
  <2>1. /\ running \subseteq launched /\ launched \subseteq open \cup performed
    BY DEF IndInv, OperationsAreAwaited, TypeOK
  <2>2. launched' \subseteq open' \cup performed' /\ running' \subseteq launched'
    BY <1>7, <2>1 DEF RequestStaged, platform
  <2>3. (plan # NoPlan)' = (turn'.phase = "executing_tools")
    OBVIOUS
  <2>4. \A i \in DOMAIN plan'.calls :
           [f \in {"tool", "args", "step", "status"} |-> plan'.calls[i][f]] \in CallType
    BY DEF NoPlan
  <2>5. executions' \subseteq [sess : 1 .. nextSess' - 1, proc : launched']
    BY DEF SessionsHold
  <2>6. cancel'.requested \in BOOLEAN /\ failed' \in BOOLEAN /\ error' \in BOOLEAN
    BY DEF IndInv, OperationsAreAwaited, TypeOK
  <2> QED
    BY <1>1, <2>2, <2>3, <2>4, <2>5, <2>6 DEF TypeOK, RequestStaged
<1>11. OperationsAreAwaited'
  <2>1. Live' /\ ~Cancelling' /\ ~failed'
    BY <1>1 DEF Live, Cancelling
  <2>2. InFlight' = {turn'.op}
    BY DEF InFlight
  <2> QED
    BY <1>10, <2>1, <2>2 DEF OperationsAreAwaited, RequestStaged
<1> QED
  BY <1>2, <1>3, <1>4, <1>5, <1>6, <1>9, <1>11 DEF IndInv

\* The one operation of a model phase completes.
LEMMA LlmDone ==
    ASSUME IndInv, NEW o, NEW phase \in {"awaiting_llm", "compacting"}, AwaitsLlm(o, phase),
           NEW new, Complete(o, new)
    PROVE  /\ Live /\ o = Llm(requests) /\ open = {o} /\ open' = new /\ performed' = performed
           /\ o[1] = "llm" /\ o[2] = requests /\ requests > 0
<1>1. Live /\ turn.phase = phase /\ turn.op = o
  BY DEF AwaitsLlm
<1>2. o = Llm(requests) /\ requests > 0
  BY <1>1 DEF IndInv, TurnInv
<1>3. o[1] = "llm" /\ o[2] = requests
  BY <1>2 DEF Llm
<1>4. open = {o}
  BY <1>1 DEF IndInv, OperationsAreAwaited, InFlight
<1>5. open' = new
  BY <1>4 DEF Complete
<1>6. performed' = performed
  BY <1>3 DEF Complete, WorkKinds
<1> QED
  BY <1>1, <1>2, <1>3, <1>4, <1>5, <1>6

\* A model request follows a completed one.
LEMMA RequestAfterLlm ==
    ASSUME IndInv, NEW o, NEW phase \in {"awaiting_llm", "compacting"}, AwaitsLlm(o, phase),
           RequestLlm(o)
    PROVE  Live /\ RequestStaged
<1>1. /\ Live /\ open = {o} /\ open' = {Llm(requests + 1)} /\ performed' = performed /\ o[1] = "llm"
  BY LlmDone DEF RequestLlm
<1> QED
  BY <1>1 DEF RequestStaged, RequestLlm

\* stage_after_boundary.
LEMMA Boundary ==
    ASSUME IndInv, Live, NEW o, NEW h, StageAfterBoundary(o, h), RequestStaged, SessionsHold'
    PROVE  IndInv'
<1>1. /\ IsTurn(turn) /\ requests \in Nat
      /\ turn.id \in 0 .. requests /\ turn.attempt \in 0 .. 2 /\ turn.retries \in 0 .. MaxLlmRetries
  BY DEF IndInv, TurnInv, OperationsAreAwaited, TypeOK
<1>2. /\ plan' = NoPlan
      /\ UNCHANGED <<cancel, failed, error, platform>>
  BY DEF StageAfterBoundary
<1>3. /\ IsTurn(turn') /\ turn'.phase \in {"awaiting_llm", "compacting"}
      /\ turn'.op = Llm(requests + 1)
      /\ turn'.phase = "compacting" => history' = turn'.source
      /\ turn'.id = turn.id /\ turn'.attempt \in {1, turn.attempt} /\ turn'.retries = turn.retries
  BY <1>1 DEF StageAfterBoundary, IsTurn
<1>4. turn'.id \in 0 .. requests + 1 /\ turn'.attempt \in 0 .. 2 /\ turn'.retries \in 0 .. MaxLlmRetries
  BY <1>1, <1>3
<1> QED
  BY <1>2, <1>3, <1>4, LiveRequest

\* A pause in the answer (handler.rs) stages the next request.
LEMMA LlmPausesStep ==
    ASSUME IndInv, NEW o, LlmPauses(o)
    PROVE  IndInv'
<1>1. /\ AwaitsLlm(o, "awaiting_llm") /\ RequestLlm(o) /\ StageAfterBoundary(o, Said(o))
      /\ UNCHANGED <<executions, nextSess, told, cancel, platform>>
  BY DEF LlmPauses, StageAfterBoundary
<1>2. Live /\ RequestStaged
  BY <1>1, RequestAfterLlm
<1>3. SessionsHold'
  BY <1>1, SessionsStay DEF platform
<1> QED
  BY <1>1, <1>2, <1>3, Boundary

\* A request whose outcome is unknown is staged once more.
LEMMA LlmUnknownStep ==
    ASSUME IndInv, NEW o, LlmUnknown(o)
    PROVE  IndInv'
<1>1. /\ AwaitsLlm(o, "awaiting_llm") /\ RequestLlm(o) /\ turn.retries < MaxLlmRetries
      /\ turn' = [turn EXCEPT !.op = Llm(requests + 1), !.retries = @ + 1]
      /\ UNCHANGED <<plan, history, executions, nextSess, told, cancel, failed, error, platform>>
  BY DEF LlmUnknown
<1>2. Live /\ RequestStaged
  BY <1>1, RequestAfterLlm
<1>3. SessionsHold'
  BY <1>1, SessionsStay DEF platform
<1>4. /\ IsTurn(turn) /\ requests \in Nat /\ turn.phase = "awaiting_llm" /\ plan = NoPlan
      /\ turn.id \in 0 .. requests /\ turn.attempt \in 0 .. 2 /\ turn.retries \in 0 .. MaxLlmRetries
  BY <1>1 DEF IndInv, TurnInv, OperationsAreAwaited, TypeOK, AwaitsLlm
<1>5. /\ IsTurn(turn') /\ turn'.phase = "awaiting_llm" /\ turn'.op = Llm(requests + 1)
      /\ turn'.id = turn.id /\ turn'.attempt = turn.attempt /\ turn'.retries = turn.retries + 1
  BY <1>1, <1>4 DEF IsTurn
<1>6. /\ turn'.id \in 0 .. requests + 1 /\ turn'.attempt \in 0 .. 2
      /\ turn'.retries \in 0 .. MaxLlmRetries
  BY <1>1, <1>4, <1>5 DEF MaxLlmRetries
<1> QED
  BY <1>1, <1>2, <1>3, <1>4, <1>5, <1>6, LiveRequest

\* A compaction request whose outcome is unknown is staged once more.
LEMMA CompactionUnknownStep ==
    ASSUME IndInv, NEW o, CompactionUnknown(o)
    PROVE  IndInv'
<1>1. /\ AwaitsLlm(o, "compacting") /\ RequestLlm(o) /\ turn.attempt < 2
      /\ turn' = [turn EXCEPT !.op = Llm(requests + 1), !.attempt = @ + 1]
      /\ UNCHANGED <<plan, history, executions, nextSess, told, cancel, failed, error, platform>>
  BY DEF CompactionUnknown
<1>2. Live /\ RequestStaged
  BY <1>1, RequestAfterLlm
<1>3. SessionsHold'
  BY <1>1, SessionsStay DEF platform
<1>4. /\ IsTurn(turn) /\ requests \in Nat /\ turn.phase = "compacting" /\ plan = NoPlan
      /\ turn.id \in 0 .. requests /\ turn.attempt \in 0 .. 2 /\ turn.retries \in 0 .. MaxLlmRetries
      /\ history = turn.source
  BY <1>1 DEF IndInv, TurnInv, OperationsAreAwaited, TypeOK, AwaitsLlm
<1>5. /\ IsTurn(turn') /\ turn'.phase = "compacting" /\ turn'.op = Llm(requests + 1)
      /\ turn'.id = turn.id /\ turn'.attempt = turn.attempt + 1 /\ turn'.retries = turn.retries
      /\ turn'.source = turn.source
  BY <1>1, <1>4 DEF IsTurn
<1>6. turn'.id \in 0 .. requests + 1 /\ turn'.attempt \in 0 .. 2 /\ turn'.retries \in 0 .. MaxLlmRetries
  BY <1>1, <1>4, <1>5
<1> QED
  BY <1>1, <1>2, <1>3, <1>4, <1>5, <1>6, LiveRequest

\* A compaction that succeeds stages the request it was done for.
LEMMA CompactionSucceedsStep ==
    ASSUME IndInv, NEW o, CompactionSucceeds(o)
    PROVE  IndInv'
<1>1. /\ AwaitsLlm(o, "compacting") /\ RequestLlm(o)
      /\ turn' = [turn EXCEPT !.phase = "awaiting_llm", !.op = Llm(requests + 1), !.attempt = 0,
                              !.input = <<>>, !.source = <<>>, !.steering = <<>>]
      /\ UNCHANGED <<plan, executions, nextSess, told, cancel, failed, error, platform>>
  BY DEF CompactionSucceeds
<1>2. Live /\ RequestStaged
  BY <1>1, RequestAfterLlm
<1>3. SessionsHold'
  BY <1>1, SessionsStay DEF platform
<1>4. /\ IsTurn(turn) /\ requests \in Nat /\ turn.phase = "compacting" /\ plan = NoPlan
      /\ turn.id \in 0 .. requests /\ turn.retries \in 0 .. MaxLlmRetries
  BY <1>1 DEF IndInv, TurnInv, OperationsAreAwaited, TypeOK, AwaitsLlm
<1>5. /\ IsTurn(turn') /\ turn'.phase = "awaiting_llm" /\ turn'.op = Llm(requests + 1)
      /\ turn'.id = turn.id /\ turn'.attempt = 0 /\ turn'.retries = turn.retries
  BY <1>1, <1>4 DEF IsTurn
<1>6. turn'.id \in 0 .. requests + 1 /\ turn'.attempt \in 0 .. 2 /\ turn'.retries \in 0 .. MaxLlmRetries
  BY <1>4, <1>5
<1> QED
  BY <1>1, <1>2, <1>3, <1>4, <1>5, <1>6, LiveRequest

\* Nothing is in flight between turns.
LEMMA IdleIsEmpty ==
    ASSUME IndInv, Live, turn.phase = "none"
    PROVE  plan = NoPlan /\ open = {}
<1>1. plan = NoPlan
  BY DEF IndInv, OperationsAreAwaited, TypeOK
<1>2. InFlight = {}
  BY <1>1 DEF InFlight, NoPlan
<1> QED
  BY <1>1, <1>2 DEF IndInv, OperationsAreAwaited

\* handle_user_message on an idle session stages a request, or a compaction's.
LEMMA StartTurnStep ==
    ASSUME IndInv, StartTurn
    PROVE  IndInv'
<1> DEFINE opened == [NoTurn EXCEPT !.id = requests + 1, !.op = Llm(requests + 1)]
<1>1. /\ Live /\ turn.phase = "none" /\ RequestLlm(None)
      /\ UNCHANGED <<plan, executions, nextSess, told, cancel, failed, error, platform>>
      /\ \/ /\ turn' = [opened EXCEPT !.phase = "compacting", !.attempt = 1,
                                      !.input = <<NextMessage>>, !.source = history]
            /\ history' = history
         \/ turn' = [opened EXCEPT !.phase = "awaiting_llm"]
  BY DEF StartTurn
<1>2. plan = NoPlan /\ open = {}
  BY <1>1, IdleIsEmpty
<1>3. RequestStaged
  <2>1. open' = {Llm(requests + 1)} /\ performed' = performed
    BY <1>1, <1>2 DEF RequestLlm, Complete
  <2> QED
    BY <1>1, <1>2, <2>1 DEF RequestStaged, RequestLlm
<1>4. SessionsHold'
  BY <1>1, SessionsStay DEF platform
<1>5. requests \in Nat
  BY DEF IndInv, TurnInv
<1>6. IsTurn(opened) /\ opened.id = requests + 1 /\ opened.op = Llm(requests + 1)
      /\ opened.attempt = 0 /\ opened.retries = 0
  BY DEF NoTurn, IsTurn
<1> HIDE DEF opened
<1>7. /\ IsTurn(turn') /\ turn'.phase \in {"awaiting_llm", "compacting"}
      /\ turn'.op = Llm(requests + 1)
      /\ turn'.phase = "compacting" => history' = turn'.source
      /\ turn'.id = requests + 1 /\ turn'.attempt \in {0, 1} /\ turn'.retries = 0
  BY <1>1, <1>6 DEF IsTurn
<1>8. turn'.id \in 0 .. requests + 1 /\ turn'.attempt \in 0 .. 2 /\ turn'.retries \in 0 .. MaxLlmRetries
  BY <1>5, <1>7 DEF MaxLlmRetries
<1> QED
  BY <1>1, <1>2, <1>3, <1>4, <1>7, <1>8, LiveRequest

\* handle_user_message while a turn runs only queues the message.
LEMMA SteerStep ==
    ASSUME IndInv, Steer
    PROVE  IndInv'
<1>1. /\ Live
      /\ turn' = [turn EXCEPT !.steering = Append(@, NextMessage)]
      /\ UNCHANGED <<plan, history, executions, nextSess, cancel, failed, status, error,
                     requests, open, performed, told, platform>>
  BY DEF Steer
<1>2. /\ IsTurn(turn') /\ turn'.phase = turn.phase /\ turn'.op = turn.op
      /\ turn'.source = turn.source /\ turn'.id = turn.id /\ turn'.attempt = turn.attempt
      /\ turn'.retries = turn.retries
  BY <1>1 DEF IndInv, TurnInv, IsTurn
<1>3. TurnInv' /\ PlanInv'
  BY <1>1, <1>2 DEF IndInv, TurnInv, PlanInv, PlanReady, PlanShape, PlanOrder, PlanSessions,
                    PlanNames, PlanWork, PlanWaits, SegmentComplete
<1>4. SessionInv' /\ ToldInv' /\ CancelInv' /\ ListingInv'
  BY <1>1 DEF IndInv, SessionInv, ToldInv, CancelInv, CancelRecord, Live, ListingInv, platform
<1>5. WorkInv'
  BY <1>1, <1>2 DEF IndInv, WorkInv, WorkIsNotRepeated, platform
<1>6. TypeOK'
  BY <1>1, <1>2 DEF IndInv, OperationsAreAwaited, TypeOK, platform
<1>7. InFlight' = InFlight
  BY <1>1, <1>2 DEF InFlight
<1>8. OperationsAreAwaited'
  BY <1>1, <1>6, <1>7 DEF IndInv, OperationsAreAwaited, Live, Cancelling
<1> QED
  BY <1>3, <1>4, <1>5, <1>8 DEF IndInv

\* A turn ends, well or with the failure of its session.
LEMMA TurnOver ==
    ASSUME IndInv, NEW o, AwaitsLlm(o, "awaiting_llm") \/ AwaitsLlm(o, "compacting"),
           Complete(o, {}), turn' = NoTurn, plan' = NoPlan, failed' \in BOOLEAN,
           status' \in {"idle", "failed"},
           UNCHANGED <<executions, nextSess, cancel, error, requests, told, platform>>
    PROVE  IndInv'
<1>1. Live /\ open = {o} /\ o[1] = "llm" /\ open' = {} /\ performed' = performed /\ ~cancel.requested
  BY LlmDone DEF Live
<1>2. /\ IsTurn(turn') /\ turn'.phase = "none" /\ turn'.id = 0 /\ turn'.attempt = 0
      /\ turn'.retries = 0
  BY DEF NoTurn, IsTurn
<1>3. TurnInv' /\ PlanInv'
  BY <1>1, <1>2 DEF IndInv, TurnInv, PlanInv
<1>4. SessionInv' /\ ToldInv' /\ CancelInv' /\ ListingInv'
  BY <1>1 DEF IndInv, SessionInv, ToldInv, CancelInv, CancelRecord, Live, ListingInv, platform
<1>5. WorkInv'
  BY <1>1, <1>2 DEF IndInv, WorkInv, WorkIsNotRepeated, platform
<1>6. TypeOK'
  <2>1. launched' \subseteq open' \cup performed' /\ running' \subseteq launched'
    BY <1>1 DEF IndInv, WorkInv, OperationsAreAwaited, TypeOK, platform
  <2>2. \A i \in DOMAIN plan'.calls :
           [f \in {"tool", "args", "step", "status"} |-> plan'.calls[i][f]] \in CallType
    BY DEF NoPlan
  <2>3. requests \in Nat
    BY DEF IndInv, TurnInv
  <2> QED
    BY <1>1, <1>2, <2>1, <2>2, <2>3 DEF IndInv, OperationsAreAwaited, TypeOK, platform, MaxLlmRetries
<1>7. OperationsAreAwaited'
  <2>1. InFlight' = {}
    BY <1>2 DEF InFlight, NoPlan
  <2>2. ~Cancelling'
    BY <1>1 DEF Cancelling
  <2> QED
    BY <1>1, <1>6, <2>1, <2>2 DEF OperationsAreAwaited
<1> QED
  BY <1>3, <1>4, <1>5, <1>7 DEF IndInv

\* A stop with nothing queued ends the turn; with steering queued it stages a request.
LEMMA LlmStopsStep ==
    ASSUME IndInv, NEW o, LlmStops(o)
    PROVE  IndInv'
<1>1. AwaitsLlm(o, "awaiting_llm") /\ UNCHANGED <<executions, nextSess, told>>
  BY DEF LlmStops
<1>2. CASE StageAfterBoundary(o, Said(o))
  <2>1. Live /\ RequestStaged
    BY <1>1, <1>2, RequestAfterLlm DEF StageAfterBoundary
  <2>2. SessionsHold'
    BY <1>1, <1>2, SessionsStay DEF platform, StageAfterBoundary
  <2> QED
    BY <1>2, <2>1, <2>2, Boundary
<1>3. CASE ~StageAfterBoundary(o, Said(o))
  <2>1. /\ turn' = NoTurn /\ status' = "idle" /\ Complete(o, {})
        /\ UNCHANGED <<plan, cancel, failed, error, requests, platform>>
    BY <1>3 DEF LlmStops
  <2>2. plan = NoPlan /\ failed \in BOOLEAN
    BY <1>1 DEF IndInv, OperationsAreAwaited, TypeOK, AwaitsLlm
  <2> QED
    BY <1>1, <2>1, <2>2, TurnOver
<1> QED
  BY <1>2, <1>3

\* A rejected response, a failed request and a failed compaction end the turn with
\* nothing in flight (fail_turn).
LEMMA FailStep ==
    ASSUME IndInv, NEW o, LlmResponseRejected(o) \/ LlmFails(o) \/ CompactionFails(o)
    PROVE  IndInv'
<1>1. AwaitsLlm(o, "awaiting_llm") \/ AwaitsLlm(o, "compacting")
  BY DEF LlmResponseRejected, LlmFails, CompactionFails
<1>2. PICK h : FailSession(o, h)
  BY DEF LlmResponseRejected, LlmFails, CompactionFails
<1> QED
  BY <1>1, <1>2, TurnOver DEF FailSession

Submitted(p) == {i \in DOMAIN p.calls : p.calls[i].status = "submitted"}

\* schedule_ready and finish_completed_tool_plan, on a plan whose submitted calls are what is
\* open besides o.
LEMMA RunPlanStep ==
    ASSUME IndInv, Live, NEW o, NEW p, NEW tracked, NEW h, RunPlan(o, p, tracked, h),
           executions' = tracked, SessionsHold', PlanReady(p, tracked, nextSess', performed'),
           p.assistant = requests, requests > 0,
           open \ {o} = {p.calls[i].op : i \in Submitted(p)},
           (open \ {o}) \cap performed' = {},
           o \in open, o[1] = "llm" \/ o[2][1] = requests
    PROVE  IndInv'
<1> DEFINE s == Schedule(p, tracked)
           q == Submit(s.plan, s.prepared, tracked)
<1>1. \/ IsComplete(q) /\ StageAfterBoundary(o, h \o Results(q))
      \/ /\ ~IsComplete(q)
         /\ Complete(o, {q.calls[i].op : i \in s.prepared})
         /\ plan' = q
         /\ turn' = [turn EXCEPT !.phase = "executing_tools", !.op = None]
         /\ status' = "running"
         /\ UNCHANGED <<cancel, failed, error, requests, received, platform>>
  BY DEF RunPlan
<1>2. Tracks(tracked, nextSess')
  BY DEF SessionsHold, SessionInv, Tracks
<1>3. /\ PlanReady(q, tracked, nextSess', performed') /\ PlanWaits(q, nextSess')
      /\ q.assistant = p.assistant /\ DOMAIN q.calls = DOMAIN p.calls
      /\ s.prepared \subseteq DOMAIN p.calls
      /\ \A i \in DOMAIN p.calls :
           /\ q.calls[i].status = "submitted" <=>
                p.calls[i].status = "submitted" \/ i \in s.prepared
           /\ p.calls[i].status = "submitted" => q.calls[i] = p.calls[i]
      /\ \A i \in s.prepared : q.calls[i].op \notin performed'
      /\ ~IsComplete(q) => \E i \in DOMAIN q.calls : q.calls[i].status = "submitted"
  <2> HIDE DEF s, q
  <2>1. s = Schedule(p, tracked) /\ q = Submit(s.plan, s.prepared, tracked)
    BY DEF s, q
  <2> QED
    BY <1>2, <2>1, RunFacts
<1> HIDE DEF s, q
<1>4. requests \in Nat /\ ~cancel.requested /\ ~failed /\ ~error
  BY DEF IndInv, TurnInv, Live
<1>5. CASE IsComplete(q) /\ StageAfterBoundary(o, h \o Results(q))
  <2>1. Submitted(p) = {}
    BY <1>3, <1>5 DEF Submitted, IsComplete
  <2>2. open \ {o} = {}
    BY <2>1
  <2>3. RequestStaged
    BY <1>5, <2>2 DEF StageAfterBoundary, RequestLlm, Complete, RequestStaged, WorkKinds
  <2> QED
    BY <1>5, <2>3, Boundary
<1>6. CASE /\ ~IsComplete(q)
           /\ Complete(o, {q.calls[i].op : i \in s.prepared})
           /\ plan' = q
           /\ turn' = [turn EXCEPT !.phase = "executing_tools", !.op = None]
           /\ status' = "running"
           /\ UNCHANGED <<cancel, failed, error, requests, received, platform>>
  <2>1. open' = {q.calls[i].op : i \in Submitted(q)}
    <3>1. Submitted(q) = Submitted(p) \cup s.prepared
      BY <1>3 DEF Submitted
    <3>2. \A i \in Submitted(p) : q.calls[i].op = p.calls[i].op
      BY <1>3 DEF Submitted
    <3>3. {q.calls[i].op : i \in Submitted(q)} =
            {p.calls[i].op : i \in Submitted(p)} \cup {q.calls[i].op : i \in s.prepared}
      BY <3>1, <3>2
    <3> QED
      BY <1>6, <3>3 DEF Complete
  <2>2. open' \cap performed' = {}
    BY <1>3, <1>6 DEF Complete
  <2>3. /\ IsTurn(turn') /\ turn'.phase = "executing_tools" /\ turn'.id = turn.id
        /\ turn'.attempt = turn.attempt /\ turn'.retries = turn.retries
    BY <1>6 DEF IndInv, TurnInv, IsTurn
  <2>4. \E i \in DOMAIN plan'.calls : plan'.calls[i].status = "submitted"
    BY <1>3, <1>6
  <2>5. PlanInv'
    <3>1. PlanReady(plan', executions', nextSess', performed') /\ PlanWaits(plan', nextSess')
          /\ plan'.assistant = requests'
      BY <1>3, <1>6
    <3> QED
      BY <2>4, <3>1 DEF PlanInv, PlanReady, PlanShape, PlanOrder, PlanSessions, PlanNames, PlanWork,
                        PlanWaits, SegmentComplete
  <2>6. TurnInv'
    BY <1>4, <1>6, <2>3 DEF IndInv, TurnInv
  <2>7. SessionInv' /\ ToldInv'
    BY DEF SessionsHold
  <2>8. CancelInv' /\ ListingInv'
    BY <1>4, <1>6 DEF IndInv, CancelInv, CancelRecord, ListingInv, platform
  <2>9. /\ \A x \in performed' : x \in performed \/ (x[1] \in WorkKinds /\ x[2][1] = requests)
        /\ performed \subseteq performed'
        /\ \A x \in open : x[1] = "start" => x \in open' \cup performed'
    BY <1>6 DEF Complete, WorkKinds
  <2>10. WorkInv'
    <3>1. ASSUME NEW x \in performed'
          PROVE  x[1] \in WorkKinds /\ x[2][1] \in Nat /\ x[2][1] <= requests'
      BY <1>4, <1>6, <2>9 DEF IndInv, WorkInv
    <3>2. \A x \in launched' : x[1] = "start"
      BY <1>6 DEF IndInv, WorkInv, platform
    <3> QED
      BY <2>2, <2>3, <3>1, <3>2 DEF WorkInv, WorkIsNotRepeated
  <2>11. TypeOK'
    <3>1. running' \subseteq launched' /\ launched' \subseteq open' \cup performed'
      BY <1>6, <2>9 DEF IndInv, WorkInv, OperationsAreAwaited, TypeOK, platform
    <3>2. \A i \in DOMAIN plan'.calls :
             [f \in {"tool", "args", "step", "status"} |-> plan'.calls[i][f]] \in CallType
      BY <1>3, <1>6, CallTyped DEF PlanReady, PlanShape
    <3>3. plan' # NoPlan
      BY <2>4 DEF NoPlan
    <3>4. executions' \subseteq [sess : 1 .. nextSess' - 1, proc : launched']
      BY DEF SessionsHold
    <3>5. /\ turn'.id \in 0 .. requests' /\ turn'.attempt \in 0 .. 2
          /\ turn'.retries \in 0 .. MaxLlmRetries
          /\ cancel'.requested \in BOOLEAN /\ failed' \in BOOLEAN /\ error' \in BOOLEAN
      BY <1>6, <2>3 DEF IndInv, OperationsAreAwaited, TypeOK
    <3> QED
      BY <1>4, <1>6, <2>3, <3>1, <3>2, <3>3, <3>4, <3>5 DEF TypeOK
  <2>12. OperationsAreAwaited'
    <3>1. ~Cancelling' /\ ~failed'
      BY <1>4, <1>6 DEF Cancelling
    <3>2. InFlight' = {plan'.calls[i].op : i \in {j \in DOMAIN plan'.calls :
                                                    plan'.calls[j].status = "submitted"}}
      BY <2>3 DEF InFlight
    <3>3. InFlight' = open'
      BY <1>6, <2>1, <3>2 DEF Submitted
    <3> QED
      BY <2>11, <3>1, <3>3 DEF OperationsAreAwaited
  <2> QED
    BY <2>5, <2>6, <2>7, <2>8, <2>10, <2>12 DEF IndInv
<1> QED
  BY <1>1, <1>5, <1>6

\* What a plan's step counts as work done, and what it leaves to others.
LEMMA RunPlanDone ==
    ASSUME NEW o, NEW p, NEW tracked, NEW h, RunPlan(o, p, tracked, h)
    PROVE  /\ performed' = performed \cup {x \in open : x = o /\ x[1] \in WorkKinds}
           /\ UNCHANGED <<cancel, platform>>
BY DEF RunPlan, StageAfterBoundary, RequestLlm, Complete

\* A response with tool calls starts a plan: its first calls are submitted, or all
\* were refused and the next request is staged.
LEMMA LlmAsksForToolsStep ==
    ASSUME IndInv, NEW o, LlmAsksForTools(o)
    PROVE  IndInv'
<1>1. PICK asked \in Plans : RunPlan(o, ParsePlan(o[2], asked), executions,
                                     Append(history, <<"calls", o[2], Len(asked)>>))
  BY DEF LlmAsksForTools
<1>2. AwaitsLlm(o, "awaiting_llm") /\ UNCHANGED <<executions, nextSess, told>>
  BY DEF LlmAsksForTools
<1>3. PICK p : p = ParsePlan(o[2], asked)
  OBVIOUS
<1>4. /\ Live /\ o = Llm(requests) /\ requests > 0 /\ requests \in Nat /\ open = {o}
      /\ \A x \in performed : x[2][1] \in Nat /\ x[2][1] < requests
  <2>1. Live /\ turn.phase = "awaiting_llm" /\ turn.op = o
    BY <1>2 DEF AwaitsLlm
  <2> QED
    BY <2>1 DEF IndInv, TurnInv, OperationsAreAwaited, InFlight, WorkInv, Live
<1>5. o[1] = "llm" /\ o[2] = requests
  BY <1>4 DEF Llm
<1>6. performed' = performed /\ UNCHANGED <<cancel, platform>>
  BY <1>1, <1>5, RunPlanDone DEF WorkKinds
<1>7. SessionsHold'
  BY <1>2, <1>6, SessionsStay DEF platform
<1>8. \A x \in performed : x[2][1] # requests
  BY <1>4
<1>9. /\ PlanReady(p, executions, nextSess', performed') /\ p.assistant = requests
      /\ \A i \in DOMAIN p.calls : p.calls[i].status # "submitted"
  BY <1>3, <1>4, <1>5, <1>6, <1>8, ParseFacts
<1>10. open \ {o} = {p.calls[i].op : i \in Submitted(p)}
  BY <1>4, <1>9 DEF Submitted
<1>11. (open \ {o}) \cap performed' = {} /\ o \in open
  BY <1>4
<1>12. RunPlan(o, p, executions, Append(history, <<"calls", o[2], Len(asked)>>))
  BY <1>1, <1>3
<1> QED
  BY <1>2, <1>4, <1>5, <1>7, <1>9, <1>10, <1>11, <1>12, RunPlanStep

\* The operations of two submitted calls differ.
LEMMA NamesDiffer ==
    ASSUME NEW p, PlanNames(p), NEW i \in Submitted(p), NEW j \in Submitted(p),
           p.calls[i].op = p.calls[j].op
    PROVE  i = j
<1>1. p.calls[i].op[2] = <<p.assistant, i>> /\ p.calls[j].op[2] = <<p.assistant, j>>
  BY DEF PlanNames, Submitted
<1> QED
  BY <1>1

\* handle_execution_completion, once apply_response has answered the call.
LEMMA ApplyStep ==
    ASSUME IndInv, NEW o, NEW i \in CallOf(o), NEW d, NEW tracked, ApplyCompletion(o, i, d, tracked),
           Continues(plan.calls[i], d, nextSess), executions' = tracked, SessionsHold',
           nextSess <= nextSess',
           \A x \in tracked : x \in executions \/ x.sess = d.sess,
           d.status = "ready" => d.sess < nextSess',
           d.status = "ready" => \A x \in tracked : x.sess = d.sess => x.proc = d.proc
    PROVE  IndInv'
<1>1. /\ Live /\ o \in open /\ turn.phase = "executing_tools"
      /\ RunPlan(o, AdvanceCompletedSegments([plan EXCEPT !.calls[i] = d]), tracked, history)
  BY DEF ApplyCompletion, Completes
<1>2. PICK p : p = AdvanceCompletedSegments([plan EXCEPT !.calls[i] = d])
  OBVIOUS
<1>3. /\ PlanReady(plan, executions, nextSess, performed) /\ PlanWaits(plan, nextSess)
      /\ plan.assistant = requests /\ requests > 0
  BY <1>1 DEF IndInv, PlanInv, TurnInv
<1>4. /\ PlanShape(plan) /\ PlanOrder(plan) /\ PlanSessions(plan, executions, nextSess)
      /\ PlanNames(plan) /\ PlanWork(plan, performed)
  BY <1>3 DEF PlanReady
<1>5. i \in DOMAIN plan.calls /\ plan.calls[i].status = "submitted" /\ plan.calls[i].op = o
  BY DEF CallOf
<1>6. CallShape(d) /\ d.status \in {"ready", "completed"}
  BY DEF Continues
<1>7. Answers(plan, i, d, p)
  BY <1>2, <1>4, <1>5, <1>6, AdvanceAfter
<1>8. performed' = performed \cup {x \in open : x = o /\ x[1] \in WorkKinds}
  BY <1>1, RunPlanDone
<1>9. nextSess \in Nat /\ nextSess' \in Nat
  BY DEF IndInv, SessionInv, SessionsHold
<1>10. PlanReady(p, tracked, nextSess', performed')
  <2>1. PlanShape(p)
    BY <1>4, <1>5, <1>6, <1>7, AnswerShape
  <2>2. PlanOrder(p)
    BY <1>3, <1>4, <1>5, <1>7, <1>9, AnswerOrder
  <2>3. PlanSessions(p, tracked, nextSess')
    <3>1. \A x \in tracked : x.sess # NoSess
      BY <1>9 DEF SessionsHold, NoSess
    <3> QED
      BY <1>4, <1>5, <1>7, <1>9, <3>1, AnswerSessions
  <2>4. PlanNames(p) /\ PlanWork(p, performed')
    <3>1. \A x \in performed' : x \in performed \/ (x = plan.calls[i].op /\ x[1] \in WorkKinds)
      BY <1>5, <1>8
    <3> QED
      BY <1>4, <1>5, <1>7, <3>1, AnswerNames
  <2> QED
    BY <2>1, <2>2, <2>3, <2>4 DEF PlanReady
<1>11. open = {plan.calls[j].op : j \in Submitted(plan)}
  BY <1>1 DEF IndInv, OperationsAreAwaited, InFlight, Submitted
<1>12. open \ {o} = {p.calls[j].op : j \in Submitted(p)}
  <2>1. Submitted(p) = Submitted(plan) \ {i}
    BY <1>6, <1>7 DEF Submitted, Answers
  <2>2. \A j \in Submitted(p) : p.calls[j].op = plan.calls[j].op
    BY <1>7, <2>1 DEF Answers, Submitted
  <2>3. i \in Submitted(plan)
    BY <1>5 DEF Submitted
  <2>4. \A j \in Submitted(plan) : plan.calls[j].op = o <=> j = i
    BY <1>4, <1>5, <2>3, NamesDiffer
  <2> QED
    BY <1>11, <2>1, <2>2, <2>4
<1>13. (open \ {o}) \cap performed' = {}
  BY <1>8 DEF IndInv, WorkInv, WorkIsNotRepeated
<1>14. o[2] = <<requests, i>>
  BY <1>3, <1>4, <1>5 DEF PlanNames
<1>15. o[2][1] = requests /\ p.assistant = requests
  BY <1>3, <1>7, <1>14 DEF Answers
<1>16. RunPlan(o, p, tracked, history)
  BY <1>1, <1>2
<1> QED
  BY <1>1, <1>3, <1>10, <1>12, <1>13, <1>15, <1>16, RunPlanStep

\* A call whose outcome ends it lets the plan go on.
LEMMA CallEndsStep ==
    ASSUME IndInv, NEW o, CallEnds(o)
    PROVE  IndInv'
<1>1. PICK i \in CallOf(o) :
          /\ ApplyCompletion(o, i, [plan.calls[i] EXCEPT !.status = "completed"], executions)
          /\ UNCHANGED <<executions, nextSess, told>>
  BY DEF CallEnds
<1>2. PICK c : c = plan.calls[i]
  OBVIOUS
<1>3. PICK d : d = [c EXCEPT !.status = "completed"]
  OBVIOUS
<1>4. i \in DOMAIN plan.calls /\ turn.phase = "executing_tools"
  BY <1>1 DEF CallOf, ApplyCompletion
<1>5. CallShape(c)
  BY <1>2, <1>4 DEF IndInv, PlanInv, PlanReady, PlanShape
<1>6. d = [tool |-> c.tool, sess |-> c.sess, args |-> c.args, step |-> c.step, pages |-> c.pages,
           op |-> c.op, proc |-> c.proc, status |-> "completed"]
  BY <1>3, <1>5 DEF CallShape, IsCall
<1>7. CallShape(d) /\ d.sess = c.sess /\ d.status = "completed"
  BY <1>5, <1>6 DEF CallShape, IsCall
<1>8. Continues(c, d, nextSess)
  BY <1>7 DEF Continues
<1>9. ApplyCompletion(o, i, d, executions)
  BY <1>1, <1>2, <1>3
<1>10. UNCHANGED <<cancel, platform>>
  BY <1>9, RunPlanDone DEF ApplyCompletion
<1>11. SessionsHold'
  BY <1>1, <1>10, SessionsStay DEF platform
<1>12. nextSess \in Nat
  BY DEF IndInv, SessionInv
<1> QED
  BY <1>1, <1>2, <1>7, <1>8, <1>9, <1>11, <1>12, ApplyStep

\* The next read, the mutation or the reconciliation of a patch call (filesystem_tools.rs).
LEMMA PatchContinuesStep ==
    ASSUME IndInv, NEW o, PatchContinues(o)
    PROVE  IndInv'
<1>1. PICK i \in CallOf(o) :
          /\ plan.calls[i].tool = "apply_patch" /\ plan.calls[i].step # "reconcile"
          /\ ApplyCompletion(o, i,
                 [plan.calls[i] EXCEPT !.status = "ready",
                                       !.step = IF @ = "read" THEN "mutate" ELSE "reconcile"],
                 executions)
          /\ UNCHANGED <<executions, nextSess, told>>
  BY DEF PatchContinues
<1>2. PICK c : c = plan.calls[i]
  OBVIOUS
<1>3. PICK step : step = IF c.step = "read" THEN "mutate" ELSE "reconcile"
  OBVIOUS
<1>4. PICK d : d = [c EXCEPT !.status = "ready", !.step = step]
  OBVIOUS
<1>5. i \in DOMAIN plan.calls /\ turn.phase = "executing_tools"
      /\ plan.calls[i].status = "submitted"
  BY <1>1 DEF CallOf, ApplyCompletion
<1>6. PlanReady(plan, executions, nextSess, performed)
  BY <1>5 DEF IndInv, PlanInv
<1>7. CallShape(c)
  BY <1>2, <1>5, <1>6 DEF PlanReady, PlanShape
<1>8. d = [tool |-> c.tool, sess |-> c.sess, args |-> c.args, step |-> step, pages |-> c.pages,
           op |-> c.op, proc |-> c.proc, status |-> "ready"]
  <2> DEFINE d1 == [c EXCEPT !.status = "ready"]
  <2>1. d1 = [tool |-> c.tool, sess |-> c.sess, args |-> c.args, step |-> c.step, pages |-> c.pages,
              op |-> c.op, proc |-> c.proc, status |-> "ready"]
    BY <1>7 DEF CallShape, IsCall
  <2>2. d = [d1 EXCEPT !.step = step]
    BY <1>4
  <2> HIDE DEF d1
  <2> QED
    BY <2>1, <2>2
<1>9. c.tool = "apply_patch" /\ c.step \in {"read", "mutate"} /\ c.sess = NoSess
  BY <1>1, <1>2, <1>7 DEF CallShape, IsShell, ExecutionKinds, ProcessKinds
<1>10. CallShape(d) /\ d.sess = c.sess /\ d.status = "ready" /\ d.step = step
  BY <1>3, <1>7, <1>8, <1>9 DEF CallShape, IsCall, IsShell, ExecutionKinds, ProcessKinds
<1>11. Continues(c, d, nextSess)
  BY <1>3, <1>9, <1>10 DEF Continues
<1>12. ApplyCompletion(o, i, d, executions)
  <2>1. d = [plan.calls[i] EXCEPT !.status = "ready",
                                  !.step = IF @ = "read" THEN "mutate" ELSE "reconcile"]
    BY <1>2, <1>3, <1>4
  <2> QED
    BY <1>1, <2>1
<1>13. UNCHANGED <<cancel, platform>>
  BY <1>12, RunPlanDone DEF ApplyCompletion
<1>14. SessionsHold'
  BY <1>1, <1>13, SessionsStay DEF platform
<1>15. nextSess \in Nat \ {0} /\ nextSess' = nextSess
  BY <1>1 DEF IndInv, SessionInv
<1>16. d.sess < nextSess' /\ \A x \in executions : x.sess # d.sess
  <2>1. \A x \in executions : x.sess \in 1 .. nextSess - 1
    BY DEF IndInv, OperationsAreAwaited, TypeOK
  <2> QED
    BY <1>9, <1>10, <1>15, <2>1 DEF NoSess
<1> QED
  BY <1>1, <1>2, <1>10, <1>11, <1>12, <1>14, <1>15, <1>16, ApplyStep

\* What shell_tools::apply_response makes of the call.
AfterRead(c, sess, to) ==
    LET read == [c EXCEPT !.sess = sess, !.pages = @ + 1]
    IN  IF to = "ready" THEN [read EXCEPT !.status = "ready", !.step = "observe"]
        ELSE [read EXCEPT !.status = "completed"]

\* The fields of a shell call after a response (tool_execution.rs).
LEMMA AfterReadRecord ==
    ASSUME NEW c, IsCall(c), NEW sess, NEW to \in {"ready", "completed"}
    PROVE  AfterRead(c, sess, to) =
             [tool |-> c.tool, sess |-> sess, args |-> c.args,
              step |-> IF to = "ready" THEN "observe" ELSE c.step, pages |-> c.pages + 1, op |-> c.op,
              proc |-> c.proc, status |-> to]
<1>1. PICK pages : pages = c.pages + 1
  OBVIOUS
<1>2. PICK st : st = to
  OBVIOUS
<1>3. PICK step : step = IF to = "ready" THEN "observe" ELSE c.step
  OBVIOUS
<1> DEFINE r1 == [c EXCEPT !.sess = sess]
           r2 == [r1 EXCEPT !.pages = pages]
           r3 == [r2 EXCEPT !.status = st]
           r4 == [r3 EXCEPT !.step = "observe"]
<1>4. r1 = [tool |-> c.tool, sess |-> sess, args |-> c.args, step |-> c.step, pages |-> c.pages,
            op |-> c.op, proc |-> c.proc, status |-> c.status]
  BY DEF IsCall
<1>5. r2 = [tool |-> c.tool, sess |-> sess, args |-> c.args, step |-> c.step, pages |-> pages,
            op |-> c.op, proc |-> c.proc, status |-> c.status]
  <2> HIDE DEF r1
  <2> QED
    BY <1>4
<1>6. r2 = [c EXCEPT !.sess = sess, !.pages = @ + 1]
  BY <1>1 DEF IsCall
<1> HIDE DEF r2
<1>7. r3 = [tool |-> c.tool, sess |-> sess, args |-> c.args, step |-> c.step, pages |-> pages,
            op |-> c.op, proc |-> c.proc, status |-> st]
  BY <1>5
<1>8. [r2 EXCEPT !.status = st, !.step = "observe"] = r4
  OBVIOUS
<1>9. AfterRead(c, sess, to) = IF to = "ready" THEN r4 ELSE r3
  BY <1>2, <1>6, <1>8 DEF AfterRead
<1>10. r4 = [tool |-> c.tool, sess |-> sess, args |-> c.args, step |-> "observe", pages |-> pages,
             op |-> c.op, proc |-> c.proc, status |-> st]
  <2> HIDE DEF r3
  <2> QED
    BY <1>7
<1> HIDE DEF r3, r4
<1> QED
  BY <1>1, <1>2, <1>3, <1>7, <1>9, <1>10

\* A shell call that was answered goes on with an observation of the same process,
\* or is complete.
LEMMA ShellAnswer ==
    ASSUME NEW c, CallShape(c), IsShell(c.tool), c.status = "submitted", NEW sess \in Nat,
           NEW known, sess = c.sess \/ sess = known, NEW to \in {"ready", "completed"}, NEW d,
           d = AfterRead(c, sess, to)
    PROVE  /\ Continues(c, d, known) /\ d.sess = sess /\ d.proc = c.proc
           /\ d.status = to
<1>1. PICK pages : pages = c.pages + 1
  OBVIOUS
<1>2. PICK st : st = to
  OBVIOUS
<1>3. PICK step : step = IF to = "ready" THEN "observe" ELSE c.step
  OBVIOUS
<1>4. IsCall(c)
  BY DEF CallShape
<1>5. d = [tool |-> c.tool, sess |-> sess, args |-> c.args, step |-> step, pages |-> pages,
           op |-> c.op, proc |-> c.proc, status |-> st]
  BY <1>1, <1>2, <1>3, <1>4, AfterReadRecord
<1>6. /\ IsCall(d) /\ d.tool = c.tool /\ d.sess = sess /\ d.args = c.args /\ d.step = step
      /\ d.pages = pages /\ d.proc = c.proc /\ d.status = st
  BY <1>5 DEF IsCall
<1>7. c.step \in ProcessKinds /\ step \in ProcessKinds /\ step \in ExecutionKinds
  BY <1>3 DEF CallShape, ProcessKinds, ExecutionKinds
<1>8. pages \in Nat
  BY <1>1 DEF CallShape
<1>9. CallShape(d)
  BY <1>2, <1>3, <1>6, <1>7, <1>8 DEF CallShape
<1> QED
  BY <1>2, <1>3, <1>6, <1>7, <1>9 DEF Continues

\* A response about a process tracks it under a session while it is active, and reads
\* on while there is more output.
LEMMA ShellRespondsStep ==
    ASSUME IndInv, NEW o, ShellResponds(o)
    PROVE  IndInv'
<1>1. PICK i \in CallOf(o), active \in BOOLEAN, more \in BOOLEAN :
        LET call == plan.calls[i]
            sess == IF active /\ call.sess = NoSess THEN nextSess ELSE call.sess
            others == {x \in executions : x.sess # sess}
            tracked == IF active THEN others \cup {[sess |-> sess, proc |-> call.proc]}
                       ELSE IF more THEN executions ELSE others
            read == [call EXCEPT !.sess = sess, !.pages = @ + 1]
        IN  /\ IsShell(call.tool)
            /\ IF active THEN call.proc \in running ELSE call.proc \in launched \ running
            /\ executions' = tracked
            /\ nextSess' = IF sess = nextSess THEN nextSess + 1 ELSE nextSess
            /\ told' = IF active THEN told \cup {call.proc} ELSE told
            /\ ApplyCompletion(o, i,
                   IF more /\ read.pages < MaxPages
                   THEN [read EXCEPT !.status = "ready", !.step = "observe"]
                   ELSE [read EXCEPT !.status = "completed"],
                   tracked)
  BY DEF ShellResponds
<1>2. PICK c : c = plan.calls[i]
  OBVIOUS
<1>3. PICK sess : sess = IF active /\ c.sess = NoSess THEN nextSess ELSE c.sess
  OBVIOUS
<1> DEFINE others == {x \in executions : x.sess # sess}
<1>4. PICK tracked : tracked = IF active THEN others \cup {[sess |-> sess, proc |-> c.proc]}
                               ELSE IF more THEN executions ELSE others
  OBVIOUS
<1>5. PICK read : read = [c EXCEPT !.sess = sess, !.pages = @ + 1]
  OBVIOUS
<1>6. PICK to \in {"ready", "completed"} :
          to = IF more /\ read.pages < MaxPages THEN "ready" ELSE "completed"
  OBVIOUS
<1>7. PICK d : d = IF to = "ready" THEN [read EXCEPT !.status = "ready", !.step = "observe"]
                   ELSE [read EXCEPT !.status = "completed"]
  OBVIOUS
<1>8. /\ IsShell(c.tool)
      /\ IF active THEN c.proc \in running ELSE c.proc \in launched \ running
      /\ executions' = tracked
      /\ nextSess' = IF sess = nextSess THEN nextSess + 1 ELSE nextSess
      /\ told' = IF active THEN told \cup {c.proc} ELSE told
      /\ ApplyCompletion(o, i, d, tracked)
  BY <1>1, <1>2, <1>3, <1>4, <1>5, <1>6, <1>7
<1> HIDE DEF others
<1>9. i \in DOMAIN plan.calls /\ c.status = "submitted" /\ turn.phase = "executing_tools" /\ Live
  BY <1>2, <1>8 DEF CallOf, ApplyCompletion
<1>10. PlanReady(plan, executions, nextSess, performed)
  BY <1>9 DEF IndInv, PlanInv
<1>11. /\ CallShape(c) /\ c.sess < nextSess /\ c.sess \in Nat
       /\ \A x \in executions : x.sess = c.sess => x.proc = c.proc
  BY <1>2, <1>9, <1>10 DEF PlanReady, PlanShape, PlanSessions, InUse, CallShape
<1>12. /\ nextSess \in Nat \ {0} /\ \A x, y \in executions : x.sess = y.sess => x = y
       /\ executions \subseteq [sess : 1 .. nextSess - 1, proc : launched]
       /\ running \subseteq launched /\ told \subseteq launched
       /\ \A p \in told \cap running : \E x \in executions : x.proc = p
  BY <1>9 DEF IndInv, SessionInv, ToldInv, OperationsAreAwaited, TypeOK, Live
<1>13. /\ sess \in Nat /\ (sess = c.sess \/ sess = nextSess)
       /\ nextSess' \in Nat \ {0} /\ nextSess <= nextSess' /\ sess < nextSess'
       /\ active => sess # 0
       /\ ~active => sess = c.sess
  BY <1>3, <1>8, <1>11, <1>12 DEF NoSess
<1>14. Continues(c, d, nextSess) /\ d.sess = sess /\ d.proc = c.proc /\ d.status = to
  <2>1. d = AfterRead(c, sess, to)
    BY <1>5, <1>7 DEF AfterRead
  <2> QED
    BY <1>8, <1>9, <1>11, <1>13, <2>1, ShellAnswer
<1>15. UNCHANGED <<cancel, platform>> /\ ~cancel.requested
  BY <1>8, <1>9, RunPlanDone DEF ApplyCompletion, Live
<1>16. \A x \in executions : x.sess = sess => x.proc = c.proc
  <2>1. \A x \in executions : x.sess # nextSess
    BY <1>12
  <2> QED
    BY <1>11, <1>13, <2>1
<1>17. /\ \A x \in tracked : x \in executions \/ (x = [sess |-> sess, proc |-> c.proc] /\ active)
       /\ active => \A x \in tracked : x.sess = sess => x = [sess |-> sess, proc |-> c.proc]
  BY <1>4 DEF others
<1>18. \A x \in tracked : x.sess = sess => x.proc = c.proc
  BY <1>16, <1>17
<1>19. SessionsHold'
  <2>1. \A x, y \in tracked : x.sess = y.sess => x = y
    <3> SUFFICES ASSUME NEW x \in tracked, NEW y \in tracked, x.sess = y.sess
                 PROVE  x = y
      OBVIOUS
    <3>1. CASE active /\ x.sess = sess
      BY <1>17, <3>1
    <3>2. CASE active /\ x.sess # sess
      BY <1>12, <1>17, <3>2
    <3>3. CASE ~active
      BY <1>12, <1>17, <3>3
    <3> QED
      BY <3>1, <3>2, <3>3
  <2>2. tracked \subseteq [sess : 1 .. nextSess' - 1, proc : launched]
    <3> SUFFICES ASSUME NEW x \in tracked
                 PROVE  x \in [sess : 1 .. nextSess' - 1, proc : launched]
      OBVIOUS
    <3>1. CASE x \in executions
      BY <1>12, <1>13, <3>1
    <3>2. CASE x = [sess |-> sess, proc |-> c.proc] /\ active
      <4>1. sess \in 1 .. nextSess' - 1 /\ c.proc \in launched
        BY <1>8, <1>12, <1>13, <3>2
      <4> QED
        BY <3>2, <4>1
    <3> QED
      BY <1>17, <3>1, <3>2
  <2>3. told' \subseteq launched
    BY <1>8, <1>12
  <2>4. ASSUME NEW p \in told' \cap running
        PROVE  \E x \in tracked : x.proc = p
    <3>1. CASE p = c.proc
      <4>1. active
        BY <1>8, <2>4, <3>1
      <4>2. [sess |-> sess, proc |-> c.proc] \in tracked
        BY <1>4, <4>1
      <4> QED
        BY <3>1, <4>2
    <3>2. CASE p # c.proc
      <4>1. PICK x \in executions : x.proc = p
        BY <1>8, <1>12, <2>4, <3>2
      <4>2. x.sess # sess
        BY <1>16, <3>2, <4>1
      <4>3. x \in tracked
        BY <1>4, <4>2 DEF others
      <4> QED
        BY <4>1, <4>3
    <3> QED
      BY <3>1, <3>2
  <2> QED
    BY <1>8, <1>13, <1>15, <2>1, <2>2, <2>3, <2>4 DEF SessionsHold, SessionInv, ToldInv, platform
<1> QED
  BY <1>2, <1>8, <1>13, <1>14, <1>17, <1>18, <1>19, ApplyStep

-----------------------------------------------------------------------------
(* Steps that leave what the session waits for as it is.                   *)

\* The machine may start and end processes, the session may restate its status or refuse
\* an event.
LEMMA Frame ==
    ASSUME IndInv, ListingInv',
           UNCHANGED <<turn, plan, history, executions, nextSess, cancel, failed, requests, open,
                       performed, told>>,
           error' \in BOOLEAN, ~error' => ~error,
           status' \in {"idle", "running", "cancelling", "cancelled", "failed"},
           turn.phase # "none" => status' = status \/ (cancel.requested /\ status' = "cancelling"),
           launched \subseteq launched',
           \A x \in launched' : x \in launched \/ (x \in open /\ x[1] = "start"),
           \A p \in running' : p \in launched' /\ (p \in launched => p \in running)
    PROVE  IndInv'
<1>1. TurnInv' /\ PlanInv'
  BY DEF IndInv, TurnInv, PlanInv, PlanReady, PlanShape, PlanOrder, PlanSessions,
         PlanNames, PlanWork, PlanWaits, SegmentComplete
<1>2. SessionInv' /\ WorkInv'
  BY DEF IndInv, SessionInv, WorkInv, WorkIsNotRepeated
<1>3. ToldInv'
  BY DEF IndInv, ToldInv
<1>4. CancelInv'
  <2> SUFFICES ASSUME CancelRecord(cancel, launched, running)
               PROVE  CancelRecord(cancel', launched', running')
    BY DEF IndInv, CancelInv, CancelRecord, TargetInv, ProcessInv
  <2>1. ASSUME NEW p \in DOMAIN cancel.processes
        PROVE  ProcessInv(p, cancel.processes[p], cancel.failures, launched', running')
    <3>1. ProcessInv(p, cancel.processes[p], cancel.failures, launched, running)
      BY DEF CancelRecord
    <3>2. p \in launched' /\ (p \notin running => p \notin running')
      BY <3>1 DEF ProcessInv
    <3> QED
      BY <3>1, <3>2 DEF ProcessInv
  <2> QED
    BY <2>1 DEF CancelRecord
<1>5. TypeOK'
  <2>1. TypeOK
    BY DEF IndInv, OperationsAreAwaited
  <2>2. executions' \subseteq [sess : 1 .. nextSess' - 1, proc : launched']
    <3>1. executions \subseteq [sess : 1 .. nextSess - 1, proc : launched]
      BY <2>1 DEF TypeOK
    <3>2. [sess : 1 .. nextSess - 1, proc : launched] \subseteq [sess : 1 .. nextSess - 1, proc : launched']
      OBVIOUS
    <3> QED
      BY <3>1, <3>2
  <2>3. running' \subseteq launched' /\ launched' \subseteq open' \cup performed'
    BY <2>1 DEF TypeOK
  <2>4. turn.phase # "none" => status' = IF cancel.requested THEN "cancelling" ELSE "running"
    BY <2>1 DEF TypeOK
  <2>5. /\ turn.phase \in {"none", "awaiting_llm", "executing_tools", "compacting", "cancelling"}
        /\ turn.id \in 0 .. requests /\ turn.attempt \in 0 .. 2 /\ turn.retries \in 0 .. MaxLlmRetries
        /\ \A i \in DOMAIN plan.calls :
             [f \in {"tool", "args", "step", "status"} |-> plan.calls[i][f]] \in CallType
        /\ (plan # NoPlan) = (turn.phase = "executing_tools")
        /\ cancel.requested \in BOOLEAN /\ failed \in BOOLEAN
    BY <2>1 DEF TypeOK
  <2> QED
    BY <2>2, <2>3, <2>4, <2>5 DEF TypeOK
<1>6. OperationsAreAwaited'
  <2>1. InFlight' = InFlight /\ (Live' => Live) /\ (Cancelling' => Cancelling)
    BY DEF InFlight, Live, Cancelling
  <2>2. \A o \in open : /\ Expected(o)' <=> Expected(o)
                        /\ LateWithdrawal(o)' <=> LateWithdrawal(o)
    BY DEF Expected, LateWithdrawal, IsControl, IsProcessControl, CallOf, ControlOf
  <2>3. failed => open = {}
    BY DEF IndInv, OperationsAreAwaited
  <2>4. Live => open = InFlight
    BY DEF IndInv, OperationsAreAwaited
  <2>5. Cancelling =>
           /\ \A o \in open : Expected(o) \/ LateWithdrawal(o)
           /\ \A t \in DOMAIN cancel.targets :
                  /\ ControlOf(t, cancel.targets[t]) \in open \cup {None}
                  /\ t \notin open => cancel.targets[t].completed
                  /\ cancel.targets[t].control = "discovery" => cancel.discovery # None
           /\ \A p \in DOMAIN cancel.processes :
                  ControlOf(p, cancel.processes[p]) \in open \cup {None}
           /\ cancel.discovery \in open \cup {None}
    BY DEF IndInv, OperationsAreAwaited
  <2> QED
    BY <1>5, <2>1, <2>2, <2>3, <2>4, <2>5 DEF OperationsAreAwaited, ControlOf
<1> QED
  BY <1>1, <1>2, <1>3, <1>4, <1>6 DEF IndInv

\* The platform and the machine change nothing the harness relies on: a process that
\* starts is in flight, one that ends is no longer to be stopped.
LEMMA PlatformStep ==
    ASSUME IndInv,
           \/ UNCHANGED vars
           \/ \E o \in open : Withdraw(o) \/ Launch(o) \/ List(o)
           \/ \E p \in running : Exit(p)
    PROVE  IndInv'
<1>1. UNCHANGED session
  BY DEF Withdraw, Launch, List, Exit, vars
<1>2. running \subseteq launched /\ ListingInv /\ error \in BOOLEAN
      /\ status \in {"idle", "running", "cancelling", "cancelled", "failed"}
  BY DEF IndInv, OperationsAreAwaited, TypeOK
<1>3. /\ launched \subseteq launched'
      /\ \A x \in launched' : x \in launched \/ (x \in open /\ x[1] = "start")
      /\ \A p \in running' : p \in launched' /\ (p \in launched => p \in running)
      /\ ListingInv'
  <2>1. CASE UNCHANGED vars
    BY <1>2, <2>1 DEF vars, platform, ListingInv
  <2>2. CASE \E o \in open : Withdraw(o)
    BY <1>2, <2>2 DEF Withdraw, ListingInv
  <2>3. CASE \E o \in open : Launch(o)
    BY <1>2, <2>3 DEF Launch, ListingInv
  <2>4. CASE \E o \in open : List(o)
    <3>1. UNCHANGED <<launched, running>>
      BY <2>4 DEF List
    <3>2. listing' = [answered |-> TRUE, procs |-> {p \in running : p[2][1] >= cancel.turn}]
      BY <2>4 DEF List
    <3>3. ListingInv'
      BY <1>2, <3>1, <3>2 DEF ListingInv
    <3> QED
      BY <1>2, <3>1, <3>3
  <2>5. CASE \E p \in running : Exit(p)
    BY <1>2, <2>5 DEF Exit, ListingInv
  <2> QED
    BY <2>1, <2>2, <2>3, <2>4, <2>5
<1> QED
  BY <1>1, <1>2, <1>3, Frame DEF session

\* A completion the state does not expect blocks the session (handle returns an error)
\* and changes nothing else.
LEMMA RefuseStep ==
    ASSUME IndInv, NEW o, RefuseCompletion(o)
    PROVE  IndInv'
<1>1. running \subseteq launched /\ ListingInv
      /\ status \in {"idle", "running", "cancelling", "cancelled", "failed"}
  BY DEF IndInv, OperationsAreAwaited, TypeOK
<1>2. /\ error' = TRUE
      /\ UNCHANGED <<turn, plan, history, executions, nextSess, cancel, failed, status,
                     requests, open, performed, told, received, inputs, platform>>
  BY DEF RefuseCompletion
<1>3. ListingInv'
  BY <1>1, <1>2 DEF ListingInv, platform
<1> QED
  BY <1>1, <1>2, <1>3, Frame DEF platform

\* Messages and cancel requests to a session that no longer takes them restate its status.
LEMMA IgnoreStep ==
    ASSUME IndInv, IgnoreMessage \/ IgnoreCancel
    PROVE  IndInv'
<1>1. RestateStatus
  BY DEF IgnoreMessage, IgnoreCancel
<1>2. running \subseteq launched /\ ListingInv /\ error \in BOOLEAN
      /\ status \in {"idle", "running", "cancelling", "cancelled", "failed"}
  BY DEF IndInv, OperationsAreAwaited, TypeOK
<1>3. failed => turn.phase = "none"
  BY DEF IndInv, TurnInv
<1>4. UNCHANGED <<turn, plan, history, executions, nextSess, cancel, failed, error,
                  requests, open, performed, told, received, platform>>
  BY <1>1 DEF RestateStatus
<1>5. /\ status' \in {"idle", "running", "cancelling", "cancelled", "failed"}
      /\ turn.phase # "none" => status' = status \/ (cancel.requested /\ status' = "cancelling")
  BY <1>1, <1>3 DEF RestateStatus
<1>6. ListingInv'
  BY <1>2, <1>4 DEF ListingInv, platform
<1> QED
  BY <1>2, <1>4, <1>5, <1>6, Frame DEF platform

-----------------------------------------------------------------------------
(* Steps of a cancelling session.                                          *)

\* An operation the cancellation waits for, if only as a late withdrawal.
AwaitedBy(c, o) ==
    \/ /\ o[1] \in {"withdraw", "llm_cancel"}
       /\ \E t \in DOMAIN c.targets : ControlOf(t, c.targets[t]) = o
    \/ /\ o[1] \notin {"withdraw", "llm_cancel"}
       /\ \/ \E p \in DOMAIN c.processes : ControlOf(p, c.processes[p]) = o
          \/ c.discovery = o
          \/ o \in DOMAIN c.targets
    \/ o[1] = "withdraw" /\ o[2] \in DOMAIN c.targets /\ c.targets[o[2]].completed

\* The operations ops are those the cancellation waits for.
Awaited(c, ops) ==
    /\ \A o \in ops : AwaitedBy(c, o)
    /\ \A t \in DOMAIN c.targets :
           /\ ControlOf(t, c.targets[t]) \in ops \cup {None}
           /\ t \notin ops => c.targets[t].completed
           /\ c.targets[t].control = "discovery" => c.discovery # None
    /\ \A p \in DOMAIN c.processes : ControlOf(p, c.processes[p]) \in ops \cup {None}
    /\ c.discovery \in ops \cup {None}

\* What the invariant says of a cancelling session.
LEMMA CancellingFacts ==
    ASSUME IndInv, Cancelling
    PROVE  /\ CancelRecord(cancel, launched, running) /\ None \notin open
           /\ Awaited(cancel, open) /\ ~failed
<1>1. cancel.requested
  BY DEF Cancelling
<1>2. CancelRecord(cancel, launched, running) /\ None \notin open
  BY <1>1 DEF IndInv, CancelInv, NoCancel
<1>3. ASSUME NEW o \in open
      PROVE  AwaitedBy(cancel, o)
  <2>1. Expected(o) \/ LateWithdrawal(o)
    BY DEF IndInv, OperationsAreAwaited
  <2>2. Expected(o) => AwaitedBy(cancel, o)
    BY <1>1 DEF Expected, AwaitedBy, IsControl, IsProcessControl
  <2>3. LateWithdrawal(o) => AwaitedBy(cancel, o)
    BY DEF LateWithdrawal, AwaitedBy
  <2> QED
    BY <2>1, <2>2, <2>3
<1>4. Awaited(cancel, open)
  BY <1>3 DEF IndInv, OperationsAreAwaited, Awaited
<1> QED
  BY <1>2, <1>4 DEF Cancelling

\* What a completion in a cancellation does to the work done.
LEMMA CancelCompletes ==
    ASSUME IndInv, NEW o, NEW new, Complete(o, new), \A x \in new : x[1] \notin WorkKinds
    PROVE  /\ open' = (open \ {o}) \cup new
           /\ open' \cap performed' = {} /\ performed \subseteq performed'
           /\ \A x \in performed' : x[1] \in WorkKinds
           /\ \A x \in open : x[1] = "start" => x \in open' \cup performed'
<1>1. WorkInv
  BY DEF IndInv
<1>2. open \cap performed = {} /\ \A x \in performed : x[1] \in WorkKinds
  BY <1>1 DEF WorkInv, WorkIsNotRepeated
<1>3. /\ open' = (open \ {o}) \cup new
      /\ performed' = performed \cup {x \in open : x = o /\ x[1] \in WorkKinds}
  BY DEF Complete
<1>4. open' \cap performed' = {}
  BY <1>2, <1>3
<1>5. \A x \in open : x[1] = "start" => x \in open' \cup performed'
  BY <1>3 DEF WorkKinds
<1> QED
  BY <1>2, <1>3, <1>4, <1>5

\* set_lifecycle_status.
LEMMA LifecycleStep ==
    ASSUME IndInv, ~failed, ~error, NEW c, NEW t, NEW tracked, SetLifecycleStatus(c, t, tracked),
           CancelRecord(c, launched, running), Awaited(c, open'), None \notin open',
           IsTurn(t), t.phase \in {"none", "cancelling"}, t.id \in 0 .. requests,
           t.attempt \in 0 .. 2, t.retries \in 0 .. MaxLlmRetries, tracked \subseteq executions,
           open' \cap performed' = {}, performed \subseteq performed',
           \A x \in performed' : x[1] \in WorkKinds,
           \A x \in open : x[1] = "start" => x \in open' \cup performed',
           told' \subseteq launched, \A p \in told' \cap running : p \in DOMAIN c.processes,
           ListingInv'
    PROVE  IndInv'
<1>1. /\ cancel' = c /\ plan' = NoPlan
      /\ UNCHANGED <<history, nextSess, failed, error, requests, received, launched, running>>
      /\ \/ turn' = NoTurn /\ executions' = {} /\ status' = "cancelled"
         \/ turn' = t /\ executions' = tracked /\ status' = "cancelling"
  BY DEF SetLifecycleStatus
<1>2. cancel'.requested = TRUE
  BY <1>1 DEF CancelRecord
<1>3. /\ IsTurn(turn') /\ turn'.phase \in {"none", "cancelling"} /\ turn'.id \in 0 .. requests
      /\ turn'.attempt \in 0 .. 2 /\ turn'.retries \in 0 .. MaxLlmRetries
      /\ turn'.phase = "cancelling" => status' = "cancelling"
  <2>1. /\ IsTurn(NoTurn) /\ NoTurn.phase = "none" /\ NoTurn.id = 0 /\ NoTurn.attempt = 0
        /\ NoTurn.retries = 0
    BY DEF NoTurn, IsTurn
  <2>2. requests \in Nat
    BY DEF IndInv, TurnInv
  <2>3. CASE turn' = NoTurn
    BY <2>1, <2>2, <2>3 DEF MaxLlmRetries
  <2>4. CASE turn' = t /\ status' = "cancelling"
    BY <2>4
  <2> QED
    BY <1>1, <2>3, <2>4
<1>4. TurnInv' /\ PlanInv'
  BY <1>1, <1>2, <1>3 DEF IndInv, TurnInv, PlanInv
<1>5. executions' \subseteq executions
  BY <1>1
<1>6. SessionInv'
  BY <1>1, <1>5 DEF IndInv, SessionInv
<1>7. WorkInv'
  BY <1>1, <1>2 DEF IndInv, WorkInv, WorkIsNotRepeated
<1>8. ToldInv'
  BY <1>1, <1>2 DEF ToldInv
<1>9. CancelInv'
  BY <1>1 DEF CancelInv, CancelRecord, TargetInv, ProcessInv
<1>10. TypeOK'
  <2>1. running' \subseteq launched' /\ launched' \subseteq open' \cup performed'
    BY <1>1 DEF IndInv, OperationsAreAwaited, TypeOK, WorkInv
  <2>2. executions' \subseteq [sess : 1 .. nextSess' - 1, proc : launched']
    BY <1>1, <1>5 DEF IndInv, OperationsAreAwaited, TypeOK
  <2>3. \A i \in DOMAIN plan'.calls :
           [f \in {"tool", "args", "step", "status"} |-> plan'.calls[i][f]] \in CallType
    BY <1>1 DEF NoPlan
  <2>4. failed' \in BOOLEAN /\ error' \in BOOLEAN
    BY <1>1 DEF IndInv, OperationsAreAwaited, TypeOK
  <2> QED
    BY <1>1, <1>2, <1>3, <2>1, <2>2, <2>3, <2>4 DEF TypeOK
<1>11. OperationsAreAwaited'
  <2>1. ~Live' /\ ~failed'
    BY <1>1, <1>2 DEF Live
  <2>2. ASSUME NEW o \in open'
        PROVE  Expected(o)' \/ LateWithdrawal(o)'
    <3>1. AwaitedBy(c, o)
      BY DEF Awaited
    <3> QED
      BY <1>1, <1>2, <3>1 DEF AwaitedBy, Expected, LateWithdrawal, IsControl, IsProcessControl,
                              ControlOf
  <2>3. /\ \A x \in DOMAIN c.targets :
             /\ ControlOf(x, c.targets[x]) \in open' \cup {None}
             /\ x \notin open' => c.targets[x].completed
             /\ c.targets[x].control = "discovery" => c.discovery # None
        /\ \A p \in DOMAIN c.processes : ControlOf(p, c.processes[p]) \in open' \cup {None}
        /\ c.discovery \in open' \cup {None}
    BY DEF Awaited
  <2> QED
    BY <1>1, <1>10, <2>1, <2>2, <2>3 DEF OperationsAreAwaited, ControlOf
<1> QED
  BY <1>4, <1>6, <1>7, <1>8, <1>9, <1>11 DEF IndInv

\* The names of controls.
LEMMA TargetControl ==
    ASSUME NEW t, NEW r, TargetInv(t, r)
    PROVE  \/ ControlOf(t, r) = None /\ r.control \in {"completion", "discovery", "settled"}
           \/ r.control = "withdraw" /\ ControlOf(t, r) = <<"withdraw", t, 0>>
           \/ r.control = "llm_cancel" /\ ControlOf(t, r) = <<"llm_cancel", t, r.attempt>>
BY DEF ControlOf, TargetInv

\* The same for the controls of a process (process_for_control).
LEMMA ProcessControl ==
    ASSUME NEW p, NEW r, NEW failures, NEW started, NEW alive,
           ProcessInv(p, r, failures, started, alive)
    PROVE  \/ ControlOf(p, r) = None /\ r.control = "settled"
           \/ r.control = "interrupt" /\ ControlOf(p, r) = <<"interrupt", p, 0>>
           \/ r.control = "terminate" /\ ControlOf(p, r) = <<"terminate", p, r.attempt>>
BY DEF ControlOf, ProcessInv

\* One target's record changes when its control completes.
TargetAnswered(c, d, t, r) ==
    /\ DOMAIN d.targets = DOMAIN c.targets /\ d.targets[t] = r
    /\ \A x \in DOMAIN c.targets : x # t => d.targets[x] = c.targets[x]
    /\ d.processes = c.processes /\ d.discovery = c.discovery

\* A target whose control was answered waits for its next control, if it has one, and
\* no other operation is affected: names tell the controls of two targets apart.
LEMMA TargetAwaited ==
    ASSUME NEW c, NEW started, NEW alive, CancelRecord(c, started, alive),
           NEW ops, Awaited(c, ops), None \notin ops,
           NEW t \in DOMAIN c.targets, NEW o \in ops, o = ControlOf(t, c.targets[t]),
           NEW r, TargetInv(t, r), r.control # "discovery", c.targets[t].completed => r.completed,
           NEW d, TargetAnswered(c, d, t, r),
           NEW new, new = {ControlOf(t, r)} \ {None}
    PROVE  Awaited(d, (ops \ {o}) \cup new)
<1> DEFINE next == (ops \ {o}) \cup new
<1>1. \A x \in DOMAIN c.targets : TargetInv(x, c.targets[x])
  BY DEF CancelRecord
<1>2. o[1] \in {"withdraw", "llm_cancel"} /\ o[2] = t
  BY <1>1, TargetControl
<1>3. \A x \in DOMAIN c.targets : x[1] \in {"llm"} \cup ExecutionKinds
  BY <1>1 DEF TargetInv
<1>4. \A x \in DOMAIN c.targets : x # o
  BY <1>2, <1>3 DEF ExecutionKinds
<1>5. ASSUME NEW x \in DOMAIN c.targets, ControlOf(x, c.targets[x]) = o
      PROVE  x = t
  <2>1. TargetInv(x, c.targets[x]) /\ o # None
    BY <1>1
  <2>2. o[2] = x
    BY <1>5, <2>1, TargetControl
  <2> QED
    BY <1>2, <2>2
<1>6. ASSUME NEW x \in next
      PROVE  AwaitedBy(d, x)
  <2>1. CASE x \in new
    <3>1. x = ControlOf(t, r) /\ x # None
      BY <2>1
    <3>2. x[1] \in {"withdraw", "llm_cancel"}
      BY <3>1, TargetControl
    <3> QED
      BY <3>1, <3>2 DEF AwaitedBy, TargetAnswered
  <2>2. CASE x \in ops /\ x # o
    <3>1. AwaitedBy(c, x)
      BY <2>2 DEF Awaited
    <3>2. CASE x[1] \in {"withdraw", "llm_cancel"} /\ \E y \in DOMAIN c.targets : ControlOf(y, c.targets[y]) = x
      <4>1. PICK y \in DOMAIN c.targets : ControlOf(y, c.targets[y]) = x
        BY <3>2
      <4>2. y # t
        BY <2>2, <4>1
      <4> QED
        BY <3>2, <4>1, <4>2 DEF AwaitedBy, TargetAnswered
    <3>3. CASE /\ x[1] \notin {"withdraw", "llm_cancel"}
               /\ \/ \E p \in DOMAIN c.processes : ControlOf(p, c.processes[p]) = x
                  \/ c.discovery = x
                  \/ x \in DOMAIN c.targets
      BY <3>3 DEF AwaitedBy, TargetAnswered
    <3>4. CASE x[1] = "withdraw" /\ x[2] \in DOMAIN c.targets /\ c.targets[x[2]].completed
      BY <3>4 DEF AwaitedBy, TargetAnswered
    <3> QED
      BY <3>1, <3>2, <3>3, <3>4 DEF AwaitedBy
  <2> QED
    BY <1>6, <2>1, <2>2
<1>7. ASSUME NEW x \in DOMAIN d.targets
      PROVE  /\ ControlOf(x, d.targets[x]) \in next \cup {None}
             /\ x \notin next => d.targets[x].completed
             /\ d.targets[x].control = "discovery" => d.discovery # None
  <2>1. x \in DOMAIN c.targets /\ x # o
    BY <1>4 DEF TargetAnswered
  <2>2. /\ ControlOf(x, c.targets[x]) \in ops \cup {None}
        /\ x \notin ops => c.targets[x].completed
        /\ c.targets[x].control = "discovery" => c.discovery # None
    BY <2>1 DEF Awaited
  <2>3. CASE x = t
    <3>1. ControlOf(t, r) \in new \cup {None}
      OBVIOUS
    <3> QED
      BY <2>1, <2>2, <2>3, <3>1 DEF TargetAnswered
  <2>4. CASE x # t
    <3>1. ControlOf(x, c.targets[x]) # o /\ d.targets[x] = c.targets[x] /\ d.discovery = c.discovery
      BY <1>5, <2>1, <2>4 DEF TargetAnswered
    <3> QED
      BY <2>1, <2>2, <3>1
  <2> QED
    BY <2>3, <2>4
<1>8. ASSUME NEW p \in DOMAIN d.processes
      PROVE  ControlOf(p, d.processes[p]) \in next \cup {None}
  <2>1. p \in DOMAIN c.processes /\ d.processes[p] = c.processes[p]
    BY DEF TargetAnswered
  <2>2. ProcessInv(p, c.processes[p], c.failures, started, alive)
    BY <2>1 DEF CancelRecord
  <2>3. ControlOf(p, c.processes[p]) # o
    BY <1>2, <2>2, ProcessControl
  <2> QED
    BY <2>1, <2>3 DEF Awaited
<1>9. d.discovery \in next \cup {None}
  <2>1. c.discovery # o
    BY <1>2 DEF CancelRecord
  <2> QED
    BY <2>1 DEF Awaited, TargetAnswered
<1> QED
  BY <1>6, <1>7, <1>8, <1>9 DEF Awaited

\* One process's record changes when its control completes.
ProcessAnswered(c, d, p, r) ==
    /\ DOMAIN d.processes = DOMAIN c.processes /\ d.processes[p] = r
    /\ \A x \in DOMAIN c.processes : x # p => d.processes[x] = c.processes[x]
    /\ d.targets = c.targets /\ d.discovery = c.discovery

\* The same for a process.
LEMMA ProcessAwaited ==
    ASSUME NEW c, NEW started, NEW alive, CancelRecord(c, started, alive),
           NEW ops, Awaited(c, ops), None \notin ops,
           NEW p \in DOMAIN c.processes, NEW o \in ops, o = ControlOf(p, c.processes[p]),
           NEW r, NEW failures, ProcessInv(p, r, failures, started, alive),
           NEW d, ProcessAnswered(c, d, p, r),
           NEW new, new = {ControlOf(p, r)} \ {None}
    PROVE  Awaited(d, (ops \ {o}) \cup new)
<1> DEFINE next == (ops \ {o}) \cup new
<1>1. \A x \in DOMAIN c.processes : ProcessInv(x, c.processes[x], c.failures, started, alive)
  BY DEF CancelRecord
<1>2. o[1] \in {"interrupt", "terminate"} /\ o[2] = p
  BY <1>1, ProcessControl
<1>3. \A x \in DOMAIN c.targets : TargetInv(x, c.targets[x])
  BY DEF CancelRecord
<1>4. \A x \in DOMAIN c.targets : x # o
  BY <1>2, <1>3 DEF ExecutionKinds, TargetInv
<1>5. ASSUME NEW x \in DOMAIN c.processes, ControlOf(x, c.processes[x]) = o
      PROVE  x = p
  <2>1. ProcessInv(x, c.processes[x], c.failures, started, alive) /\ o # None
    BY <1>1
  <2>2. o[2] = x
    BY <1>5, <2>1, ProcessControl
  <2> QED
    BY <1>2, <2>2
<1>6. ASSUME NEW x \in next
      PROVE  AwaitedBy(d, x)
  <2>1. CASE x \in new
    <3>1. x = ControlOf(p, r) /\ x # None
      BY <2>1
    <3>2. x[1] \in {"interrupt", "terminate"}
      BY <3>1, ProcessControl
    <3> QED
      BY <3>1, <3>2 DEF AwaitedBy, ProcessAnswered
  <2>2. CASE x \in ops /\ x # o
    <3>1. AwaitedBy(c, x)
      BY <2>2 DEF Awaited
    <3>2. CASE /\ x[1] \notin {"withdraw", "llm_cancel"}
               /\ \E y \in DOMAIN c.processes : ControlOf(y, c.processes[y]) = x
      <4>1. PICK y \in DOMAIN c.processes : ControlOf(y, c.processes[y]) = x
        BY <3>2
      <4>2. y # p
        BY <2>2, <4>1
      <4> QED
        BY <3>2, <4>1, <4>2 DEF AwaitedBy, ProcessAnswered
    <3>3. CASE ~\E y \in DOMAIN c.processes : ControlOf(y, c.processes[y]) = x
      BY <3>1, <3>3 DEF AwaitedBy, ProcessAnswered
    <3>4. CASE x[1] \in {"withdraw", "llm_cancel"}
      BY <3>1, <3>4 DEF AwaitedBy, ProcessAnswered
    <3> QED
      BY <3>2, <3>3, <3>4
  <2> QED
    BY <1>6, <2>1, <2>2
<1>7. ASSUME NEW x \in DOMAIN d.targets
      PROVE  /\ ControlOf(x, d.targets[x]) \in next \cup {None}
             /\ x \notin next => d.targets[x].completed
             /\ d.targets[x].control = "discovery" => d.discovery # None
  <2>1. x \in DOMAIN c.targets /\ x # o /\ d.targets = c.targets /\ d.discovery = c.discovery
    BY <1>4 DEF ProcessAnswered
  <2>2. /\ ControlOf(x, c.targets[x]) \in ops \cup {None}
        /\ x \notin ops => c.targets[x].completed
        /\ c.targets[x].control = "discovery" => c.discovery # None
    BY <2>1 DEF Awaited
  <2>3. TargetInv(x, c.targets[x])
    BY <1>3, <2>1
  <2>4. ControlOf(x, c.targets[x]) # o
    BY <1>2, <2>3, TargetControl
  <2> QED
    BY <2>1, <2>2, <2>4
<1>8. ASSUME NEW x \in DOMAIN d.processes
      PROVE  ControlOf(x, d.processes[x]) \in next \cup {None}
  <2>1. CASE x = p
    BY <2>1 DEF ProcessAnswered
  <2>2. CASE x # p
    <3>1. x \in DOMAIN c.processes /\ d.processes[x] = c.processes[x]
      BY <2>2 DEF ProcessAnswered
    <3>2. ControlOf(x, c.processes[x]) # o
      BY <1>5, <2>2, <3>1
    <3> QED
      BY <3>1, <3>2 DEF Awaited
  <2> QED
    BY <2>1, <2>2
<1>9. d.discovery \in next \cup {None}
  <2>1. c.discovery # o
    BY <1>2 DEF CancelRecord
  <2> QED
    BY <2>1 DEF Awaited, ProcessAnswered
<1> QED
  BY <1>6, <1>7, <1>8, <1>9 DEF Awaited

\* What of the cancellation an answer leaves alone.
Kept(c, d) ==
    /\ IsCancel(d) /\ d.requested = TRUE
    /\ d.listings = c.listings /\ d.attempt = c.attempt /\ c.failures \subseteq d.failures

\* A cancellation goes on from c to d: targets stay targets, completed ones completed,
\* failures recorded, processes known and settled ones settled.
GoesOn(c, d) ==
    /\ d.requested = TRUE
    /\ DOMAIN d.targets = DOMAIN c.targets
    /\ \A t \in DOMAIN c.targets : c.targets[t].completed => d.targets[t].completed
    /\ c.failures \subseteq d.failures
    /\ \A p \in DOMAIN c.processes :
         /\ p \in DOMAIN d.processes
         /\ c.processes[p].control = "settled" => d.processes[p] = c.processes[p]

CleanupKinds == {"llm_cancel", "interrupt", "terminate", "list"}

\* What a step may do once cancellation was requested: nothing joins the projection,
\* no model request, tool call or withdrawal is staged, no session is tracked, and the
\* cancellation goes on.  (DESIGN.md: "The existing platform cancellation endpoint
\* remains terminal for the session.")
OnlyCleanup ==
    cancel.requested =>
        /\ GoesOn(cancel, cancel')
        /\ UNCHANGED <<history, received, requests, nextSess, failed>>
        /\ executions' \subseteq executions
        /\ \A o \in open' \ open : o[1] \in CleanupKinds

\* A step of a cancellation keeps the invariant, only cleans up and refuses nothing.
CleansUp == IndInv' /\ OnlyCleanup /\ error' = error

\* Every completion that a cancellation handles ends in set_lifecycle_status.
LEMMA LifecycleCleansUp ==
    ASSUME NEW o, NEW new, Complete(o, new), \A x \in new : x[1] \in CleanupKinds,
           NEW d, GoesOn(cancel, d), NEW tracked, tracked \subseteq executions,
           SetLifecycleStatus(d, turn, tracked)
    PROVE  OnlyCleanup /\ error' = error
<1>1. cancel' = d /\ error' = error /\ UNCHANGED <<history, received, requests, nextSess, failed>>
      /\ executions' \subseteq executions
  BY DEF SetLifecycleStatus
<1>2. \A x \in open' \ open : x[1] \in CleanupKinds
  BY DEF Complete
<1> QED
  BY <1>1, <1>2 DEF OnlyCleanup

\* What else the invariant says of a cancelling session.
LEMMA CancellingTurn ==
    ASSUME IndInv, Cancelling
    PROVE  /\ IsTurn(turn) /\ turn.phase \in {"none", "cancelling"} /\ turn.id \in 0 .. requests
           /\ turn.attempt \in 0 .. 2 /\ turn.retries \in 0 .. MaxLlmRetries
           /\ ~error /\ ~failed /\ told \subseteq launched /\ ListingInv
           /\ \A p \in told \cap running : p \in DOMAIN cancel.processes
BY DEF IndInv, TurnInv, OperationsAreAwaited, TypeOK, ToldInv, Cancelling

\* The control of a target completes.
LEMMA TargetStep ==
    ASSUME IndInv, Cancelling, NEW o \in open, NEW new, Complete(o, new),
           NEW t \in DOMAIN cancel.targets, o = ControlOf(t, cancel.targets[t]),
           NEW r, TargetInv(t, r), r.control \notin {"discovery", "withdraw"},
           cancel.targets[t].completed => r.completed, new = {ControlOf(t, r)} \ {None},
           NEW d, TargetAnswered(cancel, d, t, r), Kept(cancel, d), IsFunction(d.targets),
           SetLifecycleStatus(d, turn, executions), UNCHANGED <<told, listing>>
    PROVE  CleansUp
<1>1. /\ CancelRecord(cancel, launched, running) /\ None \notin open
      /\ Awaited(cancel, open) /\ ~failed
  BY CancellingFacts
<1>2. \A x \in new : x[1] \notin WorkKinds /\ x # None
  BY TargetControl DEF WorkKinds
<1>3. /\ open' = (open \ {o}) \cup new
      /\ open' \cap performed' = {} /\ performed \subseteq performed'
      /\ \A x \in performed' : x[1] \in WorkKinds
      /\ \A x \in open : x[1] = "start" => x \in open' \cup performed'
  BY <1>2, CancelCompletes
<1>4. None \notin open'
  BY <1>1, <1>2, <1>3
<1>5. Awaited(d, open')
  <2>1. Awaited(d, (open \ {o}) \cup new)
    BY <1>1, TargetAwaited
  <2> QED
    BY <1>3, <2>1
<1>6. CancelRecord(d, launched, running)
  <2>1. \A x \in DOMAIN d.targets : TargetInv(x, d.targets[x])
    BY <1>1 DEF CancelRecord, TargetAnswered
  <2>2. ASSUME NEW p \in DOMAIN d.processes
        PROVE  ProcessInv(p, d.processes[p], d.failures, launched, running)
    <3>1. ProcessInv(p, d.processes[p], cancel.failures, launched, running)
      BY <1>1 DEF CancelRecord, TargetAnswered
    <3> QED
      BY <3>1 DEF ProcessInv, Kept
  <2> QED
    BY <1>1, <2>1, <2>2 DEF CancelRecord, TargetAnswered, Kept
<1>7. /\ IsTurn(turn) /\ turn.phase \in {"none", "cancelling"} /\ turn.id \in 0 .. requests
      /\ turn.attempt \in 0 .. 2 /\ turn.retries \in 0 .. MaxLlmRetries
      /\ ~error /\ ~failed /\ told \subseteq launched /\ ListingInv
      /\ \A p \in told \cap running : p \in DOMAIN cancel.processes
  BY CancellingTurn
<1>8. ListingInv' /\ told' \subseteq launched /\ \A p \in told' \cap running : p \in DOMAIN d.processes
  BY <1>7 DEF ListingInv, TargetAnswered, SetLifecycleStatus
<1>9. IndInv'
  BY <1>3, <1>4, <1>5, <1>6, <1>7, <1>8, LifecycleStep
<1>10. \A x \in new : x[1] \in CleanupKinds
  BY DEF TargetInv, ControlOf, CleanupKinds
<1>11. GoesOn(cancel, d)
  BY DEF TargetAnswered, Kept, GoesOn
<1>12. OnlyCleanup /\ error' = error
  BY <1>10, <1>11, LifecycleCleansUp
<1> QED
  BY <1>9, <1>12 DEF CleansUp

\* The control of a process completes.
LEMMA ProcessStep ==
    ASSUME IndInv, Cancelling, NEW o \in open, NEW new, Complete(o, new),
           NEW p \in DOMAIN cancel.processes, o = ControlOf(p, cancel.processes[p]),
           NEW d, NEW r, ProcessInv(p, r, d.failures, launched, running),
           new = {ControlOf(p, r)} \ {None},
           ProcessAnswered(cancel, d, p, r), Kept(cancel, d), IsFunction(d.processes),
           NEW tracked, tracked \subseteq executions,
           SetLifecycleStatus(d, turn, tracked), UNCHANGED <<told, listing>>
    PROVE  CleansUp
<1>1. /\ CancelRecord(cancel, launched, running) /\ None \notin open
      /\ Awaited(cancel, open) /\ ~failed
  BY CancellingFacts
<1>2. \A x \in new : x[1] \notin WorkKinds /\ x # None
  BY ProcessControl DEF WorkKinds
<1>3. /\ open' = (open \ {o}) \cup new
      /\ open' \cap performed' = {} /\ performed \subseteq performed'
      /\ \A x \in performed' : x[1] \in WorkKinds
      /\ \A x \in open : x[1] = "start" => x \in open' \cup performed'
  BY <1>2, CancelCompletes
<1>4. None \notin open'
  BY <1>1, <1>2, <1>3
<1>5. Awaited(d, open')
  <2>1. Awaited(d, (open \ {o}) \cup new)
    BY <1>1, ProcessAwaited
  <2> QED
    BY <1>3, <2>1
<1>6. CancelRecord(d, launched, running)
  <2>1. \A x \in DOMAIN d.targets : TargetInv(x, d.targets[x])
    BY <1>1 DEF CancelRecord, ProcessAnswered
  <2>2. ASSUME NEW x \in DOMAIN d.processes
        PROVE  ProcessInv(x, d.processes[x], d.failures, launched, running)
    <3>1. CASE x = p
      BY <3>1 DEF ProcessAnswered
    <3>2. CASE x # p
      <4>1. ProcessInv(x, d.processes[x], cancel.failures, launched, running)
        BY <1>1, <3>2 DEF CancelRecord, ProcessAnswered
      <4> QED
        BY <4>1 DEF ProcessInv, Kept
    <3> QED
      BY <3>1, <3>2
  <2> QED
    BY <1>1, <2>1, <2>2 DEF CancelRecord, ProcessAnswered, Kept
<1>7. /\ IsTurn(turn) /\ turn.phase \in {"none", "cancelling"} /\ turn.id \in 0 .. requests
      /\ turn.attempt \in 0 .. 2 /\ turn.retries \in 0 .. MaxLlmRetries
      /\ ~error /\ ~failed /\ told \subseteq launched /\ ListingInv
      /\ \A x \in told \cap running : x \in DOMAIN cancel.processes
  BY CancellingTurn
<1>8. ListingInv' /\ told' \subseteq launched /\ \A x \in told' \cap running : x \in DOMAIN d.processes
  BY <1>7 DEF ListingInv, ProcessAnswered, SetLifecycleStatus
<1>9. IndInv'
  BY <1>3, <1>4, <1>5, <1>6, <1>7, <1>8, LifecycleStep
<1>10. \A x \in new : x[1] \in CleanupKinds
  BY DEF ProcessInv, ControlOf, CleanupKinds
<1>11. cancel.processes[p].control # "settled"
  BY <1>1 DEF ControlOf
<1>12. GoesOn(cancel, d)
  BY <1>11 DEF ProcessAnswered, Kept, GoesOn
<1>13. OnlyCleanup /\ error' = error
  BY <1>10, <1>12, LifecycleCleansUp
<1> QED
  BY <1>9, <1>13 DEF CleansUp

\* The target that a control belongs to.
LEMMA ControlledTarget ==
    ASSUME IndInv, Cancelling, NEW o \in open, IsControl(o)
    PROVE  /\ o[2] \in DOMAIN cancel.targets /\ o = ControlOf(o[2], cancel.targets[o[2]])
           /\ TargetInv(o[2], cancel.targets[o[2]])
           /\ o[1] = cancel.targets[o[2]].control
           /\ o[1] = "llm_cancel" => o = <<"llm_cancel", o[2], cancel.targets[o[2]].attempt>>
<1>1. PICK t \in DOMAIN cancel.targets : ControlOf(t, cancel.targets[t]) = o
  BY DEF IsControl
<1>2. TargetInv(t, cancel.targets[t]) /\ o # None
  BY CancellingFacts DEF CancelRecord
<1>3. o[2] = t /\ o[1] = cancel.targets[t].control
      /\ (o[1] = "llm_cancel" => o = <<"llm_cancel", t, cancel.targets[t].attempt>>)
  BY <1>1, <1>2, TargetControl
<1> QED
  BY <1>1, <1>2, <1>3

\* The process that a control belongs to.
LEMMA ControlledProcess ==
    ASSUME IndInv, Cancelling, NEW o \in open, IsProcessControl(o)
    PROVE  /\ o[2] \in DOMAIN cancel.processes /\ o = ControlOf(o[2], cancel.processes[o[2]])
           /\ ProcessInv(o[2], cancel.processes[o[2]], cancel.failures, launched, running)
           /\ o[1] = cancel.processes[o[2]].control
           /\ o[1] = "terminate" => o = <<"terminate", o[2], cancel.processes[o[2]].attempt>>
<1>1. PICK p \in DOMAIN cancel.processes : ControlOf(p, cancel.processes[p]) = o
  BY DEF IsProcessControl
<1>2. ProcessInv(p, cancel.processes[p], cancel.failures, launched, running) /\ o # None
  BY CancellingFacts DEF CancelRecord
<1>3. o[2] = p /\ o[1] = cancel.processes[p].control
      /\ (o[1] = "terminate" => o = <<"terminate", p, cancel.processes[p].attempt>>)
  BY <1>1, <1>2, ProcessControl
<1> QED
  BY <1>1, <1>2, <1>3

\* Setting one target in the cancellation.
LEMMA SetTarget ==
    ASSUME NEW c, IsCancel(c), c.requested = TRUE, IsFunction(c.targets), NEW t \in DOMAIN c.targets,
           NEW r, NEW f, c.failures \subseteq f,
           NEW d, d = [c EXCEPT !.failures = f, !.targets[t] = r] \/
                  (d = [c EXCEPT !.targets[t] = r])
    PROVE  TargetAnswered(c, d, t, r) /\ Kept(c, d) /\ IsFunction(d.targets)
<1>1. PICK ts : ts = [c.targets EXCEPT ![t] = r]
  OBVIOUS
<1>2. /\ IsCancel(d) /\ d.targets = ts /\ d.requested = c.requested /\ d.listings = c.listings
      /\ d.attempt = c.attempt /\ d.failures \in {f, c.failures} /\ d.processes = c.processes
      /\ d.discovery = c.discovery
  BY <1>1 DEF IsCancel
<1>3. DOMAIN ts = DOMAIN c.targets /\ ts[t] = r /\ IsFunction(ts)
      /\ \A x \in DOMAIN c.targets : x # t => ts[x] = c.targets[x]
  BY <1>1 DEF IsFunction
<1> QED
  BY <1>2, <1>3 DEF TargetAnswered, Kept

\* Setting one process in the cancellation.
LEMMA SetProcess ==
    ASSUME NEW c, IsCancel(c), c.requested = TRUE, IsFunction(c.processes),
           NEW p \in DOMAIN c.processes, NEW r, NEW d, IsCancel(d),
           d.processes = [c.processes EXCEPT ![p] = r], c.failures \subseteq d.failures,
           d.requested = c.requested, d.listings = c.listings, d.attempt = c.attempt,
           d.targets = c.targets, d.discovery = c.discovery
    PROVE  ProcessAnswered(c, d, p, r) /\ Kept(c, d) /\ IsFunction(d.processes)
<1>1. PICK ps : ps = [c.processes EXCEPT ![p] = r]
  OBVIOUS
<1>2. DOMAIN ps = DOMAIN c.processes /\ ps[p] = r /\ IsFunction(ps)
      /\ \A x \in DOMAIN c.processes : x # p => ps[x] = c.processes[x]
  BY <1>1 DEF IsFunction
<1> QED
  BY <1>1, <1>2 DEF ProcessAnswered, Kept

\* handle_withdrawal: the target is settled, waits for its completion, or for the
\* cancellation of the model request.
LEMMA WithdrawalCompletesStep ==
    ASSUME IndInv, NEW o, WithdrawalCompletes(o)
    PROVE  CleansUp
<1>1. /\ Cancelling /\ o \in open /\ IsControl(o) /\ UNCHANGED <<told, listing>>
  BY DEF WithdrawalCompletes, Completes
<1>2. PICK t : t = o[2]
  OBVIOUS
<1>3. PICK old : old = cancel.targets[t]
  OBVIOUS
<1>4. /\ t \in DOMAIN cancel.targets /\ o = ControlOf(t, cancel.targets[t])
      /\ TargetInv(t, old)
  BY <1>1, <1>2, <1>3, ControlledTarget
<1>5. IsCancel(cancel) /\ cancel.requested = TRUE /\ IsFunction(cancel.targets)
  BY <1>1, CancellingFacts DEF CancelRecord
<1>6. ASSUME NEW r, TargetInv(t, r), r.control \notin {"discovery", "withdraw"},
             old.completed => r.completed,
             NEW new, new = {ControlOf(t, r)} \ {None}, Complete(o, new),
             NEW d, d = [cancel EXCEPT !.targets[t] = r], SetLifecycleStatus(d, turn, executions)
      PROVE  CleansUp
  <2>1. TargetAnswered(cancel, d, t, r) /\ Kept(cancel, d) /\ IsFunction(d.targets)
    BY <1>4, <1>5, <1>6, SetTarget
  <2> QED
    BY <1>1, <1>3, <1>4, <1>6, <2>1, TargetStep
<1>7. CASE /\ Complete(o, {})
           /\ SetLifecycleStatus(
                [cancel EXCEPT !.targets[t] = [completed |-> TRUE, control |-> "settled",
                                               attempt |-> 0]], turn, executions)
  <2>1. PICK r : r = [completed |-> TRUE, control |-> "settled", attempt |-> 0]
    OBVIOUS
  <2>2. TargetInv(t, r) /\ r.control = "settled" /\ r.completed
    BY <1>4, <2>1 DEF TargetInv, IsTarget
  <2>3. {} = {ControlOf(t, r)} \ {None}
    BY <2>2 DEF ControlOf
  <2>4. PICK d : d = [cancel EXCEPT !.targets[t] = r] /\ SetLifecycleStatus(d, turn, executions)
    BY <1>7, <2>1
  <2> QED
    BY <1>6, <1>7, <2>2, <2>3, <2>4
<1>8. CASE /\ t[1] = "llm"
           /\ Complete(o, {<<"llm_cancel", t, 1>>})
           /\ SetLifecycleStatus(
                [cancel EXCEPT !.targets[t] = [completed |-> cancel.targets[t].completed,
                                               control |-> "llm_cancel", attempt |-> 1]],
                turn, executions)
  <2>1. PICK r : r = [completed |-> cancel.targets[t].completed, control |-> "llm_cancel",
                      attempt |-> 1]
    OBVIOUS
  <2>2. TargetInv(t, r) /\ r.control = "llm_cancel" /\ r.completed = old.completed
    BY <1>3, <1>4, <1>8, <2>1 DEF TargetInv, IsTarget
  <2>3. {<<"llm_cancel", t, 1>>} = {ControlOf(t, r)} \ {None}
    <3>1. ControlOf(t, r) = <<"llm_cancel", t, 1>>
      BY <2>1, <2>2 DEF ControlOf
    <3>2. <<"llm_cancel", t, 1>> # None
      BY DEF None
    <3> QED
      BY <3>1, <3>2
  <2>4. PICK d : d = [cancel EXCEPT !.targets[t] = r] /\ SetLifecycleStatus(d, turn, executions)
    BY <1>8, <2>1
  <2> QED
    BY <1>6, <1>8, <2>2, <2>3, <2>4
<1>9. CASE /\ Complete(o, {})
           /\ SetLifecycleStatus(
                [cancel EXCEPT !.targets[t] =
                    [completed |-> cancel.targets[t].completed,
                     control |-> IF cancel.targets[t].completed THEN "settled" ELSE "completion",
                     attempt |-> 0]],
                turn, executions)
  <2>1. PICK r : r = [completed |-> cancel.targets[t].completed,
                      control |-> IF cancel.targets[t].completed THEN "settled" ELSE "completion",
                      attempt |-> 0]
    OBVIOUS
  <2>2. /\ TargetInv(t, r) /\ r.control \in {"settled", "completion"}
        /\ r.completed = old.completed
    BY <1>3, <1>4, <2>1 DEF TargetInv, IsTarget
  <2>3. {} = {ControlOf(t, r)} \ {None}
    BY <2>2 DEF ControlOf
  <2>4. PICK d : d = [cancel EXCEPT !.targets[t] = r] /\ SetLifecycleStatus(d, turn, executions)
    BY <1>9, <2>1
  <2> QED
    BY <1>6, <1>9, <2>2, <2>3, <2>4
<1> QED
  BY <1>2, <1>7, <1>8, <1>9 DEF WithdrawalCompletes

\* handle_llm_cancellation: a failed attempt is repeated, and then recorded as settled.
LEMMA LlmCancellationCompletesStep ==
    ASSUME IndInv, NEW o, LlmCancellationCompletes(o)
    PROVE  CleansUp
<1>1. PICK succeeded \in BOOLEAN :
        LET t == o[2]
            retry == ~succeeded /\ cancel.targets[t].attempt < MaxCleanupAttempts
            next == IF retry THEN cancel.targets[t].attempt + 1 ELSE 0
        IN  /\ Cancelling /\ Completes(o)
            /\ o[1] = "llm_cancel" /\ IsControl(o)
            /\ Complete(o, IF retry THEN {<<"llm_cancel", t, next>>} ELSE {})
            /\ SetLifecycleStatus(
                  [cancel EXCEPT
                      !.failures = IF succeeded THEN @ ELSE @ \cup {o},
                      !.targets[t] = [@ EXCEPT !.attempt = next,
                                               !.control = IF retry THEN "llm_cancel"
                                                           ELSE "settled"]],
                  turn, executions)
            /\ UNCHANGED <<told, inputs, withdrawn, listing>>
  BY DEF LlmCancellationCompletes
<1> DEFINE t == o[2]
           old == cancel.targets[t]
           retry == ~succeeded /\ old.attempt < MaxCleanupAttempts
           next == IF retry THEN old.attempt + 1 ELSE 0
           control == IF retry THEN "llm_cancel" ELSE "settled"
           r == [old EXCEPT !.attempt = next, !.control = control]
           f == IF succeeded THEN cancel.failures ELSE cancel.failures \cup {o}
           d == [cancel EXCEPT !.failures = f, !.targets[t] = r]
           new == IF retry THEN {<<"llm_cancel", t, next>>} ELSE {}
<1>2. Complete(o, new) /\ SetLifecycleStatus(d, turn, executions)
  BY <1>1
<1>3. /\ Cancelling /\ o \in open /\ IsControl(o) /\ o[1] = "llm_cancel"
      /\ UNCHANGED <<told, listing>>
  BY <1>1 DEF Completes
<1>4. /\ t \in DOMAIN cancel.targets /\ o = ControlOf(t, cancel.targets[t])
      /\ TargetInv(t, old) /\ old.control = "llm_cancel"
  BY <1>3, ControlledTarget
<1>5. IsCancel(cancel) /\ cancel.requested = TRUE /\ IsFunction(cancel.targets)
  BY <1>3, CancellingFacts DEF CancelRecord
<1>6. \/ retry /\ control = "llm_cancel" /\ next = old.attempt + 1
      \/ ~retry /\ control = "settled" /\ next = 0
  OBVIOUS
<1>7. cancel.failures \subseteq f
  OBVIOUS
<1> HIDE DEF t, old, retry, next, control, f
<1>8. /\ TargetInv(t, r) /\ r.control = control /\ r.attempt = next /\ r.completed = old.completed
  BY <1>4, <1>6 DEF TargetInv, IsTarget
<1> HIDE DEF r
<1>9. TargetAnswered(cancel, d, t, r) /\ Kept(cancel, d) /\ IsFunction(d.targets)
  <2> SUFFICES ASSUME NEW e, e = d
               PROVE  TargetAnswered(cancel, e, t, r) /\ Kept(cancel, e) /\ IsFunction(e.targets)
    OBVIOUS
  <2> QED
    BY <1>4, <1>5, <1>7, SetTarget
<1> HIDE DEF d
<1>10. new = {ControlOf(t, r)} \ {None}
  <2>1. CASE retry
    <3>1. ControlOf(t, r) = <<"llm_cancel", t, next>>
      BY <1>6, <1>8, <2>1 DEF ControlOf
    <3>2. <<"llm_cancel", t, next>> # None
      BY DEF None
    <3> QED
      BY <2>1, <3>1, <3>2
  <2>2. CASE ~retry
    BY <1>6, <1>8, <2>2 DEF ControlOf
  <2> QED
    BY <2>1, <2>2
<1> HIDE DEF new
<1>11. r.control \notin {"discovery", "withdraw"} /\ (cancel.targets[t].completed => r.completed)
  BY <1>6, <1>8 DEF old
<1> QED
  BY <1>2, <1>3, <1>4, <1>8, <1>9, <1>10, <1>11, TargetStep

\* handle_process_control, the answer to an interrupt: the process is settled if
\* it is reported finished, and terminated otherwise.
LEMMA InterruptCompletesStep ==
    ASSUME IndInv, NEW o, InterruptCompletes(o)
    PROVE  CleansUp
<1>1. PICK reported \in BOOLEAN :
        LET p == o[2]
            finished == reported /\ p \notin running
        IN  /\ Cancelling /\ Completes(o)
            /\ o[1] = "interrupt" /\ IsProcessControl(o)
            /\ Complete(o, IF finished THEN {} ELSE {<<"terminate", p, 1>>})
            /\ SetLifecycleStatus(
                  [cancel EXCEPT !.processes[p] =
                      [@ EXCEPT !.control = IF finished THEN "settled" ELSE "terminate",
                                !.attempt = IF finished THEN 0 ELSE 1]],
                  turn,
                  IF finished THEN Settle(executions, cancel.processes[p]) ELSE executions)
            /\ UNCHANGED <<told, inputs, withdrawn, listing>>
  BY DEF InterruptCompletes
<1> DEFINE p == o[2]
           old == cancel.processes[p]
           finished == reported /\ p \notin running
           control == IF finished THEN "settled" ELSE "terminate"
           attempt == IF finished THEN 0 ELSE 1
           r == [old EXCEPT !.control = control, !.attempt = attempt]
           d == [cancel EXCEPT !.processes[p] = r]
           new == IF finished THEN {} ELSE {<<"terminate", p, 1>>}
           tracked == IF finished THEN Settle(executions, old) ELSE executions
<1>2. Complete(o, new) /\ SetLifecycleStatus(d, turn, tracked)
  BY <1>1
<1>3. /\ Cancelling /\ o \in open /\ IsProcessControl(o) /\ UNCHANGED <<told, listing>>
  BY <1>1 DEF Completes
<1>4. /\ p \in DOMAIN cancel.processes /\ o = ControlOf(p, cancel.processes[p])
      /\ ProcessInv(p, old, cancel.failures, launched, running)
  BY <1>3, ControlledProcess
<1>5. IsCancel(cancel) /\ cancel.requested = TRUE /\ IsFunction(cancel.processes)
  BY <1>3, CancellingFacts DEF CancelRecord
<1>6. \/ finished /\ control = "settled" /\ attempt = 0 /\ p \notin running
      \/ ~finished /\ control = "terminate" /\ attempt = 1
  OBVIOUS
<1>7. tracked \subseteq executions
  BY DEF Settle
<1> HIDE DEF p, old, finished, control, attempt, tracked
<1>8. /\ ProcessInv(p, r, cancel.failures, launched, running) /\ r.control = control
      /\ r.attempt = attempt
  BY <1>4, <1>6 DEF ProcessInv, IsProcess
<1> HIDE DEF r
<1>9. /\ ProcessAnswered(cancel, d, p, r) /\ Kept(cancel, d) /\ IsFunction(d.processes)
      /\ d.failures = cancel.failures
  <2> SUFFICES ASSUME NEW e, e = d
               PROVE  /\ ProcessAnswered(cancel, e, p, r) /\ Kept(cancel, e)
                      /\ IsFunction(e.processes) /\ e.failures = cancel.failures
    OBVIOUS
  <2>1. p \in DOMAIN cancel.processes /\ cancel.failures \subseteq cancel.failures
    BY <1>4
  <2>2. e = [cancel EXCEPT !.processes[p] = r]
    OBVIOUS
  <2> HIDE DEF d
  <2>3. /\ IsCancel(e) /\ e.processes = [cancel.processes EXCEPT ![p] = r] /\ e.failures = cancel.failures
        /\ e.requested = cancel.requested /\ e.listings = cancel.listings
        /\ e.attempt = cancel.attempt /\ e.targets = cancel.targets
        /\ e.discovery = cancel.discovery
    BY <1>5, <2>2 DEF IsCancel
  <2> QED
    BY <1>5, <2>1, <2>3, SetProcess
<1> HIDE DEF d
<1>10. new = {ControlOf(p, r)} \ {None}
  <2>1. CASE finished
    BY <1>6, <1>8, <2>1 DEF ControlOf
  <2>2. CASE ~finished
    <3>1. ControlOf(p, r) = <<"terminate", p, 1>>
      BY <1>6, <1>8, <2>2 DEF ControlOf
    <3>2. <<"terminate", p, 1>> # None
      BY DEF None
    <3> QED
      BY <2>2, <3>1, <3>2
  <2> QED
    BY <2>1, <2>2
<1> HIDE DEF new
<1>11. ProcessInv(p, r, d.failures, launched, running)
  BY <1>8, <1>9
<1> QED
  BY <1>2, <1>3, <1>4, <1>7, <1>9, <1>10, <1>11, ProcessStep

\* handle_process_control, the answer to a termination: a failed one is recorded,
\* and repeated unless it was the second.
LEMMA TerminateCompletesStep ==
    ASSUME IndInv, NEW o, TerminateCompletes(o)
    PROVE  CleansUp
<1>1. PICK succeeded \in BOOLEAN :
        LET p == o[2]
            retry == ~succeeded /\ cancel.processes[p].attempt < MaxCleanupAttempts
            next == IF retry THEN cancel.processes[p].attempt + 1 ELSE 0
        IN  /\ Cancelling /\ Completes(o)
            /\ o[1] = "terminate" /\ IsProcessControl(o)
            /\ succeeded => p \notin running
            /\ Complete(o, IF retry THEN {<<"terminate", p, next>>} ELSE {})
            /\ SetLifecycleStatus(
                  [cancel EXCEPT
                      !.failures = IF succeeded THEN @ ELSE @ \cup {o},
                      !.processes[p] = [@ EXCEPT !.attempt = next,
                                                 !.control = IF retry THEN "terminate"
                                                             ELSE "settled"]],
                  turn,
                  IF retry THEN executions ELSE Settle(executions, cancel.processes[p]))
            /\ UNCHANGED <<told, inputs, withdrawn, listing>>
  BY DEF TerminateCompletes
<1> DEFINE p == o[2]
           old == cancel.processes[p]
           retry == ~succeeded /\ old.attempt < MaxCleanupAttempts
           next == IF retry THEN old.attempt + 1 ELSE 0
           control == IF retry THEN "terminate" ELSE "settled"
           r == [old EXCEPT !.attempt = next, !.control = control]
           f == IF succeeded THEN cancel.failures ELSE cancel.failures \cup {o}
           d == [cancel EXCEPT !.failures = f, !.processes[p] = r]
           new == IF retry THEN {<<"terminate", p, next>>} ELSE {}
           tracked == IF retry THEN executions ELSE Settle(executions, old)
<1>2. Complete(o, new) /\ SetLifecycleStatus(d, turn, tracked)
  BY <1>1
<1>3. /\ Cancelling /\ o \in open /\ IsProcessControl(o) /\ UNCHANGED <<told, listing>>
      /\ o[1] = "terminate" /\ (succeeded => p \notin running)
  BY <1>1 DEF Completes
<1>4. /\ p \in DOMAIN cancel.processes /\ o = ControlOf(p, cancel.processes[p])
      /\ ProcessInv(p, old, cancel.failures, launched, running)
      /\ old.control = "terminate" /\ o = <<"terminate", p, old.attempt>>
  BY <1>3, ControlledProcess
<1>5. IsCancel(cancel) /\ cancel.requested = TRUE /\ IsFunction(cancel.processes)
  BY <1>3, CancellingFacts DEF CancelRecord
<1>6. \/ /\ retry /\ control = "terminate" /\ next = old.attempt + 1
         /\ old.attempt < 2 /\ o \in f
      \/ /\ ~retry /\ control = "settled" /\ next = 0
         /\ p \notin running \/ (o \in f /\ ~(old.attempt < 2))
  BY <1>3 DEF MaxCleanupAttempts
<1>7. cancel.failures \subseteq f /\ tracked \subseteq executions
  BY DEF Settle
<1> HIDE DEF p, old, retry, next, control, f, tracked
<1>8. r.control = control /\ r.attempt = next /\ IsProcess(r)
  BY <1>4 DEF ProcessInv, IsProcess
<1> HIDE DEF r
<1>9. ProcessInv(p, r, f, launched, running)
  <2>1. /\ p \in launched /\ old.attempt \in {1, 2}
        /\ old.attempt = 2 => <<"terminate", p, 1>> \in f
    BY <1>4, <1>7 DEF ProcessInv
  <2>2. CASE retry
    <3>1. old.attempt = 1 /\ control = "terminate" /\ next = 2 /\ o \in f
      BY <1>6, <2>1, <2>2
    <3>2. <<"terminate", p, 1>> \in f
      BY <1>4, <3>1
    <3> QED
      BY <1>8, <2>1, <3>1, <3>2 DEF ProcessInv
  <2>3. CASE ~retry /\ p \notin running
    BY <1>6, <1>8, <2>1, <2>3 DEF ProcessInv
  <2>4. CASE ~retry /\ o \in f /\ ~(old.attempt < 2)
    <3>1. old.attempt = 2 /\ control = "settled"
      BY <1>6, <2>1, <2>4
    <3>2. <<"terminate", p, 1>> \in f /\ <<"terminate", p, 2>> \in f
      BY <1>4, <2>1, <2>4, <3>1
    <3> QED
      BY <1>8, <2>1, <3>1, <3>2 DEF ProcessInv
  <2> QED
    BY <1>6, <2>2, <2>3, <2>4
<1>10. /\ ProcessAnswered(cancel, d, p, r) /\ Kept(cancel, d) /\ IsFunction(d.processes)
       /\ d.failures = f
  <2> SUFFICES ASSUME NEW e, e = d
               PROVE  /\ ProcessAnswered(cancel, e, p, r) /\ Kept(cancel, e)
                      /\ IsFunction(e.processes) /\ e.failures = f
    OBVIOUS
  <2>1. p \in DOMAIN cancel.processes /\ cancel.failures \subseteq f
    BY <1>4, <1>7
  <2>2. e = [cancel EXCEPT !.failures = f, !.processes[p] = r]
    OBVIOUS
  <2> HIDE DEF d
  <2>3. /\ IsCancel(e) /\ e.processes = [cancel.processes EXCEPT ![p] = r] /\ e.failures = f
        /\ e.requested = cancel.requested /\ e.listings = cancel.listings
        /\ e.attempt = cancel.attempt /\ e.targets = cancel.targets
        /\ e.discovery = cancel.discovery
    BY <1>5, <2>2 DEF IsCancel
  <2> QED
    BY <1>5, <2>1, <2>3, SetProcess
<1> HIDE DEF d
<1>11. new = {ControlOf(p, r)} \ {None}
  <2>1. CASE retry
    <3>1. ControlOf(p, r) = <<"terminate", p, next>>
      BY <1>6, <1>8, <2>1 DEF ControlOf
    <3>2. <<"terminate", p, next>> # None
      BY DEF None
    <3> QED
      BY <2>1, <3>1, <3>2
  <2>2. CASE ~retry
    BY <1>6, <1>8, <2>2 DEF ControlOf
  <2> QED
    BY <2>1, <2>2
<1> HIDE DEF new
<1>12. ProcessInv(p, r, d.failures, launched, running)
  BY <1>9, <1>10
<1> QED
  BY <1>2, <1>3, <1>4, <1>7, <1>10, <1>11, <1>12, ProcessStep

\* What the completion o of work in flight, or of a discovery, does to the
\* cancellation: processes are added, targets settle or wait for a discovery.
LateAnswer(c, d, o) ==
    /\ o[1] \in {"llm", "list"} \cup ExecutionKinds
    /\ DOMAIN d.targets = DOMAIN c.targets
    /\ \A t \in DOMAIN c.targets :
         /\ c.targets[t].completed \/ t = o => d.targets[t].completed
         /\ \/ /\ d.targets[t].control = c.targets[t].control
               /\ d.targets[t].attempt = c.targets[t].attempt
            \/ /\ d.targets[t].control \in {"discovery", "settled"}
               /\ \/ c.targets[t].control \in {"completion", "discovery", "settled"}
                  \/ c.targets[t].control = "withdraw" /\ d.targets[t].completed
         /\ d.targets[t].control = "discovery" => d.discovery # None
    /\ c.failures \subseteq d.failures
    /\ DOMAIN c.processes \subseteq DOMAIN d.processes
    /\ \A p \in DOMAIN c.processes : d.processes[p] = c.processes[p]
    /\ \A p \in DOMAIN d.processes \ DOMAIN c.processes : d.processes[p].control = "interrupt"
    /\ d.discovery # o
    /\ d.discovery = c.discovery \/ c.discovery \in {None, o}

\* The operations such a completion stages.
InterruptsFor(procs) == {<<"interrupt", p, 0>> : p \in procs}

Staged(c, d) ==
    InterruptsFor(DOMAIN d.processes \ DOMAIN c.processes)
        \cup ({d.discovery} \ {None, c.discovery})

\* After it, what is in flight is what the cancellation waits for; the withdrawal
\* of a target whose outcome came first completes late.
LEMMA LateAwaited ==
    ASSUME NEW c, NEW started, NEW alive, CancelRecord(c, started, alive),
           NEW ops, Awaited(c, ops), None \notin ops, NEW o \in ops,
           NEW d, CancelRecord(d, started, alive), LateAnswer(c, d, o),
           NEW new, new = Staged(c, d)
    PROVE  Awaited(d, (ops \ {o}) \cup new)
<1>1. o[1] \in {"llm", "list", "start", "interact", "observe", "read", "mutate", "reconcile"} /\ o # None
  BY DEF LateAnswer, ExecutionKinds
<1>2. \A t \in DOMAIN c.targets : TargetInv(t, c.targets[t]) /\ TargetInv(t, d.targets[t])
  BY DEF CancelRecord, LateAnswer
<1>3. \A p \in DOMAIN c.processes : ProcessInv(p, c.processes[p], c.failures, started, alive)
  BY DEF CancelRecord
<1>4. \A p \in DOMAIN d.processes \ DOMAIN c.processes :
        ControlOf(p, d.processes[p]) = <<"interrupt", p, 0>> /\ <<"interrupt", p, 0>> \in new
  BY DEF LateAnswer, ControlOf, Staged, InterruptsFor
<1>5. \A t \in DOMAIN c.targets :
        \/ ControlOf(t, d.targets[t]) = ControlOf(t, c.targets[t])
        \/ /\ ControlOf(t, d.targets[t]) = None
           /\ \/ ControlOf(t, c.targets[t]) = None
              \/ ControlOf(t, c.targets[t]) = <<"withdraw", t, 0>> /\ d.targets[t].completed
  BY <1>2 DEF LateAnswer, ControlOf, TargetInv
<1>6. \A x \in ops \ {o} : AwaitedBy(d, x)
  <2> SUFFICES ASSUME NEW x \in ops, x # o
               PROVE  AwaitedBy(d, x)
    OBVIOUS
  <2>1. AwaitedBy(c, x) /\ x # None
    BY DEF Awaited
  <2>2. CASE x[1] \in {"withdraw", "llm_cancel"} /\ \E t \in DOMAIN c.targets : ControlOf(t, c.targets[t]) = x
    <3>1. PICK t \in DOMAIN c.targets : ControlOf(t, c.targets[t]) = x
      BY <2>2
    <3>2. t \in DOMAIN d.targets
      BY DEF LateAnswer
    <3>3. CASE ControlOf(t, d.targets[t]) = x
      BY <2>2, <3>2, <3>3 DEF AwaitedBy
    <3>4. CASE x = <<"withdraw", t, 0>> /\ d.targets[t].completed
      <4>1. x[1] = "withdraw" /\ x[2] = t
        BY <3>4
      <4> QED
        BY <3>2, <3>4, <4>1 DEF AwaitedBy
    <3> QED
      BY <1>5, <2>1, <3>1, <3>3, <3>4
  <2>3. CASE /\ x[1] \notin {"withdraw", "llm_cancel"}
             /\ \/ \E p \in DOMAIN c.processes : ControlOf(p, c.processes[p]) = x
                \/ c.discovery = x
                \/ x \in DOMAIN c.targets
    <3>1. c.discovery = x => d.discovery = x
      BY <2>1 DEF LateAnswer
    <3>2. \A p \in DOMAIN c.processes : p \in DOMAIN d.processes /\ d.processes[p] = c.processes[p]
      BY DEF LateAnswer
    <3>3. DOMAIN d.targets = DOMAIN c.targets
      BY DEF LateAnswer
    <3> QED
      BY <2>3, <3>1, <3>2, <3>3 DEF AwaitedBy
  <2>4. CASE x[1] = "withdraw" /\ x[2] \in DOMAIN c.targets /\ c.targets[x[2]].completed
    BY <2>4 DEF AwaitedBy, LateAnswer
  <2> QED
    BY <2>1, <2>2, <2>3, <2>4 DEF AwaitedBy
<1>7. \A x \in new : AwaitedBy(d, x)
  <2> SUFFICES ASSUME NEW x \in new
               PROVE  AwaitedBy(d, x)
    OBVIOUS
  <2>1. CASE \E p \in DOMAIN d.processes \ DOMAIN c.processes : x = <<"interrupt", p, 0>>
    <3>1. PICK p \in DOMAIN d.processes \ DOMAIN c.processes : x = <<"interrupt", p, 0>>
      BY <2>1
    <3>2. x[1] = "interrupt" /\ ControlOf(p, d.processes[p]) = x
      BY <1>4, <3>1
    <3> QED
      BY <3>2 DEF AwaitedBy
  <2>2. CASE x = d.discovery /\ x # None
    <3>1. x[1] = "list"
      BY <2>2 DEF CancelRecord
    <3> QED
      BY <2>2, <3>1 DEF AwaitedBy
  <2> QED
    BY <2>1, <2>2 DEF Staged, InterruptsFor
<1>8. ASSUME NEW t \in DOMAIN d.targets
      PROVE  /\ ControlOf(t, d.targets[t]) \in ((ops \ {o}) \cup new) \cup {None}
             /\ t \notin (ops \ {o}) \cup new => d.targets[t].completed
             /\ d.targets[t].control = "discovery" => d.discovery # None
  <2>1. t \in DOMAIN c.targets
    BY DEF LateAnswer
  <2>2. /\ ControlOf(t, c.targets[t]) \in ops \cup {None}
        /\ t \notin ops => c.targets[t].completed
    BY <2>1 DEF Awaited
  <2>3. ControlOf(t, c.targets[t]) # o
    <3>1. \/ ControlOf(t, c.targets[t]) = None
          \/ ControlOf(t, c.targets[t])[1] \in {"withdraw", "llm_cancel"}
      BY <1>2, <2>1, TargetControl
    <3> QED
      BY <1>1, <3>1
  <2>4. ControlOf(t, d.targets[t]) \in ((ops \ {o}) \cup new) \cup {None}
    BY <1>5, <2>1, <2>2, <2>3
  <2>5. t \notin (ops \ {o}) \cup new => d.targets[t].completed
    BY <2>1, <2>2 DEF LateAnswer
  <2>6. d.targets[t].control = "discovery" => d.discovery # None
    BY <2>1 DEF LateAnswer
  <2> QED
    BY <2>4, <2>5, <2>6
<1>9. ASSUME NEW p \in DOMAIN d.processes
      PROVE  ControlOf(p, d.processes[p]) \in ((ops \ {o}) \cup new) \cup {None}
  <2>1. CASE p \in DOMAIN c.processes
    <3>1. ControlOf(p, c.processes[p]) \in ops \cup {None} /\ d.processes[p] = c.processes[p]
      BY <2>1 DEF Awaited, LateAnswer
    <3>2. \/ ControlOf(p, c.processes[p]) = None
          \/ ControlOf(p, c.processes[p])[1] \in {"interrupt", "terminate"}
      BY <1>3, <2>1, ProcessControl
    <3>3. ControlOf(p, c.processes[p]) # o
      BY <1>1, <3>2
    <3> QED
      BY <3>1, <3>3
  <2>2. CASE p \notin DOMAIN c.processes
    BY <1>4, <2>2
  <2> QED
    BY <2>1, <2>2
<1>10. d.discovery \in ((ops \ {o}) \cup new) \cup {None}
  <2>1. c.discovery \in ops \cup {None} /\ d.discovery # o
    BY DEF Awaited, LateAnswer
  <2> QED
    BY <2>1 DEF Staged
<1> QED
  BY <1>6, <1>7, <1>8, <1>9, <1>10 DEF Awaited

\* The completion of work in flight, or of a discovery.
LEMMA LateStep ==
    ASSUME IndInv, Cancelling, NEW o \in open, NEW new, Complete(o, new),
           NEW d, CancelRecord(d, launched, running), LateAnswer(cancel, d, o),
           new = Staged(cancel, d), SetLifecycleStatus(d, turn, executions),
           told' \subseteq told \cup DOMAIN d.processes, ListingInv'
    PROVE  CleansUp
<1>1. /\ CancelRecord(cancel, launched, running) /\ None \notin open
      /\ Awaited(cancel, open) /\ ~failed
  BY CancellingFacts
<1>2. \A x \in new : x[1] \notin WorkKinds /\ x # None
  <2>1. \A x \in {d.discovery} \ {None, cancel.discovery} : x[1] = "list" /\ x # None
    BY DEF CancelRecord
  <2>2. \A p : <<"interrupt", p, 0>>[1] = "interrupt" /\ <<"interrupt", p, 0>> # None
    BY DEF None
  <2> QED
    BY <2>1, <2>2 DEF WorkKinds, Staged, InterruptsFor
<1>3. /\ open' = (open \ {o}) \cup new
      /\ open' \cap performed' = {} /\ performed \subseteq performed'
      /\ \A x \in performed' : x[1] \in WorkKinds
      /\ \A x \in open : x[1] = "start" => x \in open' \cup performed'
  BY <1>2, CancelCompletes
<1>4. None \notin open'
  BY <1>1, <1>2, <1>3
<1>5. Awaited(d, open')
  <2>1. Awaited(d, (open \ {o}) \cup new)
    BY <1>1, LateAwaited
  <2> QED
    BY <1>3, <2>1
<1>6. /\ IsTurn(turn) /\ turn.phase \in {"none", "cancelling"} /\ turn.id \in 0 .. requests
      /\ turn.attempt \in 0 .. 2 /\ turn.retries \in 0 .. MaxLlmRetries
      /\ ~error /\ ~failed /\ told \subseteq launched /\ ListingInv
      /\ \A p \in told \cap running : p \in DOMAIN cancel.processes
  BY CancellingTurn
<1>7. told' \subseteq launched /\ \A p \in told' \cap running : p \in DOMAIN d.processes
  <2>1. DOMAIN d.processes \subseteq launched
    BY DEF CancelRecord, ProcessInv
  <2>2. DOMAIN cancel.processes \subseteq DOMAIN d.processes
    BY DEF LateAnswer
  <2> QED
    BY <1>6, <2>1, <2>2
<1>8. IndInv'
  BY <1>3, <1>4, <1>5, <1>6, <1>7, LifecycleStep
<1>9. \A x \in new : x[1] \in CleanupKinds
  <2>1. \A x \in {d.discovery} \ {None, cancel.discovery} : x[1] = "list"
    BY DEF CancelRecord
  <2>2. \A p : <<"interrupt", p, 0>>[1] = "interrupt"
    OBVIOUS
  <2> QED
    BY <2>1, <2>2 DEF CleanupKinds, Staged, InterruptsFor
<1>10. GoesOn(cancel, d)
  BY DEF LateAnswer, CancelRecord, GoesOn
<1>11. OnlyCleanup /\ error' = error
  BY <1>9, <1>10, LifecycleCleansUp
<1> QED
  BY <1>8, <1>11 DEF CleansUp

ProcsOf(found) == {x.proc : x \in found}

\* The processes qs are ps and, to be interrupted, the rest of procs.
Adds(ps, qs, procs) ==
    /\ IsFunction(qs) /\ DOMAIN qs = DOMAIN ps \cup procs
    /\ \A p \in DOMAIN ps : qs[p] = ps[p]
    /\ \A p \in DOMAIN qs \ DOMAIN ps : IsProcess(qs[p]) /\ qs[p].control = "interrupt"

\* stage_interrupt for each process found.
LEMMA StageFacts ==
    ASSUME NEW ps, IsFunction(ps), NEW found, NEW qs, qs = StageInterrupts(ps, found),
           NEW procs, procs = ProcsOf(found)
    PROVE  /\ Adds(ps, qs, procs)
           /\ Interrupts(ps, found) = InterruptsFor(DOMAIN qs \ DOMAIN ps)
<1>1. DOMAIN qs = DOMAIN ps \cup procs
  BY DEF StageInterrupts, ProcsOf
<1>2. \A p \in DOMAIN ps : qs[p] = ps[p]
  BY DEF StageInterrupts
<1>3. ASSUME NEW p \in DOMAIN qs \ DOMAIN ps
      PROVE  IsProcess(qs[p]) /\ qs[p].control = "interrupt"
  <2>1. qs[p] = [sess |-> (CHOOSE x \in found : x.proc = p).sess, control |-> "interrupt",
                 attempt |-> 0]
    BY <1>1 DEF StageInterrupts
  <2> QED
    BY <2>1 DEF IsProcess
<1>4. IsFunction(qs)
  BY DEF StageInterrupts, IsFunction
<1>5. DOMAIN qs \ DOMAIN ps = procs \ DOMAIN ps
  BY <1>1
<1>6. Interrupts(ps, found) = InterruptsFor(procs \ DOMAIN ps)
  BY DEF Interrupts, InterruptsFor, ProcsOf
<1> QED
  BY <1>1, <1>2, <1>3, <1>4, <1>5, <1>6 DEF Adds

\* The processes that a report or a listing names have no session.
LEMMA UntrackedFacts ==
    ASSUME NEW procs
    PROVE  ProcsOf(Untracked(procs)) = procs
<1>1. ASSUME NEW p \in procs
      PROVE  \E x \in Untracked(procs) : x.proc = p
  <2>1. [sess |-> NoSess, proc |-> p] \in Untracked(procs)
    BY DEF Untracked
  <2> QED
    BY <2>1
<1>2. \A x \in Untracked(procs) : x.proc \in procs
  BY DEF Untracked
<1> QED
  BY <1>1, <1>2 DEF ProcsOf

\* A cancellation but for its processes.
CancelShape(c) ==
    /\ IsCancel(c) /\ c.requested = TRUE /\ IsFunction(c.targets)
    /\ c.listings \in Nat /\ c.attempt \in Nat
    /\ c.discovery \in {None, <<"list", c.listings, 0>>}
    /\ \A t \in DOMAIN c.targets : TargetInv(t, c.targets[t])

\* A cancellation whose processes were added to.
LEMMA StagedRecord ==
    ASSUME NEW c, NEW started, NEW alive, CancelRecord(c, started, alive),
           NEW found, ProcsOf(found) \subseteq started,
           NEW d, CancelShape(d), d.processes = StageInterrupts(c.processes, found),
           c.failures \subseteq d.failures
    PROVE  /\ CancelRecord(d, started, alive)
           /\ Adds(c.processes, d.processes, ProcsOf(found))
           /\ Interrupts(c.processes, found) = InterruptsFor(DOMAIN d.processes \ DOMAIN c.processes)
<1>1. PICK ps, qs : ps = c.processes /\ qs = d.processes
  OBVIOUS
<1>2. IsFunction(ps) /\ qs = StageInterrupts(ps, found)
  BY <1>1 DEF CancelRecord
<1>3. Adds(ps, qs, ProcsOf(found)) /\ Interrupts(ps, found) = InterruptsFor(DOMAIN qs \ DOMAIN ps)
  BY <1>2, StageFacts
<1>4. ASSUME NEW p \in DOMAIN qs
      PROVE  ProcessInv(p, qs[p], d.failures, started, alive)
  <2>1. CASE p \in DOMAIN ps
    <3>1. ProcessInv(p, ps[p], c.failures, started, alive)
      BY <1>1, <2>1 DEF CancelRecord
    <3> QED
      BY <1>3, <2>1, <3>1 DEF ProcessInv, Adds
  <2>2. CASE p \notin DOMAIN ps
    BY <1>3, <2>2 DEF ProcessInv, Adds
  <2> QED
    BY <2>1, <2>2
<1>5. CancelRecord(d, started, alive)
  BY <1>1, <1>3, <1>4 DEF CancelRecord, CancelShape, Adds
<1> QED
  BY <1>1, <1>3, <1>5

\* handle_original_completion.
LEMMA OriginalCompletesStep ==
    ASSUME IndInv, NEW o, OriginalCompletes(o)
    PROVE  CleansUp
<1>1. PICK outcome \in {"succeeded", "failed", "unknown", "cancelled"} :
      \E report \in Report(o, outcome) :
        LET found == Untracked(IF report = "active" THEN {ProcessOf(o)} ELSE {})
            uncertain == o[1] # "llm" /\ outcome = "unknown" /\ report = "none"
            discover == uncertain /\ cancel.discovery = None
            next == <<"list", cancel.listings + 1, 0>>
            control == cancel.targets[o].control
        IN  /\ Cancelling /\ Completes(o)
            /\ o \in DOMAIN cancel.targets
            /\ Complete(o, Interrupts(cancel.processes, found) \cup (IF discover THEN {next} ELSE {}))
            /\ told' = told \cup {x.proc : x \in found}
            /\ SetLifecycleStatus(
                  [cancel EXCEPT
                      !.processes = StageInterrupts(@, found),
                      !.discovery = IF discover THEN next ELSE @,
                      !.attempt = IF discover THEN 1 ELSE @,
                      !.listings = IF discover THEN @ + 1 ELSE @,
                      !.targets[o] =
                          [@ EXCEPT !.completed = TRUE,
                                    !.control = IF uncertain THEN "discovery"
                                                ELSE IF control = "completion" THEN "settled"
                                                ELSE control]],
                  turn, executions)
            /\ UNCHANGED <<inputs, withdrawn, listing>>
  BY DEF OriginalCompletes
<1>2. PICK report \in Report(o, outcome) :
        LET found == Untracked(IF report = "active" THEN {ProcessOf(o)} ELSE {})
            uncertain == o[1] # "llm" /\ outcome = "unknown" /\ report = "none"
            discover == uncertain /\ cancel.discovery = None
            next == <<"list", cancel.listings + 1, 0>>
            control == cancel.targets[o].control
        IN  /\ Cancelling /\ Completes(o)
            /\ o \in DOMAIN cancel.targets
            /\ Complete(o, Interrupts(cancel.processes, found) \cup (IF discover THEN {next} ELSE {}))
            /\ told' = told \cup {x.proc : x \in found}
            /\ SetLifecycleStatus(
                  [cancel EXCEPT
                      !.processes = StageInterrupts(@, found),
                      !.discovery = IF discover THEN next ELSE @,
                      !.attempt = IF discover THEN 1 ELSE @,
                      !.listings = IF discover THEN @ + 1 ELSE @,
                      !.targets[o] =
                          [@ EXCEPT !.completed = TRUE,
                                    !.control = IF uncertain THEN "discovery"
                                                ELSE IF control = "completion" THEN "settled"
                                                ELSE control]],
                  turn, executions)
            /\ UNCHANGED <<inputs, withdrawn, listing>>
  BY <1>1
<1> DEFINE procs == IF report = "active" THEN {ProcessOf(o)} ELSE {}
           found == Untracked(procs)
           uncertain == o[1] # "llm" /\ outcome = "unknown" /\ report = "none"
           discover == uncertain /\ cancel.discovery = None
           next == <<"list", cancel.listings + 1, 0>>
           old == cancel.targets[o]
           control == IF uncertain THEN "discovery"
                      ELSE IF old.control = "completion" THEN "settled" ELSE old.control
           r == [old EXCEPT !.completed = TRUE, !.control = control]
           qs == StageInterrupts(cancel.processes, found)
           discovery == IF discover THEN next ELSE cancel.discovery
           attempt == IF discover THEN 1 ELSE cancel.attempt
           listings == IF discover THEN cancel.listings + 1 ELSE cancel.listings
           d == [cancel EXCEPT !.processes = qs, !.discovery = discovery, !.attempt = attempt,
                               !.listings = listings, !.targets[o] = r]
           staged == IF discover THEN {next} ELSE {}
           new == Interrupts(cancel.processes, found) \cup staged
<1>3. Complete(o, new) /\ SetLifecycleStatus(d, turn, executions)
  BY <1>2
<1>4. /\ Cancelling /\ o \in open /\ o \in DOMAIN cancel.targets /\ listing' = listing
      /\ told' = told \cup ProcsOf(found)
  BY <1>2 DEF Completes, ProcsOf
<1>5. /\ CancelRecord(cancel, launched, running) /\ None \notin open
      /\ Awaited(cancel, open) /\ ~failed
  BY <1>4, CancellingFacts
<1>6. TargetInv(o, old)
  BY <1>4, <1>5 DEF CancelRecord
<1>7. procs \subseteq launched
  <2>1. CASE report = "active"
    <3>1. ProcessOf(o) \in launched
      BY <2>1 DEF Report
    <3> QED
      BY <2>1, <3>1
  <2>2. CASE report # "active"
    BY <2>2
  <2> QED
    BY <2>1, <2>2
<1>8. ProcsOf(found) = procs
  BY UntrackedFacts
<1>9. /\ IsCancel(cancel) /\ cancel.requested = TRUE /\ cancel.listings \in Nat
      /\ cancel.attempt \in Nat /\ cancel.discovery \in {None, <<"list", cancel.listings, 0>>}
      /\ IsFunction(cancel.targets)
  BY <1>5 DEF CancelRecord
<1>10. \/ discover /\ discovery = next /\ attempt = 1 /\ listings = cancel.listings + 1
          /\ cancel.discovery = None /\ staged = {next}
       \/ ~discover /\ discovery = cancel.discovery /\ attempt = cancel.attempt
          /\ listings = cancel.listings /\ staged = {}
  OBVIOUS
<1>11. \/ /\ control = "discovery" /\ discovery # None /\ o[1] # "llm"
       \/ /\ control = "settled" /\ old.control = "completion"
       \/ /\ control = old.control /\ old.control # "completion" /\ ~uncertain
  <2>1. next # None
    BY DEF None
  <2> QED
    BY <2>1
<1>12. o[1] \in {"llm"} \cup ExecutionKinds
  BY <1>6 DEF TargetInv
<1>13. old.control = "discovery" => discovery # None
  <2>1. old.control = "discovery" => cancel.discovery # None
    BY <1>4, <1>5 DEF Awaited
  <2> QED
    BY <1>10, <2>1
<1> HIDE DEF procs, found, uncertain, discover, old, control, discovery, attempt, listings, staged
<1>14. /\ TargetInv(o, r) /\ r.control = control /\ r.attempt = old.attempt /\ r.completed = TRUE
  BY <1>6, <1>11 DEF TargetInv, IsTarget
<1> HIDE DEF r
<1>15. SUFFICES ASSUME NEW e, e = d
                PROVE  CleansUp
  OBVIOUS
<1> HIDE DEF qs
<1>16. PICK ts : ts = [cancel.targets EXCEPT ![o] = r]
  OBVIOUS
<1>17. /\ IsCancel(e) /\ e.processes = qs /\ e.discovery = discovery /\ e.attempt = attempt
       /\ e.listings = listings /\ e.targets = ts
       /\ e.requested = cancel.requested /\ e.failures = cancel.failures
  BY <1>9, <1>15, <1>16 DEF IsCancel
<1>18. /\ IsFunction(ts) /\ DOMAIN ts = DOMAIN cancel.targets /\ ts[o] = r
       /\ \A t \in DOMAIN cancel.targets : t # o => ts[t] = cancel.targets[t]
  BY <1>4, <1>9, <1>16 DEF IsFunction
<1> HIDE DEF d
<1>19. \A t \in DOMAIN ts : TargetInv(t, ts[t])
  BY <1>5, <1>14, <1>18 DEF CancelRecord
<1>20. discovery \in {None, <<"list", listings, 0>>} /\ listings \in Nat /\ attempt \in Nat
  BY <1>9, <1>10
<1>21. /\ CancelRecord(e, launched, running)
       /\ Adds(cancel.processes, e.processes, procs)
       /\ Interrupts(cancel.processes, found) =
            InterruptsFor(DOMAIN e.processes \ DOMAIN cancel.processes)
  <2>1. e.processes = StageInterrupts(cancel.processes, found)
    BY <1>17 DEF qs
  <2>2. CancelShape(e) /\ cancel.failures \subseteq e.failures
    BY <1>9, <1>17, <1>18, <1>19, <1>20 DEF CancelShape
  <2>3. ProcsOf(found) \subseteq launched
    BY <1>7, <1>8
  <2>4. /\ CancelRecord(e, launched, running)
        /\ Adds(cancel.processes, e.processes, ProcsOf(found))
        /\ Interrupts(cancel.processes, found) =
             InterruptsFor(DOMAIN e.processes \ DOMAIN cancel.processes)
    BY <1>5, <2>1, <2>2, <2>3, StagedRecord
  <2> QED
    BY <1>8, <2>4
<1>22. LateAnswer(cancel, e, o)
  <2>1. discovery # o
    <3>1. discovery = None \/ discovery[1] = "list"
      BY <1>20
    <3> QED
      BY <1>4, <1>5, <1>12, <3>1 DEF ExecutionKinds
  <2>2. discovery = cancel.discovery \/ cancel.discovery \in {None, o}
    BY <1>10
  <2>3. ASSUME NEW t \in DOMAIN cancel.targets
        PROVE  /\ cancel.targets[t].completed \/ t = o => ts[t].completed
               /\ \/ /\ ts[t].control = cancel.targets[t].control
                     /\ ts[t].attempt = cancel.targets[t].attempt
                  \/ /\ ts[t].control \in {"discovery", "settled"}
                     /\ \/ cancel.targets[t].control \in {"completion", "discovery", "settled"}
                        \/ cancel.targets[t].control = "withdraw" /\ ts[t].completed
               /\ ts[t].control = "discovery" => discovery # None
    <3>1. CASE t # o
      <4>1. cancel.targets[t].control = "discovery" => cancel.discovery # None
        BY <1>5 DEF Awaited
      <4>2. next # None
        BY DEF None
      <4> QED
        BY <1>10, <1>18, <3>1, <4>1, <4>2
    <3>2. CASE t = o
      <4>1. ts[t] = r /\ cancel.targets[t] = old
        BY <1>18, <3>2 DEF old
      <4>2. /\ old.control \in {"withdraw", "llm_cancel", "completion", "discovery", "settled"}
            /\ old.control = "llm_cancel" => o[1] = "llm"
        BY <1>6 DEF TargetInv
      <4>3. CASE control = "discovery" /\ discovery # None /\ o[1] # "llm"
        BY <1>14, <4>1, <4>2, <4>3
      <4>4. CASE control = "settled" /\ old.control = "completion"
        BY <1>14, <4>1, <4>4
      <4>5. CASE control = old.control
        BY <1>13, <1>14, <4>1, <4>5
      <4> QED
        BY <1>11, <4>3, <4>4, <4>5
    <3> QED
      BY <3>1, <3>2
  <2> QED
    BY <1>12, <1>17, <1>18, <1>21, <2>1, <2>2, <2>3 DEF LateAnswer, Adds
<1>23. new = Staged(cancel, e)
  <2>1. staged = {discovery} \ {None, cancel.discovery}
    <3>1. next # None
      BY DEF None
    <3> HIDE DEF next
    <3> QED
      BY <1>9, <1>10, <3>1
  <2> QED
    BY <1>17, <1>21, <2>1 DEF Staged
<1>24. told' \subseteq told \cup DOMAIN e.processes
  BY <1>4, <1>8, <1>21 DEF Adds
<1>25. ListingInv'
  BY <1>3, <1>4 DEF IndInv, ListingInv, SetLifecycleStatus
<1>26. Complete(o, new) /\ SetLifecycleStatus(e, turn, executions)
  BY <1>3, <1>15
<1> HIDE DEF new
<1> QED
  BY <1>4, <1>21, <1>22, <1>23, <1>24, <1>25, <1>26, LateStep

\* handle_discovery, after a listing that failed for the first time.
LEMMA DiscoveryRepeated ==
    ASSUME IndInv, NEW o \in open, Cancelling, cancel.discovery = o, ~listing.answered,
           NEW next, next = <<"list", cancel.listings + 1, 0>>, Complete(o, {next}),
           told' = told \cup listing.procs, listing' = NoListing,
           NEW d, d = [cancel EXCEPT !.discovery = next, !.attempt = @ + 1, !.listings = @ + 1,
                                     !.failures = @ \cup {o}],
           SetLifecycleStatus(d, turn, executions)
    PROVE  CleansUp
<1>1. /\ CancelRecord(cancel, launched, running) /\ None \notin open
      /\ Awaited(cancel, open) /\ ~failed
  BY CancellingFacts
<1>2. /\ IsCancel(cancel) /\ cancel.requested = TRUE /\ cancel.listings \in Nat
      /\ cancel.attempt \in Nat /\ o = <<"list", cancel.listings, 0>>
      /\ IsFunction(cancel.targets) /\ IsFunction(cancel.processes)
  BY <1>1 DEF CancelRecord
<1>3. /\ IsCancel(d) /\ d.discovery = next /\ d.attempt = cancel.attempt + 1
      /\ d.listings = cancel.listings + 1 /\ d.failures = cancel.failures \cup {o}
      /\ d.requested = TRUE /\ d.targets = cancel.targets /\ d.processes = cancel.processes
  BY <1>2 DEF IsCancel
<1>4. CancelRecord(d, launched, running)
  <2>1. ASSUME NEW p \in DOMAIN cancel.processes
        PROVE  ProcessInv(p, cancel.processes[p], d.failures, launched, running)
    <3>1. ProcessInv(p, cancel.processes[p], cancel.failures, launched, running)
      BY <1>1 DEF CancelRecord
    <3> QED
      BY <1>3, <3>1 DEF ProcessInv
  <2>2. \A t \in DOMAIN cancel.targets : TargetInv(t, cancel.targets[t])
    BY <1>1 DEF CancelRecord
  <2> QED
    BY <1>2, <1>3, <2>1, <2>2 DEF CancelRecord
<1>5. next # None /\ next # o
  BY <1>2 DEF None
<1>6. LateAnswer(cancel, d, o)
  <2>1. o[1] = "list"
    BY <1>2
  <2>2. o \notin DOMAIN cancel.targets
    <3>1. \A t \in DOMAIN cancel.targets : t[1] \in {"llm"} \cup ExecutionKinds
      BY <1>1 DEF CancelRecord, TargetInv
    <3> QED
      BY <2>1, <3>1 DEF ExecutionKinds
  <2> QED
    BY <1>3, <1>5, <2>1, <2>2 DEF LateAnswer
<1>7. {next} = Staged(cancel, d)
  <2>1. InterruptsFor(DOMAIN d.processes \ DOMAIN cancel.processes) = {}
    BY <1>3 DEF InterruptsFor
  <2>2. {d.discovery} \ {None, cancel.discovery} = {next}
    BY <1>3, <1>5
  <2> QED
    BY <2>1, <2>2 DEF Staged
<1>8. told' \subseteq told
  BY DEF IndInv, ListingInv
<1>9. ListingInv'
  BY DEF ListingInv, NoListing
<1> QED
  BY <1>4, <1>6, <1>7, <1>8, <1>9, LateStep

\* The targets that waited for a discovery are settled.
Settles(ts, us) ==
    /\ IsFunction(us) /\ DOMAIN us = DOMAIN ts
    /\ \A t \in DOMAIN ts :
         /\ TargetInv(t, us[t]) /\ us[t].completed = ts[t].completed /\ us[t].attempt = ts[t].attempt
         /\ \/ us[t].control = ts[t].control /\ us[t].control # "discovery"
            \/ us[t].control = "settled" /\ ts[t].control = "discovery"

\* handle_discovery settles the targets that waited for the listing and no other.
LEMMA SettleTargets ==
    ASSUME NEW ts, \A t \in DOMAIN ts : TargetInv(t, ts[t]),
           NEW us, us = [t \in DOMAIN ts |->
                            [ts[t] EXCEPT !.control = IF @ = "discovery" THEN "settled" ELSE @]]
    PROVE  Settles(ts, us)
<1>1. DOMAIN us = DOMAIN ts /\ IsFunction(us)
  BY DEF IsFunction
<1>2. ASSUME NEW t \in DOMAIN ts
      PROVE  /\ TargetInv(t, us[t]) /\ us[t].completed = ts[t].completed
             /\ us[t].attempt = ts[t].attempt
             /\ \/ us[t].control = ts[t].control /\ us[t].control # "discovery"
                \/ us[t].control = "settled" /\ ts[t].control = "discovery"
  <2>1. PICK old : old = ts[t]
    OBVIOUS
  <2>2. us[t] = [old EXCEPT !.control = IF old.control = "discovery" THEN "settled"
                                        ELSE old.control]
    BY <2>1
  <2>3. TargetInv(t, old)
    BY <2>1
  <2> QED
    BY <2>1, <2>2, <2>3 DEF TargetInv, IsTarget
<1> QED
  BY <1>1, <1>2 DEF Settles

\* handle_discovery, when the listing is answered or has failed twice.
LEMMA DiscoveryAnswered ==
    ASSUME IndInv, NEW o \in open, Cancelling, cancel.discovery = o,
           NEW found, found = Untracked(listing.procs),
           NEW new, new = Interrupts(cancel.processes, found), Complete(o, new),
           told' = told \cup listing.procs, listing' = NoListing,
           NEW d, IsCancel(d), d.discovery = None, d.attempt = 0, Settles(cancel.targets, d.targets),
           d.processes = StageInterrupts(cancel.processes, found), d.requested = cancel.requested,
           d.listings = cancel.listings, d.failures = cancel.failures,
           SetLifecycleStatus(d, turn, executions)
    PROVE  CleansUp
<1>1. /\ CancelRecord(cancel, launched, running) /\ None \notin open
      /\ Awaited(cancel, open) /\ ~failed
  BY CancellingFacts
<1>2. /\ cancel.requested = TRUE /\ cancel.listings \in Nat
      /\ o = <<"list", cancel.listings, 0>>
  BY <1>1 DEF CancelRecord
<1>6. ProcsOf(found) = listing.procs /\ listing.procs \subseteq launched
  BY UntrackedFacts DEF IndInv, ListingInv
<1>7. CancelShape(d)
  BY <1>2 DEF CancelShape, Settles
<1>8. /\ CancelRecord(d, launched, running)
      /\ Adds(cancel.processes, d.processes, ProcsOf(found))
      /\ Interrupts(cancel.processes, found) =
           InterruptsFor(DOMAIN d.processes \ DOMAIN cancel.processes)
  <2>1. cancel.failures \subseteq d.failures
    OBVIOUS
  <2>2. ProcsOf(found) \subseteq launched
    BY <1>6
  <2> QED
    BY <1>1, <1>7, <2>1, <2>2, StagedRecord
<1>9. LateAnswer(cancel, d, o)
  <2>1. o[1] = "list" /\ o # None
    BY <1>1, <1>2
  <2>2. o \notin DOMAIN cancel.targets
    <3>1. \A t \in DOMAIN cancel.targets : t[1] \in {"llm"} \cup ExecutionKinds
      BY <1>1 DEF CancelRecord, TargetInv
    <3> QED
      BY <2>1, <3>1 DEF ExecutionKinds
  <2> QED
    BY <1>8, <2>1, <2>2 DEF LateAnswer, Adds, Settles
<1>10. new = Staged(cancel, d)
  BY <1>8 DEF Staged
<1>11. told' \subseteq told \cup DOMAIN d.processes
  BY <1>6, <1>8 DEF Adds
<1>12. ListingInv'
  BY DEF ListingInv, NoListing
<1> QED
  BY <1>8, <1>9, <1>10, <1>11, <1>12, LateStep

\* handle_discovery.
LEMMA DiscoveryCompletesStep ==
    ASSUME IndInv, NEW o, DiscoveryCompletes(o)
    PROVE  CleansUp
<1>1. /\ Cancelling /\ o \in open /\ cancel.discovery = o
      /\ told' = told \cup listing.procs /\ listing' = NoListing
  BY DEF DiscoveryCompletes, Completes
<1>2. CASE ~listing.answered /\ cancel.attempt < MaxCleanupAttempts
  <2> DEFINE next == <<"list", cancel.listings + 1, 0>>
             d == [cancel EXCEPT !.discovery = next, !.attempt = @ + 1, !.listings = @ + 1,
                                 !.failures = @ \cup {o}]
  <2>1. Complete(o, {next}) /\ SetLifecycleStatus(d, turn, executions)
    BY <1>2 DEF DiscoveryCompletes
  <2>2. SUFFICES ASSUME NEW m, m = next, NEW e, e = d
                 PROVE  CleansUp
    OBVIOUS
  <2>3. /\ Complete(o, {m}) /\ SetLifecycleStatus(e, turn, executions)
        /\ m = <<"list", cancel.listings + 1, 0>>
        /\ e = [cancel EXCEPT !.discovery = m, !.attempt = @ + 1, !.listings = @ + 1,
                              !.failures = @ \cup {o}]
    BY <2>1, <2>2
  <2> HIDE DEF next, d
  <2> QED
    BY <1>1, <1>2, <2>3, DiscoveryRepeated
<1>3. CASE ~(~listing.answered /\ cancel.attempt < MaxCleanupAttempts)
  <2> DEFINE found == Untracked(listing.procs)
             new == Interrupts(cancel.processes, found)
             ts == [t \in DOMAIN cancel.targets |->
                       [cancel.targets[t] EXCEPT
                           !.control = IF @ = "discovery" THEN "settled" ELSE @]]
             qs == StageInterrupts(cancel.processes, found)
             d == [cancel EXCEPT !.discovery = None, !.attempt = 0, !.targets = ts,
                                 !.processes = qs]
  <2>1. Complete(o, new) /\ SetLifecycleStatus(d, turn, executions)
    BY <1>3 DEF DiscoveryCompletes
  <2>2. \A t \in DOMAIN cancel.targets : TargetInv(t, cancel.targets[t])
    BY <1>1, CancellingFacts DEF CancelRecord
  <2>3. Settles(cancel.targets, ts)
    BY <2>2, SettleTargets
  <2>4. IsCancel(cancel)
    BY <1>1, CancellingFacts DEF CancelRecord
  <2> HIDE DEF ts, qs
  <2>5. /\ IsCancel(d) /\ d.discovery = None /\ d.attempt = 0 /\ d.targets = ts
        /\ d.processes = qs /\ d.requested = cancel.requested /\ d.listings = cancel.listings
        /\ d.failures = cancel.failures
    BY <2>4 DEF IsCancel
  <2> HIDE DEF d, new, found
  <2>6. d.processes = StageInterrupts(cancel.processes, found)
    BY <2>5 DEF qs
  <2>7. found = Untracked(listing.procs) /\ new = Interrupts(cancel.processes, found)
    BY DEF found, new
  <2> QED
    BY <1>1, <2>1, <2>3, <2>5, <2>6, <2>7, DiscoveryAnswered
<1> QED
  BY <1>2, <1>3

\* What is in flight when a cancellation begins: a model request, or the
\* operations of submitted calls.
LEMMA InFlightKinds ==
    ASSUME IndInv, Live
    PROVE  open = InFlight /\ \A t \in open : t[1] \in {"llm"} \cup ExecutionKinds /\ t # None
<1>1. open = InFlight
  BY DEF IndInv, OperationsAreAwaited
<1>2. CASE turn.phase \in {"awaiting_llm", "compacting"}
  <2>1. InFlight = {Llm(requests)}
    BY <1>2 DEF InFlight, IndInv, TurnInv
  <2>2. Llm(requests)[1] = "llm" /\ Llm(requests) # None
    BY DEF Llm, None
  <2> QED
    BY <1>1, <2>1, <2>2
<1>3. CASE turn.phase = "executing_tools"
  <2>1. InFlight = {plan.calls[i].op : i \in Submitted(plan)}
    BY <1>3 DEF InFlight, Submitted
  <2>2. ASSUME NEW i \in Submitted(plan)
        PROVE  plan.calls[i].op[1] \in ExecutionKinds /\ plan.calls[i].op # None
    <3>1. PICK c : c = plan.calls[i]
      OBVIOUS
    <3>2. /\ c.op = <<c.step, <<plan.assistant, i>>, c.pages, c.op[4]>>
          /\ c.step \in ExecutionKinds
      BY <1>3, <3>1 DEF IndInv, PlanInv, PlanReady, PlanNames, PlanShape, CallShape, Submitted
    <3>3. PICK x : x = c.op[4]
      OBVIOUS
    <3>4. c.op = <<c.step, <<plan.assistant, i>>, c.pages, x>>
      BY <3>2, <3>3
    <3>5. c.op[1] = c.step /\ c.op # None
      BY <3>4 DEF None
    <3> QED
      BY <3>1, <3>2, <3>5
  <2> QED
    BY <1>1, <2>1, <2>2
<1>4. CASE turn.phase \notin {"awaiting_llm", "compacting", "executing_tools"}
  <2>1. plan = NoPlan
    BY <1>4 DEF IndInv, OperationsAreAwaited, TypeOK
  <2>2. InFlight = {}
    BY <1>4, <2>1 DEF InFlight, NoPlan
  <2> QED
    BY <1>1, <2>2
<1> QED
  BY <1>1, <1>2, <1>3, <1>4

\* The withdrawals that the beginning of a cancellation stages.
WithdrawalsOf(ts) == {<<"withdraw", t, 0>> : t \in ts}

\* begin: everything in flight has a withdrawal, every tracked process an interrupt.
LEMMA BegunAwaited ==
    ASSUME None \notin open, \A t \in open : t[1] \in {"llm"} \cup ExecutionKinds,
           NEW c, c.targets = [t \in open |-> [completed |-> FALSE, control |-> "withdraw",
                                               attempt |-> 0]],
           c.discovery = None, \A p \in DOMAIN c.processes : c.processes[p].control = "interrupt",
           NEW ops, ops = open \cup (WithdrawalsOf(open) \cup InterruptsFor(DOMAIN c.processes))
    PROVE  Awaited(c, ops)
<1>1. DOMAIN c.targets = open
  OBVIOUS
<1>2. \A t \in open : c.targets[t].control = "withdraw" /\ ControlOf(t, c.targets[t]) = <<"withdraw", t, 0>>
  BY DEF ControlOf
<1>3. \A p \in DOMAIN c.processes : ControlOf(p, c.processes[p]) = <<"interrupt", p, 0>>
  BY DEF ControlOf
<1>4. \A x \in open : AwaitedBy(c, x)
  BY <1>1 DEF AwaitedBy, ExecutionKinds
<1>5. \A x \in WithdrawalsOf(open) : AwaitedBy(c, x)
  <2> SUFFICES ASSUME NEW x \in WithdrawalsOf(open)
               PROVE  AwaitedBy(c, x)
    OBVIOUS
  <2>1. PICK t \in open : x = <<"withdraw", t, 0>>
    BY DEF WithdrawalsOf
  <2>2. x[1] = "withdraw" /\ ControlOf(t, c.targets[t]) = x
    BY <1>2, <2>1
  <2> QED
    BY <1>1, <2>2 DEF AwaitedBy
<1>6. \A x \in InterruptsFor(DOMAIN c.processes) : AwaitedBy(c, x)
  <2> SUFFICES ASSUME NEW x \in InterruptsFor(DOMAIN c.processes)
               PROVE  AwaitedBy(c, x)
    OBVIOUS
  <2>1. PICK p \in DOMAIN c.processes : x = <<"interrupt", p, 0>>
    BY DEF InterruptsFor
  <2>2. x[1] = "interrupt" /\ ControlOf(p, c.processes[p]) = x
    BY <1>3, <2>1
  <2> QED
    BY <2>2 DEF AwaitedBy
<1>7. \A t \in open : ControlOf(t, c.targets[t]) \in ops
  BY <1>2 DEF WithdrawalsOf
<1>8. \A p \in DOMAIN c.processes : ControlOf(p, c.processes[p]) \in ops
  BY <1>3 DEF InterruptsFor
<1>9. \A x \in ops : AwaitedBy(c, x)
  BY <1>4, <1>5, <1>6
<1>10. \A t \in open : t \in ops /\ c.targets[t].control # "discovery"
  BY <1>2
<1> QED
  BY <1>1, <1>7, <1>8, <1>9, <1>10 DEF Awaited

\* begin.
LEMMA BeginCancellationStep ==
    ASSUME IndInv, BeginCancellation
    PROVE  IndInv'
<1> DEFINE ts == [t \in InFlight |-> [completed |-> FALSE, control |-> "withdraw", attempt |-> 0]]
           qs == StageInterrupts(<<>>, executions)
           c == [NoCancel EXCEPT !.requested = TRUE, !.turn = turn.id, !.targets = ts,
                                 !.processes = qs]
           t == IF turn.phase = "none" THEN NoTurn
                ELSE [NoTurn EXCEPT !.phase = "cancelling", !.id = turn.id]
           new == {<<"withdraw", x, 0>> : x \in InFlight} \cup Interrupts(<<>>, executions)
<1>1. /\ Live /\ Complete(None, new) /\ SetLifecycleStatus(c, t, executions)
      /\ UNCHANGED <<told, withdrawn, listing>>
  BY DEF BeginCancellation
<1>2. open = InFlight /\ \A x \in open : x[1] \in {"llm"} \cup ExecutionKinds /\ x # None
  BY <1>1, InFlightKinds
<1>3. ts = [x \in open |-> [completed |-> FALSE, control |-> "withdraw", attempt |-> 0]]
  BY <1>2
<1>4. /\ Adds(<<>>, qs, ProcsOf(executions))
      /\ Interrupts(<<>>, executions) = InterruptsFor(DOMAIN qs)
  <2>1. IsFunction(<<>>) /\ DOMAIN <<>> = {}
    BY DEF IsFunction
  <2>2. PICK ps : ps = <<>>
    OBVIOUS
  <2>3. /\ Adds(ps, qs, ProcsOf(executions))
        /\ Interrupts(ps, executions) = InterruptsFor(DOMAIN qs \ DOMAIN ps)
    BY <2>1, <2>2, StageFacts
  <2>4. DOMAIN qs \ DOMAIN ps = DOMAIN qs
    BY <2>1, <2>2
  <2> QED
    BY <2>2, <2>3, <2>4
<1>5. /\ IsFunction(qs) /\ DOMAIN qs = ProcsOf(executions)
      /\ \A p \in DOMAIN qs : IsProcess(qs[p]) /\ qs[p].control = "interrupt"
  BY <1>4 DEF Adds
<1>6. new = WithdrawalsOf(open) \cup InterruptsFor(DOMAIN qs)
  BY <1>2, <1>4 DEF WithdrawalsOf
<1>7. \A p \in DOMAIN qs : p \in launched
  BY <1>5 DEF IndInv, OperationsAreAwaited, TypeOK, ProcsOf
<1>8. IsTurn(t) /\ t.phase \in {"none", "cancelling"} /\ t.id \in 0 .. requests
      /\ t.attempt \in 0 .. 2 /\ t.retries \in 0 .. MaxLlmRetries
  <2>1. turn.id \in 0 .. requests /\ requests \in Nat
    BY DEF IndInv, OperationsAreAwaited, TypeOK, TurnInv
  <2> QED
    BY <2>1 DEF NoTurn, IsTurn, MaxLlmRetries
<1> HIDE DEF ts, qs, t, new
<1>9. /\ IsCancel(c) /\ c.requested = TRUE /\ c.targets = ts /\ c.processes = qs
      /\ c.discovery = None /\ c.attempt = 0 /\ c.listings = 0
  BY DEF NoCancel, IsCancel
<1> HIDE DEF c
<1>10. CancelRecord(c, launched, running)
  <2>1. \A x \in DOMAIN ts : TargetInv(x, ts[x])
    BY <1>2, <1>3 DEF TargetInv, IsTarget
  <2>2. IsFunction(ts)
    BY <1>3 DEF IsFunction
  <2>3. \A p \in DOMAIN qs : ProcessInv(p, qs[p], c.failures, launched, running)
    BY <1>5, <1>7 DEF ProcessInv
  <2> QED
    BY <1>5, <1>9, <2>1, <2>2, <2>3 DEF CancelRecord
<1>11. \A x \in new : x[1] \notin WorkKinds /\ x # None
  BY <1>6 DEF WorkKinds, WithdrawalsOf, InterruptsFor, None
<1>12. /\ open' = (open \ {None}) \cup new
       /\ open' \cap performed' = {} /\ performed \subseteq performed'
       /\ \A x \in performed' : x[1] \in WorkKinds
       /\ \A x \in open : x[1] = "start" => x \in open' \cup performed'
  BY <1>1, <1>11, CancelCompletes
<1>13. None \notin open /\ open' = open \cup (WithdrawalsOf(open) \cup InterruptsFor(DOMAIN c.processes))
  BY <1>2, <1>6, <1>9, <1>12
<1>14. None \notin open'
  BY <1>11, <1>12
<1>15. Awaited(c, open')
  <2>1. PICK ops : ops = open \cup (WithdrawalsOf(open) \cup InterruptsFor(DOMAIN c.processes))
    OBVIOUS
  <2>2. \A p \in DOMAIN c.processes : c.processes[p].control = "interrupt"
    BY <1>5, <1>9
  <2>3. c.targets = [x \in open |-> [completed |-> FALSE, control |-> "withdraw", attempt |-> 0]]
    BY <1>3, <1>9
  <2>4. Awaited(c, ops)
    BY <1>2, <1>9, <1>13, <2>1, <2>2, <2>3, BegunAwaited
  <2> QED
    BY <1>13, <2>1, <2>4
<1>16. told' \subseteq launched /\ \A p \in told' \cap running : p \in DOMAIN c.processes
  <2>1. ~cancel.requested
    BY <1>1 DEF Live
  <2> QED
    BY <1>1, <1>5, <1>9, <2>1 DEF IndInv, ToldInv, ProcsOf
<1>17. ListingInv' /\ ~failed /\ ~error
  BY <1>1 DEF IndInv, ListingInv, SetLifecycleStatus, Live
<1> QED
  BY <1>1, <1>8, <1>10, <1>12, <1>14, <1>15, <1>16, <1>17, LifecycleStep

-----------------------------------------------------------------------------
(* The theorems.                                                           *)

\* A session without a turn, with nothing in flight (HarnessState::default).
LEMMA InitStep ==
    ASSUME Init
    PROVE  IndInv
<1>1. /\ turn = NoTurn /\ plan = NoPlan /\ cancel = NoCancel /\ open = {} /\ performed = {}
      /\ executions = {} /\ nextSess = 1 /\ failed = FALSE /\ error = FALSE /\ status = "idle"
      /\ requests = 0 /\ launched = {} /\ running = {} /\ told = {} /\ listing = NoListing
  BY DEF Init
<1>2. /\ IsTurn(NoTurn) /\ NoTurn.phase = "none" /\ NoTurn.id = 0 /\ NoTurn.attempt = 0
      /\ NoTurn.retries = 0
  BY DEF NoTurn, IsTurn
<1>3. NoCancel.requested = FALSE
  BY DEF NoCancel
<1>4. TypeOK
  <2>1. DOMAIN plan.calls = {}
    BY <1>1 DEF NoPlan
  <2>2. (plan # NoPlan) = (turn.phase = "executing_tools")
    BY <1>1, <1>2
  <2>3. turn.id \in 0 .. requests /\ turn.attempt \in 0 .. 2 /\ turn.retries \in 0 .. MaxLlmRetries
    BY <1>1, <1>2 DEF MaxLlmRetries
  <2>4. cancel.requested \in BOOLEAN /\ failed \in BOOLEAN /\ error \in BOOLEAN
    BY <1>1, <1>3
  <2> QED
    BY <1>1, <1>2, <2>1, <2>2, <2>3, <2>4 DEF TypeOK
<1>5. InFlight = {}
  BY <1>1, <1>2 DEF InFlight, NoPlan
<1>6. OperationsAreAwaited
  BY <1>1, <1>3, <1>4, <1>5 DEF OperationsAreAwaited, Cancelling
<1>7. TurnInv /\ PlanInv
  BY <1>1, <1>2, <1>3 DEF TurnInv, PlanInv
<1>8. SessionInv /\ WorkInv /\ ToldInv
  BY <1>1 DEF SessionInv, WorkInv, WorkIsNotRepeated, ToldInv
<1>9. CancelInv /\ ListingInv
  BY <1>1 DEF CancelInv, ListingInv, NoListing
<1> QED
  BY <1>6, <1>7, <1>8, <1>9 DEF IndInv

\* BasicCodexHarness::handle, for the completion of an operation.
LEMMA HandleStep ==
    ASSUME IndInv, NEW o \in open, Handle(o)
    PROVE  IndInv'
<1>1. CASE LlmStops(o) \/ LlmPauses(o) \/ LlmAsksForTools(o) \/ LlmUnknown(o)
  BY <1>1, LlmStopsStep, LlmPausesStep, LlmAsksForToolsStep, LlmUnknownStep
<1>2. CASE LlmResponseRejected(o) \/ LlmFails(o) \/ CompactionFails(o)
  BY <1>2, FailStep
<1>3. CASE CompactionSucceeds(o) \/ CompactionUnknown(o)
  BY <1>3, CompactionSucceedsStep, CompactionUnknownStep
<1>4. CASE ShellResponds(o) \/ PatchContinues(o) \/ CallEnds(o)
  BY <1>4, ShellRespondsStep, PatchContinuesStep, CallEndsStep
<1>5. CASE WithdrawalCompletes(o) \/ LlmCancellationCompletes(o) \/ OriginalCompletes(o)
  BY <1>5, WithdrawalCompletesStep, LlmCancellationCompletesStep, OriginalCompletesStep DEF CleansUp
<1>6. CASE InterruptCompletes(o) \/ TerminateCompletes(o) \/ DiscoveryCompletes(o)
  BY <1>6, InterruptCompletesStep, TerminateCompletesStep, DiscoveryCompletesStep DEF CleansUp
<1>7. CASE RefuseCompletion(o)
  BY <1>7, RefuseStep
<1> QED
  BY <1>1, <1>2, <1>3, <1>4, <1>5, <1>6, <1>7 DEF Handle

\* Every step of the harness, the platform and the machine keeps IndInv.
LEMMA NextStep ==
    ASSUME IndInv, [Next]_vars
    PROVE  IndInv'
<1>1. CASE Steer \/ StartTurn \/ IgnoreMessage \/ BeginCancellation \/ IgnoreCancel
  BY <1>1, SteerStep, StartTurnStep, IgnoreStep, BeginCancellationStep
<1>2. ASSUME NEW o \in open, Handle(o)
      PROVE  IndInv'
  BY <1>2, HandleStep
<1>3. CASE \/ UNCHANGED vars
           \/ \E o \in open : Withdraw(o) \/ Launch(o) \/ List(o)
           \/ \E p \in running : Exit(p)
  BY <1>3, PlatformStep
<1> QED
  BY <1>1, <1>2, <1>3 DEF Next

\* The inductive invariant of the harness.
THEOREM Inductive == Spec => []IndInv
<1>1. Init => IndInv
  BY InitStep
<1>2. IndInv /\ [Next]_vars => IndInv'
  BY NextStep
<1> QED
  BY <1>1, <1>2, PTL DEF Spec

\* The operations in flight are those the durable state waits for, whatever the
\* model asks for and whatever outcomes come in which order: no completion other
\* than a late withdrawal's finds the handler in a state that does not expect it,
\* and no state waits for an operation that was never staged.
\* (handler.rs, handle; cancellation.rs, handle_completion)
THEOREM WorkInFlightIsAwaited == Spec => []OperationsAreAwaited
<1>1. IndInv => OperationsAreAwaited
  BY DEF IndInv
<1> QED
  BY <1>1, Inductive, PTL

\* A plan of tool calls runs in order and is never stuck, for every plan the model
\* may ask for.  (tool_execution.rs, schedule_ready)
THEOREM PlansRunInOrder == Spec => []PlanRunsInOrder
<1>1. IndInv => PlanRunsInOrder
  <2> SUFFICES ASSUME IndInv, turn.phase = "executing_tools"
               PROVE  PlanRunsInOrder
    BY DEF PlanRunsInOrder
  <2>1. /\ PlanShape(plan) /\ PlanOrder(plan)
        /\ \E i \in DOMAIN plan.calls : plan.calls[i].status = "submitted"
    BY DEF IndInv, PlanInv, PlanReady
  <2> DEFINE busy == {i \in DOMAIN plan.calls : plan.calls[i].status \in {"submitted", "ready"}}
  <2>2. \A i \in busy : i \in plan.segments[plan.active]
    BY <2>1 DEF PlanOrder, InUse
  <2>3. ASSUME NEW i \in busy, NEW j \in busy, i # j, plan.calls[i].sess = plan.calls[j].sess,
               plan.calls[i].sess # NoSess
        PROVE  FALSE
    <3>1. i \in Nat /\ j \in Nat
      BY <2>1 DEF PlanShape
    <3>2. \A a, b \in busy : a < b /\ plan.calls[a].sess = plan.calls[b].sess
                             /\ plan.calls[b].sess # NoSess => plan.calls[a].status = "completed"
      BY <2>1, <2>2 DEF PlanOrder, InUse
    <3>3. i < j \/ j < i
      BY <2>3, <3>1
    <3> QED
      BY <2>3, <3>2, <3>3
  <2>4. \E i \in busy : plan.calls[i].status = "submitted"
    BY <2>1
  <2>5. \A k \in 1 .. plan.active - 1 : SegmentComplete(plan, k)
    BY <2>1 DEF PlanOrder
  <2> QED
    BY <2>2, <2>3, <2>4, <2>5 DEF PlanRunsInOrder
<1> QED
  BY <1>1, Inductive, PTL

\* No command is started, no input written and no patch applied twice for one tool
\* call, whatever outcomes were unknown and however a read was repeated.
\* (tool_execution.rs; filesystem_tools.rs)
THEOREM WorkIsDoneOnce == Spec => []WorkIsNotRepeated
<1>1. IndInv => WorkIsNotRepeated
  BY DEF IndInv, WorkInv
<1> QED
  BY <1>1, Inductive, PTL

\* When a cancellation is complete, every process an outcome reported active has
\* ended, or both its terminations are recorded as failures.
\* (cancellation.rs, cancellation_complete)
THEOREM CancellationsLoseNothing == Spec => []CancellationLosesNothing
<1>1. IndInv => CancellationLosesNothing
  <2> SUFFICES ASSUME IndInv, cancel.requested, CancellationComplete(cancel),
                      NEW p \in told \cap running, NEW n \in 1 .. MaxCleanupAttempts
               PROVE  <<"terminate", p, n>> \in cancel.failures
    BY DEF IndInv, CancellationLosesNothing
  <2>1. CancelRecord(cancel, launched, running)
    BY DEF IndInv, CancelInv, NoCancel
  <2>2. p \in DOMAIN cancel.processes
    BY DEF IndInv, ToldInv
  <2>3. /\ cancel.processes[p].control = "settled"
        /\ ProcessInv(p, cancel.processes[p], cancel.failures, launched, running)
    BY <2>1, <2>2 DEF CancelRecord, CancellationComplete
  <2>4. <<"terminate", p, 1>> \in cancel.failures /\ <<"terminate", p, 2>> \in cancel.failures
    BY <2>3 DEF ProcessInv
  <2>5. n = 1 \/ n = 2
    BY DEF MaxCleanupAttempts
  <2> QED
    BY <2>4, <2>5
<1> QED
  BY <1>1, Inductive, PTL

-----------------------------------------------------------------------------
(* Which completion blocks a session.                                      *)

\* The handler refuses an event only when a late withdrawal is in flight.
BlockedByLateWithdrawal == error => \E o \in open : LateWithdrawal(o)

\* handle and handle_completion: the completion of an operation in flight finds the
\* state that awaits it, unless it is a late withdrawal's.
LEMMA ExpectedOrLate ==
    ASSUME IndInv, NEW o \in open, ~error, ~failed
    PROVE  Expected(o) \/ LateWithdrawal(o)
<1>1. CASE cancel.requested
  BY <1>1 DEF IndInv, OperationsAreAwaited, Cancelling
<1>2. CASE ~cancel.requested
  <2>1. Live /\ o \in InFlight
    BY <1>2 DEF IndInv, OperationsAreAwaited, Live
  <2>2. CASE turn.phase \in {"awaiting_llm", "compacting"}
    <3>1. o = turn.op /\ turn.op = Llm(requests) /\ (turn.phase = "compacting" => history = turn.source)
      BY <2>1, <2>2 DEF InFlight, IndInv, TurnInv
    <3>2. o[1] = "llm" /\ o[1] \notin ExecutionKinds
      BY <3>1 DEF Llm, ExecutionKinds
    <3>3. Expected(o)
      BY <1>2, <2>2, <3>1, <3>2 DEF Expected
    <3> QED
      BY <3>3
  <2>3. CASE turn.phase = "executing_tools"
    <3>1. PICK i \in DOMAIN plan.calls : plan.calls[i].status = "submitted" /\ plan.calls[i].op = o
      BY <2>1, <2>3 DEF InFlight
    <3>2. i \in CallOf(o)
      BY <3>1 DEF CallOf
    <3>3. PICK c : c = plan.calls[i]
      OBVIOUS
    <3>4. /\ c.op = <<c.step, <<plan.assistant, i>>, c.pages, c.op[4]>>
          /\ c.step \in ExecutionKinds
      BY <2>3, <3>1, <3>3 DEF IndInv, PlanInv, PlanReady, PlanNames, PlanShape, CallShape
    <3>5. PICK x : x = c.op[4]
      OBVIOUS
    <3>6. o = <<c.step, <<plan.assistant, i>>, c.pages, x>>
      BY <3>1, <3>3, <3>4, <3>5
    <3>7. o[1] \in ExecutionKinds
      BY <3>4, <3>6
    <3>8. o[1] # "llm"
      BY <3>7 DEF ExecutionKinds
    <3> QED
      BY <1>2, <2>3, <3>2, <3>7, <3>8 DEF Expected
  <2>4. CASE turn.phase \notin {"awaiting_llm", "compacting", "executing_tools"}
    <3>1. plan = NoPlan
      BY <2>4 DEF IndInv, OperationsAreAwaited, TypeOK
    <3>2. InFlight = {}
      BY <2>4, <3>1 DEF InFlight, NoPlan
    <3> QED
      BY <2>1, <3>2
  <2> QED
    BY <2>2, <2>3, <2>4
<1> QED
  BY <1>1, <1>2

\* handle_execution_completion: every answer to a call is applied to the plan.
LEMMA CallsApply ==
    ASSUME NEW o, ShellResponds(o) \/ PatchContinues(o) \/ CallEnds(o)
    PROVE  \E i, d, tracked : ApplyCompletion(o, i, d, tracked)
<1>1. CASE ShellResponds(o)
  <2>1. PICK i \in CallOf(o), active \in BOOLEAN, more \in BOOLEAN :
          LET call == plan.calls[i]
              sess == IF active /\ call.sess = NoSess THEN nextSess ELSE call.sess
              others == {x \in executions : x.sess # sess}
              tracked == IF active THEN others \cup {[sess |-> sess, proc |-> call.proc]}
                         ELSE IF more THEN executions ELSE others
              read == [call EXCEPT !.sess = sess, !.pages = @ + 1]
          IN  /\ IsShell(call.tool)
              /\ IF active THEN call.proc \in running ELSE call.proc \in launched \ running
              /\ executions' = tracked
              /\ nextSess' = IF sess = nextSess THEN nextSess + 1 ELSE nextSess
              /\ told' = IF active THEN told \cup {call.proc} ELSE told
              /\ ApplyCompletion(o, i,
                     IF more /\ read.pages < MaxPages
                     THEN [read EXCEPT !.status = "ready", !.step = "observe"]
                     ELSE [read EXCEPT !.status = "completed"],
                     tracked)
    BY <1>1 DEF ShellResponds
  <2> QED
    BY <2>1
<1>2. CASE PatchContinues(o)
  BY <1>2 DEF PatchContinues
<1>3. CASE CallEnds(o)
  BY <1>3 DEF CallEnds
<1> QED
  BY <1>1, <1>2, <1>3

\* cancellation::handle_completion, for every kind of completion.
LEMMA CleanupSteps ==
    ASSUME IndInv, NEW o,
           \/ WithdrawalCompletes(o) \/ LlmCancellationCompletes(o) \/ OriginalCompletes(o)
           \/ InterruptCompletes(o) \/ TerminateCompletes(o) \/ DiscoveryCompletes(o)
    PROVE  CleansUp /\ Cancelling
<1>1. CleansUp
  BY WithdrawalCompletesStep, LlmCancellationCompletesStep, OriginalCompletesStep,
     InterruptCompletesStep, TerminateCompletesStep, DiscoveryCompletesStep
<1>2. Cancelling
  BY DEF WithdrawalCompletes, LlmCancellationCompletes, OriginalCompletes, InterruptCompletes,
         TerminateCompletes, DiscoveryCompletes
<1> QED
  BY <1>1, <1>2

\* Only a refused completion blocks the session, and the platform and the machine are
\* all that moves once it is blocked.
LEMMA BlockingSteps ==
    ASSUME IndInv, [Next]_vars
    PROVE  \/ UNCHANGED session
           \/ ~error /\ (error' = error \/ \E o \in open : RefuseCompletion(o))
<1>1. CASE Steer \/ StartTurn \/ IgnoreMessage \/ BeginCancellation \/ IgnoreCancel
  BY <1>1 DEF Steer, StartTurn, IgnoreMessage, BeginCancellation, IgnoreCancel, SendMessage,
              SendCancel, RestateStatus, SetLifecycleStatus
<1>2. ASSUME NEW o \in open, Handle(o)
      PROVE  ~error /\ (error' = error \/ RefuseCompletion(o))
  <2>1. CASE LlmStops(o) \/ LlmPauses(o) \/ LlmUnknown(o)
    BY <2>1 DEF LlmStops, LlmPauses, LlmUnknown, AwaitsLlm, Live, StageAfterBoundary
  <2>2. CASE LlmAsksForTools(o)
    <3>1. \E p, tracked, h : RunPlan(o, p, tracked, h)
      BY <2>2, Zenon DEF LlmAsksForTools
    <3> QED
      BY <2>2, <3>1 DEF LlmAsksForTools, AwaitsLlm, Live, RunPlan, StageAfterBoundary
  <2>3. CASE LlmResponseRejected(o) \/ LlmFails(o) \/ CompactionFails(o)
    BY <2>3 DEF LlmResponseRejected, LlmFails, CompactionFails, AwaitsLlm, Live, FailSession
  <2>4. CASE CompactionSucceeds(o) \/ CompactionUnknown(o)
    BY <2>4 DEF CompactionSucceeds, CompactionUnknown, AwaitsLlm, Live
  <2>5. CASE ShellResponds(o) \/ PatchContinues(o) \/ CallEnds(o)
    <3>1. PICK i, d, tracked : ApplyCompletion(o, i, d, tracked)
      BY <2>5, CallsApply
    <3>2. Live /\ \E p, h : RunPlan(o, p, tracked, h)
      BY <3>1 DEF ApplyCompletion
    <3> QED
      BY <3>2 DEF Live, RunPlan, StageAfterBoundary
  <2>6. CASE \/ WithdrawalCompletes(o) \/ LlmCancellationCompletes(o) \/ OriginalCompletes(o)
             \/ InterruptCompletes(o) \/ TerminateCompletes(o) \/ DiscoveryCompletes(o)
    BY <2>6, CleanupSteps DEF Cancelling, CleansUp
  <2>7. CASE RefuseCompletion(o)
    BY <2>7 DEF RefuseCompletion
  <2> QED
    BY <1>2, <2>1, <2>2, <2>3, <2>4, <2>5, <2>6, <2>7 DEF Handle
<1>3. CASE \/ UNCHANGED vars
           \/ \E o \in open : Withdraw(o) \/ Launch(o) \/ List(o)
           \/ \E p \in running : Exit(p)
  BY <1>3 DEF vars, Withdraw, Launch, List, Exit
<1> QED
  BY <1>1, <1>2, <1>3 DEF Next

\* Nothing but the completion of a late withdrawal ever blocks a session: a session
\* that was not cancelled handles every completion, whatever the outcomes and their
\* order.  (handler.rs, handle; cancellation.rs, handle_completion)
THEOREM OnlyLateWithdrawalsBlock == Spec => []BlockedByLateWithdrawal
<1>1. Init => BlockedByLateWithdrawal
  BY DEF Init, BlockedByLateWithdrawal
<1>2. ASSUME IndInv, BlockedByLateWithdrawal, [Next]_vars
      PROVE  BlockedByLateWithdrawal'
  <2>1. \/ UNCHANGED session
        \/ ~error /\ (error' = error \/ \E o \in open : RefuseCompletion(o))
    BY <1>2, BlockingSteps
  <2>2. CASE UNCHANGED session
    BY <1>2, <2>2 DEF session, BlockedByLateWithdrawal, LateWithdrawal, IsControl
  <2>3. CASE ~error /\ error' = error
    BY <2>3 DEF BlockedByLateWithdrawal
  <2>4. ASSUME NEW o \in open, RefuseCompletion(o)
        PROVE  BlockedByLateWithdrawal'
    <3>1. ~error /\ ~failed /\ ~Expected(o) /\ UNCHANGED <<open, cancel>>
      BY <2>4 DEF RefuseCompletion
    <3>2. LateWithdrawal(o)
      BY <1>2, <3>1, ExpectedOrLate
    <3>3. LateWithdrawal(o)'
      BY <3>1, <3>2 DEF LateWithdrawal, IsControl
    <3> QED
      BY <3>1, <3>3 DEF BlockedByLateWithdrawal
  <2> QED
    BY <2>1, <2>2, <2>3, <2>4
<1> QED
  BY <1>1, <1>2, Inductive, PTL DEF Spec

\* A cancellation is terminal: from the request on, no step of any actor adds to the
\* projection, starts a turn, or stages a model request or a tool call; what the
\* cancellation has recorded, of failures and of settled processes, stays recorded.
\* (handler.rs, handle; cancellation.rs)
THEOREM CancellationIsTerminal == Spec => [][OnlyCleanup]_vars
<1>1. ASSUME IndInv, [Next]_vars, cancel.requested
      PROVE  OnlyCleanup \/ UNCHANGED vars
  <2>1. ~Live /\ IsCancel(cancel) /\ cancel.requested = TRUE
    BY <1>1 DEF Live, IndInv, CancelInv, CancelRecord, NoCancel
  <2>2. ASSUME UNCHANGED <<cancel, history, received, requests, nextSess, failed, executions, open>>
        PROVE  OnlyCleanup
    BY <2>1, <2>2 DEF OnlyCleanup, GoesOn
  <2>3. ~(Steer \/ StartTurn \/ BeginCancellation)
    BY <2>1 DEF Steer, StartTurn, BeginCancellation
  <2>4. CASE IgnoreMessage \/ IgnoreCancel
    BY <2>2, <2>4 DEF IgnoreMessage, IgnoreCancel, RestateStatus
  <2>5. ASSUME NEW o \in open, Handle(o)
        PROVE  OnlyCleanup
    <3>1. ~(LlmStops(o) \/ LlmPauses(o) \/ LlmAsksForTools(o) \/ LlmResponseRejected(o)
            \/ LlmFails(o) \/ LlmUnknown(o))
      BY <2>1 DEF LlmStops, LlmPauses, LlmAsksForTools, LlmResponseRejected, LlmFails, LlmUnknown,
                  AwaitsLlm
    <3>2. ~(CompactionSucceeds(o) \/ CompactionUnknown(o) \/ CompactionFails(o))
      BY <2>1 DEF CompactionSucceeds, CompactionUnknown, CompactionFails, AwaitsLlm
    <3>3. ~(ShellResponds(o) \/ PatchContinues(o) \/ CallEnds(o))
      BY <2>1, CallsApply DEF ApplyCompletion
    <3>4. CASE RefuseCompletion(o)
      BY <2>2, <3>4 DEF RefuseCompletion
    <3>5. CASE \/ WithdrawalCompletes(o) \/ LlmCancellationCompletes(o) \/ OriginalCompletes(o)
               \/ InterruptCompletes(o) \/ TerminateCompletes(o) \/ DiscoveryCompletes(o)
      BY <1>1, <3>5, CleanupSteps DEF CleansUp
    <3> QED
      BY <2>5, <3>1, <3>2, <3>3, <3>4, <3>5 DEF Handle
  <2>6. CASE \/ UNCHANGED vars
             \/ \E o \in open : Withdraw(o) \/ Launch(o) \/ List(o)
             \/ \E p \in running : Exit(p)
    BY <2>2, <2>6 DEF vars, session, Withdraw, Launch, List, Exit
  <2> QED
    BY <1>1, <2>3, <2>4, <2>5, <2>6 DEF Next
<1>2. IndInv /\ [Next]_vars => [OnlyCleanup]_vars
  BY <1>1 DEF OnlyCleanup
<1> QED
  BY <1>2, Inductive, PTL DEF Spec

=============================================================================
