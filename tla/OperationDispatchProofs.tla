----------------------- MODULE OperationDispatchProofs -----------------------
(***************************************************************************)
(* Proofs about OperationDispatch, for every set of operations, references *)
(* and tasks and every bound.                                              *)
(*                                                                         *)
(* A task goes on after it has lost its lease, so most facts hold of all   *)
(* tasks and not of lease owners alone (TaskInv).  What the store may say  *)
(* of an operation rests on OwnerInv: a claim of a pending operation is    *)
(* the first one, and every later claim of it knows that it is a recovery. *)
(***************************************************************************)
EXTENDS OperationDispatch, TLAPS

\* A call that waits for no other: only of these does the store know what was sent.
Initiates(o) == Kind[o] \in {"llm", "execution"} /\ Ref[o] = NoOp

\* Nothing of o has left the process, and nobody works on it.
Untouched(o) == job[o] = "none" /\ o \notin late /\ \A t \in Tasks : task[t].op # o

\* A cancellation of o has nothing left to do.
Settled(o) ==
    \/ o \in asked
    \/ job[o] \in Terminal
    \/ op[o].status \in Terminal /\ ~op[o].mapped

\* What a row says of its gateway job.
RowInv(o) ==
    /\ op[o].status = "accepted" => op[o].mapped
    /\ op[o].mapped \/ job[o] # "none" => Kind[o] \in {"llm", "execution"}
    /\ o \in late => Kind[o] # "withdraw"
    /\ op[o].status \in {"absent", "pending"} \cup Terminal /\ ~op[o].mapped /\ Initiates(o) =>
        Untouched(o)
    /\ Kind[o] = "llm" /\ Ref[o] # NoOp /\ (o \in late \/ job[o] # "none") =>
        job[Ref[o]] = "succeeded"
    /\ Kind[o] = "llm_cancellation" /\ op[o].status = "succeeded" => Settled(Ref[o])

\* The kinds of operations a phase is for, and where its tasks may be.
KindsOf(phase) ==
    CASE phase \in {"submission", "result_retrieval"} -> {"llm", "execution"}
      [] phase = "cancellation" -> {"llm_cancellation"}
      [] phase = "withdrawal" -> {"withdraw"}

StepsOf(phase) ==
    CASE phase = "submission" -> {"check", "lookup", "sent", "defer", "accept", "retry", "complete"}
      [] phase = "cancellation" -> {"check", "sent", "defer", "retry", "complete"}
      [] phase = "result_retrieval" -> {"poll", "retry", "postpone", "complete"}
      [] phase = "withdrawal" -> {"withdraw"}

\* What a task relies on, whether or not its claim is still valid.
SubmissionInv(r) ==
    /\ r.pc = "complete" => r.outcome = "failed" /\ ~r.recovering
    /\ r.pc = "retry" /\ ~r.uncertain => ~r.recovering
    /\ r.pc = "lookup" => r.recovering
    /\ r.pc = "defer" => Ref[r.op] # NoOp
    /\ r.pc = "accept" => job[r.op] # "none"
    /\ r.pc \in {"lookup", "sent"} /\ Ref[r.op] # NoOp => job[Ref[r.op]] = "succeeded"

CancellationInv(r) ==
    /\ r.pc = "sent" => job[Ref[r.op]] # "none"
    /\ r.pc = "complete" /\ r.outcome = "succeeded" => Settled(Ref[r.op])

TaskInv(r) ==
    IF r.pc = "idle" THEN r = IdleTask
    ELSE /\ r.op \in Ops /\ r.token \in Tokens
         /\ Kind[r.op] \in KindsOf(r.phase) /\ r.pc \in StepsOf(r.phase)
         /\ r.phase = "submission" => SubmissionInv(r)
         /\ r.phase = "cancellation" => CancellationInv(r)
         /\ r.phase = "result_retrieval" /\ r.pc = "complete" => r.outcome = job[r.op]

\* The task has sent nothing, or knows that what it has sent was not admitted.
Definite(r) ==
    /\ r.phase = "submission" /\ ~r.recovering
    /\ r.pc \in {"check", "sent", "complete"} \/ (r.pc = "retry" /\ ~r.uncertain)

\* The owner of a claim that is no recovery is the first to work on the operation.
OwnerInv(t) ==
    LET o == task[t].op IN
    Definite(task[t]) /\ op[o].token = task[t].token /\ Initiates(o) =>
        /\ job[o] = "none" /\ o \notin late
        /\ \A u \in Tasks \ {t} : task[u].op # o

IndInv ==
    /\ ClaimMatchesRow
    /\ OneCompletionEvent
    /\ ResultMatchesJob
    /\ \A o \in Ops : RowInv(o)
    /\ \A t \in Tasks : TaskInv(task[t]) /\ OwnerInv(t)

-----------------------------------------------------------------------------
\* What the invariant says of the types.
LEMMA Types ==
    ASSUME IndInv
    PROVE  /\ op \in [Ops -> OpRow] /\ running \in [Ops -> SUBSET Tokens]
           /\ events \in [Ops -> Nat] /\ task \in [Tasks -> TaskState]
           /\ job \in [Ops -> {"none", "running"} \cup Terminal]
           /\ asked \subseteq Ops /\ late \subseteq Ops /\ faults \in 0..MaxFaults
           /\ \A o \in Ops : op[o].live => op[o].token # NoToken
  BY DEF IndInv, ClaimMatchesRow, TypeOK

\* A fault is counted within its bound.
LEMMA FaultCounted ==
    ASSUME IndInv, Fault \/ UNCHANGED faults
    PROVE  faults' \in 0..MaxFaults
  BY Types, FaultsAssumption DEF Fault

\* A task that is not idle works on an operation; an idle one on none.
LEMMA TaskFacts ==
    ASSUME IndInv, NEW t \in Tasks
    PROVE  /\ task[t] \in TaskState /\ TaskInv(task[t])
           /\ task[t].pc # "idle" => task[t].op \in Ops /\ task[t].token \in Tokens
           /\ task[t].pc = "idle" => task[t] = IdleTask /\ task[t].op = NoOp
<1>1. task[t] \in TaskState /\ TaskInv(task[t])
  BY Types DEF IndInv
<1> QED
  BY <1>1 DEF TaskInv, IdleTask

\* What an operation refers to.
LEMMA References ==
    ASSUME NEW o \in Ops
    PROVE  /\ Kind[o] \in Kinds /\ Ref[o] \in Ops \cup {NoOp} /\ Ref[o] # o
           /\ Ref[o] # NoOp => Ref[o] \in Ops
           /\ Kind[o] \in {"withdraw", "llm_cancellation"} => Ref[o] \in Ops
           /\ Kind[o] = "execution" => Ref[o] = NoOp
  BY ReferenceAssumption, NamesAssumption

-----------------------------------------------------------------------------
(* What never goes back *)

\* Jobs advance, and what was asked stays asked.
GatewayAdvances ==
    /\ \A p \in Ops : \/ job'[p] = job[p]
                      \/ job[p] = "none" /\ job'[p] = "running"
                      \/ job[p] = "running" /\ job'[p] \in Terminal
    /\ asked \subseteq asked'

\* An operation that has ended stays as it is.
RowsAdvance ==
    \A p \in Ops : op[p].status \in Terminal =>
        op'[p].status = op[p].status /\ op'[p].mapped = op[p].mapped

\* A settled target stays settled.
LEMMA SettledStays ==
    ASSUME GatewayAdvances, RowsAdvance, NEW p \in Ops, Settled(p)
    PROVE  \/ p \in asked'
           \/ job'[p] \in Terminal
           \/ op'[p].status \in Terminal /\ ~op'[p].mapped
<1>1. CASE p \in asked
  BY <1>1 DEF GatewayAdvances
<1>2. CASE job[p] \in Terminal
  BY <1>2 DEF GatewayAdvances, Terminal
<1>3. CASE op[p].status \in Terminal /\ ~op[p].mapped
  BY <1>3 DEF RowsAdvance
<1> QED
  BY <1>1, <1>2, <1>3 DEF Settled

\* A task that stays where it is keeps what it relies on.
LEMMA TaskInvStays ==
    ASSUME GatewayAdvances, RowsAdvance, NEW r \in TaskState, TaskInv(r)
    PROVE  TaskInv(r)'
<1>1. CASE r.pc = "idle"
  BY <1>1 DEF TaskInv, IdleTask
<1>2. CASE r.pc # "idle"
  <2>1. /\ r.op \in Ops /\ r.token \in Tokens
        /\ Kind[r.op] \in KindsOf(r.phase) /\ r.pc \in StepsOf(r.phase)
        /\ r.phase = "submission" => SubmissionInv(r)
        /\ r.phase = "cancellation" => CancellationInv(r)
        /\ r.phase = "result_retrieval" /\ r.pc = "complete" => r.outcome = job[r.op]
    BY <1>2 DEF TaskInv
  <2>2. r.phase = "submission" => SubmissionInv(r)'
    <3>1. Ref[r.op] # NoOp => Ref[r.op] \in Ops
      BY <2>1, References
    <3> QED
      BY <2>1, <3>1 DEF SubmissionInv, GatewayAdvances, Terminal
  <2>3. r.phase = "cancellation" => CancellationInv(r)'
    <3> SUFFICES ASSUME r.phase = "cancellation"
                 PROVE  CancellationInv(r)'
      OBVIOUS
    <3>1. Kind[r.op] = "llm_cancellation"
      BY <2>1 DEF KindsOf
    <3>2. Ref[r.op] \in Ops
      BY <2>1, <3>1, References
    <3>3. r.pc = "sent" => job'[Ref[r.op]] # "none"
      BY <2>1, <3>2 DEF CancellationInv, GatewayAdvances, Terminal
    <3>4. r.pc = "complete" /\ r.outcome = "succeeded" => Settled(Ref[r.op])'
      BY <2>1, <3>2, SettledStays DEF CancellationInv, Settled
    <3> QED
      BY <3>3, <3>4 DEF CancellationInv
  <2>4. r.phase = "result_retrieval" /\ r.pc = "complete" => r.outcome = job'[r.op]
    BY <2>1 DEF GatewayAdvances, TaskState, Terminal
  <2> QED
    BY <1>2, <2>1, <2>2, <2>3, <2>4 DEF TaskInv
<1> QED
  BY <1>1, <1>2

-----------------------------------------------------------------------------
(* Steps that leave the rows alone *)

\* Two states of a task that works on the same claim.
SameClaim(r, q) ==
    r.op = q.op /\ r.token = q.token /\ r.phase = q.phase /\ r.recovering = q.recovering

\* A request of p on the way, or of a task that no longer takes it for its own.
Leaks(p) == p \in late \/ \E v \in Tasks : /\ task[v].op = p /\ task[v].pc = "sent"
                                           /\ ~Definite(task'[v])

\* What a task at "sent" sends.
LEMMA SentFacts ==
    ASSUME IndInv, NEW v \in Tasks, task[v].pc = "sent"
    PROVE  /\ task[v].op \in Ops /\ Kind[task[v].op] # "withdraw"
           /\ Kind[task[v].op] = "llm" /\ Ref[task[v].op] # NoOp =>
                job[Ref[task[v].op]] = "succeeded"
           /\ Kind[task[v].op] = "llm_cancellation" <=> task[v].phase = "cancellation"
           /\ task[v].phase \in {"submission", "cancellation"}
<1>1. /\ task[v].op \in Ops
      /\ Kind[task[v].op] \in KindsOf(task[v].phase) /\ task[v].pc \in StepsOf(task[v].phase)
      /\ task[v].phase = "submission" => SubmissionInv(task[v])
      /\ task[v].phase \in {"submission", "result_retrieval", "cancellation", "withdrawal"}
  BY TaskFacts DEF TaskInv, TaskState
<1>2. task[v].phase \in {"submission", "cancellation"}
  BY <1>1 DEF StepsOf
<1>3. CASE task[v].phase = "submission"
  BY <1>1, <1>3 DEF KindsOf, SubmissionInv
<1>4. CASE task[v].phase = "cancellation"
  BY <1>1, <1>4 DEF KindsOf
<1> QED
  BY <1>1, <1>2, <1>3, <1>4

\* Steps of a task, the network and the gateway.
LEMMA GatewayStep ==
    ASSUME IndInv, UNCHANGED <<op, running, events>>, GatewayAdvances,
           job' \in [Ops -> {"none", "running"} \cup Terminal],
           asked' \subseteq Ops, late' \subseteq Ops, faults' \in 0..MaxFaults,
           task' \in [Tasks -> TaskState],
           \A u \in Tasks : task'[u] = IdleTask \/ SameClaim(task'[u], task[u]),
           \A u \in Tasks : TaskInv(task[u])',
           \A u \in Tasks : Definite(task'[u]) => Definite(task[u]),
           \A p \in Ops : job[p] = "none" /\ job'[p] # "none" =>
                Kind[p] # "llm_cancellation" /\ Leaks(p),
           \A p \in Ops : p \in late' => Leaks(p)
    PROVE  IndInv'
<1>1. op' = op /\ running' = running /\ events' = events
  OBVIOUS
<1>2. RowsAdvance
  BY <1>1 DEF RowsAdvance
<1>3. ClaimMatchesRow'
  <2>1. TypeOK'
    BY <1>1 DEF IndInv, ClaimMatchesRow, TypeOK
  <2>2. ASSUME NEW o \in Ops
        PROVE  /\ running[o] = {op[o].token} \ {NoToken}
               /\ op[o].token # NoToken => op[o].status \in {"submitting", "accepted"}
    BY DEF IndInv, ClaimMatchesRow
  <2>3. ASSUME NEW o \in Ops, NEW t \in Tasks, task'[t].op = o, task'[t].token = op[o].token
        PROVE  StatusFits(t)'
    <3>1. task'[t] # IdleTask
      BY <2>3, NamesAssumption DEF IdleTask
    <3>2. SameClaim(task'[t], task[t])
      BY <3>1
    <3>3. StatusFits(t)
      BY <2>3, <3>2 DEF SameClaim, IndInv, ClaimMatchesRow
    <3> QED
      BY <1>1, <3>2, <3>3 DEF StatusFits, SameClaim
  <2> QED
    BY <1>1, <2>1, <2>2, <2>3 DEF ClaimMatchesRow
<1>4. OneCompletionEvent'
  BY <1>1 DEF IndInv, OneCompletionEvent
<1>5. ResultMatchesJob'
  <2> SUFFICES ASSUME NEW o \in Ops, op[o].mapped
               PROVE  IF op[o].status \in Terminal THEN op[o].status = job'[o]
                      ELSE op[o].status = "accepted" /\ job'[o] # "none"
    BY <1>1 DEF ResultMatchesJob
  <2>1. IF op[o].status \in Terminal THEN op[o].status = job[o]
        ELSE op[o].status = "accepted" /\ job[o] # "none"
    BY DEF IndInv, ResultMatchesJob
  <2> QED
    BY <2>1 DEF GatewayAdvances, Terminal
<1>6. ASSUME NEW o \in Ops
      PROVE  RowInv(o)'
  <2>1. RowInv(o)
    BY DEF IndInv
  <2>2. Leaks(o) => /\ Kind[o] # "withdraw"
                    /\ Kind[o] = "llm" /\ Ref[o] # NoOp => job[Ref[o]] = "succeeded"
    BY <2>1, SentFacts DEF Leaks, RowInv
  <2>3. op[o].mapped \/ job'[o] # "none" => Kind[o] \in {"llm", "execution"}
    <3>1. CASE job[o] = "none" /\ job'[o] # "none"
      BY <2>2, <3>1, References DEF Kinds
    <3>2. CASE job[o] # "none" \/ job'[o] = "none"
      BY <2>1, <3>2 DEF RowInv
    <3> QED
      BY <3>1, <3>2
  <2>4. o \in late' => Kind[o] # "withdraw"
    BY <2>2
  <2>5. op[o].status \in {"absent", "pending"} \cup Terminal /\ ~op[o].mapped /\ Initiates(o) =>
          job'[o] = "none" /\ o \notin late' /\ \A t \in Tasks : task'[t].op # o
    <3> SUFFICES ASSUME op[o].status \in {"absent", "pending"} \cup Terminal, ~op[o].mapped,
                        Initiates(o)
                 PROVE  job'[o] = "none" /\ o \notin late' /\ \A t \in Tasks : task'[t].op # o
      OBVIOUS
    <3>1. job[o] = "none" /\ o \notin late /\ \A t \in Tasks : task[t].op # o
      BY <2>1 DEF RowInv, Untouched
    <3>2. ~Leaks(o)
      BY <3>1 DEF Leaks
    <3>3. \A t \in Tasks : task'[t].op # o
      BY <3>1, NamesAssumption DEF SameClaim, IdleTask
    <3> QED
      BY <3>1, <3>2, <3>3
  <2>6. Kind[o] = "llm" /\ Ref[o] # NoOp /\ (o \in late' \/ job'[o] # "none") =>
          job'[Ref[o]] = "succeeded"
    <3> SUFFICES ASSUME Kind[o] = "llm", Ref[o] # NoOp, o \in late' \/ job'[o] # "none"
                 PROVE  job'[Ref[o]] = "succeeded"
      OBVIOUS
    <3>1. Ref[o] \in Ops
      BY References
    <3>2. job[Ref[o]] = "succeeded"
      <4>1. CASE job[o] # "none"
        BY <2>1, <4>1 DEF RowInv
      <4>2. CASE job[o] = "none"
        BY <2>2, <4>2
      <4> QED
        BY <4>1, <4>2
    <3> QED
      BY <3>1, <3>2 DEF GatewayAdvances
  <2>7. Kind[o] = "llm_cancellation" /\ op[o].status = "succeeded" => Settled(Ref[o])'
    <3> SUFFICES ASSUME Kind[o] = "llm_cancellation", op[o].status = "succeeded"
                 PROVE  Settled(Ref[o])'
      OBVIOUS
    <3>1. Ref[o] \in Ops /\ Settled(Ref[o])
      BY <2>1, References DEF RowInv
    <3> QED
      BY <1>2, <3>1, SettledStays DEF Settled
  <2>8. op[o].status = "accepted" => op[o].mapped
    BY <2>1 DEF RowInv
  <2> QED
    BY <1>1, <2>3, <2>4, <2>5, <2>6, <2>7, <2>8 DEF RowInv, Untouched
<1>7. ASSUME NEW t \in Tasks
      PROVE  OwnerInv(t)'
  <2> SUFFICES ASSUME Definite(task'[t]), op[task'[t].op].token = task'[t].token,
                      Initiates(task'[t].op)
               PROVE  /\ job'[task'[t].op] = "none" /\ task'[t].op \notin late'
                      /\ \A u \in Tasks \ {t} : task'[u].op # task'[t].op
    BY <1>1 DEF OwnerInv, Definite, Initiates
  <2>1. task'[t] # IdleTask
    BY DEF Definite, IdleTask
  <2>2. SameClaim(task'[t], task[t]) /\ Definite(task[t])
    BY <2>1
  <2>3. PICK o \in Ops : task[t].op = o /\ task'[t].op = o
    <3>1. task[t].pc # "idle"
      BY <2>2 DEF Definite
    <3> QED
      BY <2>2, <3>1, TaskFacts DEF SameClaim
  <2>4. job[o] = "none" /\ o \notin late /\ \A u \in Tasks \ {t} : task[u].op # o
    BY <2>2, <2>3 DEF IndInv, OwnerInv, SameClaim
  <2>5. ~Leaks(o)
    BY <2>4 DEF Leaks
  <2>6. \A u \in Tasks \ {t} : task'[u].op # o
    BY <2>4, NamesAssumption DEF SameClaim, IdleTask
  <2> QED
    BY <2>3, <2>4, <2>5, <2>6
<1> QED
  BY <1>3, <1>4, <1>5, <1>6, <1>7 DEF IndInv

-----------------------------------------------------------------------------
(* Steps of one task *)

\* A task moves on with its claim, or drops it.
LEMMA MoveStep ==
    ASSUME IndInv, NEW t \in Tasks, NEW r \in TaskState, task' = [task EXCEPT ![t] = r],
           r = IdleTask \/ SameClaim(r, task[t]), TaskInv(r),
           Definite(r) => Definite(task[t]),
           UNCHANGED <<op, running, events, job, asked>>,
           \/ late' = late
           \/ late' = late \cup {task[t].op} /\ task[t].pc = "sent" /\ ~Definite(r),
           Fault \/ UNCHANGED faults
    PROVE  IndInv'
<1>1. GatewayAdvances /\ RowsAdvance
  BY DEF GatewayAdvances, RowsAdvance
<1>2. task' \in [Tasks -> TaskState] /\ task'[t] = r /\ \A u \in Tasks \ {t} : task'[u] = task[u]
  BY Types
<1>3. \A u \in Tasks : task'[u] = IdleTask \/ SameClaim(task'[u], task[u])
  BY <1>2 DEF SameClaim
<1>4. ASSUME NEW u \in Tasks
      PROVE  TaskInv(task[u])'
  <2>1. PICK q \in TaskState : q = task'[u] /\ TaskInv(q)
    BY <1>2, TaskFacts
  <2>2. TaskInv(q)'
    BY <1>1, <2>1, TaskInvStays
  <2> QED
    BY <2>1, <2>2 DEF TaskInv, SubmissionInv, CancellationInv, Settled
<1>5. \A u \in Tasks : Definite(task'[u]) => Definite(task[u])
  BY <1>2
<1>6. late' \subseteq Ops
  BY Types, SentFacts
<1>7. \A p \in Ops : p \in late' => Leaks(p)
  BY <1>2 DEF Leaks
<1>8. faults' \in 0..MaxFaults
  BY FaultCounted
<1> QED
  BY <1>1, <1>2, <1>3, <1>4, <1>5, <1>6, <1>7, <1>8, Types, GatewayStep

\* GoTo keeps the claim.
LEMMA GoToMoves ==
    ASSUME IndInv, NEW t \in Tasks,
           NEW pc \in {"lookup", "sent", "defer", "accept", "postpone"}, GoTo(t, pc)
    PROVE  \E r \in TaskState :
                /\ task' = [task EXCEPT ![t] = r] /\ SameClaim(r, task[t])
                /\ r.pc = pc
<1> DEFINE r == [task[t] EXCEPT !.pc = pc]
<1>1. task[t] \in TaskState
  BY TaskFacts
<1>2. r \in TaskState /\ SameClaim(r, task[t]) /\ r.pc = pc
  BY <1>1 DEF TaskState, SameClaim
<1>3. task' = [task EXCEPT ![t] = r]
  BY DEF GoTo
<1> HIDE DEF r
<1> QED
  BY <1>2, <1>3

\* Retry keeps the claim.
LEMMA RetryMoves ==
    ASSUME IndInv, NEW t \in Tasks, NEW uncertain \in BOOLEAN, Retry(t, uncertain)
    PROVE  \E r \in TaskState :
                /\ task' = [task EXCEPT ![t] = r] /\ SameClaim(r, task[t])
                /\ r.pc = "retry" /\ r.uncertain = uncertain
<1> DEFINE r == [task[t] EXCEPT !.pc = "retry", !.uncertain = uncertain]
<1>1. task[t] \in TaskState
  BY TaskFacts
<1>2. r \in TaskState /\ SameClaim(r, task[t]) /\ r.pc = "retry" /\ r.uncertain = uncertain
  BY <1>1 DEF TaskState, SameClaim
<1>3. task' = [task EXCEPT ![t] = r]
  BY DEF Retry
<1> HIDE DEF r
<1> QED
  BY <1>2, <1>3

\* Complete keeps the claim.
LEMMA CompleteMoves ==
    ASSUME IndInv, NEW t \in Tasks, NEW outcome \in Terminal, Complete(t, outcome)
    PROVE  \E r \in TaskState :
                /\ task' = [task EXCEPT ![t] = r] /\ SameClaim(r, task[t])
                /\ r.pc = "complete" /\ r.outcome = outcome
<1> DEFINE r == [task[t] EXCEPT !.pc = "complete", !.outcome = outcome]
<1>1. task[t] \in TaskState
  BY TaskFacts
<1>2. r \in TaskState /\ SameClaim(r, task[t]) /\ r.pc = "complete" /\ r.outcome = outcome
  BY <1>1 DEF TaskState, SameClaim
<1>3. task' = [task EXCEPT ![t] = r]
  BY DEF Complete
<1> HIDE DEF r
<1> QED
  BY <1>2, <1>3

\* What is true of a task that is at work.
LEMMA AtWork ==
    ASSUME IndInv, NEW t \in Tasks, task[t].pc # "idle"
    PROVE  /\ task[t] \in TaskState /\ task[t].op \in Ops /\ task[t].token \in Tokens
           /\ Kind[task[t].op] \in KindsOf(task[t].phase) /\ task[t].pc \in StepsOf(task[t].phase)
           /\ task[t].phase \in {"submission", "result_retrieval", "cancellation", "withdrawal"}
           /\ task[t].recovering \in BOOLEAN
           /\ task[t].phase = "submission" => SubmissionInv(task[t])
           /\ task[t].phase = "cancellation" => CancellationInv(task[t])
           /\ task[t].phase = "result_retrieval" /\ task[t].pc = "complete" =>
                task[t].outcome = job[task[t].op]
  BY TaskFacts DEF TaskInv, TaskState

\* A task that goes on with its claim needs what its new step relies on.
LEMMA GoOn ==
    ASSUME IndInv, NEW t \in Tasks, task[t].pc # "idle", NEW r \in TaskState,
           SameClaim(r, task[t]), r.pc # "idle", r.pc \in StepsOf(r.phase),
           r.phase = "submission" => SubmissionInv(r),
           r.phase = "cancellation" => CancellationInv(r),
           r.phase = "result_retrieval" /\ r.pc = "complete" => r.outcome = job[r.op]
    PROVE  TaskInv(r)
  BY AtWork DEF TaskInv, SameClaim

\* An answer that leaves the operation to be tried again keeps the uncertainty of
\* the claim.
LEMMA RetryPreserves ==
    ASSUME IndInv, NEW t \in Tasks, NEW uncertain \in BOOLEAN, Retry(t, uncertain),
           \/ task[t].pc \in {"check", "lookup", "sent"} /\ (task[t].recovering => uncertain)
           \/ task[t].pc = "poll",
           UNCHANGED <<op, running, events, job, asked>>,
           \/ late' = late
           \/ late' = late \cup {task[t].op} /\ task[t].pc = "sent" /\ uncertain,
           Fault \/ UNCHANGED faults
    PROVE  IndInv'
<1>1. PICK r \in TaskState :
        /\ task' = [task EXCEPT ![t] = r] /\ SameClaim(r, task[t])
        /\ r.pc = "retry" /\ r.uncertain = uncertain
  BY RetryMoves
<1>2. task[t].phase \in {"submission", "result_retrieval", "cancellation"}
  BY AtWork DEF StepsOf
<1>3. r.pc \in StepsOf(r.phase)
  BY <1>1, <1>2 DEF StepsOf, SameClaim
<1>4. r.phase = "submission" => SubmissionInv(r)
  BY <1>1, AtWork DEF SubmissionInv, SameClaim, StepsOf
<1>5. TaskInv(r)
  BY <1>1, <1>3, <1>4, GoOn DEF CancellationInv
<1>6. Definite(r) => Definite(task[t])
  <2> SUFFICES ASSUME Definite(r)
               PROVE  Definite(task[t])
    OBVIOUS
  <2>1. task[t].phase = "submission" /\ ~task[t].recovering
    BY <1>1 DEF Definite, SameClaim
  <2>2. task[t].pc \in {"check", "sent"}
    BY <2>1, AtWork DEF SubmissionInv, StepsOf
  <2> QED
    BY <2>1, <2>2 DEF Definite
<1>7. uncertain => ~Definite(r)
  BY <1>1 DEF Definite
<1> QED
  BY <1>1, <1>5, <1>6, <1>7, MoveStep

\* A definite failure.
LEMMA FailurePreserves ==
    ASSUME IndInv, NEW t \in Tasks, Complete(t, "failed"),
           task[t].pc \in {"check", "sent"}, ~task[t].recovering,
           UNCHANGED <<op, running, events, job, asked, late>>, Fault \/ UNCHANGED faults
    PROVE  IndInv'
<1>1. PICK r \in TaskState :
        /\ task' = [task EXCEPT ![t] = r] /\ SameClaim(r, task[t])
        /\ r.pc = "complete" /\ r.outcome = "failed"
  BY CompleteMoves DEF Terminal
<1>2. task[t].phase \in {"submission", "cancellation"}
  BY AtWork DEF StepsOf
<1>3. r.pc \in StepsOf(r.phase) /\ r.phase # "result_retrieval"
  BY <1>1, <1>2 DEF StepsOf, SameClaim
<1>4. r.phase = "submission" => SubmissionInv(r)
  BY <1>1 DEF SubmissionInv, SameClaim
<1>5. TaskInv(r)
  BY <1>1, <1>3, <1>4, GoOn DEF CancellationInv
<1>6. Definite(r) => Definite(task[t])
  BY <1>1 DEF Definite, SameClaim
<1> QED
  BY <1>1, <1>5, <1>6, MoveStep

\* fail: what is uncertain stays uncertain.
LEMMA FailPreserves ==
    ASSUME IndInv, NEW t \in Tasks, Fail(t),
           task[t].pc \in {"check", "sent"} \/ (task[t].pc = "lookup" /\ task[t].recovering),
           UNCHANGED <<op, running, events, job, asked, late>>, Fault \/ UNCHANGED faults
    PROVE  IndInv'
<1>1. CASE task[t].recovering
  BY <1>1, RetryPreserves DEF Fail
<1>2. CASE ~task[t].recovering
  BY <1>2, FailurePreserves DEF Fail
<1> QED
  BY <1>1, <1>2

\* A submission is sent or looked up only when its parent has succeeded.
LEMMA SubmissionPreserves ==
    ASSUME IndInv, NEW t \in Tasks, CheckSubmission(t) \/ FindByIdempotencyKey(t)
    PROVE  IndInv'
<1> DEFINE o == task[t].op
<1>1. UNCHANGED <<op, running, events, job, asked, late, faults>>
  BY DEF CheckSubmission, FindByIdempotencyKey, gateway
<1>2. task[t].phase = "submission" /\ o \in Ops /\ task[t].pc # "idle" /\ SubmissionInv(task[t])
  <2>1. task[t].pc \in {"check", "lookup"} /\ (task[t].pc = "check" => task[t].phase = "submission")
    BY DEF CheckSubmission, FindByIdempotencyKey
  <2> QED
    BY <2>1, AtWork DEF StepsOf
<1>3. ASSUME NEW pc \in {"defer", "lookup", "sent", "accept"}, GoTo(t, pc),
             pc = "defer" => Ref[o] # NoOp, pc = "accept" => job[o] # "none",
             pc = "lookup" => task[t].recovering,
             pc = "sent" => task[t].pc = "check" \/ task[t].recovering,
             pc \in {"lookup", "sent"} /\ Ref[o] # NoOp => job[Ref[o]] = "succeeded"
      PROVE  IndInv'
  <2>1. PICK r \in TaskState :
          task' = [task EXCEPT ![t] = r] /\ SameClaim(r, task[t]) /\ r.pc = pc
    BY <1>3, GoToMoves
  <2>2. SubmissionInv(r) /\ r.pc \in StepsOf(r.phase) /\ r.phase = "submission"
    BY <1>2, <1>3, <2>1 DEF SubmissionInv, StepsOf, SameClaim
  <2>3. TaskInv(r)
    BY <1>2, <2>1, <2>2, GoOn
  <2>4. Definite(r) => Definite(task[t])
    BY <1>2, <1>3, <2>1 DEF Definite, SameClaim
  <2> QED
    BY <1>1, <2>1, <2>3, <2>4, MoveStep
<1>4. CASE FindByIdempotencyKey(t)
  <2>1. task[t].pc = "lookup" /\ GoTo(t, IF job[o] # "none" THEN "accept" ELSE "sent")
    BY <1>4 DEF FindByIdempotencyKey
  <2>2. task[t].recovering /\ (Ref[o] # NoOp => job[Ref[o]] = "succeeded")
    BY <1>2, <2>1 DEF SubmissionInv
  <2>3. CASE job[o] # "none"
    BY <1>3, <2>1, <2>2, <2>3
  <2>4. CASE job[o] = "none"
    BY <1>3, <2>1, <2>2, <2>4
  <2> QED
    BY <2>3, <2>4
<1>5. CASE CheckSubmission(t)
  <2>1. task[t].pc = "check"
    BY <1>5 DEF CheckSubmission
  <2>2. CASE ParentIsOpen(o) /\ GoTo(t, "defer")
    BY <1>3, <2>2 DEF ParentIsOpen
  <2>3. CASE Fail(t)
    BY <1>1, <2>1, <2>3, FailPreserves
  <2>4. CASE UsableParent(o) /\ GoTo(t, IF task[t].recovering THEN "lookup" ELSE "sent")
    <3>1. Ref[o] # NoOp => job[Ref[o]] = "succeeded"
      <4> SUFFICES ASSUME Ref[o] # NoOp
                   PROVE  job[Ref[o]] = "succeeded"
        OBVIOUS
      <4>1. Ref[o] \in Ops /\ op[Ref[o]].status = "succeeded" /\ op[Ref[o]].mapped
        BY <1>2, <2>4, References DEF UsableParent
      <4> QED
        BY <4>1 DEF IndInv, ResultMatchesJob, Terminal
    <3>2. CASE task[t].recovering
      BY <1>3, <2>4, <3>1, <3>2
    <3>3. CASE ~task[t].recovering
      BY <1>3, <2>1, <2>4, <3>1, <3>3
    <3> QED
      BY <3>2, <3>3
  <2> QED
    BY <1>5, <2>2, <2>3, <2>4 DEF CheckSubmission
<1> QED
  BY <1>4, <1>5

\* A cancellation is sent only for a target with a job, and succeeds unsent only for
\* one that has ended.
LEMMA CancellationPreserves ==
    ASSUME IndInv, NEW t \in Tasks, CheckCancellation(t)
    PROVE  IndInv'
<1> DEFINE o == task[t].op
           target == Ref[o]
<1>1. /\ UNCHANGED <<op, running, events, job, asked, late, faults>>
      /\ task[t].pc = "check" /\ task[t].phase = "cancellation"
  BY DEF CheckCancellation, gateway
<1>2. o \in Ops /\ Kind[o] = "llm_cancellation"
  BY <1>1, AtWork DEF KindsOf
<1>3. target \in Ops
  BY <1>2, References
<1>4. op[target].mapped => IF op[target].status \in Terminal THEN op[target].status = job[target]
                           ELSE op[target].status = "accepted" /\ job[target] # "none"
  BY <1>3 DEF IndInv, ResultMatchesJob
<1>5. CASE NothingToCancel(target) /\ Complete(t, "succeeded")
  <2>1. PICK r \in TaskState :
          /\ task' = [task EXCEPT ![t] = r] /\ SameClaim(r, task[t])
          /\ r.pc = "complete" /\ r.outcome = "succeeded"
    BY <1>5, CompleteMoves DEF Terminal
  <2>2. Settled(target)
    BY <1>4, <1>5 DEF NothingToCancel, Settled
  <2>3. r.phase = "cancellation" /\ r.op = o /\ r.pc \in StepsOf(r.phase)
    BY <1>1, <2>1 DEF SameClaim, StepsOf
  <2>4. CancellationInv(r)
    BY <2>1, <2>2, <2>3 DEF CancellationInv
  <2>5. TaskInv(r) /\ ~Definite(r)
    BY <1>1, <2>1, <2>3, <2>4, GoOn DEF Definite
  <2> QED
    BY <1>1, <2>1, <2>5, MoveStep
<1>6. CASE GoTo(t, IF GatewayKnows(t) THEN "sent" ELSE "defer")
  <2>1. PICK pc \in {"sent", "defer"} : GoTo(t, pc) /\ (pc = "sent" => GatewayKnows(t))
    BY <1>6
  <2>2. PICK r \in TaskState :
          task' = [task EXCEPT ![t] = r] /\ SameClaim(r, task[t]) /\ r.pc = pc
    BY <2>1, GoToMoves
  <2>3. r.phase = "cancellation" /\ r.op = o /\ r.pc \in StepsOf(r.phase)
    BY <1>1, <2>2 DEF SameClaim, StepsOf
  <2>4. pc = "sent" => job[target] # "none"
    BY <1>4, <2>1 DEF GatewayKnows, Terminal
  <2>5. CancellationInv(r)
    BY <2>2, <2>3, <2>4 DEF CancellationInv
  <2>6. TaskInv(r) /\ ~Definite(r)
    BY <1>1, <2>2, <2>3, <2>5, GoOn DEF Definite
  <2> QED
    BY <1>1, <2>2, <2>6, MoveStep
<1> QED
  BY <1>5, <1>6 DEF CheckCancellation

\* A result is what the job ended with.
LEMMA GetJobPreserves ==
    ASSUME IndInv, NEW t \in Tasks, GetJob(t)
    PROVE  IndInv'
<1> DEFINE o == task[t].op
<1>1. UNCHANGED <<op, running, events, job, asked, late, faults>> /\ task[t].pc = "poll"
  BY DEF GetJob, gateway
<1>2. task[t].phase = "result_retrieval"
  BY <1>1, AtWork DEF StepsOf
<1>3. CASE GoTo(t, "postpone")
  <2>1. PICK r \in TaskState :
          task' = [task EXCEPT ![t] = r] /\ SameClaim(r, task[t]) /\ r.pc = "postpone"
    BY <1>3, GoToMoves
  <2>2. r.phase = "result_retrieval" /\ r.pc \in StepsOf(r.phase)
    BY <1>2, <2>1 DEF SameClaim, StepsOf
  <2>3. TaskInv(r) /\ ~Definite(r)
    BY <1>1, <2>1, <2>2, GoOn DEF Definite
  <2> QED
    BY <1>1, <2>1, <2>3, MoveStep
<1>4. CASE job[o] \in Terminal /\ Complete(t, job[o])
  <2>1. PICK r \in TaskState :
          /\ task' = [task EXCEPT ![t] = r] /\ SameClaim(r, task[t])
          /\ r.pc = "complete" /\ r.outcome = job[o]
    BY <1>4, CompleteMoves
  <2>2. r.phase = "result_retrieval" /\ r.op = o /\ r.pc \in StepsOf(r.phase)
    BY <1>2, <2>1 DEF SameClaim, StepsOf
  <2>3. TaskInv(r) /\ ~Definite(r)
    BY <1>1, <2>1, <2>2, GoOn DEF Definite
  <2> QED
    BY <1>1, <2>1, <2>3, MoveStep
<1> QED
  BY <1>3, <1>4 DEF GetJob

\* Faults and rejections, and tasks that end without a record.
LEMMA FaultsPreserve ==
    ASSUME IndInv, NEW t \in Tasks,
           \/ GatewayRejects(t) \/ StaleClaim(t)
           \/ TaskFault(t)
    PROVE  IndInv'
<1>1. CASE GatewayRejects(t)
  BY <1>1, FailurePreserves DEF GatewayRejects, gateway
<1>2. CASE StaleClaim(t) \/ LoseTask(t)
  <2>1. /\ task[t].pc # "idle" /\ Abandon(t) /\ (Fault \/ UNCHANGED faults)
    BY <1>2 DEF StaleClaim, LoseTask
  <2>2. /\ UNCHANGED <<op, running, events, job, asked>>
        /\ task' = [task EXCEPT ![t] = IdleTask]
        /\ late' = late \/ (late' = late \cup {task[t].op} /\ task[t].pc = "sent")
    BY <2>1 DEF Abandon, BecomeIdle
  <2>3. IdleTask \in TaskState /\ TaskInv(IdleTask) /\ ~Definite(IdleTask)
    BY DEF IdleTask, TaskState, TaskInv, Definite, Terminal
  <2> QED
    BY <2>1, <2>2, <2>3, MoveStep
<1>3. CASE RequestUnusable(t)
  BY <1>3, FailPreserves DEF RequestUnusable, gateway
<1>4. CASE DependencyUnreadable(t)
  <2>1. task[t].recovering \in BOOLEAN
    BY <1>4, AtWork DEF DependencyUnreadable
  <2> QED
    BY <1>4, <2>1, RetryPreserves DEF DependencyUnreadable, gateway
<1>5. CASE RejectedWhileUncertain(t)
  BY <1>5, FailPreserves DEF RejectedWhileUncertain, gateway
<1>6. CASE GatewayUnavailable(t)
  <2>1. task[t].recovering \in BOOLEAN
    BY <1>6, AtWork DEF GatewayUnavailable
  <2> QED
    BY <1>6, <2>1, RetryPreserves DEF GatewayUnavailable, UncertainAfterRefusal, gateway
<1>7. CASE GatewayUncertain(t)
  BY <1>7, RetryPreserves DEF GatewayUncertain
<1>8. CASE ResultUnavailable(t)
  BY <1>8, RetryPreserves DEF ResultUnavailable, gateway
<1> QED
  BY <1>1, <1>2, <1>3, <1>4, <1>5, <1>6, <1>7, <1>8 DEF TaskFault

-----------------------------------------------------------------------------
(* The gateway *)

\* What a delivered request does.
LEMMA DeliverAdvances ==
    ASSUME IndInv, NEW o \in Ops, Deliver(o), Kind[o] # "withdraw"
    PROVE  /\ GatewayAdvances /\ asked' \subseteq Ops
           /\ job' \in [Ops -> {"none", "running"} \cup Terminal]
           /\ \A p \in Ops : job[p] = "none" /\ job'[p] # "none" =>
                p = o /\ Kind[p] # "llm_cancellation"
           /\ Kind[o] # "llm_cancellation" => job'[o] # "none"
           /\ Kind[o] = "llm_cancellation" /\ job[Ref[o]] # "none" =>
                Ref[o] \in asked' \/ job'[Ref[o]] \in Terminal
<1>1. CASE Kind[o] = "llm_cancellation"
  <2>1. Ref[o] \in Ops
    BY <1>1, References
  <2>2. job' = job /\ asked' = IF job[Ref[o]] = "running" THEN asked \cup {Ref[o]} ELSE asked
    BY <1>1 DEF Deliver
  <2> QED
    BY <1>1, <2>1, <2>2, Types DEF GatewayAdvances
<1>2. CASE Kind[o] # "llm_cancellation"
  <2>1. asked' = asked /\ job' = IF job[o] = "none" THEN [job EXCEPT ![o] = "running"] ELSE job
    BY <1>2 DEF Deliver
  <2> QED
    BY <1>2, <2>1, Types DEF GatewayAdvances
<1> QED
  BY <1>1, <1>2

\* Steps of the network and the gateway that no task takes part in.
LEMMA NetworkStep ==
    ASSUME IndInv, UNCHANGED <<op, running, events, task, faults>>, GatewayAdvances,
           job' \in [Ops -> {"none", "running"} \cup Terminal],
           asked' \subseteq Ops, late' \subseteq late,
           \A p \in Ops : job[p] = "none" /\ job'[p] # "none" =>
                Kind[p] # "llm_cancellation" /\ p \in late
    PROVE  IndInv'
<1>1. RowsAdvance
  BY DEF RowsAdvance
<1>2. ASSUME NEW u \in Tasks
      PROVE  TaskInv(task[u])'
  <2>1. PICK q \in TaskState : q = task'[u] /\ TaskInv(q)
    BY TaskFacts
  <2>2. TaskInv(q)'
    BY <1>1, <2>1, TaskInvStays
  <2> QED
    BY <2>1, <2>2 DEF TaskInv, SubmissionInv, CancellationInv, Settled
<1>3. \A u \in Tasks : SameClaim(task'[u], task[u]) /\ (Definite(task'[u]) => Definite(task[u]))
  BY DEF SameClaim
<1>4. \A p \in Ops : p \in late => Leaks(p)
  BY DEF Leaks
<1> QED
  BY <1>2, <1>3, <1>4, Types, GatewayStep

\* Late requests arrive or get lost, jobs end.
LEMMA NetworkPreserves ==
    ASSUME IndInv, NEW o \in Ops,
           LateDelivery(o) \/ LateLost(o) \/ \E s \in Terminal : JobFinishes(o, s)
    PROVE  IndInv'
<1>1. CASE LateDelivery(o)
  <2>1. /\ o \in late /\ Deliver(o) /\ late' \subseteq late
        /\ UNCHANGED <<op, running, events, task, faults>>
    BY <1>1 DEF LateDelivery
  <2>2. Kind[o] # "withdraw"
    BY <2>1 DEF IndInv, RowInv
  <2> QED
    BY <2>1, <2>2, DeliverAdvances, NetworkStep
<1>2. CASE LateLost(o)
  BY <1>2, Types, NetworkStep DEF LateLost, GatewayAdvances
<1>3. ASSUME NEW s \in Terminal, JobFinishes(o, s)
      PROVE  IndInv'
  <2>1. /\ job[o] = "running" /\ job' = [job EXCEPT ![o] = s]
        /\ UNCHANGED <<op, running, events, task, asked, late, faults>>
    BY <1>3 DEF JobFinishes
  <2> QED
    BY <2>1, Types, NetworkStep DEF GatewayAdvances
<1> QED
  BY <1>1, <1>2, <1>3

\* An acknowledged submission has a job, an acknowledged cancellation was recorded.
LEMMA AcknowledgePreserves ==
    ASSUME IndInv, NEW t \in Tasks, GatewayAcknowledges(t)
    PROVE  IndInv'
<1>1. PICK o \in Ops : task[t].op = o
  BY AtWork DEF GatewayAcknowledges
<1>2. /\ task[t].pc = "sent" /\ Deliver(o) /\ UNCHANGED <<op, running, events, late, faults>>
      /\ IF task[t].phase = "submission" THEN GoTo(t, "accept") ELSE Complete(t, "succeeded")
  BY <1>1 DEF GatewayAcknowledges
<1>3. /\ Kind[o] # "withdraw" /\ task[t].phase \in {"submission", "cancellation"}
      /\ Kind[o] = "llm_cancellation" <=> task[t].phase = "cancellation"
  BY <1>1, <1>2, SentFacts
<1>4. /\ GatewayAdvances /\ asked' \subseteq Ops
      /\ job' \in [Ops -> {"none", "running"} \cup Terminal]
      /\ \A p \in Ops : job[p] = "none" /\ job'[p] # "none" =>
           p = o /\ Kind[p] # "llm_cancellation"
      /\ Kind[o] # "llm_cancellation" => job'[o] # "none"
      /\ Kind[o] = "llm_cancellation" /\ job[Ref[o]] # "none" =>
           Ref[o] \in asked' \/ job'[Ref[o]] \in Terminal
  BY <1>2, <1>3, DeliverAdvances
<1>5. PICK r \in TaskState :
        /\ task' = [task EXCEPT ![t] = r] /\ SameClaim(r, task[t])
        /\ IF task[t].phase = "submission" THEN r.pc = "accept"
           ELSE r.pc = "complete" /\ r.outcome = "succeeded"
  BY <1>2, GoToMoves, CompleteMoves DEF Terminal
<1>6. /\ r.op = o /\ r.token \in Tokens /\ r.phase = task[t].phase
      /\ Kind[o] \in KindsOf(r.phase)
  BY <1>1, <1>2, <1>5, AtWork DEF SameClaim
<1>7. TaskInv(r)' /\ ~Definite(r)
  <2>1. CASE r.phase = "submission"
    <3>1. r.pc = "accept" /\ job'[o] # "none"
      BY <1>3, <1>4, <1>5, <1>6, <2>1
    <3>2. SubmissionInv(r)' /\ r.pc \in StepsOf(r.phase)
      BY <1>6, <2>1, <3>1 DEF SubmissionInv, StepsOf
    <3> QED
      BY <1>6, <2>1, <3>1, <3>2 DEF TaskInv, Definite
  <2>2. CASE r.phase = "cancellation"
    <3>1. r.pc = "complete" /\ r.outcome = "succeeded"
      BY <1>5, <1>6, <2>2
    <3>2. job[Ref[o]] # "none"
      BY <1>1, <1>2, <1>6, <2>2, AtWork DEF CancellationInv
    <3>3. Settled(Ref[o])'
      BY <1>3, <1>4, <1>6, <2>2, <3>2 DEF Settled
    <3>4. CancellationInv(r)' /\ r.pc \in StepsOf(r.phase)
      BY <1>6, <2>2, <3>1, <3>3 DEF CancellationInv, StepsOf
    <3> QED
      BY <1>6, <2>2, <3>1, <3>4 DEF TaskInv, Definite
  <2> QED
    BY <1>3, <1>6, <2>1, <2>2
<1>8. task' \in [Tasks -> TaskState] /\ task'[t] = r /\ \A u \in Tasks \ {t} : task'[u] = task[u]
  BY <1>5, Types
<1>9. ASSUME NEW u \in Tasks
      PROVE  TaskInv(task[u])'
  <2>1. PICK q \in TaskState : q = task'[u]
    BY <1>8
  <2>2. TaskInv(q)'
    <3>1. CASE u = t
      BY <1>7, <1>8, <2>1, <3>1
    <3>2. CASE u # t
      <4>1. TaskInv(q) /\ RowsAdvance
        BY <1>2, <1>8, <2>1, <3>2, TaskFacts DEF RowsAdvance
      <4> QED
        BY <1>4, <4>1, TaskInvStays
    <3> QED
      BY <3>1, <3>2
  <2> QED
    BY <2>1, <2>2 DEF TaskInv, SubmissionInv, CancellationInv, Settled
<1>10. \A u \in Tasks : task'[u] = IdleTask \/ SameClaim(task'[u], task[u])
  BY <1>5, <1>8 DEF SameClaim
<1>11. \A u \in Tasks : Definite(task'[u]) => Definite(task[u])
  BY <1>7, <1>8
<1>12. Leaks(o)
  BY <1>1, <1>2, <1>7, <1>8 DEF Leaks
<1>13. \A p \in Ops : p \in late' => Leaks(p)
  BY <1>2 DEF Leaks
<1> QED
  BY <1>2, <1>4, <1>8, <1>9, <1>10, <1>11, <1>12, <1>13, Types, GatewayStep

-----------------------------------------------------------------------------
(* Steps that write rows *)

RowKept(p) == op'[p].status = op[p].status /\ op'[p].mapped = op[p].mapped

\* What a transaction must see to when it changes the status of p.
RowWritten(p) ==
    /\ op'[p].mapped => IF op'[p].status \in Terminal THEN op'[p].status = job[p]
                        ELSE op'[p].status = "accepted" /\ job[p] # "none"
    /\ op'[p].status = "accepted" => op'[p].mapped
    /\ op'[p].mapped => Kind[p] \in {"llm", "execution"}
    /\ op'[p].status \in {"absent", "pending"} \cup Terminal /\ ~op'[p].mapped /\ Initiates(p) =>
        job[p] = "none" /\ p \notin late /\ \A t \in Tasks : task'[t].op # p
    /\ Kind[p] = "llm_cancellation" /\ op'[p].status = "succeeded" => Settled(Ref[p])

\* Transactions that give no lease.
LEMMA RowStep ==
    ASSUME IndInv, UNCHANGED <<job, asked, late, faults>>,
           op' \in [Ops -> OpRow], \A p \in Ops : op'[p].live => op'[p].token # NoToken,
           running' \in [Ops -> SUBSET Tokens], events' \in [Ops -> Nat],
           task' \in [Tasks -> TaskState],
           \A u \in Tasks : task'[u] = task[u] \/ task'[u] = IdleTask,
           \A p \in Ops : (op'[p].token = op[p].token /\ RowKept(p)) \/ op'[p].token = NoToken,
           \A p \in Ops : running'[p] = {op'[p].token} \ {NoToken},
           RowsAdvance, OneCompletionEvent',
           \A p \in Ops : RowKept(p) \/ RowWritten(p)
    PROVE  IndInv'
<1>1. GatewayAdvances /\ job' = job /\ asked' = asked /\ late' = late /\ faults' = faults
  BY DEF GatewayAdvances
<1>2. ClaimMatchesRow'
  <2>1. TypeOK'
    BY <1>1 DEF IndInv, ClaimMatchesRow, TypeOK
  <2>2. ASSUME NEW o \in Ops, op'[o].token # NoToken
        PROVE  op'[o].status \in {"submitting", "accepted"}
    BY <2>2 DEF IndInv, ClaimMatchesRow, RowKept
  <2>3. ASSUME NEW o \in Ops, NEW t \in Tasks, task'[t].op = o, task'[t].token = op'[o].token
        PROVE  StatusFits(t)'
    <3>1. task'[t] = task[t]
      BY <2>3, NamesAssumption DEF IdleTask
    <3>2. task[t].token \in Tokens
      BY <2>3, <3>1, TaskFacts, NamesAssumption
    <3>3. op'[o].token = op[o].token /\ RowKept(o)
      BY <2>3, <3>1, <3>2, NamesAssumption
    <3>4. StatusFits(t)
      BY <2>3, <3>1, <3>3 DEF IndInv, ClaimMatchesRow
    <3> QED
      BY <2>3, <3>1, <3>3, <3>4 DEF StatusFits, RowKept
  <2> QED
    BY <2>1, <2>2, <2>3 DEF ClaimMatchesRow
<1>3. ResultMatchesJob'
  <2> SUFFICES ASSUME NEW o \in Ops, op'[o].mapped
               PROVE  IF op'[o].status \in Terminal THEN op'[o].status = job[o]
                      ELSE op'[o].status = "accepted" /\ job[o] # "none"
    BY <1>1 DEF ResultMatchesJob
  <2>1. CASE RowKept(o)
    BY <2>1 DEF RowKept, IndInv, ResultMatchesJob
  <2>2. CASE RowWritten(o)
    BY <2>2 DEF RowWritten
  <2> QED
    BY <2>1, <2>2
<1>4. ASSUME NEW o \in Ops
      PROVE  RowInv(o)'
  <2>1. RowInv(o)
    BY DEF IndInv
  <2>2. op'[o].status = "accepted" => op'[o].mapped
    BY <2>1 DEF RowInv, RowKept, RowWritten
  <2>3. op'[o].mapped \/ job'[o] # "none" => Kind[o] \in {"llm", "execution"}
    BY <1>1, <2>1 DEF RowInv, RowKept, RowWritten
  <2>4. op'[o].status \in {"absent", "pending"} \cup Terminal /\ ~op'[o].mapped /\ Initiates(o) =>
          job'[o] = "none" /\ o \notin late' /\ \A t \in Tasks : task'[t].op # o
    <3> SUFFICES ASSUME op'[o].status \in {"absent", "pending"} \cup Terminal, ~op'[o].mapped,
                        Initiates(o)
                 PROVE  job[o] = "none" /\ o \notin late /\ \A t \in Tasks : task'[t].op # o
      BY <1>1
    <3>1. CASE RowKept(o)
      <4>1. job[o] = "none" /\ o \notin late /\ \A t \in Tasks : task[t].op # o
        BY <2>1, <3>1 DEF RowInv, RowKept, Untouched
      <4>2. \A t \in Tasks : task'[t].op # o
        BY <4>1, NamesAssumption DEF IdleTask
      <4> QED
        BY <4>1, <4>2
    <3>2. CASE RowWritten(o)
      BY <3>2 DEF RowWritten
    <3> QED
      BY <3>1, <3>2
  <2>5. Kind[o] = "llm_cancellation" /\ op'[o].status = "succeeded" => Settled(Ref[o])'
    <3> SUFFICES ASSUME Kind[o] = "llm_cancellation", op'[o].status = "succeeded"
                 PROVE  Settled(Ref[o])'
      OBVIOUS
    <3>1. Ref[o] \in Ops /\ Settled(Ref[o])
      BY <2>1, References DEF RowInv, RowKept, RowWritten
    <3> QED
      BY <1>1, <3>1, SettledStays DEF Settled
  <2>6. /\ o \in late' => Kind[o] # "withdraw"
        /\ Kind[o] = "llm" /\ Ref[o] # NoOp /\ (o \in late' \/ job'[o] # "none") =>
             job'[Ref[o]] = "succeeded"
    BY <1>1, <2>1 DEF RowInv
  <2> QED
    BY <2>2, <2>3, <2>4, <2>5, <2>6 DEF RowInv, Untouched
<1>5. ASSUME NEW u \in Tasks
      PROVE  TaskInv(task[u])'
  <2>1. PICK q \in TaskState : q = task'[u] /\ TaskInv(q)
    <3>1. TaskInv(IdleTask)
      BY DEF TaskInv, IdleTask
    <3> QED
      BY <3>1, TaskFacts
  <2>2. TaskInv(q)'
    BY <1>1, <2>1, TaskInvStays
  <2> QED
    BY <2>1, <2>2 DEF TaskInv, SubmissionInv, CancellationInv, Settled
<1>6. ASSUME NEW t \in Tasks
      PROVE  OwnerInv(t)'
  <2> SUFFICES ASSUME Definite(task'[t]), op'[task'[t].op].token = task'[t].token,
                      Initiates(task'[t].op)
               PROVE  /\ job'[task'[t].op] = "none" /\ task'[t].op \notin late'
                      /\ \A u \in Tasks \ {t} : task'[u].op # task'[t].op
    BY DEF OwnerInv, Definite, Initiates
  <2>1. task'[t] = task[t] /\ task[t].pc # "idle"
    BY DEF Definite, IdleTask
  <2>2. PICK o \in Ops : task[t].op = o /\ task[t].token \in Tokens
    BY <2>1, TaskFacts
  <2>3. op'[o].token = op[o].token
    BY <2>1, <2>2, NamesAssumption
  <2>4. job[o] = "none" /\ o \notin late /\ \A u \in Tasks \ {t} : task[u].op # o
    BY <2>1, <2>2, <2>3 DEF IndInv, OwnerInv
  <2>5. \A u \in Tasks \ {t} : task'[u].op # o
    BY <2>4, NamesAssumption DEF IdleTask
  <2> QED
    BY <1>1, <2>1, <2>2, <2>4, <2>5
<1> QED
  BY <1>2, <1>3, <1>4, <1>5, <1>6 DEF IndInv

\* What the invariant says of a row.
LEMMA RowFacts ==
    ASSUME IndInv, NEW o \in Ops
    PROVE  /\ op[o] \in OpRow
           /\ op[o].status \in {"absent"} \cup Open \cup Terminal /\ op[o].due \in BOOLEAN
           /\ op[o].mapped \in BOOLEAN /\ op[o].token \in Tokens \cup {NoToken}
           /\ op[o].live \in BOOLEAN
           /\ op[o].mapped => op[o].status \in {"accepted"} \cup Terminal
           /\ op[o].status = "accepted" => op[o].mapped /\ job[o] # "none"
           /\ op[o].status \in {"absent", "pending"} \cup Terminal => op[o].token = NoToken
           /\ running[o] = {op[o].token} \ {NoToken}
           /\ events[o] = IF op[o].status \in Terminal THEN 1 ELSE 0
<1>1. op[o] \in OpRow
  BY Types
<1>2. op[o].mapped => IF op[o].status \in Terminal THEN op[o].status = job[o]
                      ELSE op[o].status = "accepted" /\ job[o] # "none"
  BY DEF IndInv, ResultMatchesJob
<1>3. op[o].status = "accepted" => op[o].mapped
  BY DEF IndInv, RowInv
<1>4. op[o].token # NoToken => op[o].status \in {"submitting", "accepted"}
  BY DEF IndInv, ClaimMatchesRow
<1>5. /\ running[o] = {op[o].token} \ {NoToken}
      /\ events[o] = IF op[o].status \in Terminal THEN 1 ELSE 0
  BY DEF IndInv, ClaimMatchesRow, OneCompletionEvent
<1>6. /\ op[o].status \in {"absent"} \cup Open \cup Terminal /\ op[o].due \in BOOLEAN
      /\ op[o].mapped \in BOOLEAN /\ op[o].token \in Tokens \cup {NoToken}
      /\ op[o].live \in BOOLEAN
  BY <1>1 DEF OpRow
<1> QED
  BY <1>1, <1>2, <1>3, <1>4, <1>5, <1>6 DEF Terminal

\* A handler's new operation is untouched.
LEMMA CreatePreserves ==
    ASSUME IndInv, NEW o \in Ops, CreateOperation(o)
    PROVE  IndInv'
<1> DEFINE row == [status |-> "pending", due |-> TRUE, mapped |-> FALSE,
                   token |-> NoToken, live |-> FALSE]
<1>1. /\ op[o].status = "absent" /\ op' = [op EXCEPT ![o] = row]
      /\ UNCHANGED <<running, events, task, job, asked, late, faults>>
  BY DEF CreateOperation, gateway
<1>2. /\ row \in OpRow /\ row.status = "pending" /\ ~row.mapped /\ row.token = NoToken
      /\ ~row.live
  BY DEF OpRow, Open
<1> HIDE DEF row
<1>3. op' \in [Ops -> OpRow] /\ op'[o] = row /\ \A p \in Ops \ {o} : op'[p] = op[p]
  BY <1>1, <1>2, Types
<1>4. ~op[o].mapped /\ op[o].token = NoToken
  BY <1>1, RowFacts DEF Terminal
<1>5. \A p \in Ops : op'[p].live => op'[p].token # NoToken
  BY <1>2, <1>3, Types
<1>6. \A p \in Ops : (op'[p].token = op[p].token /\ RowKept(p)) \/ op'[p].token = NoToken
  BY <1>2, <1>3 DEF RowKept
<1>7. \A p \in Ops : running'[p] = {op'[p].token} \ {NoToken}
  BY <1>1, <1>2, <1>3, <1>4, RowFacts
<1>8. RowsAdvance
  BY <1>1, <1>3 DEF RowsAdvance, Terminal
<1>9. OneCompletionEvent'
  BY <1>1, <1>2, <1>3, RowFacts DEF OneCompletionEvent, Terminal
<1>10. RowWritten(o)
  <2>1. Initiates(o) => Untouched(o)
    BY <1>1, <1>4 DEF IndInv, RowInv
  <2> QED
    BY <1>1, <1>2, <1>3, <2>1 DEF RowWritten, Untouched
<1>11. \A p \in Ops : RowKept(p) \/ RowWritten(p)
  BY <1>3, <1>10 DEF RowKept
<1> QED
  BY <1>1, <1>3, <1>5, <1>6, <1>7, <1>8, <1>9, <1>11, Types, RowStep

\* Time changes neither status nor lease token.
LEMMA TimePreserves ==
    ASSUME IndInv, NEW o \in Ops,
           OrphanLeaseExpires(o) \/ HeldLeaseExpires(o) \/ OperationBecomesDue(o)
    PROVE  IndInv'
<1>1. /\ UNCHANGED <<running, events, task, job, asked, late>> /\ (Fault \/ UNCHANGED faults)
      /\ \/ op' = [op EXCEPT ![o] = [@ EXCEPT !.live = FALSE]]
         \/ op' = [op EXCEPT ![o] = [@ EXCEPT !.due = TRUE]]
  BY DEF OrphanLeaseExpires, HeldLeaseExpires, LeaseExpires, OperationBecomesDue, gateway
<1>2. PICK row \in OpRow :
        /\ op' = [op EXCEPT ![o] = row]
        /\ row.status = op[o].status /\ row.mapped = op[o].mapped /\ row.token = op[o].token
        /\ row.live => op[o].live
  <2>1. op[o] \in OpRow
    BY RowFacts
  <2>2. CASE op' = [op EXCEPT ![o] = [@ EXCEPT !.live = FALSE]]
    <3> DEFINE row == [op[o] EXCEPT !.live = FALSE]
    <3>1. /\ row \in OpRow /\ row.status = op[o].status /\ row.mapped = op[o].mapped
          /\ row.token = op[o].token /\ ~row.live
      BY <2>1 DEF OpRow
    <3>2. op' = [op EXCEPT ![o] = row]
      BY <2>2
    <3> HIDE DEF row
    <3> QED
      BY <3>1, <3>2
  <2>3. CASE op' = [op EXCEPT ![o] = [@ EXCEPT !.due = TRUE]]
    <3> DEFINE row == [op[o] EXCEPT !.due = TRUE]
    <3>1. /\ row \in OpRow /\ row.status = op[o].status /\ row.mapped = op[o].mapped
          /\ row.token = op[o].token /\ row.live = op[o].live
      BY <2>1 DEF OpRow
    <3>2. op' = [op EXCEPT ![o] = row]
      BY <2>3
    <3> HIDE DEF row
    <3> QED
      BY <3>1, <3>2
  <2> QED
    BY <1>1, <2>2, <2>3
<1>3. /\ op' \in [Ops -> OpRow]
      /\ \A p \in Ops : /\ op'[p].status = op[p].status /\ op'[p].mapped = op[p].mapped
                        /\ op'[p].token = op[p].token /\ (op'[p].live => op[p].live)
  BY <1>2, Types
<1>4. faults' \in 0..MaxFaults
  BY <1>1, FaultCounted
<1>5. ClaimMatchesRow'
  <2>1. TypeOK'
    BY <1>1, <1>3, <1>4 DEF IndInv, ClaimMatchesRow, TypeOK
  <2>2. \A p \in Ops : /\ running[p] = {op'[p].token} \ {NoToken}
                       /\ op'[p].token # NoToken => op'[p].status \in {"submitting", "accepted"}
    BY <1>3 DEF IndInv, ClaimMatchesRow
  <2>3. ASSUME NEW p \in Ops, NEW t \in Tasks, task[t].op = p, task[t].token = op'[p].token
        PROVE  StatusFits(t)'
    <3>1. StatusFits(t)
      BY <1>3, <2>3 DEF IndInv, ClaimMatchesRow
    <3> QED
      BY <1>1, <1>3, <2>3, <3>1 DEF StatusFits
  <2> QED
    BY <1>1, <2>1, <2>2, <2>3 DEF ClaimMatchesRow
<1>6. OneCompletionEvent' /\ ResultMatchesJob'
  BY <1>1, <1>3 DEF IndInv, OneCompletionEvent, ResultMatchesJob
<1>7. RowsAdvance /\ GatewayAdvances
  BY <1>1, <1>3 DEF RowsAdvance, GatewayAdvances
<1>8. ASSUME NEW p \in Ops
      PROVE  RowInv(p)'
  <2>1. RowInv(p)
    BY DEF IndInv
  <2>2. Kind[p] = "llm_cancellation" /\ op'[p].status = "succeeded" => Settled(Ref[p])'
    <3> SUFFICES ASSUME Kind[p] = "llm_cancellation", op'[p].status = "succeeded"
                 PROVE  Settled(Ref[p])'
      OBVIOUS
    <3>1. Ref[p] \in Ops /\ Settled(Ref[p])
      BY <1>3, <2>1, References DEF RowInv
    <3> QED
      BY <1>1, <1>3, <3>1 DEF Settled
  <2> QED
    BY <1>1, <1>3, <2>1, <2>2 DEF RowInv, Untouched
<1>9. ASSUME NEW u \in Tasks
      PROVE  TaskInv(task[u])'
  <2>1. PICK q \in TaskState : q = task'[u] /\ TaskInv(q)
    BY <1>1, TaskFacts
  <2>2. TaskInv(q)'
    BY <1>7, <2>1, TaskInvStays
  <2> QED
    BY <2>1, <2>2 DEF TaskInv, SubmissionInv, CancellationInv, Settled
<1>10. ASSUME NEW t \in Tasks
       PROVE  OwnerInv(t)'
  <2> SUFFICES ASSUME Definite(task[t]), op'[task[t].op].token = task[t].token,
                      Initiates(task[t].op)
               PROVE  /\ job[task[t].op] = "none" /\ task[t].op \notin late
                      /\ \A u \in Tasks \ {t} : task[u].op # task[t].op
    BY <1>1 DEF OwnerInv, Definite, Initiates
  <2>1. task[t].op \in Ops
    BY TaskFacts DEF Definite
  <2> QED
    BY <1>3, <2>1 DEF IndInv, OwnerInv
<1> QED
  BY <1>5, <1>6, <1>8, <1>9, <1>10 DEF IndInv

-----------------------------------------------------------------------------
(* Transactions that end a claim *)

\* What a transaction that may record finds.
LEMMA MayRecordFacts ==
    ASSUME IndInv, NEW t \in Tasks, task[t].pc # "idle", MayRecord(t)
    PROVE  /\ task[t].op \in Ops /\ op[task[t].op] \in OpRow
           /\ op[task[t].op].token = task[t].token
           /\ running[task[t].op] = {task[t].token}
           /\ events[task[t].op] = 0
           /\ op[task[t].op].status \notin Terminal
           /\ task[t].phase = "result_retrieval" =>
                op[task[t].op].status = "accepted" /\ op[task[t].op].mapped
           /\ task[t].phase # "result_retrieval" =>
                op[task[t].op].status = "submitting" /\ ~op[task[t].op].mapped
<1>1. PICK o \in Ops : task[t].op = o /\ task[t].token \in Tokens
  BY TaskFacts
<1>2. /\ op[o].token = task[t].token
      /\ op[o].status = IF task[t].phase = "result_retrieval" THEN "accepted" ELSE "submitting"
  BY <1>1 DEF MayRecord, ValidClaim, StatusFits
<1>3. op[o].status \notin Terminal
  BY <1>2 DEF Terminal
<1>4. running[o] = {task[t].token} /\ events[o] = 0
  BY <1>1, <1>2, <1>3, RowFacts, NamesAssumption
<1>5. /\ op[o].status = "accepted" => op[o].mapped
      /\ op[o].status = "submitting" => ~op[o].mapped
      /\ op[o] \in OpRow
  BY RowFacts DEF Terminal
<1> QED
  BY <1>1, <1>2, <1>3, <1>4, <1>5

\* The owner of a first claim that ends it leaves nothing behind.
LEMMA DefiniteLeavesNothing ==
    ASSUME IndInv, NEW t \in Tasks, task[t].pc # "idle", MayRecord(t), BecomeIdle(t),
           Definite(task[t]), Initiates(task[t].op)
    PROVE  /\ job[task[t].op] = "none" /\ task[t].op \notin late
           /\ \A u \in Tasks : task'[u].op # task[t].op
<1>1. PICK o \in Ops : task[t].op = o
  BY TaskFacts
<1>2. job[o] = "none" /\ o \notin late /\ \A u \in Tasks \ {t} : task[u].op # o
  BY <1>1, MayRecordFacts DEF IndInv, OwnerInv
<1>3. task'[t] = IdleTask /\ \A u \in Tasks \ {t} : task'[u] = task[u]
  BY Types DEF BecomeIdle
<1> QED
  BY <1>1, <1>2, <1>3, NamesAssumption DEF IdleTask

\* A transaction that clears the lease, finishes the attempt and, if it ends the
\* operation, announces it.
LEMMA RecordStep ==
    ASSUME IndInv, NEW t \in Tasks, task[t].pc # "idle", MayRecord(t),
           NEW row \in OpRow, row.token = NoToken, ~row.live,
           op' = [op EXCEPT ![task[t].op] = row],
           events' = [events EXCEPT ![task[t].op] = IF row.status \in Terminal THEN 1 ELSE 0],
           FinishAttempt(t), BecomeIdle(t), UNCHANGED <<job, asked, late, faults>>,
           RowWritten(task[t].op)
    PROVE  IndInv'
<1>1. PICK o \in Ops : task[t].op = o
  BY TaskFacts
<1>2. /\ op[o].token = task[t].token /\ running[o] = {task[t].token}
      /\ op[o].status \notin Terminal
  BY <1>1, MayRecordFacts
<1>3. op' \in [Ops -> OpRow] /\ op'[o] = row /\ \A p \in Ops \ {o} : op'[p] = op[p]
  BY <1>1, Types
<1>4. /\ events' \in [Ops -> Nat] /\ events'[o] = (IF row.status \in Terminal THEN 1 ELSE 0)
      /\ \A p \in Ops \ {o} : events'[p] = events[p]
  BY <1>1, Types
<1>5. /\ running' \in [Ops -> SUBSET Tokens] /\ running'[o] = {}
      /\ \A p \in Ops \ {o} : running'[p] = running[p]
  BY <1>1, <1>2, Types DEF FinishAttempt
<1>6. /\ task' \in [Tasks -> TaskState]
      /\ \A u \in Tasks : task'[u] = task[u] \/ task'[u] = IdleTask
  <2>1. IdleTask \in TaskState
    BY DEF IdleTask, TaskState, Terminal
  <2> QED
    BY <2>1, Types DEF BecomeIdle
<1>7. \A p \in Ops : op'[p].live => op'[p].token # NoToken
  BY <1>3, Types
<1>8. \A p \in Ops : (op'[p].token = op[p].token /\ RowKept(p)) \/ op'[p].token = NoToken
  BY <1>3 DEF RowKept
<1>9. \A p \in Ops : running'[p] = {op'[p].token} \ {NoToken}
  BY <1>3, <1>5, RowFacts
<1>10. RowsAdvance
  BY <1>2, <1>3 DEF RowsAdvance
<1>11. OneCompletionEvent'
  BY <1>3, <1>4, RowFacts DEF OneCompletionEvent
<1>12. \A p \in Ops : RowKept(p) \/ RowWritten(p)
  BY <1>1, <1>3 DEF RowKept
<1> QED
  BY <1>3, <1>4, <1>5, <1>6, <1>7, <1>8, <1>9, <1>10, <1>11, <1>12, RowStep

\* The row a transaction that ends a claim writes.
LEMMA ReleasedRow ==
    ASSUME IndInv, NEW o \in Ops, NEW s \in {"absent"} \cup Open \cup Terminal, NEW d \in BOOLEAN
    PROVE  /\ Released(o, s, d) \in OpRow /\ Released(o, s, d).status = s
           /\ Released(o, s, d).mapped = op[o].mapped
           /\ Released(o, s, d).token = NoToken /\ ~Released(o, s, d).live
<1>1. op[o] \in OpRow
  BY RowFacts
<1>2. Released(o, s, d) \in OpRow
  BY <1>1 DEF Released, OpRow
<1>3. Released(o, s, d).status = s /\ Released(o, s, d).token = NoToken
  BY <1>1 DEF Released, OpRow
<1>4. Released(o, s, d).mapped = op[o].mapped /\ ~Released(o, s, d).live
  BY <1>1 DEF Released, OpRow
<1> QED
  BY <1>2, <1>3, <1>4

\* A deferral, a retry and a result that is not there yet leave the operation open;
\* it is pending again only if nothing of it was admitted, or it waits for another.
LEMMA ReleasesPreserve ==
    ASSUME IndInv, NEW t \in Tasks,
           DeferOperation(t) \/ RecordOperationRetry(t) \/ RecordOperationPendingResult(t)
    PROVE  IndInv'
<1>1. /\ task[t].pc \in {"defer", "retry", "postpone"} /\ task[t].pc # "idle" /\ MayRecord(t)
      /\ FinishAttempt(t) /\ BecomeIdle(t)
      /\ UNCHANGED <<events, job, asked, late, faults>>
  BY DEF DeferOperation, RecordOperationRetry, RecordOperationPendingResult, gateway
<1>2. PICK o \in Ops : /\ task[t].op = o /\ Kind[o] \in KindsOf(task[t].phase)
                       /\ task[t].pc \in StepsOf(task[t].phase)
                       /\ task[t].phase = "submission" => SubmissionInv(task[t])
  BY <1>1, TaskFacts DEF TaskInv
<1>3. /\ task[t] \in TaskState
      /\ task[t].phase \in {"submission", "result_retrieval", "cancellation", "withdrawal"}
      /\ task[t].uncertain \in BOOLEAN /\ task[t].recovering \in BOOLEAN
  BY TaskFacts DEF TaskState
<1>4. PICK s \in {"pending", "submitting", "accepted"} :
        /\ op' = [op EXCEPT ![o] = Released(o, s, FALSE)]
        /\ s = "accepted" <=> task[t].phase = "result_retrieval"
        /\ s = "pending" /\ Initiates(o) => Definite(task[t])
  <2>1. CASE DeferOperation(t)
    <3>1. op' = [op EXCEPT ![o] = Released(o, "pending", FALSE)] /\ task[t].pc = "defer"
      BY <1>2, <2>1 DEF DeferOperation
    <3>2. task[t].phase \in {"submission", "cancellation"}
      BY <1>2, <1>3, <3>1 DEF StepsOf
    <3>3. ~Initiates(o)
      BY <1>2, <3>1, <3>2 DEF Initiates, KindsOf, SubmissionInv
    <3> QED
      BY <3>1, <3>2, <3>3
  <2>2. CASE RecordOperationRetry(t)
    <3>1. op' = [op EXCEPT ![o] = Released(o, RetryStatus(t), FALSE)] /\ task[t].pc = "retry"
      BY <1>2, <2>2 DEF RecordOperationRetry
    <3>2. task[t].phase \in {"submission", "cancellation", "result_retrieval"}
      BY <1>2, <1>3, <3>1 DEF StepsOf
    <3>3. /\ RetryStatus(t) \in {"pending", "submitting", "accepted"}
          /\ RetryStatus(t) = "accepted" <=> task[t].phase = "result_retrieval"
          /\ RetryStatus(t) = "pending" => ~task[t].uncertain
      BY DEF RetryStatus
    <3>4. RetryStatus(t) = "pending" /\ Initiates(o) => Definite(task[t])
      BY <1>2, <3>1, <3>2, <3>3 DEF Definite, Initiates, KindsOf, SubmissionInv
    <3> QED
      BY <3>1, <3>3, <3>4
  <2>3. CASE RecordOperationPendingResult(t)
    <3>1. op' = [op EXCEPT ![o] = Released(o, "accepted", FALSE)] /\ task[t].pc = "postpone"
      BY <1>2, <2>3 DEF RecordOperationPendingResult
    <3>2. task[t].phase = "result_retrieval"
      BY <1>2, <1>3, <3>1 DEF StepsOf
    <3> QED
      BY <3>1, <3>2
  <2> QED
    BY <2>1, <2>2, <2>3
<1> DEFINE row == Released(o, s, FALSE)
<1>5. /\ row \in OpRow /\ row.status = s /\ row.mapped = op[o].mapped
      /\ row.token = NoToken /\ ~row.live
  <2>1. s \in {"absent"} \cup Open \cup Terminal
    BY DEF Open
  <2> QED
    BY <2>1, ReleasedRow
<1>6. op' = [op EXCEPT ![o] = row]
  BY <1>4
<1> HIDE DEF row
<1>7. op'[o] = row
  BY <1>6, Types
<1>8. op[o].mapped <=> task[t].phase = "result_retrieval"
  BY <1>1, <1>2, MayRecordFacts
<1>9. s \notin Terminal
  BY DEF Terminal
<1>10. RowWritten(o)
  <2>1. op[o].mapped => job[o] # "none" /\ Kind[o] \in {"llm", "execution"}
    <3>1. op[o].mapped => op[o].status = "accepted"
      BY <1>1, <1>2, <1>8, MayRecordFacts
    <3> QED
      BY <3>1, RowFacts DEF IndInv, RowInv
  <2>2. s \in {"absent", "pending"} \cup Terminal /\ Initiates(o) =>
          job[o] = "none" /\ o \notin late /\ \A u \in Tasks : task'[u].op # o
    BY <1>1, <1>2, <1>4, <1>9, DefiniteLeavesNothing
  <2> QED
    BY <1>4, <1>5, <1>7, <1>8, <1>9, <2>1, <2>2 DEF RowWritten
<1>11. events' = [events EXCEPT ![o] = IF row.status \in Terminal THEN 1 ELSE 0]
  <2>1. events[o] = 0 /\ events' = events /\ events \in [Ops -> Nat]
    BY <1>1, <1>2, MayRecordFacts, Types
  <2>2. (IF row.status \in Terminal THEN 1 ELSE 0) = 0
    BY <1>5, <1>9
  <2> QED
    BY <2>1, <2>2
<1> QED
  BY <1>1, <1>2, <1>5, <1>6, <1>10, <1>11, RecordStep

\* A submission is recorded as accepted when its job exists.
LEMMA AcceptedPreserves ==
    ASSUME IndInv, NEW t \in Tasks, RecordOperationAccepted(t)
    PROVE  IndInv'
<1>1. /\ task[t].pc = "accept" /\ task[t].pc # "idle" /\ MayRecord(t)
      /\ FinishAttempt(t) /\ BecomeIdle(t)
      /\ UNCHANGED <<events, job, asked, late, faults>>
  BY DEF RecordOperationAccepted, gateway
<1>2. PICK o \in Ops : task[t].op = o /\ job[o] # "none" /\ Kind[o] \in {"llm", "execution"}
  <2>1. /\ task[t].op \in Ops /\ Kind[task[t].op] \in KindsOf(task[t].phase)
        /\ task[t].pc \in StepsOf(task[t].phase)
        /\ task[t].phase = "submission" => SubmissionInv(task[t])
        /\ task[t].phase \in {"submission", "result_retrieval", "cancellation", "withdrawal"}
    BY <1>1, TaskFacts DEF TaskInv, TaskState
  <2>2. task[t].phase = "submission"
    BY <1>1, <2>1 DEF StepsOf
  <2> QED
    BY <1>1, <2>1, <2>2 DEF SubmissionInv, KindsOf
<1> DEFINE released == Released(o, "accepted", FALSE)
           row == [released EXCEPT !.mapped = TRUE]
<1>3. op' = [op EXCEPT ![o] = row]
  BY <1>2 DEF RecordOperationAccepted
<1>4. /\ released \in OpRow /\ released.status = "accepted" /\ released.token = NoToken
      /\ ~released.live
  <2>1. "accepted" \in {"absent"} \cup Open \cup Terminal
    BY DEF Open
  <2> QED
    BY <2>1, ReleasedRow
<1> HIDE DEF released
<1>5. row \in OpRow /\ row.status = "accepted" /\ row.token = NoToken /\ ~row.live /\ row.mapped
  BY <1>4 DEF OpRow
<1> HIDE DEF row
<1>6. op'[o] = row
  BY <1>3, Types
<1>7. RowWritten(o)
  BY <1>2, <1>5, <1>6 DEF RowWritten, Terminal
<1>8. events' = [events EXCEPT ![o] = IF row.status \in Terminal THEN 1 ELSE 0]
  <2>1. events[o] = 0 /\ events' = events /\ events \in [Ops -> Nat]
    BY <1>1, <1>2, MayRecordFacts, Types
  <2>2. (IF row.status \in Terminal THEN 1 ELSE 0) = 0
    BY <1>5 DEF Terminal
  <2> QED
    BY <2>1, <2>2
<1> QED
  BY <1>1, <1>2, <1>3, <1>5, <1>7, <1>8, RecordStep

\* An operation ends with its job's outcome, or without a job.
LEMMA CompletePreserves ==
    ASSUME IndInv, NEW t \in Tasks, CompleteOperation(t)
    PROVE  IndInv'
<1>1. /\ task[t].pc = "complete" /\ task[t].pc # "idle" /\ MayRecord(t)
      /\ FinishAttempt(t) /\ BecomeIdle(t)
      /\ UNCHANGED <<job, asked, late, faults>>
  BY DEF CompleteOperation, gateway
<1>2. PICK o \in Ops : /\ task[t].op = o /\ Kind[o] \in KindsOf(task[t].phase)
                       /\ task[t].pc \in StepsOf(task[t].phase)
                       /\ task[t].phase = "submission" => SubmissionInv(task[t])
                       /\ task[t].phase = "cancellation" => CancellationInv(task[t])
                       /\ task[t].phase = "result_retrieval" => task[t].outcome = job[o]
  BY <1>1, TaskFacts DEF TaskInv
<1>3. PICK s \in Terminal : s = task[t].outcome
  BY TaskFacts DEF TaskState
<1>4. task[t].phase \in {"submission", "cancellation", "result_retrieval"}
  <2>1. task[t].phase \in {"submission", "result_retrieval", "cancellation", "withdrawal"}
    BY TaskFacts DEF TaskState
  <2> QED
    BY <1>1, <1>2, <2>1 DEF StepsOf
<1> DEFINE row == Released(o, s, op[o].due)
<1>5. /\ op' = [op EXCEPT ![o] = row] /\ events' = [events EXCEPT ![o] = events[o] + 1]
  BY <1>2, <1>3 DEF CompleteOperation
<1>6. /\ row \in OpRow /\ row.status = s /\ row.mapped = op[o].mapped
      /\ row.token = NoToken /\ ~row.live
  <2>1. s \in {"absent"} \cup Open \cup Terminal /\ op[o].due \in BOOLEAN
    BY RowFacts
  <2> QED
    BY <2>1, ReleasedRow
<1> HIDE DEF row
<1>7. op'[o] = row
  BY <1>5, Types
<1>8. op[o].mapped <=> task[t].phase = "result_retrieval"
  BY <1>1, <1>2, MayRecordFacts
<1>9. RowWritten(o)
  <2>1. op'[o].status = s /\ op'[o].mapped = op[o].mapped /\ s # "accepted"
    BY <1>6, <1>7 DEF Terminal
  <2>2. op[o].mapped => s = job[o] /\ Kind[o] \in {"llm", "execution"}
    BY <1>2, <1>3, <1>8 DEF KindsOf
  <2>3. ~op[o].mapped /\ Initiates(o) =>
          job[o] = "none" /\ o \notin late /\ \A u \in Tasks : task'[u].op # o
    <3> SUFFICES ASSUME ~op[o].mapped, Initiates(o)
                 PROVE  job[o] = "none" /\ o \notin late /\ \A u \in Tasks : task'[u].op # o
      OBVIOUS
    <3>1. task[t].phase = "submission"
      BY <1>2, <1>4, <1>8 DEF KindsOf, Initiates
    <3>2. Definite(task[t])
      BY <1>1, <1>2, <3>1 DEF Definite, SubmissionInv
    <3> QED
      BY <1>1, <1>2, <3>2, DefiniteLeavesNothing
  <2>4. Kind[o] = "llm_cancellation" /\ s = "succeeded" => Settled(Ref[o])
    BY <1>1, <1>2, <1>3, <1>4 DEF KindsOf, CancellationInv
  <2> QED
    BY <2>1, <2>2, <2>3, <2>4 DEF RowWritten
<1>10. events' = [events EXCEPT ![o] = IF row.status \in Terminal THEN 1 ELSE 0]
  <2>1. events[o] = 0
    BY <1>1, <1>2, MayRecordFacts
  <2>2. (IF row.status \in Terminal THEN 1 ELSE 0) = events[o] + 1
    BY <1>6, <2>1
  <2> QED
    BY <1>5, <2>2
<1> QED
  BY <1>1, <1>2, <1>5, <1>6, <1>9, <1>10, RecordStep

\* A withdrawal ends, and with it a target that nobody has touched.
LEMMA WithdrawalPreserves ==
    ASSUME IndInv, NEW t \in Tasks, CompleteWithdrawal(t)
    PROVE  IndInv'
<1>1. /\ task[t].pc = "withdraw" /\ task[t].pc # "idle" /\ MayRecord(t)
      /\ FinishAttempt(t) /\ BecomeIdle(t)
      /\ UNCHANGED <<job, asked, late, faults>>
  BY DEF CompleteWithdrawal, gateway
<1>2. PICK o \in Ops : task[t].op = o /\ Kind[o] = "withdraw" /\ task[t].phase = "withdrawal"
  <2>1. /\ task[t].op \in Ops /\ Kind[task[t].op] \in KindsOf(task[t].phase)
        /\ task[t].pc \in StepsOf(task[t].phase)
        /\ task[t].phase \in {"submission", "result_retrieval", "cancellation", "withdrawal"}
    BY <1>1, TaskFacts DEF TaskInv, TaskState
  <2>2. task[t].phase = "withdrawal"
    BY <1>1, <2>1 DEF StepsOf
  <2> QED
    BY <2>1, <2>2 DEF KindsOf
<1>3. PICK x \in Ops : x = Ref[o] /\ x # o
  BY <1>2, References
<1> DEFINE row == Released(o, "succeeded", op[o].due)
           withdrawn == Released(x, "cancelled", op[x].due)
<1>4. /\ row \in OpRow /\ row.status = "succeeded" /\ row.mapped = op[o].mapped
      /\ row.token = NoToken /\ ~row.live
  <2>1. "succeeded" \in {"absent"} \cup Open \cup Terminal /\ op[o].due \in BOOLEAN
    BY RowFacts DEF Terminal
  <2> QED
    BY <2>1, ReleasedRow
<1>5. /\ withdrawn \in OpRow /\ withdrawn.status = "cancelled" /\ withdrawn.mapped = op[x].mapped
      /\ withdrawn.token = NoToken /\ ~withdrawn.live
  <2>1. "cancelled" \in {"absent"} \cup Open \cup Terminal /\ op[x].due \in BOOLEAN
    BY RowFacts DEF Terminal
  <2> QED
    BY <2>1, ReleasedRow
<1>6. /\ op' = [p \in Ops |-> IF p = o THEN row
                              ELSE IF p = x /\ Withdrawable(p) THEN Released(p, "cancelled", op[p].due)
                              ELSE op[p]]
      /\ events' = [p \in Ops |-> IF p \in WithdrawalEvents(o) THEN events[p] + 1 ELSE events[p]]
  BY <1>2, <1>3 DEF CompleteWithdrawal
<1>7. /\ op'[o] = row /\ op'[x] = (IF Withdrawable(x) THEN withdrawn ELSE op[x])
      /\ \A p \in Ops \ {o, x} : op'[p] = op[p]
  BY <1>3, <1>6
<1> HIDE DEF row, withdrawn
<1>8. op' \in [Ops -> OpRow]
  <2>1. \A p \in Ops : op'[p] \in OpRow
    BY <1>4, <1>5, <1>7, Types
  <2> QED
    BY <1>6, <2>1
<1>9. /\ op[o].token = task[t].token /\ running[o] = {task[t].token} /\ events[o] = 0
      /\ op[o].status \notin Terminal /\ ~op[o].mapped
  BY <1>1, <1>2, MayRecordFacts
<1>10. Withdrawable(x) => op[x].status = "pending" /\ op[x].token = NoToken /\ ~op[x].mapped
  BY RowFacts DEF Withdrawable, Terminal
<1>11. /\ running' \in [Ops -> SUBSET Tokens] /\ running'[o] = {}
       /\ \A p \in Ops \ {o} : running'[p] = running[p]
  BY <1>1, <1>2, <1>9, Types DEF FinishAttempt
<1>12. /\ task' \in [Tasks -> TaskState]
       /\ \A u \in Tasks : task'[u] = task[u] \/ task'[u] = IdleTask
  <2>1. IdleTask \in TaskState
    BY DEF IdleTask, TaskState, Terminal
  <2> QED
    BY <1>1, <2>1, Types DEF BecomeIdle
<1>13. /\ events'[o] = 1 /\ events'[x] = (IF Withdrawable(x) THEN events[x] + 1 ELSE events[x])
       /\ \A p \in Ops \ {o, x} : events'[p] = events[p]
       /\ events' \in [Ops -> Nat]
  <2>1. \A p \in Ops : p \in WithdrawalEvents(o) <=> p = o \/ (p = x /\ Withdrawable(x))
    BY <1>3 DEF WithdrawalEvents
  <2>2. events \in [Ops -> Nat]
    BY Types
  <2> QED
    BY <1>3, <1>6, <1>9, <2>1, <2>2
<1>14. \A p \in Ops : op'[p].live => op'[p].token # NoToken
  BY <1>4, <1>5, <1>7, Types
<1>15. \A p \in Ops : (op'[p].token = op[p].token /\ RowKept(p)) \/ op'[p].token = NoToken
  BY <1>4, <1>5, <1>7 DEF RowKept
<1>16. \A p \in Ops : running'[p] = {op'[p].token} \ {NoToken}
  <2>1. running'[o] = {op'[o].token} \ {NoToken}
    BY <1>4, <1>7, <1>11
  <2>2. running'[x] = {op'[x].token} \ {NoToken}
    BY <1>3, <1>5, <1>7, <1>10, <1>11, RowFacts
  <2> QED
    BY <1>7, <1>11, <2>1, <2>2, RowFacts
<1>17. RowsAdvance
  BY <1>7, <1>9, <1>10 DEF RowsAdvance, Terminal
<1>18. OneCompletionEvent'
  <2>1. events'[o] = IF op'[o].status \in Terminal THEN 1 ELSE 0
    BY <1>4, <1>7, <1>13 DEF Terminal
  <2>2. events'[x] = IF op'[x].status \in Terminal THEN 1 ELSE 0
    <3>1. CASE Withdrawable(x)
      <4>1. events[x] = 0
        BY <1>10, <3>1, RowFacts DEF Terminal
      <4> QED
        BY <1>5, <1>7, <1>13, <3>1, <4>1 DEF Terminal
    <3>2. CASE ~Withdrawable(x)
      BY <1>7, <1>13, <3>2, RowFacts
    <3> QED
      BY <3>1, <3>2
  <2>3. \A p \in Ops \ {o, x} : events'[p] = IF op'[p].status \in Terminal THEN 1 ELSE 0
    BY <1>7, <1>13, RowFacts
  <2> QED
    BY <2>1, <2>2, <2>3 DEF OneCompletionEvent
<1>19. RowWritten(o)
  BY <1>2, <1>4, <1>7, <1>9 DEF RowWritten, Initiates
<1>20. RowKept(x) \/ RowWritten(x)
  <2>1. CASE Withdrawable(x)
    <3>1. Initiates(x) => Untouched(x)
      BY <1>10, <2>1 DEF IndInv, RowInv
    <3>2. Initiates(x) => job[x] = "none" /\ x \notin late /\ \A u \in Tasks : task'[u].op # x
      BY <1>12, <3>1, NamesAssumption DEF Untouched, IdleTask
    <3> QED
      BY <1>5, <1>7, <1>10, <2>1, <3>2 DEF RowWritten
  <2>2. CASE ~Withdrawable(x)
    BY <1>7, <2>2 DEF RowKept
  <2> QED
    BY <2>1, <2>2
<1>21. \A p \in Ops : RowKept(p) \/ RowWritten(p)
  BY <1>7, <1>19, <1>20 DEF RowKept
<1> QED
  BY <1>1, <1>8, <1>11, <1>12, <1>13, <1>14, <1>15, <1>16, <1>17, <1>18, <1>21, RowStep

-----------------------------------------------------------------------------
(* The transaction that gives a lease *)

\* What claim_operation writes and what the claimed task starts with.
LEMMA ClaimFacts ==
    ASSUME IndInv, NEW t \in Tasks, NEW o \in Ops, ClaimOperation(t, o)
    PROVE  /\ UNCHANGED <<events, job, asked, late, faults>>
           /\ task[t] = IdleTask
           /\ op[o].status \in Open
           /\ op[o].status # "accepted" => ~op[o].mapped
           /\ \E k \in Tokens, row \in OpRow, r \in TaskState :
                /\ Fresh(k)
                /\ op' = [op EXCEPT ![o] = row]
                /\ running' = [running EXCEPT ![o] = {k}]
                /\ task' = [task EXCEPT ![t] = r]
                /\ row.status = ClaimedStatus(op[o].status) /\ row.mapped = op[o].mapped
                /\ row.token = k
                /\ r.pc = FirstStep(r.phase) /\ r.phase = PhaseOf(o) /\ r.op = o /\ r.token = k
                /\ r.recovering <=> op[o].status = "submitting"
<1>1. /\ task[t].pc = "idle" /\ op[o].status \in Open /\ \E k \in Tokens : Fresh(k)
      /\ UNCHANGED <<events, job, asked, late, faults>>
  BY DEF ClaimOperation, Claimable, gateway
<1>2. task[t] = IdleTask
  BY <1>1, TaskFacts
<1>3. op[o].status # "accepted" => ~op[o].mapped
  BY <1>1, RowFacts DEF Open, Terminal
<1> DEFINE k == CHOOSE k \in Tokens : Fresh(k)
           row == [op[o] EXCEPT !.status = ClaimedStatus(op[o].status),
                                !.token = k, !.live = TRUE]
           r == [pc |-> FirstStep(PhaseOf(o)), phase |-> PhaseOf(o), op |-> o,
                 token |-> k, recovering |-> op[o].status = "submitting",
                 uncertain |-> FALSE, outcome |-> "failed"]
<1>4. k \in Tokens /\ Fresh(k)
  BY <1>1
<1>5. /\ op' = [op EXCEPT ![o] = row] /\ running' = [running EXCEPT ![o] = {k}]
      /\ task' = [task EXCEPT ![t] = r]
  BY DEF ClaimOperation
<1> HIDE DEF k
<1>6. /\ row \in OpRow /\ row.status = ClaimedStatus(op[o].status)
      /\ row.token = k
  <2>1. op[o] \in OpRow /\ ClaimedStatus(op[o].status) \in {"absent"} \cup Open \cup Terminal
    BY RowFacts DEF ClaimedStatus, Open
  <2> QED
    BY <1>4, <2>1 DEF OpRow
<1>7. row.mapped = op[o].mapped
  BY RowFacts DEF OpRow
<1>8. /\ PhaseOf(o) \in {"submission", "result_retrieval", "cancellation", "withdrawal"}
      /\ FirstStep(PhaseOf(o)) \in {"check", "poll", "withdraw"}
  <2>1. PhaseOf(o) \in {"submission", "result_retrieval", "cancellation", "withdrawal"}
    BY References DEF PhaseOf, Kinds
  <2> QED
    BY <2>1 DEF FirstStep
<1>9. /\ r \in TaskState /\ r.pc = FirstStep(r.phase) /\ r.phase = PhaseOf(o) /\ r.op = o
      /\ r.token = k
  BY <1>4, <1>8 DEF TaskState, Terminal
<1>10. r.recovering <=> op[o].status = "submitting"
  OBVIOUS
<1> HIDE DEF row, r
<1> QED
  BY <1>1, <1>2, <1>3, <1>4, <1>5, <1>6, <1>7, <1>9, <1>10

\* A claim of a pending operation is its first, every other one is a recovery.
LEMMA ClaimPreserves ==
    ASSUME IndInv, NEW t \in Tasks, NEW o \in Ops, ClaimOperation(t, o)
    PROVE  IndInv'
<1>1. /\ events' = events /\ job' = job /\ asked' = asked /\ late' = late /\ faults' = faults
      /\ task[t] = IdleTask /\ op[o].status \in Open
      /\ op[o].status # "accepted" => ~op[o].mapped
  BY ClaimFacts
<1>2. PICK k \in Tokens, row \in OpRow, r \in TaskState :
        /\ Fresh(k)
        /\ op' = [op EXCEPT ![o] = row]
        /\ running' = [running EXCEPT ![o] = {k}]
        /\ task' = [task EXCEPT ![t] = r]
        /\ row.status = ClaimedStatus(op[o].status) /\ row.mapped = op[o].mapped
        /\ row.token = k
        /\ r.pc = FirstStep(r.phase) /\ r.phase = PhaseOf(o) /\ r.op = o /\ r.token = k
        /\ r.recovering <=> op[o].status = "submitting"
  BY ClaimFacts
<1>3. op' \in [Ops -> OpRow] /\ op'[o] = row /\ \A p \in Ops \ {o} : op'[p] = op[p]
  BY <1>2, Types
<1>4. /\ running' \in [Ops -> SUBSET Tokens] /\ running'[o] = {k}
      /\ \A p \in Ops \ {o} : running'[p] = running[p]
  BY <1>2, Types
<1>5. task' \in [Tasks -> TaskState] /\ task'[t] = r /\ \A u \in Tasks \ {t} : task'[u] = task[u]
  BY <1>2, Types
<1>6. \A u \in Tasks : task[u].token # k
  BY <1>2 DEF Fresh
<1>7. /\ row.status \in {"submitting", "accepted"}
      /\ row.status = "accepted" <=> op[o].status = "accepted"
      /\ op[o].status \notin Terminal /\ row.status \notin Terminal
  BY <1>1, <1>2 DEF ClaimedStatus, Open, Terminal
<1>8. r.phase = "result_retrieval" <=> op[o].status = "accepted"
  BY <1>2, References DEF PhaseOf, Kinds
<1>9. ClaimMatchesRow'
  <2>1. TypeOK'
    <3>1. \A p \in Ops : op'[p].live => op'[p].token # NoToken
      BY <1>2, <1>3, Types, NamesAssumption
    <3> QED
      BY <1>1, <1>3, <1>4, <1>5, <3>1, Types DEF TypeOK
  <2>2. ASSUME NEW p \in Ops
        PROVE  /\ running'[p] = {op'[p].token} \ {NoToken}
               /\ op'[p].token # NoToken => op'[p].status \in {"submitting", "accepted"}
    <3>1. CASE p = o
      BY <1>2, <1>3, <1>4, <1>7, <3>1, NamesAssumption
    <3>2. CASE p # o
      BY <1>3, <1>4, <3>2 DEF IndInv, ClaimMatchesRow
    <3> QED
      BY <3>1, <3>2
  <2>3. ASSUME NEW p \in Ops, NEW u \in Tasks, task'[u].op = p, task'[u].token = op'[p].token
        PROVE  StatusFits(u)'
    <3>1. CASE u = t
      <4>1. p = o /\ r.phase = "submission" => ~row.mapped
        BY <1>1, <1>2, <1>5, <1>8, <2>3, <3>1
      <4> QED
        BY <1>2, <1>3, <1>5, <1>7, <1>8, <2>3, <3>1, <4>1 DEF StatusFits
    <3>2. CASE u # t
      <4>1. task'[u] = task[u] /\ p # o
        BY <1>2, <1>3, <1>5, <1>6, <2>3, <3>2
      <4>2. op'[p] = op[p]
        BY <1>3, <4>1
      <4>3. StatusFits(u)
        BY <2>3, <4>1, <4>2 DEF IndInv, ClaimMatchesRow
      <4> QED
        BY <2>3, <4>1, <4>2, <4>3 DEF StatusFits
    <3> QED
      BY <3>1, <3>2
  <2> QED
    BY <2>1, <2>2, <2>3 DEF ClaimMatchesRow
<1>10. OneCompletionEvent'
  BY <1>1, <1>3, <1>7, RowFacts DEF OneCompletionEvent
<1>11. ResultMatchesJob'
  <2> SUFFICES ASSUME NEW p \in Ops, op'[p].mapped
               PROVE  IF op'[p].status \in Terminal THEN op'[p].status = job[p]
                      ELSE op'[p].status = "accepted" /\ job[p] # "none"
    BY <1>1 DEF ResultMatchesJob
  <2>1. CASE p = o
    BY <1>1, <1>2, <1>3, <1>7, <2>1, RowFacts
  <2>2. CASE p # o
    BY <1>3, <2>2 DEF IndInv, ResultMatchesJob
  <2> QED
    BY <2>1, <2>2
<1>12. RowsAdvance /\ GatewayAdvances
  BY <1>1, <1>3, <1>7 DEF RowsAdvance, GatewayAdvances
<1>13. ASSUME NEW p \in Ops
       PROVE  RowInv(p)'
  <2>1. RowInv(p)
    BY DEF IndInv
  <2>2. op'[p].mapped = op[p].mapped
    BY <1>2, <1>3
  <2>3. op'[p].status = "accepted" => op'[p].mapped
    BY <1>3, <1>7, <2>1, <2>2 DEF RowInv
  <2>4. op'[p].status \in {"absent", "pending"} \cup Terminal /\ ~op'[p].mapped /\ Initiates(p) =>
          job'[p] = "none" /\ p \notin late' /\ \A u \in Tasks : task'[u].op # p
    <3>1. CASE p = o
      BY <1>3, <1>7, <3>1
    <3>2. CASE p # o
      BY <1>1, <1>2, <1>3, <1>5, <2>1, <3>2 DEF RowInv, Untouched
    <3> QED
      BY <3>1, <3>2
  <2>5. Kind[p] = "llm_cancellation" /\ op'[p].status = "succeeded" => Settled(Ref[p])'
    <3> SUFFICES ASSUME Kind[p] = "llm_cancellation", op'[p].status = "succeeded"
                 PROVE  Settled(Ref[p])'
      OBVIOUS
    <3>1. op[p].status = "succeeded"
      BY <1>3, <1>7
    <3>2. Ref[p] \in Ops /\ Settled(Ref[p])
      BY <2>1, <3>1, References DEF RowInv
    <3> QED
      BY <1>12, <3>2, SettledStays DEF Settled
  <2> QED
    BY <1>1, <2>1, <2>2, <2>3, <2>4, <2>5 DEF RowInv, Untouched
<1>14. TaskInv(r)
  <2>1. op[o].status = "accepted" => Kind[o] \in {"llm", "execution"}
    BY RowFacts DEF IndInv, RowInv
  <2>2. /\ r.phase \in {"submission", "result_retrieval", "cancellation", "withdrawal"}
        /\ Kind[o] \in KindsOf(r.phase)
    BY <1>2, <2>1, References DEF PhaseOf, Kinds, KindsOf
  <2>3. r.pc \in {"check", "poll", "withdraw"} /\ r.pc \in StepsOf(r.phase)
    BY <1>2, <2>2 DEF FirstStep, StepsOf
  <2> QED
    BY <1>2, <2>2, <2>3 DEF TaskInv, SubmissionInv, CancellationInv
<1>15. ASSUME NEW u \in Tasks
       PROVE  TaskInv(task[u])'
  <2>1. PICK q \in TaskState : q = task'[u] /\ TaskInv(q)
    BY <1>5, <1>14, TaskFacts
  <2>2. TaskInv(q)'
    BY <1>12, <2>1, TaskInvStays
  <2> QED
    BY <2>1, <2>2 DEF TaskInv, SubmissionInv, CancellationInv, Settled
<1>16. ASSUME NEW u \in Tasks
       PROVE  OwnerInv(u)'
  <2> SUFFICES ASSUME Definite(task'[u]), op'[task'[u].op].token = task'[u].token,
                      Initiates(task'[u].op)
               PROVE  /\ job'[task'[u].op] = "none" /\ task'[u].op \notin late'
                      /\ \A v \in Tasks \ {u} : task'[v].op # task'[u].op
    BY DEF OwnerInv, Definite, Initiates
  <2>1. CASE u = t
    <3>1. r.phase = "submission" /\ ~r.recovering /\ Initiates(o)
      BY <1>2, <1>5, <2>1 DEF Definite
    <3>2. op[o].status = "pending" /\ ~op[o].mapped
      BY <1>1, <1>2, <1>8, <3>1 DEF Open
    <3>3. Untouched(o)
      BY <3>1, <3>2 DEF IndInv, RowInv
    <3> QED
      BY <1>1, <1>2, <1>5, <2>1, <3>3 DEF Untouched
  <2>2. CASE u # t
    <3>1. task'[u] = task[u] /\ task[u].pc # "idle"
      BY <1>5, <2>2 DEF Definite
    <3>2. PICK p \in Ops : task[u].op = p
      BY <3>1, TaskFacts
    <3>3. p # o
      BY <1>2, <1>3, <1>6, <3>1, <3>2
    <3>4. op'[p] = op[p]
      BY <1>3, <3>3
    <3>5. job[p] = "none" /\ p \notin late /\ \A v \in Tasks \ {u} : task[v].op # p
      BY <3>1, <3>2, <3>4 DEF IndInv, OwnerInv
    <3> QED
      BY <1>1, <1>2, <1>5, <3>1, <3>2, <3>3, <3>5
  <2> QED
    BY <2>1, <2>2
<1> QED
  BY <1>9, <1>10, <1>11, <1>13, <1>15, <1>16 DEF IndInv

-----------------------------------------------------------------------------
\* Nothing has been created, claimed or sent.
LEMMA InitEstablishes ==
    ASSUME Init
    PROVE  IndInv
<1> DEFINE row == [status |-> "absent", due |-> FALSE, mapped |-> FALSE,
                   token |-> NoToken, live |-> FALSE]
<1>1. /\ op = [o \in Ops |-> row] /\ running = [o \in Ops |-> {}] /\ events = [o \in Ops |-> 0]
      /\ task = [t \in Tasks |-> IdleTask] /\ job = [o \in Ops |-> "none"]
      /\ asked = {} /\ late = {} /\ faults = 0
  BY DEF Init
<1>2. /\ row \in OpRow /\ row.status = "absent" /\ ~row.mapped /\ row.token = NoToken
      /\ ~row.live
  BY DEF OpRow
<1>3. /\ IdleTask \in TaskState /\ IdleTask.op = NoOp /\ IdleTask.pc = "idle"
      /\ TaskInv(IdleTask) /\ ~Definite(IdleTask)
  BY DEF IdleTask, TaskState, Terminal, TaskInv, Definite
<1> HIDE DEF row
<1>4. TypeOK
  BY <1>1, <1>2, <1>3, FaultsAssumption DEF TypeOK
<1>5. ASSUME NEW o \in Ops
      PROVE  op[o] = row /\ running[o] = {} /\ events[o] = 0 /\ job[o] = "none"
  BY <1>1
<1>6. \A t \in Tasks : task[t] = IdleTask
  BY <1>1
<1>7. ClaimMatchesRow
  <2>1. ASSUME NEW o \in Ops
        PROVE  /\ running[o] = {op[o].token} \ {NoToken}
               /\ op[o].token = NoToken
               /\ \A t \in Tasks : task[t].op # o
    BY <1>2, <1>3, <1>5, <1>6, NamesAssumption
  <2> QED
    BY <1>4, <2>1 DEF ClaimMatchesRow
<1>8. OneCompletionEvent /\ ResultMatchesJob
  BY <1>2, <1>5 DEF OneCompletionEvent, ResultMatchesJob, Terminal
<1>9. ASSUME NEW o \in Ops
      PROVE  RowInv(o)
  <2>1. Untouched(o)
    BY <1>1, <1>3, <1>5, <1>6, NamesAssumption DEF Untouched
  <2> QED
    BY <1>1, <1>2, <1>5, <2>1 DEF RowInv
<1>10. \A t \in Tasks : TaskInv(task[t]) /\ OwnerInv(t)
  BY <1>3, <1>6 DEF OwnerInv
<1> QED
  BY <1>7, <1>8, <1>9, <1>10 DEF IndInv

\* Every step of a healthy task preserves the invariant.
LEMMA TaskStepPreserves ==
    ASSUME IndInv, NEW t \in Tasks, TaskStep(t)
    PROVE  IndInv'
  BY SubmissionPreserves, CancellationPreserves, AcknowledgePreserves, GetJobPreserves,
     FaultsPreserve, ReleasesPreserve, AcceptedPreserves, CompletePreserves, WithdrawalPreserves
     DEF TaskStep

\* Every step preserves the invariant.
LEMMA NextPreserves ==
    ASSUME IndInv, [Next]_vars
    PROVE  IndInv'
<1>1. CASE UNCHANGED vars
  <2>1. /\ op' = op /\ running' = running /\ events' = events /\ task' = task /\ job' = job
        /\ asked' = asked /\ late' = late /\ faults' = faults
    BY <1>1 DEF vars
  <2> QED
    BY <2>1 DEF IndInv, ClaimMatchesRow, TypeOK, StatusFits, OneCompletionEvent, ResultMatchesJob,
                RowInv, Untouched, Settled, TaskInv, SubmissionInv, CancellationInv, OwnerInv
<1>2. CASE \E o \in Ops : CreateOperation(o)
  BY <1>2, CreatePreserves
<1>3. CASE \E t \in Tasks, o \in Ops : ClaimOperation(t, o)
  BY <1>3, ClaimPreserves
<1>4. CASE \E t \in Tasks : TaskStep(t)
  BY <1>4, TaskStepPreserves
<1>5. CASE \E t \in Tasks : TaskFault(t)
  BY <1>5, FaultsPreserve
<1>6. CASE \E o \in Ops : \/ OrphanLeaseExpires(o) \/ HeldLeaseExpires(o)
                          \/ OperationBecomesDue(o)
  BY <1>6, TimePreserves
<1>7. CASE \E o \in Ops : \/ LateDelivery(o) \/ LateLost(o)
                          \/ \E s \in Terminal : JobFinishes(o, s)
  BY <1>7, NetworkPreserves
<1> QED
  BY <1>1, <1>2, <1>3, <1>4, <1>5, <1>6, <1>7 DEF Next

\* The invariant holds in every reachable state, however many operations, tasks and
\* faults there are.
THEOREM Inductive == Spec => []IndInv
<1>1. Init => IndInv
  BY InitEstablishes
<1>2. IndInv /\ [Next]_vars => IndInv'
  BY NextPreserves
<1> QED
  BY <1>1, <1>2, PTL DEF Spec

-----------------------------------------------------------------------------

(* What follows *)

\* The store's rule for leases: one running attempt, its owner's, in the phase the
\* status calls for, so that no record of a valid claim is refused.
THEOREM ClaimsFitTheirRows == Spec => []ClaimMatchesRow
<1>1. IndInv => ClaimMatchesRow
  BY DEF IndInv
<1> QED
  BY <1>1, Inductive, PTL

\* Every end of an operation is announced exactly once, by whichever of
\* complete_operation and complete_withdrawal brought it about.
THEOREM EndsAreAnnouncedOnce == Spec => []OneCompletionEvent
<1>1. IndInv => OneCompletionEvent
  BY DEF IndInv
<1> QED
  BY <1>1, Inductive, PTL

\* No race of polls, cancellations and stale tasks gives an accepted operation
\* another outcome than its gateway job has.
THEOREM OutcomesAreTheJobs == Spec => []ResultMatchesJob
<1>1. IndInv => ResultMatchesJob
  BY DEF IndInv
<1> QED
  BY <1>1, Inductive, PTL

\* An independent operation without a job in the row was not sent while it is
\* pending and will not be once it has ended.
LEMMA NothingSent ==
    ASSUME IndInv, NEW o \in Ops, op[o].status \in {"pending"} \cup Terminal, ~op[o].mapped,
           ~Dependent(o)
    PROVE  job[o] = "none" /\ ~InFlight(o)
<1>1. RowInv(o)
  BY DEF IndInv
<1>2. CASE Kind[o] = "withdraw"
  <2>1. \A v \in Tasks : task[v].pc = "sent" => task[v].op # o
    BY <1>2, SentFacts
  <2> QED
    BY <1>1, <1>2, <2>1 DEF RowInv, InFlight
<1>3. CASE Kind[o] # "withdraw"
  <2>1. Initiates(o)
    BY <1>3, References, NamesAssumption DEF Dependent, Initiates, Kinds
  <2>2. Untouched(o)
    BY <1>1, <2>1 DEF RowInv
  <2> QED
    BY <2>2 DEF Untouched, InFlight
<1> QED
  BY <1>2, <1>3

\* What record_operation_retry makes pending again was not admitted, so that a
\* withdrawal may cancel it and a rejection may fail it.
THEOREM PendingIsUnsent == Spec => []PendingMeansUnsent
<1>1. IndInv => PendingMeansUnsent
  <2> SUFFICES ASSUME IndInv, NEW o \in Ops, op[o].status = "pending", ~Dependent(o)
               PROVE  job[o] = "none" /\ ~InFlight(o)
    BY DEF PendingMeansUnsent
  <2>1. ~op[o].mapped
    BY RowFacts DEF Terminal
  <2> QED
    BY <2>1, NothingSent
<1> QED
  BY <1>1, Inductive, PTL

\* A submission that failed and an operation that was withdrawn have no job, and no
\* request is left that could create one.
THEOREM NoJobIsOrphaned == Spec => []NoOrphanJob
<1>1. IndInv => NoOrphanJob
  BY NothingSent DEF NoOrphanJob
<1> QED
  BY <1>1, Inductive, PTL

\* A continuation is sent only after its parent's job succeeded, although
\* submission_body reads the parent outside the transaction.
THEOREM ContinuationsFollowParents == Spec => []ContinuationFollowsParent
<1>1. IndInv => ContinuationFollowsParent
  <2> SUFFICES ASSUME IndInv, NEW o \in Ops, Kind[o] = "llm", Ref[o] # NoOp,
                      InFlight(o) \/ job[o] # "none"
               PROVE  job[Ref[o]] = "succeeded"
    BY DEF ContinuationFollowsParent
  <2>1. CASE o \in late \/ job[o] # "none"
    BY <2>1 DEF IndInv, RowInv
  <2>2. CASE \E v \in Tasks : task[v].op = o /\ task[v].pc = "sent"
    BY <2>2, SentFacts
  <2> QED
    BY <2>1, <2>2 DEF InFlight
<1> QED
  BY <1>1, Inductive, PTL

\* A cancellation that succeeded has reached the gateway or had nothing to cancel.
THEOREM CancellationsTakeEffect == Spec => []CancellationTakesEffect
<1>1. IndInv => CancellationTakesEffect
  <2> SUFFICES ASSUME IndInv, NEW o \in Ops, Kind[o] = "llm_cancellation", ~Dependent(Ref[o]),
                      op[o].status = "succeeded"
               PROVE  \/ Ref[o] \in asked
                      \/ job[Ref[o]] \in Terminal
                      \/ op[Ref[o]].status \in Terminal /\ job[Ref[o]] = "none" /\ ~InFlight(Ref[o])
    BY DEF CancellationTakesEffect
  <2>1. PICK x \in Ops : x = Ref[o]
    BY References
  <2>2. Settled(x)
    BY <2>1 DEF IndInv, RowInv
  <2>3. CASE op[x].status \in Terminal /\ ~op[x].mapped
    BY <2>1, <2>3, NothingSent
  <2> QED
    BY <2>1, <2>2, <2>3 DEF Settled
<1> QED
  BY <1>1, Inductive, PTL

-----------------------------------------------------------------------------
(* What no step takes back *)

\* The row of an ended operation, its attempts and its announcement stay as they are,
\* and an accepted operation is accepted, with its job, until it ends.
EndIsFinal ==
    \A o \in Ops :
        /\ op[o].status \in Terminal =>
             op'[o] = op[o] /\ events'[o] = events[o] /\ running'[o] = running[o]
        /\ op[o].status = "accepted" =>
             op'[o].mapped /\ op'[o].status \in {"accepted"} \cup Terminal

\* A task that may record works on an operation that has not ended; it may send one
\* back to pending or submitting only before the acceptance.
LEMMA RecordsFacts ==
    ASSUME IndInv, NEW t \in Tasks, task[t].pc # "idle", MayRecord(t)
    PROVE  /\ task[t].op \in Ops
           /\ op[task[t].op].status \in {"submitting", "accepted"}
           /\ op[task[t].op].status = "accepted" =>
                /\ op[task[t].op].mapped /\ task[t].phase = "result_retrieval"
                /\ task[t].pc \in {"poll", "retry", "postpone", "complete"}
<1>1. PICK o \in Ops : o = task[t].op
  BY TaskFacts
<1>2. /\ task[t].pc \in StepsOf(task[t].phase) /\ RowInv(o)
      /\ op[o].status = IF task[t].phase = "result_retrieval" THEN "accepted" ELSE "submitting"
  BY <1>1, TaskFacts DEF TaskInv, MayRecord, StatusFits, IndInv
<1> QED
  BY <1>1, <1>2 DEF StepsOf, RowInv

\* The transactions that end a claim do not touch an ended operation.
LEMMA RecordsKeepEnds ==
    ASSUME IndInv, NEW t \in Tasks,
           \/ DeferOperation(t) \/ RecordOperationAccepted(t) \/ RecordOperationRetry(t)
           \/ RecordOperationPendingResult(t) \/ CompleteOperation(t)
    PROVE  EndIsFinal
<1>1. task[t].pc # "idle" /\ MayRecord(t) /\ FinishAttempt(t)
  BY DEF DeferOperation, RecordOperationAccepted, RecordOperationRetry,
         RecordOperationPendingResult, CompleteOperation
<1>2. PICK o \in Ops : /\ o = task[t].op /\ op[o].status \in {"submitting", "accepted"}
                       /\ op[o].status = "accepted" =>
                            /\ op[o].mapped /\ task[t].phase = "result_retrieval"
                            /\ task[t].pc \in {"poll", "retry", "postpone", "complete"}
  BY <1>1, RecordsFacts
<1>3. op \in [Ops -> OpRow] /\ events \in [Ops -> Nat] /\ running \in [Ops -> SUBSET Tokens]
      /\ task[t] \in TaskState
  BY Types, TaskFacts
<1>4. /\ \A p \in Ops : p # o => op'[p] = op[p]
      /\ op[o].status = "accepted" => op'[o].mapped /\ op'[o].status \in {"accepted"} \cup Terminal
  <2>1. \A s, due : /\ Released(o, s, due).status = s
                    /\ Released(o, s, due).mapped = op[o].mapped
    BY <1>3 DEF Released, OpRow
  <2>2. CASE DeferOperation(t)
    BY <1>2, <1>3, <2>2 DEF DeferOperation
  <2>3. CASE RecordOperationAccepted(t)
    BY <1>2, <1>3, <2>3 DEF RecordOperationAccepted
  <2>4. CASE RecordOperationRetry(t)
    <3>1. PICK due : op' = [op EXCEPT ![o] = Released(o, RetryStatus(t), due)]
      BY <1>2, <2>4 DEF RecordOperationRetry
    <3>2. op'[o] = Released(o, RetryStatus(t), due) /\ \A p \in Ops : p # o => op'[p] = op[p]
      BY <1>3, <3>1
    <3>3. op[o].status = "accepted" => RetryStatus(t) = "accepted"
      BY <1>2 DEF RetryStatus
    <3> QED
      BY <1>2, <2>1, <3>2, <3>3
  <2>5. CASE RecordOperationPendingResult(t)
    <3>1. PICK due : op' = [op EXCEPT ![o] = Released(o, "accepted", due)]
      BY <1>2, <2>5 DEF RecordOperationPendingResult
    <3>2. op'[o] = Released(o, "accepted", due) /\ \A p \in Ops : p # o => op'[p] = op[p]
      BY <1>3, <3>1
    <3> QED
      BY <1>2, <2>1, <3>2
  <2>6. CASE CompleteOperation(t)
    <3>1. PICK due : op' = [op EXCEPT ![o] = Released(o, task[t].outcome, due)]
      BY <1>2, <2>6 DEF CompleteOperation
    <3>2. op'[o] = Released(o, task[t].outcome, due) /\ \A p \in Ops : p # o => op'[p] = op[p]
      BY <1>3, <3>1
    <3>3. task[t].outcome \in Terminal
      BY <1>3 DEF TaskState
    <3> QED
      BY <1>2, <2>1, <3>2, <3>3
  <2> QED
    BY <2>2, <2>3, <2>4, <2>5, <2>6
<1>5. \A p \in Ops : p # o => op'[p] = op[p] /\ running'[p] = running[p] /\ events'[p] = events[p]
  <2>1. events' = events \/ events' = [events EXCEPT ![o] = events[o] + 1]
    BY <1>2 DEF DeferOperation, RecordOperationAccepted, RecordOperationRetry,
                RecordOperationPendingResult, CompleteOperation
  <2> QED
    BY <1>1, <1>2, <1>3, <1>4, <2>1 DEF FinishAttempt
<1>6. \A p \in Ops : op[p].status = "accepted" => op[p].mapped
  BY DEF IndInv, RowInv
<1>7. op[o].status \notin Terminal
  BY <1>2 DEF Terminal
<1> QED
  BY <1>4, <1>5, <1>6, <1>7 DEF EndIsFinal

\* complete_withdrawal ends itself and, at most, a target that is still pending.
LEMMA WithdrawalKeepsEnds ==
    ASSUME IndInv, NEW t \in Tasks, CompleteWithdrawal(t)
    PROVE  EndIsFinal
<1>1. task[t].pc = "withdraw" /\ MayRecord(t) /\ FinishAttempt(t)
  BY DEF CompleteWithdrawal
<1>2. PICK o \in Ops : o = task[t].op /\ op[o].status = "submitting"
  BY <1>1, RecordsFacts
<1>3. op \in [Ops -> OpRow] /\ events \in [Ops -> Nat] /\ running \in [Ops -> SUBSET Tokens]
  BY Types
<1>4. /\ op' = [p \in Ops |->
                  IF p = o THEN Released(o, "succeeded", op[o].due)
                  ELSE IF p = Ref[o] /\ Withdrawable(p)
                    THEN Released(p, "cancelled", op[p].due)
                  ELSE op[p]]
      /\ events' = [p \in Ops |-> IF p \in WithdrawalEvents(o) THEN events[p] + 1 ELSE events[p]]
  BY <1>2 DEF CompleteWithdrawal
<1>5. ASSUME NEW p \in Ops, op[p].status \in {"accepted"} \cup Terminal
      PROVE  op'[p] = op[p] /\ events'[p] = events[p] /\ running'[p] = running[p]
  <2>1. p # o /\ ~Withdrawable(p)
    BY <1>2, <1>5 DEF Withdrawable, Terminal
  <2>2. p \notin WithdrawalEvents(o)
    BY <2>1 DEF WithdrawalEvents
  <2> QED
    BY <1>1, <1>2, <1>3, <1>4, <2>1, <2>2 DEF FinishAttempt
<1>6. \A p \in Ops : op[p].status = "accepted" => op[p].mapped
  BY DEF IndInv, RowInv
<1> QED
  BY <1>5, <1>6 DEF EndIsFinal

\* Creations, claims and the passing of time concern operations that have not ended.
LEMMA ClaimsKeepEnds ==
    ASSUME IndInv, NEW o \in Ops,
           \/ CreateOperation(o) \/ \E t \in Tasks : ClaimOperation(t, o)
           \/ OrphanLeaseExpires(o) \/ HeldLeaseExpires(o) \/ OperationBecomesDue(o)
    PROVE  EndIsFinal
<1>1. op \in [Ops -> OpRow] /\ running \in [Ops -> SUBSET Tokens] /\ events' = events
  BY Types DEF CreateOperation, ClaimOperation, OrphanLeaseExpires, HeldLeaseExpires, LeaseExpires,
               OperationBecomesDue
<1>2. /\ \A p \in Ops : p # o => op'[p] = op[p] /\ running'[p] = running[p]
      /\ op[o].status \notin Terminal
      /\ op[o].status = "accepted" => op'[o].status = "accepted" /\ op'[o].mapped = op[o].mapped
  <2>1. op[o] \in OpRow
    BY <1>1
  <2>2. CASE CreateOperation(o)
    BY <1>1, <2>2 DEF CreateOperation, Terminal
  <2>3. CASE \E t \in Tasks : ClaimOperation(t, o)
    <3>1. PICK k, s : /\ op' = [op EXCEPT ![o] = [op[o] EXCEPT !.status = s, !.token = k, !.live = TRUE]]
                      /\ running' = [running EXCEPT ![o] = {k}] /\ op[o].status \in Open
                      /\ s = ClaimedStatus(op[o].status)
      BY <2>3 DEF ClaimOperation, Claimable
    <3>2. op'[o] = [op[o] EXCEPT !.status = s, !.token = k, !.live = TRUE]
      BY <1>1, <3>1
    <3>3. op'[o].status = s /\ op'[o].mapped = op[o].mapped
      BY <2>1, <3>2 DEF OpRow
    <3>4. op[o].status = "accepted" => s = "accepted"
      BY <3>1 DEF ClaimedStatus
    <3>5. op[o].status \notin Terminal
      BY <3>1 DEF Open, Terminal
    <3> QED
      BY <1>1, <3>1, <3>3, <3>4, <3>5
  <2>4. CASE OrphanLeaseExpires(o) \/ HeldLeaseExpires(o)
    <3>1. op[o].live /\ op' = [op EXCEPT ![o] = [op[o] EXCEPT !.live = FALSE]] /\ running' = running
      BY <2>4 DEF OrphanLeaseExpires, HeldLeaseExpires, LeaseExpires
    <3>2. op[o].status \in {"submitting", "accepted"}
      BY <3>1, Types DEF IndInv, ClaimMatchesRow
    <3>3. op'[o] = [op[o] EXCEPT !.live = FALSE]
      BY <1>1, <3>1
    <3>4. op'[o].status = op[o].status /\ op'[o].mapped = op[o].mapped
      BY <2>1, <3>3 DEF OpRow
    <3> QED
      BY <1>1, <3>1, <3>2, <3>4 DEF Terminal
  <2>5. CASE OperationBecomesDue(o)
    <3>1. op[o].status \in Open /\ op' = [op EXCEPT ![o] = [op[o] EXCEPT !.due = TRUE]]
          /\ running' = running
      BY <2>5 DEF OperationBecomesDue
    <3>2. op'[o] = [op[o] EXCEPT !.due = TRUE]
      BY <1>1, <3>1
    <3>3. op'[o].status = op[o].status /\ op'[o].mapped = op[o].mapped
      BY <2>1, <3>2 DEF OpRow
    <3> QED
      BY <1>1, <3>1, <3>3 DEF Open, Terminal
  <2> QED
    BY <2>2, <2>3, <2>4, <2>5
<1>3. \A p \in Ops : op[p].status = "accepted" => op[p].mapped
  BY DEF IndInv, RowInv
<1> QED
  BY <1>1, <1>2, <1>3 DEF EndIsFinal

\* Nothing that happened is taken back, although stale tasks go on after they lost
\* their lease: an ended operation keeps its outcome, its attempts and its one
\* announcement, and an accepted one keeps its gateway job.
\* (lock_valid_operation_claim; complete_operation; complete_withdrawal)
THEOREM EndsAreFinal == Spec => [][EndIsFinal]_vars
<1>1. ASSUME IndInv, Next
      PROVE  EndIsFinal
  <2>1. ASSUME UNCHANGED <<op, running, events>>
        PROVE  EndIsFinal
    BY <1>1, <2>1 DEF EndIsFinal, IndInv, RowInv
  <2>2. ASSUME NEW o \in Ops, \/ CreateOperation(o) \/ \E t \in Tasks : ClaimOperation(t, o)
                              \/ OrphanLeaseExpires(o) \/ HeldLeaseExpires(o)
                              \/ OperationBecomesDue(o)
        PROVE  EndIsFinal
    BY <1>1, <2>2, ClaimsKeepEnds
  <2>3. ASSUME NEW t \in Tasks, TaskStep(t) \/ TaskFault(t)
        PROVE  EndIsFinal
    <3>1. CASE \/ DeferOperation(t) \/ RecordOperationAccepted(t) \/ RecordOperationRetry(t)
               \/ RecordOperationPendingResult(t) \/ CompleteOperation(t)
      BY <1>1, <3>1, RecordsKeepEnds
    <3>2. CASE CompleteWithdrawal(t)
      BY <1>1, <3>2, WithdrawalKeepsEnds
    <3>3. CASE CheckSubmission(t) \/ FindByIdempotencyKey(t) \/ CheckCancellation(t) \/ GatewayRejects(t)
      BY <2>1, <3>3 DEF CheckSubmission, FindByIdempotencyKey, CheckCancellation, GatewayRejects
    <3>4. CASE GatewayAcknowledges(t) \/ GetJob(t) \/ StaleClaim(t)
      BY <2>1, <3>4 DEF GatewayAcknowledges, GetJob, StaleClaim, Abandon
    <3>5. CASE TaskFault(t)
      BY <2>1, <3>5 DEF TaskFault, RequestUnusable, DependencyUnreadable, RejectedWhileUncertain,
                        GatewayUnavailable, GatewayUncertain, ResultUnavailable, LoseTask, Abandon
    <3> QED
      BY <2>3, <3>1, <3>2, <3>3, <3>4, <3>5 DEF TaskStep
  <2>4. ASSUME NEW o \in Ops, \/ LateDelivery(o) \/ LateLost(o)
                              \/ \E s \in Terminal : JobFinishes(o, s)
        PROVE  EndIsFinal
    BY <2>1, <2>4 DEF LateDelivery, LateLost, JobFinishes
  <2> QED
    BY <1>1, <2>2, <2>3, <2>4 DEF Next
<1>2. IndInv /\ [Next]_vars => [EndIsFinal]_vars
  BY <1>1
<1> QED
  BY <1>2, Inductive, PTL DEF Spec

=============================================================================
