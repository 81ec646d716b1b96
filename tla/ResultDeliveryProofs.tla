------------------------ MODULE ResultDeliveryProofs ------------------------
(***************************************************************************)
(* Proofs about ResultDelivery for every set of operations, of other jobs  *)
(* and of task slots.  A task acts on what it read earlier, perhaps under  *)
(* a claim that has been taken over: the two safety invariants need that   *)
(* whatever a task remembers is still true when it writes.                 *)
(***************************************************************************)
EXTENDS ResultDelivery, TLAPS

\* A job ends in one of the ways its kind has.
JobInv == \A j \in Jobs : job[j] \in {"none", "running"} \cup Ends(kind[j])

\* An operation is mapped to an existing job of its connection when it is accepted,
\* not before; to another one's only if the gateway named that one.
MappingInv ==
    \A o \in Ops : IF op[o].status = "submitting" THEN op[o].job = Null /\ ~op[o].live
                   ELSE /\ op[o].job \in Jobs /\ kind[op[o].job] = kind[o]
                        /\ job[op[o].job] # "none"
                        /\ op[o].job = o \/ o \in misnamed

\* A receipt that was never recorded is neither matched nor leased.
AbsentInv ==
    \A e \in Jobs : receipt[e].status = "absent" => ~receipt[e].matched /\ ~receipt[e].live

\* What is due or ready is neither finished nor settled.
DueInv ==
    /\ \A o \in due : op[o].status = "accepted"
    /\ \A e \in ready : receipt[e].status \in {"pending", "processing"}

\* The outcome of job j.
TrueOutcome(j, status, response) ==
    /\ job[j] \in Ends(kind[j]) /\ status = StatusOf(job[j])
    /\ response = IF kind[j] = "execution" /\ job[j] \in {"succeeded", "failed"} THEN j ELSE Null

\* An operation that ended ended as its job did.
EndInv ==
    \A o \in Ops : op[o].status \in Terminal =>
                     TrueOutcome(op[o].job, op[o].status, op[o].response)

\* What the task in slot s remembers.
TaskOK(s) ==
    LET t == slot[s] IN
    /\ t.pc \in {"match", "finish", "block", "blocking"} => t.item \in Jobs
    /\ t.pc = "finish" => receipt[t.item].matched
    /\ t.pc \in {"poll", "postpone", "complete"} =>
         t.item \in Ops /\ op[t.item].status # "submitting"
    /\ t.pc = "complete" => TrueOutcome(op[t.item].job, t.status, t.response)

TaskInv == \A s \in Slots : TaskOK(s)

IndInv ==
    /\ ReceiptsSettleRightly
    /\ EndInv
    /\ JobInv
    /\ MappingInv
    /\ AbsentInv
    /\ DueInv
    /\ TaskInv

-----------------------------------------------------------------------------
\* The record of a free slot and an absent receipt have their types.
LEMMA Records == FreeSlot \in TaskState /\ FreeSlot.pc = "free" /\ NoReceipt \in ReceiptRow
BY DEF FreeSlot, TaskState, NoReceipt, ReceiptRow, Terminal

\* The initial state satisfies the invariant.
LEMMA InitEstablishes == Init => IndInv
<1> SUFFICES ASSUME Init PROVE IndInv
  OBVIOUS
<1>1. op \in [Ops -> OpRow]
  BY DEF Init, OpRow
<1>2. receipt \in [Jobs -> ReceiptRow] /\ slot \in [Slots -> TaskState]
  BY Records DEF Init
<1>3. TypeOK
  <2>1. faults \in 0..MaxFaults
    BY DeliveryAssumption DEF Init
  <2>2. job \in [Jobs -> {"none", "running", "errored"} \cup Terminal]
    BY DEF Init, Terminal
  <2> QED
    BY <1>1, <1>2, <2>1, <2>2 DEF Init, TypeOK
<1>4. ReceiptsSettleRightly
  BY <1>3 DEF Init, ReceiptsSettleRightly, NoReceipt
<1>5. EndInv /\ JobInv /\ MappingInv /\ AbsentInv /\ DueInv
  BY DEF Init, EndInv, JobInv, MappingInv, AbsentInv, DueInv, NoReceipt, Terminal, Ends, Jobs
<1>6. TaskInv
  BY DEF Init, TaskInv, TaskOK, FreeSlot
<1> QED
  BY <1>4, <1>5, <1>6 DEF IndInv

-----------------------------------------------------------------------------
\* What a task remembers stays true if rows only move forward: an accepted operation
\* stays accepted or ends, an ended job stays as it ended, a matched receipt stays
\* matched.
LEMMA TasksKeep ==
    ASSUME TaskInv, kind' = kind,
           \A o \in Ops : op[o].status # "submitting" =>
                            op'[o].status # "submitting" /\ op'[o].job = op[o].job,
           \A j \in Jobs : job[j] \in Ends(kind[j]) => job'[j] = job[j],
           MappingInv,
           \A e \in Jobs : receipt[e].matched => receipt'[e].matched,
           \A s \in Slots : slot'[s] = slot[s] \/ slot'[s].pc = "free" \/ TaskOK(s)'
    PROVE  TaskInv'
<1> SUFFICES ASSUME NEW s \in Slots, slot'[s] = slot[s] PROVE TaskOK(s)'
  BY DEF TaskInv, TaskOK
<1>1. TaskOK(s)
  BY DEF TaskInv
<1>2. /\ slot'[s].pc \in {"match", "finish", "block", "blocking"} => slot'[s].item \in Jobs
      /\ slot'[s].pc \in {"poll", "postpone", "complete"} =>
           slot'[s].item \in Ops /\ op'[slot'[s].item].status # "submitting"
  BY <1>1 DEF TaskOK
<1>3. slot'[s].pc = "finish" => receipt'[slot'[s].item].matched
  BY <1>1, <1>2 DEF TaskOK
<1>4. ASSUME slot'[s].pc = "complete"
      PROVE  TrueOutcome(op[slot[s].item].job, slot[s].status, slot[s].response)'
  <2>1. /\ slot[s].item \in Ops /\ op[slot[s].item].status # "submitting"
        /\ TrueOutcome(op[slot[s].item].job, slot[s].status, slot[s].response)
    BY <1>1, <1>4 DEF TaskOK
  <2>2. PICK j \in Jobs : j = op[slot[s].item].job
    BY <2>1 DEF MappingInv
  <2>3. job'[j] = job[j] /\ op'[slot[s].item].job = j
    BY <2>1, <2>2 DEF TrueOutcome
  <2> QED
    BY <2>1, <2>2, <2>3 DEF TrueOutcome, Ends, StatusOf
<1> QED
  BY <1>2, <1>3, <1>4 DEF TaskOK

\* A task that ends leaves a free slot and disturbs no other.
LEMMA FinishedSlot ==
    ASSUME TypeOK, NEW s \in Slots, Finish(s)
    PROVE  /\ slot' \in [Slots -> TaskState]
           /\ \A t \in Slots : slot'[t] = slot[t] \/ slot'[t].pc = "free"
BY Records DEF TypeOK, Finish

\* A task that goes on keeps what it remembers.
LEMMA MovedSlot ==
    ASSUME TypeOK, NEW s \in Slots,
           NEW pc \in {"match", "finish", "block", "blocking", "poll", "postpone", "complete"},
           GoTo(s, pc)
    PROVE  /\ slot' \in [Slots -> TaskState]
           /\ \A t \in Slots : t # s => slot'[t] = slot[t]
           /\ slot'[s].pc = pc /\ slot'[s].item = slot[s].item
<1> DEFINE t == [slot[s] EXCEPT !.pc = pc]
<1>1. slot \in [Slots -> TaskState] /\ slot[s] \in TaskState
  BY DEF TypeOK
<1>2. t \in TaskState /\ t.pc = pc /\ t.item = slot[s].item
  BY <1>1 DEF TaskState
<1>3. slot' = [slot EXCEPT ![s] = t]
  BY DEF GoTo
<1> HIDE DEF t
<1> QED
  BY <1>1, <1>2, <1>3

\* A claim starts a task on its item.
LEMMA StartedSlot ==
    ASSUME TypeOK, NEW s \in Slots, NEW pc \in {"match", "poll"}, NEW x \in Jobs,
           Start(s, pc, x)
    PROVE  /\ slot' \in [Slots -> TaskState]
           /\ \A t \in Slots : t # s => slot'[t] = slot[t]
           /\ slot'[s].pc = pc /\ slot'[s].item = x
<1> DEFINE t == [FreeSlot EXCEPT !.pc = pc, !.item = x]
<1>1. slot \in [Slots -> TaskState]
  BY DEF TypeOK
<1>2. t \in TaskState /\ t.pc = pc /\ t.item = x
  BY DEF TaskState, FreeSlot, Terminal
<1>3. slot' = [slot EXCEPT ![s] = t]
  BY DEF Start
<1> HIDE DEF t
<1> QED
  BY <1>1, <1>2, <1>3

\* Steps that only move tasks.
LEMMA SlotStep ==
    ASSUME IndInv, UNCHANGED <<kind, job, op, due, receipt, ready, misnamed>>,
           faults' \in 0..MaxFaults, slot' \in [Slots -> TaskState],
           \A s \in Slots : slot'[s] = slot[s] \/ slot'[s].pc = "free" \/ TaskOK(s)'
    PROVE  IndInv'
<1>1. TypeOK'
  BY DEF IndInv, ReceiptsSettleRightly, TypeOK
<1>2. ReceiptsSettleRightly'
  BY <1>1 DEF IndInv, ReceiptsSettleRightly, Mapped
<1>3. EndInv' /\ JobInv' /\ MappingInv' /\ AbsentInv' /\ DueInv'
  BY DEF IndInv, EndInv, TrueOutcome, JobInv, MappingInv, AbsentInv, DueInv, Ends, StatusOf
<1>4. TaskInv'
  BY TasksKeep DEF IndInv
<1> QED
  BY <1>2, <1>3, <1>4 DEF IndInv

\* A receipt r for event e that names its job, and whose status, match and lease
\* agree.
Settles(r, e) ==
    /\ r.status # "absent" /\ r.job = e
    /\ r.matched => Mapped(e)
    /\ r.status = "processed" => r.matched
    /\ r.status = "blocked" => ~r.matched
    /\ (r.holder # Null) = (r.status = "processing")

\* Steps that write one receipt.
LEMMA ReceiptWrite ==
    ASSUME IndInv, NEW e \in Jobs, NEW r \in ReceiptRow,
           receipt' = [receipt EXCEPT ![e] = r],
           UNCHANGED <<kind, job, op, misnamed>>, faults' \in 0..MaxFaults,
           due' \subseteq Ops, \A o \in due' : op[o].status = "accepted",
           ready' \subseteq ready \cup {e},
           e \in ready' => r.status \in {"pending", "processing"},
           Settles(r, e), receipt[e].matched => r.matched,
           slot' \in [Slots -> TaskState],
           \A s \in Slots : slot'[s] = slot[s] \/ slot'[s].pc = "free" \/ TaskOK(s)'
    PROVE  IndInv'
<1>1. TypeOK /\ receipt \in [Jobs -> ReceiptRow]
  BY DEF IndInv, ReceiptsSettleRightly, TypeOK
<1>2. receipt' \in [Jobs -> ReceiptRow] /\ receipt'[e] = r
      /\ \A x \in Jobs : x # e => receipt'[x] = receipt[x]
  BY <1>1
<1>3. TypeOK'
  BY <1>1, <1>2 DEF TypeOK
<1>5. ReceiptsSettleRightly'
  <2> SUFFICES ASSUME NEW x \in Jobs
               PROVE  /\ receipt'[x].status # "absent" => receipt'[x].job = x
                      /\ receipt'[x].matched => \E o \in Ops : op'[o].job = receipt'[x].job
                      /\ receipt'[x].status = "processed" => receipt'[x].matched
                      /\ receipt'[x].status = "blocked" => ~receipt'[x].matched
                      /\ (receipt'[x].holder # Null) = (receipt'[x].status = "processing")
    BY <1>3 DEF ReceiptsSettleRightly, Mapped
  <2>1. CASE x = e
    BY <2>1, <1>2 DEF Settles, Mapped
  <2>2. CASE x # e
    BY <2>2, <1>2 DEF IndInv, ReceiptsSettleRightly, Mapped
  <2> QED
    BY <2>1, <2>2
<1>6. EndInv' /\ JobInv' /\ MappingInv'
  BY DEF IndInv, EndInv, TrueOutcome, JobInv, MappingInv, Ends, StatusOf
<1>7. AbsentInv' /\ DueInv'
  <2>1. AbsentInv'
    BY <1>2 DEF IndInv, AbsentInv, Settles
  <2>2. ready \subseteq Jobs
    BY <1>1 DEF TypeOK
  <2> QED
    BY <1>2, <2>1, <2>2 DEF IndInv, DueInv
<1>8. TaskInv'
  BY <1>2, TasksKeep DEF IndInv
<1> QED
  BY <1>5, <1>6, <1>7, <1>8 DEF IndInv

\* A row of o that is mapped, to the job it was mapped to before if it was.
MappedRow(o, row) ==
    /\ row.status # "submitting"
    /\ row.job \in Jobs /\ kind[row.job] = kind[o] /\ job[row.job] # "none"
    /\ op[o].status # "submitting" => row.job = op[o].job

\* Steps that write one operation, already accepted or now.
LEMMA OperationWrite ==
    ASSUME IndInv, NEW o \in Ops, NEW row \in OpRow,
           op' = [op EXCEPT ![o] = row],
           UNCHANGED <<kind, job, receipt, ready>>, faults' \in 0..MaxFaults,
           due' \subseteq due, o \in due' => row.status = "accepted",
           MappedRow(o, row), row.job = o \/ o \in misnamed',
           misnamed \subseteq misnamed', misnamed' \subseteq Ops,
           row.status \in Terminal => TrueOutcome(row.job, row.status, row.response),
           slot' \in [Slots -> TaskState],
           \A s \in Slots : slot'[s] = slot[s] \/ slot'[s].pc = "free" \/ TaskOK(s)'
    PROVE  IndInv'
<1>1. TypeOK /\ op \in [Ops -> OpRow]
  BY DEF IndInv, ReceiptsSettleRightly, TypeOK
<1>2. op' \in [Ops -> OpRow] /\ op'[o] = row
      /\ \A x \in Ops : x # o => op'[x] = op[x]
  BY <1>1
<1>3. TypeOK'
  BY <1>1, <1>2 DEF TypeOK
<1>4. \A e \in Jobs : Mapped(e) => Mapped(e)'
  <2> SUFFICES ASSUME NEW e \in Jobs, NEW x \in Ops, op[x].job = e
               PROVE  op'[x].job = e
    BY DEF Mapped
  <2>1. e # Null
    BY DeliveryAssumption DEF Jobs
  <2> QED
    BY <1>2, <2>1 DEF IndInv, MappingInv, MappedRow
<1>5. ReceiptsSettleRightly'
  <2> SUFFICES ASSUME NEW x \in Jobs, receipt[x].matched
               PROVE  Mapped(receipt[x].job)'
    BY <1>3 DEF IndInv, ReceiptsSettleRightly
  <2>1. receipt[x].job = x /\ Mapped(x)
    BY DEF IndInv, ReceiptsSettleRightly, AbsentInv
  <2> QED
    BY <1>4, <2>1
<1>6. EndInv'
  <2> SUFFICES ASSUME NEW x \in Ops, op'[x].status \in Terminal
               PROVE  TrueOutcome(op[x].job, op[x].status, op[x].response)'
    BY DEF EndInv
  <2>1. TrueOutcome(op'[x].job, op'[x].status, op'[x].response)
    BY <1>2 DEF IndInv, EndInv
  <2> QED
    BY <2>1 DEF TrueOutcome, Ends, StatusOf
<1>7. JobInv' /\ AbsentInv'
  BY DEF IndInv, JobInv, AbsentInv, Ends
<1>8. MappingInv' /\ DueInv'
  <2>1. due \subseteq Ops
    BY <1>1 DEF TypeOK
  <2> QED
    BY <1>2, <2>1 DEF IndInv, MappingInv, MappedRow, DueInv
<1>9. TaskInv'
  BY <1>2, TasksKeep DEF IndInv, MappedRow
<1> QED
  BY <1>5, <1>6, <1>7, <1>8, <1>9 DEF IndInv

-----------------------------------------------------------------------------
\* The gateway admits a job and ends it.
LEMMA JobPreserves ==
    ASSUME IndInv, NEW o \in Ops,
           AdmitJob(o) \/ \E end \in Ends(kind[o]) : JobEnds(o, end)
    PROVE  IndInv'
<1>1. UNCHANGED <<kind, op, due, receipt, ready, slot, misnamed, faults>>
  BY DEF AdmitJob, JobEnds
<1>2. TypeOK /\ o \in Jobs /\ job \in [Jobs -> {"none", "running", "errored"} \cup Terminal]
  BY DEF IndInv, ReceiptsSettleRightly, TypeOK, Jobs
<1>3. PICK j \in {"running"} \cup Ends(kind[o]) :
        job' = [job EXCEPT ![o] = j] /\ job[o] \in {"none", "running"}
  BY DEF AdmitJob, JobEnds
<1>4. j \in {"none", "running", "errored"} \cup Terminal /\ j # "none"
  BY DEF Ends, Terminal
<1>5. /\ job' \in [Jobs -> {"none", "running", "errored"} \cup Terminal]
      /\ job'[o] = j /\ \A x \in Jobs : x # o => job'[x] = job[x]
      /\ \A x \in Jobs : job[x] # "none" => job'[x] # "none"
  BY <1>2, <1>3, <1>4
<1>6. \A x \in Jobs : job[x] \in Ends(kind[x]) => job'[x] = job[x]
  BY <1>3, <1>5 DEF Ends
<1>7. TypeOK'
  BY <1>1, <1>2, <1>5 DEF TypeOK
<1>8. ReceiptsSettleRightly' /\ AbsentInv' /\ DueInv'
  BY <1>1, <1>7 DEF IndInv, ReceiptsSettleRightly, AbsentInv, DueInv, Mapped
<1>9. EndInv'
  <2> SUFFICES ASSUME NEW x \in Ops, op[x].status \in Terminal
               PROVE  TrueOutcome(op[x].job, op[x].status, op[x].response)'
    BY <1>1 DEF EndInv
  <2>1. TrueOutcome(op[x].job, op[x].status, op[x].response)
    BY DEF IndInv, EndInv
  <2>2. PICK y \in Jobs : y = op[x].job
    BY DEF IndInv, MappingInv, Terminal
  <2>3. job'[y] = job[y]
    BY <1>6, <2>1, <2>2 DEF TrueOutcome
  <2> QED
    BY <1>1, <2>1, <2>2, <2>3 DEF TrueOutcome, Ends, StatusOf
<1>10. JobInv'
  BY <1>1, <1>3, <1>5 DEF IndInv, JobInv, Ends
<1>11. MappingInv'
  BY <1>1, <1>5 DEF IndInv, MappingInv
<1>12. TaskInv'
  BY <1>1, <1>6, TasksKeep DEF IndInv
<1> QED
  BY <1>8, <1>9, <1>10, <1>11, <1>12 DEF IndInv

\* A delay passes.
LEMMA DuePreserves ==
    ASSUME IndInv,
           \/ \E o \in Ops : ResultCheckDue(o)
           \/ \E e \in Jobs : ReceiptRetryDue(e)
    PROVE  IndInv'
<1>1. UNCHANGED <<kind, job, op, receipt, slot, misnamed, faults>>
  BY DEF ResultCheckDue, ReceiptRetryDue
<1>2. due' \subseteq Ops /\ ready' \subseteq Jobs
  BY DEF ResultCheckDue, ReceiptRetryDue, IndInv, ReceiptsSettleRightly, TypeOK
<1>3. DueInv'
  BY <1>1 DEF ResultCheckDue, ReceiptRetryDue, IndInv, DueInv
<1>4. TypeOK'
  BY <1>1, <1>2 DEF IndInv, ReceiptsSettleRightly, TypeOK
<1>5. ReceiptsSettleRightly' /\ AbsentInv'
  BY <1>1, <1>4 DEF IndInv, ReceiptsSettleRightly, AbsentInv, Mapped
<1>6. EndInv' /\ JobInv' /\ MappingInv'
  BY <1>1 DEF IndInv, EndInv, TrueOutcome, JobInv, MappingInv, Ends, StatusOf
<1>7. TaskInv'
  BY <1>1, TasksKeep DEF IndInv
<1> QED
  BY <1>3, <1>5, <1>6, <1>7 DEF IndInv

\* finish_submission: an operation is mapped to an existing job of its gateway, its own
\* one unless the gateway named another.
LEMMA AcceptancePreserves ==
    ASSUME IndInv, NEW o \in Ops, AcceptSubmission(o) \/ AcceptLookup(o)
    PROVE  IndInv'
<1>1. PICK doc \in Answers(o) :
        /\ doc.id # Null
        /\ RecordOperationAccepted(o, doc.id)
        /\ Named(o, doc.id)
  <2>1. CASE AcceptSubmission(o)
    BY <2>1 DEF AcceptSubmission, Acknowledges
  <2>2. CASE AcceptLookup(o)
    <3>1. PICK doc \in Answers(o) :
            /\ LookupAdopts(kind[o], o, <<doc>>)
            /\ RecordOperationAccepted(o, doc.id)
            /\ IF doc.key = o THEN Named(o, doc.id) ELSE UNCHANGED misnamed
      BY <2>2 DEF AcceptLookup
    <3>2. doc.key = o /\ doc.id # Null
      BY <3>1 DEF LookupAdopts, Acknowledges
    <3> QED
      BY <3>1, <3>2
  <2> QED
    BY <2>1, <2>2
<1>2. doc.id \in Jobs /\ kind[doc.id] = kind[o] /\ job[doc.id] # "none"
  BY <1>1 DEF Answers
<1> DEFINE row == [op[o] EXCEPT !.status = "accepted", !.job = doc.id]
<1>3. /\ op[o] \in OpRow /\ slot \in [Slots -> TaskState] /\ faults \in 0..MaxFaults
      /\ misnamed \subseteq Ops
  BY DEF IndInv, ReceiptsSettleRightly, TypeOK
<1>4. row \in OpRow /\ row.status = "accepted" /\ row.job = doc.id
  BY <1>2, <1>3 DEF OpRow
<1>5. /\ op' = [op EXCEPT ![o] = row]
      /\ UNCHANGED <<kind, job, due, receipt, ready, slot, faults>>
      /\ op[o].status = "submitting"
  BY <1>1 DEF RecordOperationAccepted
<1> HIDE DEF row
<1>6. /\ misnamed \subseteq misnamed' /\ misnamed' \subseteq Ops
      /\ row.job = o \/ o \in misnamed'
  BY <1>1, <1>3, <1>4 DEF Named
<1>7. MappedRow(o, row) /\ row.status \notin Terminal
  BY <1>2, <1>4, <1>5 DEF MappedRow, Terminal
<1> QED
  BY <1>3, <1>4, <1>5, <1>6, <1>7, OperationWrite

\* record_callback_receipt: a verified callback is about the event it names.
LEMMA CallbackPreserves ==
    ASSUME IndInv, NEW e \in Jobs, RecordCallbackReceipt(e)
    PROVE  IndInv'
<1>1. PICK c \in Callbacks(e) :
        /\ Verify(Verifier(kind[e]), kind[e], c, Tolerance)
        /\ receipt[c.event].status = "absent"
        /\ receipt' = [receipt EXCEPT ![c.event] =
                         [NoReceipt EXCEPT !.status = "pending", !.job = c.job]]
        /\ ready' = ready \cup {c.event}
  BY DEF RecordCallbackReceipt
<1>2. c.payload = e /\ c.job = e
  BY DEF Callbacks
<1>3. c.event = e
  BY <1>1, <1>2 DEF Verify
<1> DEFINE r == [NoReceipt EXCEPT !.status = "pending", !.job = e]
<1>4. /\ r \in ReceiptRow /\ r.status = "pending" /\ r.job = e /\ ~r.matched /\ r.holder = Null
  BY DEF ReceiptRow, NoReceipt
<1>5. receipt' = [receipt EXCEPT ![e] = r] /\ ready' = ready \cup {e}
  BY <1>1, <1>2, <1>3
<1> HIDE DEF r
<1>6. Settles(r, e) /\ ~receipt[e].matched
  BY <1>1, <1>3, <1>4 DEF Settles, IndInv, AbsentInv
<1>7. UNCHANGED <<kind, job, op, due, slot, misnamed, faults>>
  BY DEF RecordCallbackReceipt
<1>8. /\ slot \in [Slots -> TaskState] /\ faults \in 0..MaxFaults /\ due \subseteq Ops
      /\ \A o \in due : op[o].status = "accepted"
  BY DEF IndInv, ReceiptsSettleRightly, TypeOK, DueInv
<1> QED
  BY <1>4, <1>5, <1>6, <1>7, <1>8, ReceiptWrite

-----------------------------------------------------------------------------
\* claim_callback_receipt
LEMMA ClaimReceiptPreserves ==
    ASSUME IndInv, NEW s \in Slots, NEW e \in Jobs, ClaimCallbackReceipt(s, e)
    PROVE  IndInv'
<1> DEFINE r == [receipt[e] EXCEPT !.status = "processing", !.holder = s, !.live = TRUE]
<1>1. TypeOK /\ receipt[e] \in ReceiptRow /\ faults \in 0..MaxFaults /\ due \subseteq Ops
  BY DEF IndInv, ReceiptsSettleRightly, TypeOK
<1>2. /\ r \in ReceiptRow /\ r.status = "processing" /\ r.job = receipt[e].job
      /\ r.matched = receipt[e].matched /\ r.holder = s
  BY <1>1 DEF ReceiptRow
<1>3. /\ receipt' = [receipt EXCEPT ![e] = r]
      /\ Start(s, "match", e) /\ UNCHANGED <<kind, job, op, due, ready, misnamed, faults>>
      /\ receipt[e].status \in {"pending", "processing"}
  BY DEF ClaimCallbackReceipt, IndInv, DueInv
<1> HIDE DEF r
<1>4. Settles(r, e)
  <2>1. receipt[e].job = e /\ (receipt[e].matched => Mapped(e)) /\ s # Null
    BY <1>3, DeliveryAssumption DEF IndInv, ReceiptsSettleRightly
  <2> QED
    BY <1>2, <2>1 DEF Settles
<1>5. /\ slot' \in [Slots -> TaskState]
      /\ \A t \in Slots : t # s => slot'[t] = slot[t]
      /\ slot'[s].pc = "match" /\ slot'[s].item = e
  BY <1>1, <1>3, StartedSlot
<1>6. TaskOK(s)'
  BY <1>5 DEF TaskOK
<1>7. \A o \in due : op[o].status = "accepted"
  BY DEF IndInv, DueInv
<1>8. receipt[e].matched => r.matched
  BY <1>2
<1> QED
  BY <1>1, <1>2, <1>3, <1>4, <1>5, <1>6, <1>7, <1>8, ReceiptWrite

\* claim_operation
LEMMA ClaimResultPreserves ==
    ASSUME IndInv, NEW s \in Slots, NEW o \in Ops, ClaimResult(s, o)
    PROVE  IndInv'
<1> DEFINE row == [op[o] EXCEPT !.holder = s, !.live = TRUE]
<1>1. TypeOK /\ op \in [Ops -> OpRow] /\ op[o] \in OpRow /\ faults \in 0..MaxFaults /\ o \in Jobs
  BY DEF IndInv, ReceiptsSettleRightly, TypeOK, Jobs
<1>2. row \in OpRow /\ row.status = op[o].status /\ row.job = op[o].job
  BY <1>1 DEF OpRow
<1>3. /\ op' = [op EXCEPT ![o] = row]
      /\ Start(s, "poll", o) /\ UNCHANGED <<kind, job, due, receipt, ready, misnamed, faults>>
      /\ op[o].status = "accepted"
  BY DEF ClaimResult, IndInv, DueInv
<1> HIDE DEF row
<1>4. /\ slot' \in [Slots -> TaskState]
      /\ \A t \in Slots : t # s => slot'[t] = slot[t]
      /\ slot'[s].pc = "poll" /\ slot'[s].item = o
  BY <1>1, <1>3, StartedSlot
<1>5. op'[o] = row
  BY <1>1, <1>3
<1>6. TaskOK(s)'
  BY <1>2, <1>3, <1>4, <1>5 DEF TaskOK
<1>7. /\ MappedRow(o, row) /\ row.status \notin Terminal /\ row.status = "accepted"
      /\ row.job = o \/ o \in misnamed
  BY <1>2, <1>3 DEF IndInv, MappingInv, MappedRow, Terminal
<1>8. misnamed \subseteq Ops
  BY <1>1 DEF TypeOK
<1> QED
  BY <1>1, <1>2, <1>3, <1>4, <1>6, <1>7, <1>8, OperationWrite

-----------------------------------------------------------------------------
\* match_callback_receipt: only under a valid claim, so the receipt is not settled.
LEMMA MatchPreserves ==
    ASSUME IndInv, NEW s \in Slots, MatchCallbackReceipt(s)
    PROVE  IndInv'
<1> DEFINE e == slot[s].item
<1>1. e \in Jobs
  BY DEF MatchCallbackReceipt, IndInv, TaskInv, TaskOK
<1>2. /\ ready' = ready \ {e} /\ UNCHANGED <<kind, job, op, due, misnamed, faults>>
      /\ receipt[e].holder = s
  BY DEF MatchCallbackReceipt, ValidReceiptClaim
<1>3. /\ TypeOK /\ receipt \in [Jobs -> ReceiptRow] /\ receipt[e] \in ReceiptRow
      /\ faults \in 0..MaxFaults /\ due \subseteq Ops
      /\ \A o \in due : op[o].status = "accepted"
  BY <1>1 DEF IndInv, ReceiptsSettleRightly, TypeOK, DueInv
<1>4. receipt[e].status = "processing" /\ receipt[e].job = e /\ (receipt[e].matched => Mapped(e))
  BY <1>1, <1>2, DeliveryAssumption DEF IndInv, ReceiptsSettleRightly
<1>5. CASE Mapped(receipt[e].job)
  <2> DEFINE r == [receipt[e] EXCEPT !.matched = TRUE]
  <2>1. receipt' = [receipt EXCEPT ![e] = r] /\ GoTo(s, "finish")
    BY <1>5 DEF MatchCallbackReceipt
  <2>2. /\ r \in ReceiptRow /\ r.matched = TRUE /\ r.status = "processing" /\ r.job = e
        /\ r.holder = s
    BY <1>2, <1>3, <1>4 DEF ReceiptRow
  <2> HIDE DEF r
  <2>3. Settles(r, e)
    BY <1>4, <1>5, <2>2, DeliveryAssumption DEF Settles
  <2>4. /\ slot' \in [Slots -> TaskState]
        /\ \A t \in Slots : t # s => slot'[t] = slot[t]
        /\ slot'[s].pc = "finish" /\ slot'[s].item = e
    BY <1>3, <2>1, MovedSlot
  <2>5. receipt'[e] = r
    BY <1>1, <1>3, <2>1
  <2>6. TaskOK(s)'
    BY <1>1, <2>2, <2>4, <2>5 DEF TaskOK
  <2> HIDE DEF e
  <2> QED
    BY <1>1, <1>2, <1>3, <2>1, <2>2, <2>3, <2>4, <2>6, ReceiptWrite
<1>6. CASE ~Mapped(receipt[e].job)
  <2> DEFINE r == [receipt[e] EXCEPT !.status = "pending", !.holder = Null, !.live = FALSE]
  <2>1. receipt' = [receipt EXCEPT ![e] = r] /\ (GoTo(s, "block") \/ Finish(s))
    BY <1>6 DEF MatchCallbackReceipt
  <2>2. /\ r \in ReceiptRow /\ r.matched = receipt[e].matched /\ r.status = "pending"
        /\ r.job = e /\ r.holder = Null
    BY <1>3, <1>4 DEF ReceiptRow
  <2> HIDE DEF r
  <2>3. Settles(r, e) /\ (receipt[e].matched => r.matched)
    BY <1>4, <2>2 DEF Settles
  <2>4. /\ slot' \in [Slots -> TaskState]
        /\ \A t \in Slots :
             \/ slot'[t] = slot[t]
             \/ slot'[t].pc = "free"
             \/ slot'[t].pc = "block" /\ slot'[t].item = e
    <3>1. CASE GoTo(s, "block")
      <4>1. /\ slot' \in [Slots -> TaskState]
            /\ \A t \in Slots : t # s => slot'[t] = slot[t]
            /\ slot'[s].pc = "block" /\ slot'[s].item = e
        BY <1>3, <3>1, MovedSlot
      <4> QED
        BY <4>1
    <3>2. CASE Finish(s)
      <4>1. /\ slot' \in [Slots -> TaskState]
            /\ \A t \in Slots : slot'[t] = slot[t] \/ slot'[t].pc = "free"
        BY <1>3, <3>2, FinishedSlot
      <4> QED
        BY <4>1
    <3> QED
      BY <2>1, <3>1, <3>2
  <2>5. \A t \in Slots : slot'[t] = slot[t] \/ slot'[t].pc = "free" \/ TaskOK(t)'
    BY <1>1, <2>4 DEF TaskOK
  <2> HIDE DEF e
  <2> QED
    BY <1>1, <1>2, <1>3, <2>1, <2>2, <2>3, <2>4, <2>5, ReceiptWrite
<1> QED
  BY <1>5, <1>6

\* complete_callback_receipt: the receipt was matched by the task that completes it.
LEMMA CompleteReceiptPreserves ==
    ASSUME IndInv, NEW s \in Slots, CompleteCallbackReceipt(s)
    PROVE  IndInv'
<1> DEFINE e == slot[s].item
           r == [receipt[e] EXCEPT !.status = "processed", !.holder = Null, !.live = FALSE]
<1>1. e \in Jobs /\ receipt[e].matched
  BY DEF CompleteCallbackReceipt, IndInv, TaskInv, TaskOK
<1>2. /\ ready' = ready \ {e} /\ UNCHANGED <<kind, job, op, misnamed, faults>>
      /\ receipt' = [receipt EXCEPT ![e] = r]
      /\ due' = due \cup {o \in Ops : op[o].job = receipt[e].job /\ op[o].status = "accepted"}
      /\ Finish(s)
  BY DEF CompleteCallbackReceipt
<1>3. /\ TypeOK /\ receipt[e] \in ReceiptRow
      /\ faults \in 0..MaxFaults /\ due' \subseteq Ops
      /\ \A o \in due' : op[o].status = "accepted"
  BY <1>1, <1>2 DEF IndInv, ReceiptsSettleRightly, TypeOK, DueInv
<1>4. receipt[e].job = e /\ Mapped(e)
  BY <1>1 DEF IndInv, ReceiptsSettleRightly, AbsentInv
<1>5. /\ r \in ReceiptRow /\ r.matched = receipt[e].matched /\ r.status = "processed"
      /\ r.job = e /\ r.holder = Null
  BY <1>3, <1>4 DEF ReceiptRow
<1> HIDE DEF r
<1>6. Settles(r, e) /\ (receipt[e].matched => r.matched)
  BY <1>1, <1>4, <1>5 DEF Settles
<1>7. /\ slot' \in [Slots -> TaskState]
      /\ \A t \in Slots : slot'[t] = slot[t] \/ slot'[t].pc = "free"
  BY <1>2, <1>3, FinishedSlot
<1> HIDE DEF e
<1> QED
  BY <1>1, <1>2, <1>3, <1>5, <1>6, <1>7, ReceiptWrite

\* block_unmatched_callback_receipt, its second half: a receipt is blocked only if it
\* is still pending and unmatched then.
LEMMA BlockPreserves ==
    ASSUME IndInv, NEW s \in Slots, BlockUnmatched(s)
    PROVE  IndInv'
<1> DEFINE e == slot[s].item
           r == [receipt[e] EXCEPT !.status = "blocked"]
<1>1. e \in Jobs /\ Finish(s) /\ UNCHANGED <<kind, job, op, due, misnamed, faults>>
  BY DEF BlockUnmatched, IndInv, TaskInv, TaskOK
<1>2. /\ TypeOK /\ receipt[e] \in ReceiptRow
      /\ faults \in 0..MaxFaults /\ due \subseteq Ops
      /\ \A o \in due : op[o].status = "accepted"
  BY <1>1 DEF IndInv, ReceiptsSettleRightly, TypeOK, DueInv
<1>3. /\ slot' \in [Slots -> TaskState]
      /\ \A t \in Slots : slot'[t] = slot[t] \/ slot'[t].pc = "free"
  BY <1>1, <1>2, FinishedSlot
<1>4. CASE StillUnmatched(e)
  <2>1. receipt' = [receipt EXCEPT ![e] = r] /\ ready' = ready \ {e}
    BY <1>4 DEF BlockUnmatched
  <2>2. receipt[e].job = e /\ ~receipt[e].matched /\ receipt[e].holder = Null
    BY <1>1, <1>4 DEF StillUnmatched, IndInv, ReceiptsSettleRightly
  <2>3. /\ r \in ReceiptRow /\ r.matched = receipt[e].matched /\ r.status = "blocked"
        /\ r.job = e /\ r.holder = Null
    BY <1>2, <2>2 DEF ReceiptRow
  <2> HIDE DEF r
  <2>4. Settles(r, e) /\ (receipt[e].matched => r.matched)
    BY <2>2, <2>3 DEF Settles
  <2> HIDE DEF e
  <2> QED
    BY <1>1, <1>2, <1>3, <2>1, <2>3, <2>4, ReceiptWrite
<1>5. CASE ~StillUnmatched(e)
  <2>1. UNCHANGED <<receipt, ready>>
    BY <1>5 DEF BlockUnmatched
  <2> QED
    BY <1>1, <1>2, <1>3, <2>1, SlotStep
<1> QED
  BY <1>4, <1>5

\* Tasks that end, fail, or are lost with the process, and the first half of
\* block_unmatched_callback_receipt.
LEMMA TaskEndPreserves ==
    ASSUME IndInv,
           \/ \E s \in Slots : \/ BlockUnmatchedStarts(s) \/ StaleReceiptClaim(s)
                               \/ StaleResultClaim(s) \/ TaskFails(s) \/ ResultUnavailable(s)
           \/ Restart
    PROVE  IndInv'
<1>1. /\ TypeOK /\ faults \in 0..MaxFaults
      /\ UNCHANGED <<kind, job, op, due, receipt, ready, misnamed>>
  BY DEF IndInv, ReceiptsSettleRightly, TypeOK, BlockUnmatchedStarts, StaleReceiptClaim,
         StaleResultClaim, TaskFails, ResultUnavailable, Restart
<1>2. faults' \in 0..MaxFaults
  BY <1>1, DeliveryAssumption DEF BlockUnmatchedStarts, StaleReceiptClaim, StaleResultClaim,
         TaskFails, ResultUnavailable, Restart, Fault
<1>3. CASE Restart
  <2>1. slot' \in [Slots -> TaskState] /\ \A s \in Slots : slot'[s].pc = "free"
    BY <1>3, Records DEF Restart
  <2> QED
    BY <1>1, <1>2, <2>1, SlotStep
<1>4. ASSUME NEW s \in Slots, Finish(s)
      PROVE  IndInv'
  BY <1>1, <1>2, <1>4, FinishedSlot, SlotStep
<1>5. ASSUME NEW s \in Slots, BlockUnmatchedStarts(s), GoTo(s, "blocking")
      PROVE  IndInv'
  <2>1. slot[s].item \in Jobs
    BY <1>5 DEF BlockUnmatchedStarts, IndInv, TaskInv, TaskOK
  <2>2. /\ slot' \in [Slots -> TaskState]
        /\ \A t \in Slots : t # s => slot'[t] = slot[t]
        /\ slot'[s].pc = "blocking" /\ slot'[s].item = slot[s].item
    BY <1>1, <1>5, MovedSlot
  <2>3. TaskOK(s)'
    BY <2>1, <2>2 DEF TaskOK
  <2> QED
    BY <1>1, <1>2, <2>2, <2>3, SlotStep
<1>6. ASSUME NEW s \in Slots, ResultUnavailable(s)
      PROVE  IndInv'
  <2>1. slot[s].item \in Ops /\ op[slot[s].item].status # "submitting" /\ GoTo(s, "postpone")
    BY <1>6 DEF ResultUnavailable, IndInv, TaskInv, TaskOK
  <2>2. /\ slot' \in [Slots -> TaskState]
        /\ \A t \in Slots : t # s => slot'[t] = slot[t]
        /\ slot'[s].pc = "postpone" /\ slot'[s].item = slot[s].item
    BY <1>1, <2>1, MovedSlot
  <2>3. TaskOK(s)'
    BY <1>1, <2>1, <2>2 DEF TaskOK
  <2> QED
    BY <1>1, <1>2, <2>2, <2>3, SlotStep
<1> QED
  BY <1>3, <1>4, <1>5, <1>6
     DEF BlockUnmatchedStarts, StaleReceiptClaim, StaleResultClaim, TaskFails

\* A lease expires.
LEMMA LeasePreserves ==
    ASSUME IndInv,
           \/ \E e \in Jobs : ReceiptLeaseExpires(e)
           \/ \E o \in Ops : ResultLeaseExpires(o)
    PROVE  IndInv'
<1>1. /\ TypeOK /\ slot \in [Slots -> TaskState] /\ due \subseteq Ops
      /\ receipt \in [Jobs -> ReceiptRow] /\ op \in [Ops -> OpRow]
      /\ UNCHANGED <<kind, job, due, ready, slot, misnamed>>
      /\ \A o \in due : op[o].status = "accepted"
  BY DEF IndInv, ReceiptsSettleRightly, TypeOK, DueInv, ReceiptLeaseExpires, ResultLeaseExpires
<1>2. faults' \in 0..MaxFaults
  <2>1. Fault \/ UNCHANGED faults
    BY DEF ReceiptLeaseExpires, ResultLeaseExpires
  <2>2. faults \in 0..MaxFaults
    BY <1>1 DEF TypeOK
  <2> QED
    BY <2>1, <2>2, DeliveryAssumption DEF Fault
<1>3. ASSUME NEW e \in Jobs, ReceiptLeaseExpires(e)
      PROVE  IndInv'
  <2> DEFINE r == [receipt[e] EXCEPT !.live = FALSE]
  <2>1. receipt' = [receipt EXCEPT ![e] = r] /\ UNCHANGED op /\ receipt[e].live
    BY <1>3 DEF ReceiptLeaseExpires
  <2>2. /\ r \in ReceiptRow /\ r.status = receipt[e].status /\ r.job = receipt[e].job
        /\ r.matched = receipt[e].matched /\ r.holder = receipt[e].holder
    BY <1>1 DEF ReceiptRow
  <2> HIDE DEF r
  <2>3. receipt[e].status # "absent"
    BY <2>1 DEF IndInv, AbsentInv
  <2>4. Settles(r, e) /\ (receipt[e].matched => r.matched)
    BY <2>2, <2>3 DEF Settles, IndInv, ReceiptsSettleRightly
  <2>5. e \in ready' => r.status \in {"pending", "processing"}
    BY <1>1, <2>2 DEF IndInv, DueInv
  <2> QED
    BY <1>1, <1>2, <2>1, <2>2, <2>4, <2>5, ReceiptWrite
<1>4. ASSUME NEW o \in Ops, ResultLeaseExpires(o)
      PROVE  IndInv'
  <2> DEFINE row == [op[o] EXCEPT !.live = FALSE]
  <2>1. op' = [op EXCEPT ![o] = row] /\ UNCHANGED receipt /\ op[o].live
    BY <1>4 DEF ResultLeaseExpires
  <2>2. /\ row \in OpRow /\ row.status = op[o].status /\ row.job = op[o].job
        /\ row.response = op[o].response
    BY <1>1 DEF OpRow
  <2> HIDE DEF row
  <2>3. MappedRow(o, row) /\ (row.job = o \/ o \in misnamed) /\ misnamed \subseteq Ops
    BY <1>1, <2>1, <2>2 DEF IndInv, MappingInv, MappedRow, TypeOK
  <2>4. row.status \in Terminal => TrueOutcome(row.job, row.status, row.response)
    BY <2>2 DEF IndInv, EndInv
  <2>5. o \in due' => row.status = "accepted"
    BY <1>1, <2>2
  <2> QED
    BY <1>1, <1>2, <2>1, <2>2, <2>3, <2>4, <2>5, OperationWrite
<1> QED
  BY <1>3, <1>4

-----------------------------------------------------------------------------
\* get_job: a document the client accepts for job j, although the gateway may
\* answer with another one, tells how the job really ended, or that it has not.
LEMMA DocumentTellsOutcome ==
    ASSUME IndInv, NEW j \in Jobs, job[j] # "none",
           NEW doc \in {JobDocument(j)} \cup WrongDocuments(j),
           ValidJob(kind[j], j, doc),
           kind[j] = "execution" => ValidateExecutionIdentity(doc, "machine", "generation"),
           doc.status \notin Pending(kind[j])
    PROVE  /\ doc.status \in Terminal
           /\ TrueOutcome(j, doc.status, IF kind[j] = "execution" /\ doc.response # Null
                                           THEN doc.response.request ELSE Null)
<1> DEFINE true == JobDocument(j)
           response == [typed |-> TRUE, version |-> ProtocolVersion, request |-> j,
                        generation |-> "generation", succeeded |-> job[j] = "succeeded"]
<1>1. /\ kind[j] \in {"llm", "execution"} /\ job[j] \in {"running"} \cup Ends(kind[j])
      /\ Other(j) \in Jobs /\ Other(j) # j
  <2>1. \E x : x \in Jobs \ {j}
    BY DeliveryAssumption DEF Jobs
  <2> QED
    BY <2>1 DEF IndInv, ReceiptsSettleRightly, TypeOK, JobInv, Other
<1>2. /\ true.id = j
      /\ true.status = IF job[j] # "running" THEN StatusOf(job[j])
                       ELSE IF kind[j] = "execution" THEN "waiting_response" ELSE "running"
      /\ true.response = IF job[j] \notin {"succeeded", "failed"} THEN Null ELSE response
      /\ true.error = IF job[j] \in {"errored", "unknown"} THEN "complete" ELSE Null
      /\ true.machine = IF kind[j] = "execution" THEN "machine" ELSE Null
      /\ true.generation = IF kind[j] = "execution" THEN "generation" ELSE Null
  BY DEF JobDocument
<1> HIDE DEF true, response
<1> DEFINE Goal == /\ doc.status \in Terminal
                   /\ TrueOutcome(j, doc.status, IF kind[j] = "execution" /\ doc.response # Null
                                                   THEN doc.response.request ELSE Null)
<1>3. /\ doc # Null /\ doc.id = j /\ doc.status \in Terminal
      /\ doc.status = "succeeded" =>
           /\ doc.response # Null /\ doc.error = Null
           /\ kind[j] = "execution" => ValidateExecutionResponse(j, doc, TRUE)
      /\ doc.status = "failed" =>
           \/ kind[j] = "execution" /\ doc.response # Null
           \/ doc.response = Null /\ doc.error = "complete"
      /\ doc.status \in {"cancelled", "unknown"} => doc.response = Null
  BY DEF ValidJob, OutcomeFits, Statuses, Pending, Terminal, ValidTerminalError
<1>4. "complete" # Null
  BY NullAssumption
<1>5. ASSUME doc.status = true.status, doc.response = true.response,
             doc.error \in {true.error, "incomplete"}
      PROVE  Goal
  <2>1. job[j] \in Ends(kind[j]) /\ doc.status = StatusOf(job[j])
    BY <1>1, <1>2, <1>3, <1>5 DEF Terminal
  <2>2. CASE job[j] \notin {"succeeded", "failed"}
    BY <1>2, <1>3, <1>5, <2>1, <2>2 DEF TrueOutcome
  <2>3. CASE job[j] \in {"succeeded", "failed"}
    <3>1. doc.response = response /\ doc.error # "complete"
      BY <1>2, <1>4, <1>5, <2>3
    <3>2. doc.response # Null
      BY <1>3, <2>1, <2>3, <3>1 DEF StatusOf
    <3>3. doc.response.request = j
      BY <3>1 DEF response
    <3> QED
      BY <1>1, <1>3, <2>1, <2>3, <3>2, <3>3 DEF TrueOutcome
  <2> QED
    BY <2>2, <2>3
<1>6. ASSUME doc.status = "succeeded", doc.response = true.response
      PROVE  Goal
  <2>1. job[j] \in {"succeeded", "failed"} /\ doc.response = response
    BY <1>2, <1>3, <1>6
  <2>2. job[j] = "succeeded"
    <3>1. CASE kind[j] = "execution"
      <4>1. doc.response.succeeded = TRUE
        BY <1>3, <1>6, <3>1 DEF ValidateExecutionResponse
      <4>2. doc.response.succeeded = (job[j] = "succeeded")
        BY <2>1 DEF response
      <4> QED
        BY <4>1, <4>2
    <3>2. CASE kind[j] = "llm"
      BY <1>1, <2>1, <3>2 DEF Ends
    <3> QED
      BY <1>1, <3>1, <3>2
  <2>3. doc.response.request = j
    BY <2>1 DEF response
  <2> QED
    BY <1>1, <1>3, <1>6, <2>2, <2>3 DEF TrueOutcome, StatusOf, Ends, Terminal
<1>7. ASSUME doc.status = true.status, doc.response = Null, doc.error = true.error
      PROVE  Goal
  <2>1. job[j] \in Ends(kind[j]) /\ doc.status = StatusOf(job[j])
    BY <1>1, <1>2, <1>3, <1>7 DEF Terminal
  <2>2. job[j] \notin {"succeeded", "failed"}
    BY <1>2, <1>3, <1>4, <1>7, <2>1 DEF StatusOf
  <2> QED
    BY <1>3, <1>7, <2>1, <2>2 DEF TrueOutcome
<1>8. CASE doc = true
  BY <1>5, <1>8
<1>9. CASE doc \in {Null, ForeignDocument(j)}
  BY <1>1, <1>3, <1>9 DEF ForeignDocument
<1>10. CASE doc \in {[true EXCEPT !.status = x] : x \in {"succeeded", "queued", "unrecognized"}}
  <2>1. PICK x \in {"succeeded", "queued", "unrecognized"} : doc = [true EXCEPT !.status = x]
    BY <1>10
  <2>2. doc.status = x /\ doc.response = true.response
    BY <2>1 DEF true, JobDocument
  <2>3. x = "succeeded"
    BY <1>3, <2>2 DEF Terminal
  <2> QED
    BY <1>6, <2>2, <2>3
<1>11. CASE doc = [true EXCEPT !.error = "incomplete"]
  <2>1. /\ doc.status = true.status /\ doc.response = true.response /\ doc.error = "incomplete"
    BY <1>11 DEF true, JobDocument
  <2> QED
    BY <1>5, <2>1
<1>12. CASE doc = [true EXCEPT !.response = Null]
  <2>1. /\ doc.status = true.status /\ doc.response = Null /\ doc.error = true.error
    BY <1>12 DEF true, JobDocument
  <2> QED
    BY <1>7, <2>1
<1>13. CASE \/ doc \in {[true EXCEPT !.machine = x] : x \in {Null, "other machine"}}
            \/ doc \in {[true EXCEPT !.generation = x] : x \in {Null, "other generation"}}
  <2>1. /\ doc.status = true.status /\ doc.response = true.response /\ doc.error = true.error
    BY <1>13 DEF true, JobDocument
  <2> QED
    BY <1>5, <2>1
<1>14. CASE kind[j] = "execution" /\ doc = [ForeignDocument(j) EXCEPT !.id = j]
  <2>1. doc.status = "succeeded" /\ doc.response.request = Other(j)
    BY <1>14 DEF ForeignDocument
  <2>2. doc.response.request = j
    BY <1>3, <1>14, <2>1 DEF ValidateExecutionResponse
  <2> QED
    BY <1>1, <2>1, <2>2
<1>15. \/ doc = true \/ doc \in {Null, ForeignDocument(j)}
       \/ doc \in {[true EXCEPT !.status = x] : x \in {"succeeded", "queued", "unrecognized"}}
       \/ doc = [true EXCEPT !.error = "incomplete"] \/ doc = [true EXCEPT !.response = Null]
       \/ doc \in {[true EXCEPT !.machine = x] : x \in {Null, "other machine"}}
       \/ doc \in {[true EXCEPT !.generation = x] : x \in {Null, "other generation"}}
       \/ kind[j] = "execution" /\ doc = [ForeignDocument(j) EXCEPT !.id = j]
  BY <1>1, Zenon DEF WrongDocuments, true
<1> QED
  BY <1>8, <1>9, <1>10, <1>11, <1>12, <1>13, <1>14, <1>15

\* process_result_claim: a task completes only with the true outcome.
LEMMA DecidePreserves ==
    ASSUME IndInv, NEW s \in Slots, GetJob(s) \/ GetWrongJob(s)
    PROVE  IndInv'
<1> DEFINE o == slot[s].item
           j == op[o].job
<1>1. /\ o \in Ops /\ op[o].status # "submitting"
      /\ j \in Jobs /\ kind[j] = kind[o] /\ job[j] # "none"
      /\ TypeOK /\ slot \in [Slots -> TaskState] /\ slot[s] \in TaskState
      /\ faults \in 0..MaxFaults
  <2>1. o \in Ops /\ op[o].status # "submitting"
    BY DEF GetJob, GetWrongJob, IndInv, TaskInv, TaskOK
  <2> QED
    BY <2>1 DEF IndInv, MappingInv, ReceiptsSettleRightly, TypeOK
<1>2. /\ UNCHANGED <<kind, job, op, due, receipt, ready, misnamed>>
      /\ faults' \in 0..MaxFaults
  BY <1>1, DeliveryAssumption DEF GetJob, GetWrongJob, Fault
<1>3. PICK doc \in {JobDocument(j)} \cup WrongDocuments(j) : Decide(s, doc)
  BY DEF GetJob, GetWrongJob
<1> DEFINE valid == /\ ValidJob(kind[o], j, doc)
                    /\ kind[o] = "execution" =>
                           ValidateExecutionIdentity(doc, "machine", "generation")
           told == IF kind[o] = "execution" /\ doc.response # Null
                     THEN doc.response.request ELSE Null
           postponed == [slot[s] EXCEPT !.pc = "postpone"]
           completed == [slot[s] EXCEPT !.pc = "complete", !.status = doc.status,
                                        !.response = told]
<1>4. slot' = [slot EXCEPT ![s] = IF ~valid THEN postponed
                                  ELSE IF doc.status \in Pending(kind[o]) THEN postponed
                                  ELSE completed]
  BY <1>3 DEF Decide
<1>5. CASE ~valid \/ doc.status \in Pending(kind[o])
  <2>1. postponed \in TaskState /\ postponed.pc = "postpone" /\ postponed.item = o
    BY <1>1 DEF TaskState
  <2>2. slot' = [slot EXCEPT ![s] = postponed]
    BY <1>4, <1>5
  <2> HIDE DEF postponed
  <2>3. /\ slot' \in [Slots -> TaskState] /\ slot'[s] = postponed
        /\ \A t \in Slots : t # s => slot'[t] = slot[t]
    BY <1>1, <2>1, <2>2
  <2>4. TaskOK(s)'
    BY <1>1, <1>2, <2>1, <2>3 DEF TaskOK
  <2> QED
    BY <1>2, <2>3, <2>4, SlotStep
<1>6. CASE valid /\ doc.status \notin Pending(kind[o])
  <2>1. doc.status \in Terminal /\ TrueOutcome(j, doc.status, told)
    BY <1>1, <1>6, DocumentTellsOutcome
  <2>2. told \in Jobs \cup {Null}
    BY <1>1, <2>1 DEF TrueOutcome
  <2>3. slot' = [slot EXCEPT ![s] = completed]
    BY <1>4, <1>6
  <2> HIDE DEF told
  <2>4. /\ completed \in TaskState /\ completed.pc = "complete" /\ completed.item = o
        /\ completed.status = doc.status /\ completed.response = told
    BY <1>1, <2>1, <2>2 DEF TaskState
  <2> HIDE DEF completed
  <2>5. /\ slot' \in [Slots -> TaskState] /\ slot'[s] = completed
        /\ \A t \in Slots : t # s => slot'[t] = slot[t]
    BY <1>1, <2>3, <2>4
  <2>6. TaskOK(s)'
    BY <1>1, <1>2, <2>1, <2>4, <2>5 DEF TaskOK, TrueOutcome, Ends, StatusOf
  <2> QED
    BY <1>2, <2>5, <2>6, SlotStep
<1> QED
  BY <1>5, <1>6

\* record_operation_pending_result, record_operation_retry
LEMMA PostponePreserves ==
    ASSUME IndInv, NEW s \in Slots, PostponeResult(s)
    PROVE  IndInv'
<1> DEFINE o == slot[s].item
           row == [op[o] EXCEPT !.holder = Null, !.live = FALSE]
<1>1. o \in Ops /\ op[o].status = "accepted"
  BY DEF PostponeResult, ValidResultClaim, IndInv, TaskInv, TaskOK
<1>2. TypeOK /\ op[o] \in OpRow /\ faults \in 0..MaxFaults
  BY <1>1 DEF IndInv, ReceiptsSettleRightly, TypeOK
<1>3. /\ op' = [op EXCEPT ![o] = row] /\ due' = due \ {o} /\ Finish(s)
      /\ UNCHANGED <<kind, job, receipt, ready, misnamed, faults>>
  BY DEF PostponeResult
<1>4. /\ row \in OpRow /\ row.status = "accepted" /\ row.job = op[o].job
  BY <1>1, <1>2 DEF OpRow
<1>5. MappedRow(o, row) /\ (row.job = o \/ o \in misnamed) /\ misnamed \subseteq Ops
  BY <1>1, <1>2, <1>4 DEF IndInv, MappingInv, MappedRow, TypeOK
<1>6. /\ slot' \in [Slots -> TaskState]
      /\ \A t \in Slots : slot'[t] = slot[t] \/ slot'[t].pc = "free"
  BY <1>2, <1>3, FinishedSlot
<1>7. row.status \notin Terminal
  BY <1>4 DEF Terminal
<1> HIDE DEF o, row
<1> QED
  BY <1>1, <1>2, <1>3, <1>4, <1>5, <1>6, <1>7, OperationWrite

\* complete_operation_with_http_status: what the task read is still how the job
\* ended.
LEMMA CompletePreserves ==
    ASSUME IndInv, NEW s \in Slots, CompleteOperation(s)
    PROVE  IndInv'
<1> DEFINE o == slot[s].item
           row == [op[o] EXCEPT !.status = slot[s].status, !.response = slot[s].response,
                                !.holder = Null, !.live = FALSE]
<1>1. /\ o \in Ops /\ op[o].status = "accepted"
      /\ TrueOutcome(op[o].job, slot[s].status, slot[s].response)
  BY DEF CompleteOperation, ValidResultClaim, IndInv, TaskInv, TaskOK
<1>2. TypeOK /\ op[o] \in OpRow /\ slot[s] \in TaskState /\ faults \in 0..MaxFaults
  BY <1>1 DEF IndInv, ReceiptsSettleRightly, TypeOK
<1>3. /\ op' = [op EXCEPT ![o] = row] /\ due' = due \ {o} /\ Finish(s)
      /\ UNCHANGED <<kind, job, receipt, ready, misnamed, faults>>
  BY DEF CompleteOperation
<1>4. slot[s].status \in Terminal /\ slot[s].response \in Jobs \cup {Null}
  BY <1>2 DEF TaskState
<1>5. /\ row \in OpRow /\ row.status = slot[s].status /\ row.response = slot[s].response
      /\ row.job = op[o].job
  BY <1>1, <1>2, <1>4 DEF OpRow
<1>6. MappedRow(o, row) /\ (row.job = o \/ o \in misnamed) /\ misnamed \subseteq Ops
  BY <1>1, <1>2, <1>4, <1>5 DEF IndInv, MappingInv, MappedRow, Terminal, TypeOK
<1>7. /\ slot' \in [Slots -> TaskState]
      /\ \A t \in Slots : slot'[t] = slot[t] \/ slot'[t].pc = "free"
  BY <1>2, <1>3, FinishedSlot
<1>8. TrueOutcome(row.job, row.status, row.response)
  BY <1>1, <1>5
<1> HIDE DEF o, row
<1> QED
  BY <1>1, <1>2, <1>3, <1>5, <1>6, <1>7, <1>8, OperationWrite

-----------------------------------------------------------------------------
\* Every step keeps the invariant.
LEMMA NextPreserves == IndInv /\ [Next]_vars => IndInv'
<1> SUFFICES ASSUME IndInv, [Next]_vars PROVE IndInv'
  OBVIOUS
<1>1. CASE Environment
  BY <1>1, JobPreserves, AcceptancePreserves, DuePreserves, CallbackPreserves, LeasePreserves,
     TaskEndPreserves DEF Environment
<1>2. CASE \E s \in Slots, e \in Jobs : ClaimCallbackReceipt(s, e)
  BY <1>2, ClaimReceiptPreserves
<1>3. CASE \E s \in Slots, o \in Ops : ClaimResult(s, o)
  BY <1>3, ClaimResultPreserves
<1>4. CASE \E s \in Slots : ReceiptStep(s)
  BY <1>4, MatchPreserves, CompleteReceiptPreserves, BlockPreserves, TaskEndPreserves
     DEF ReceiptStep
<1>5. CASE \E s \in Slots : ResultStep(s)
  BY <1>5, DecidePreserves, PostponePreserves, CompletePreserves, TaskEndPreserves
     DEF ResultStep
<1>6. CASE \E s \in Slots : GetWrongJob(s) \/ ResultUnavailable(s) \/ TaskFails(s)
  BY <1>6, DecidePreserves, TaskEndPreserves
<1>7. CASE UNCHANGED vars
  <2>1. UNCHANGED <<kind, job, op, due, receipt, ready, slot, misnamed, faults>>
    BY <1>7 DEF vars
  <2>2. slot \in [Slots -> TaskState] /\ faults \in 0..MaxFaults
    BY DEF IndInv, ReceiptsSettleRightly, TypeOK
  <2> QED
    BY <2>1, <2>2, SlotStep
<1> QED
  BY <1>1, <1>2, <1>3, <1>4, <1>5, <1>6, <1>7 DEF Next

\* The invariant holds in every reachable state.
THEOREM Inductive == Spec => []IndInv
BY InitEstablishes, NextPreserves, PTL DEF Spec

\* Receipts settle rightly, whatever tasks, repeated deliveries and acceptances race
\* for them (match_callback_receipt, block_unmatched_callback_receipt).
THEOREM ReceiptsAreSettledRightly == Spec => []ReceiptsSettleRightly
<1>1. IndInv => ReceiptsSettleRightly
  BY DEF IndInv
<1> QED
  BY <1>1, Inductive, PTL

\* An operation ends as the job it is mapped to has ended, whatever wrong documents its
\* tasks read, and however late; that job is its own, unless its gateway named another
\* one under its submission or its key (finish_submission, get_job,
\* process_result_claim).
THEOREM OutcomesAreAuthoritative == Spec => []OutcomeIsAuthoritative
<1>1. IndInv => OutcomeIsAuthoritative
  BY DEF IndInv, EndInv, MappingInv, TrueOutcome, OutcomeIsAuthoritative, Terminal
<1> QED
  BY <1>1, Inductive, PTL

=============================================================================
