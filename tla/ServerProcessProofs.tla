------------------------ MODULE ServerProcessProofs -------------------------
(***************************************************************************)
(* Proofs about ServerProcess and the CompletionLoop it composes, for      *)
(* every set of receipts and results, every capacity and every bound.      *)
(*                                                                         *)
(* That the loop sleeps through no hint needs what it knows in the middle  *)
(* of a scan (ScanInv), that what it was told of is in the queue it scans  *)
(* (QueueInv, HeardInv) and that room for tasks appears only when a task   *)
(* is to be joined.  That a clean exit is earned needs what each part of   *)
(* the process may still do once it is told to stop (MainInv).             *)
(***************************************************************************)
EXTENDS ServerProcess, FiniteSetTheorems, SequenceTheorems, TLAPS

\* Whatever is due or leased is in the queue.
QueueInv ==
    \A i \in Items : item[i] \in {"due", "leased", "abandoned"} =>
        \E k \in 1..Len(queue) : queue[k] = i

\* The loop forgets a hint when it claims the item.
HeardInv == \A i \in heard : item[i] = "due"

CapacityInv == Workers <= Capacity

SignalInv == loop.observed <= generation

\* No notification and no ended task since the snapshot, and the scan saw all rows.
Undisturbed == loop.observed = generation /\ ended = 0 /\ ~loop.blind

\* Halfway through claim_next, nothing the loop was told of is of the kind it has
\* asked for.
ScanInv ==
    loop.pc = "second" /\ Undisturbed =>
        heard \cap (IF loop.first THEN Receipts ELSE Results) = {}

LoopInv ==
    /\ NoHintSleptThrough
    /\ QueueInv
    /\ HeardInv
    /\ CapacityInv
    /\ SignalInv
    /\ ScanInv

\* run_listener: what success implies; a process that has exited runs no task.
ExitInv ==
    /\ TypeOK
    /\ main.result = "ok" =>
        main.branch = "shutdown" /\ http = "closed" /\ ~open /\ LoopsEnded /\ Leased = {}
    /\ main.result \in {"ok", "worker"} /\ http # "failed" => ~open
    /\ accepting => ~stop

\* run_listener: what each phase and branch imply.
MainInv ==
    /\ ExitInv
    /\ main.pc = "running" <=> ~stop
    /\ main.pc # "exited" => main.result = "none"
    /\ main.pc # "running" => main.branch # "none"
    /\ main.branch = "server" => http = "failed"
    /\ http = "closed" => stop /\ ~open

IndInv == LoopInv /\ MainInv

-----------------------------------------------------------------------------
\* The initial state satisfies the invariant.
LEMMA InitEstablishes == Init => IndInv
<1> SUFFICES ASSUME Init PROVE IndInv
  OBVIOUS
<1>1. Leased = {} /\ ~panicked /\ ended = 0 /\ heard = {}
  BY DEF Init, LoopInit, Leased
<1>2. Workers = 0
  BY <1>1, FS_EmptySet DEF Workers
<1>3. LoopTypeOK
  <2>1. item \in [Items -> {"absent", "due", "leased", "abandoned", "later", "settled"}]
    BY DEF Init, LoopInit
  <2>2. loop \in LoopState
    BY DEF Init, LoopInit, LoopState
  <2>3. queue \in Seq(Items) /\ ended \in 0..Capacity /\ generation \in Nat
    BY LoopAssumption DEF Init, LoopInit
  <2>4. panicked \in BOOLEAN
    BY DEF Init, LoopInit
  <2> QED
    BY <2>1, <2>2, <2>3, <2>4 DEF Init, LoopInit, LoopTypeOK
<1>4. LoopInv
  BY <1>1, <1>2, <1>3, LoopAssumption
     DEF Init, LoopInit, LoopInv, NoHintSleptThrough, QueueInv, HeardInv, CapacityInv, SignalInv,
         ScanInv
<1>5. TypeOK
  <2>1. main \in MainState
    BY DEF Init, MainState
  <2>2. faults \in 0..MaxFaults
    BY ServerAssumption DEF Init
  <2> QED
    BY <2>1, <2>2 DEF Init, TypeOK
<1>6. MainInv
  BY <1>5 DEF Init, MainInv, ExitInv
<1> QED
  BY <1>4, <1>6 DEF IndInv

-----------------------------------------------------------------------------
\* A place in the queue that is before all others of a set exists.
LEMMA FirstPlace ==
    ASSUME NEW n \in Nat, NEW S \in SUBSET (1..n), S # {}
    PROVE  \E k \in S : \A j \in S : k <= j
<1> DEFINE Below(k) == {j \in S : j < k}
           Heads == {Below(k) : k \in S}
<1>1. IsFiniteSet(S)
  <2>1. IsFiniteSet(1..n)
    BY FS_Interval
  <2> QED
    BY <2>1, FS_Subset
<1>2. \A k \in S : Below(k) \in FiniteSubsetsOf(S)
  BY <1>1, FS_FiniteSubsetsOfFinite
<1>3. PICK low \in Heads : \A h \in Heads : ~(<<h, low>> \in StrictSubsetOrdering(S))
  <2>1. Heads \subseteq FiniteSubsetsOf(S) /\ Heads # {}
    BY <1>2
  <2>2. IsWellFoundedOn(StrictSubsetOrdering(S), FiniteSubsetsOf(S))
    BY FS_StrictSubsetOrderingWellFounded
  <2> HIDE DEF Heads
  <2> QED
    BY <2>1, <2>2, WFMin
<1>4. PICK k \in S : low = Below(k)
  OBVIOUS
<1>5. ASSUME NEW j \in S, j < k
      PROVE  FALSE
  <2>1. Below(j) \subseteq Below(k) /\ j \in Below(k) /\ j \notin Below(j)
    <3>1. j \in Nat /\ k \in Nat /\ \A x \in S : x \in Nat
      OBVIOUS
    <3>2. \A x \in S : x < j => x < k
      BY <1>5, <3>1
    <3>3. ~(j < j)
      BY <3>1
    <3> QED
      BY <1>5, <3>2, <3>3
  <2>2. <<Below(j), Below(k)>> \in StrictSubsetOrdering(S)
    <3>1. Below(j) \in SUBSET S /\ Below(k) \in SUBSET S
      OBVIOUS
    <3>2. Below(j) # Below(k)
      BY <2>1
    <3> HIDE DEF Below
    <3> QED
      BY <2>1, <3>1, <3>2 DEF StrictSubsetOrdering
  <2>3. Below(j) \in Heads
    OBVIOUS
  <2> QED
    BY <1>3, <1>4, <2>2, <2>3
<1> QED
  BY <1>5

\* claim_next takes an item of the kind it asks for that is due.
LEMMA FirstIsOpen ==
    ASSUME LoopInv, Open # {}
    PROVE  First \in Items /\ First \in Asked /\ item[First] = "due"
<1>1. queue \in Seq(Items)
  BY DEF LoopInv, NoHintSleptThrough, LoopTypeOK
<1>2. Len(queue) \in Nat /\ Open \in SUBSET (1..Len(queue))
  BY <1>1 DEF Open
<1>3. \E k \in Open : \A j \in Open : k <= j
  BY <1>2, FirstPlace
<1>4. PICK k \in Open : First = queue[k]
  BY <1>3 DEF First
<1> QED
  BY <1>1, <1>2, <1>4 DEF Open

\* When a scan sees no row to claim and none is locked, no hint is of the kind it
\* asked for.
LEMMA NothingHeard ==
    ASSUME LoopInv, Open = {}, locked \cap Asked = {}
    PROVE  heard \cap Asked = {}
<1> SUFFICES ASSUME NEW i \in heard, i \in Asked
             PROVE  FALSE
  OBVIOUS
<1>1. i \in Items /\ item[i] = "due" /\ i \notin locked
  BY DEF LoopInv, NoHintSleptThrough, LoopTypeOK, HeardInv
<1>2. PICK k \in 1..Len(queue) : queue[k] = i
  BY <1>1 DEF LoopInv, QueueInv
<1>3. k \in Open
  BY <1>1, <1>2 DEF Open
<1> QED
  BY <1>3

-----------------------------------------------------------------------------
\* The tasks of the loop are counted one by one.
LEMMA TaskCount ==
    ASSUME NEW S \in SUBSET Items
    PROVE  /\ IsFiniteSet(S) /\ Cardinality(S) \in Nat
           /\ \A x \in Items \ S : Cardinality(S \cup {x}) = Cardinality(S) + 1
           /\ \A x \in S : Cardinality(S \ {x}) = Cardinality(S) - 1
<1>1. IsFiniteSet(Items)
  BY LoopAssumption, FS_Union DEF Items
<1>2. IsFiniteSet(S)
  BY <1>1, FS_Subset
<1> QED
  BY <1>2, FS_CardinalityType, FS_AddElement, FS_RemoveElement

\* The tasks of the loop are finitely many.
LEMMA LeasedFinite == IsFiniteSet(Leased) /\ Cardinality(Leased) \in Nat
<1>1. IsFiniteSet(Items)
  BY LoopAssumption, FS_Union DEF Items
<1> QED
  BY <1>1, FS_Subset, FS_CardinalityType DEF Leased

\* Steps that leave the items, the queue and the tasks alone.
LEMMA QuietStep ==
    ASSUME LoopInv, UNCHANGED <<item, queue, ended, panicked, heard>>,
           locked' \subseteq Items, loop' \in LoopState, generation' \in Nat,
           notes' \subseteq Receipts,
           listener' \in {"connecting", "listening", "ended", "dropped"},
           SignalInv', ScanInv',
           loop'.pc = "wait" /\ Undisturbed' /\ Workers < Capacity => heard = {}
    PROVE  LoopInv'
<1>1. LoopTypeOK'
  BY DEF LoopInv, NoHintSleptThrough, LoopTypeOK
<1>2. Workers' = Workers
  BY DEF Workers, Leased
<1>3. NoHintSleptThrough'
  BY <1>1, <1>2 DEF NoHintSleptThrough, Undisturbed
<1>4. QueueInv' /\ HeardInv' /\ CapacityInv'
  BY <1>2 DEF LoopInv, QueueInv, HeardInv, CapacityInv
<1> QED
  BY <1>3, <1>4 DEF LoopInv

\* The loop's own moves that claim nothing.
LEMMA MovePreserves ==
    ASSUME LoopInv,
           \/ Snapshot \/ FindsNothing \/ CapacityReached \/ ScanFails \/ WaitReturns
           \/ LoopStops
    PROVE  LoopInv'
<1>1. UNCHANGED <<item, queue, locked, ended, panicked, generation, heard, notes, listener>>
  BY DEF Snapshot, FindsNothing, CapacityReached, ScanFails, WaitReturns, LoopStops
<1>2. /\ loop \in LoopState /\ generation \in Nat /\ locked \subseteq Items
      /\ notes \subseteq Receipts
      /\ listener \in {"connecting", "listening", "ended", "dropped"}
      /\ loop.observed \in Nat /\ loop.first \in BOOLEAN /\ loop.blind \in BOOLEAN
      /\ loop.observed <= generation
  BY DEF LoopInv, NoHintSleptThrough, LoopTypeOK, SignalInv, LoopState
<1>3. CASE Snapshot
  <2> DEFINE l == [loop EXCEPT !.pc = "scan", !.observed = generation, !.blind = FALSE]
  <2>1. l \in LoopState /\ l.pc = "scan" /\ l.observed = generation
    BY <1>2 DEF LoopState
  <2>2. loop' = l
    BY <1>3 DEF Snapshot
  <2> HIDE DEF l
  <2>3. SignalInv' /\ ScanInv'
    BY <1>1, <1>2, <2>1, <2>2 DEF SignalInv, ScanInv
  <2> QED
    BY <1>1, <1>2, <2>1, <2>2, <2>3, QuietStep
<1>4. ASSUME NEW pc \in {"top", "drain"}, loop' = [loop EXCEPT !.pc = pc]
      PROVE  LoopInv'
  <2>1. loop' \in LoopState /\ loop'.pc = pc /\ loop'.observed = loop.observed
    BY <1>2, <1>4 DEF LoopState
  <2>2. SignalInv' /\ ScanInv'
    BY <1>1, <1>2, <2>1 DEF SignalInv, ScanInv
  <2> QED
    BY <1>1, <1>2, <2>1, <2>2, QuietStep
<1>5. CASE CapacityReached
  <2>1. loop' = [loop EXCEPT !.pc = "wait"] /\ Workers >= Capacity
    BY <1>5 DEF CapacityReached
  <2>2. loop' \in LoopState /\ loop'.pc = "wait" /\ loop'.observed = loop.observed
    BY <1>2, <2>1 DEF LoopState
  <2>3. SignalInv' /\ ScanInv'
    BY <1>1, <1>2, <2>2 DEF SignalInv, ScanInv
  <2>4. Workers \in Nat
    BY LeasedFinite DEF Workers, LoopInv, NoHintSleptThrough, LoopTypeOK
  <2>5. ~(Workers < Capacity)
    BY <2>1, <2>4, LoopAssumption
  <2> QED
    BY <1>1, <1>2, <2>2, <2>3, <2>5, QuietStep
<1>6. CASE ScanFails
  <2> DEFINE l == [loop EXCEPT !.pc = "wait", !.first = ~loop.first, !.blind = TRUE]
  <2>1. l \in LoopState /\ l.pc = "wait" /\ l.observed = loop.observed /\ l.blind
    BY <1>2 DEF LoopState
  <2>2. loop' = l
    BY <1>6 DEF ScanFails
  <2> HIDE DEF l
  <2>3. SignalInv' /\ ScanInv' /\ ~Undisturbed'
    BY <1>1, <1>2, <2>1, <2>2 DEF SignalInv, ScanInv, Undisturbed
  <2> QED
    BY <1>1, <1>2, <2>1, <2>2, <2>3, QuietStep
<1>7. CASE FindsNothing
  <2> DEFINE pc == IF loop.pc = "scan" THEN "second" ELSE "wait"
             first == IF loop.pc = "scan" THEN loop.first ELSE ~loop.first
             blind == loop.blind \/ locked \cap Asked # {}
             l == [loop EXCEPT !.pc = pc, !.first = first, !.blind = blind]
  <2>1. pc \in {"second", "wait"} /\ first \in BOOLEAN /\ blind \in BOOLEAN
    BY <1>2
  <2>2. loop' = l /\ Open = {} /\ loop.pc \in {"scan", "second"}
    BY <1>7 DEF FindsNothing, Scanning
  <2>3. ~blind => ~loop.blind /\ heard \cap Asked = {}
    BY <2>2, NothingHeard
  <2> HIDE DEF blind
  <2>4. /\ l \in LoopState /\ l.pc = pc /\ l.first = first /\ l.blind = blind
        /\ l.observed = loop.observed
    <3> HIDE DEF pc, first
    <3> QED
      BY <1>2, <2>1 DEF LoopState
  <2> HIDE DEF l
  <2>5. SignalInv'
    BY <1>1, <1>2, <2>2, <2>4 DEF SignalInv
  <2>6. Undisturbed' => Undisturbed /\ heard \cap Asked = {}
    BY <1>1, <2>2, <2>3, <2>4 DEF Undisturbed
  <2>7. ScanInv'
    <3> SUFFICES ASSUME loop'.pc = "second", Undisturbed'
                 PROVE  heard \cap (IF loop'.first THEN Receipts ELSE Results) = {}
      BY <1>1 DEF ScanInv
    <3>1. loop.pc = "scan" /\ loop'.first = loop.first
      BY <2>2, <2>4
    <3>2. Asked = IF loop.first THEN Receipts ELSE Results
      BY <3>1 DEF Asked
    <3> QED
      BY <2>6, <3>1, <3>2
  <2>8. loop'.pc = "wait" /\ Undisturbed' => heard = {}
    <3> SUFFICES ASSUME loop'.pc = "wait", Undisturbed'
                 PROVE  heard = {}
      OBVIOUS
    <3>1. loop.pc = "second"
      BY <2>2, <2>4
    <3>2. heard \cap (IF loop.first THEN Receipts ELSE Results) = {}
      BY <2>6, <3>1 DEF LoopInv, ScanInv
    <3>3. Asked = IF loop.first THEN Results ELSE Receipts
      BY <3>1 DEF Asked
    <3>4. heard \subseteq Receipts \cup Results
      BY DEF LoopInv, NoHintSleptThrough, LoopTypeOK, Items
    <3>5. CASE loop.first
      BY <2>6, <3>2, <3>3, <3>4, <3>5
    <3>6. CASE ~loop.first
      BY <2>6, <3>2, <3>3, <3>4, <3>6
    <3> QED
      BY <3>5, <3>6
  <2> QED
    BY <1>1, <1>2, <2>2, <2>4, <2>5, <2>7, <2>8, QuietStep
<1> QED
  BY <1>3, <1>4, <1>5, <1>6, <1>7 DEF WaitReturns, LoopStops

\* Locks on rows, and the listener's connection, are not what the loop was told.
LEMMA OutsidePreserves ==
    ASSUME LoopInv,
           \/ \E i \in Items : RowLocked(i) \/ RowUnlocked(i)
           \/ ListenerConnects \/ ListenerDisconnects \/ ListenerStops
    PROVE  LoopInv'
<1>1. UNCHANGED <<item, queue, loop, ended, panicked, generation, heard>>
  BY DEF RowLocked, RowUnlocked, ListenerConnects, ListenerDisconnects, ListenerStops
<1>2. /\ locked' \subseteq Items /\ notes' \subseteq Receipts
      /\ listener' \in {"connecting", "listening", "ended", "dropped"}
      /\ loop \in LoopState /\ generation \in Nat
  BY DEF LoopInv, NoHintSleptThrough, LoopTypeOK, RowLocked, RowUnlocked, ListenerConnects,
         ListenerDisconnects, ListenerStops
<1>3. SignalInv' /\ ScanInv' /\ Undisturbed' = Undisturbed
  BY <1>1 DEF LoopInv, SignalInv, ScanInv, Undisturbed
<1>4. loop.pc = "wait" /\ Undisturbed /\ Workers < Capacity => heard = {}
  BY DEF LoopInv, NoHintSleptThrough, Undisturbed
<1> QED
  BY <1>1, <1>2, <1>3, <1>4, QuietStep

-----------------------------------------------------------------------------
\* The items in the queue.
Queued(q) == {i \in Items : \E k \in 1..Len(q) : q[k] = i}

\* An item that comes due takes the last place.
LEMMA AppendQueues ==
    ASSUME NEW q \in Seq(Items), NEW i \in Items
    PROVE  Append(q, i) \in Seq(Items) /\ Queued(Append(q, i)) = Queued(q) \cup {i}
<1> DEFINE r == Append(q, i)
<1>1. /\ r \in Seq(Items) /\ Len(q) \in Nat /\ Len(r) = Len(q) + 1
      /\ r[Len(q) + 1] = i /\ \A k \in 1..Len(q) : r[k] = q[k]
  OBVIOUS
<1>2. \A j \in Items : (\E k \in 1..Len(q) : q[k] = j) => \E k \in 1..Len(r) : r[k] = j
  BY <1>1
<1>3. \E k \in 1..Len(r) : r[k] = i
  BY <1>1
<1>4. \A j \in Items : (\E k \in 1..Len(r) : r[k] = j) => j = i \/ \E k \in 1..Len(q) : q[k] = j
  BY <1>1
<1> HIDE DEF r
<1>5. Queued(r) = Queued(q) \cup {i}
  BY <1>2, <1>3, <1>4 DEF Queued
<1> QED
  BY <1>1, <1>5 DEF r

\* An item that leaves its place disturbs no other.
LEMMA WithoutQueues ==
    ASSUME queue \in Seq(Items), NEW i \in Queued(queue)
    PROVE  Without(i) \in Seq(Items) /\ Queued(queue) \subseteq Queued(Without(i)) \cup {i}
<1> DEFINE k == CHOOSE k \in 1..Len(queue) : queue[k] = i
           n == Len(queue)
           w == Without(i)
<1>1. k \in 1..n /\ queue[k] = i /\ n \in Nat
  BY DEF Queued
<1>2. w = SubSeq(queue, 1, k - 1) \o SubSeq(queue, k + 1, n)
  BY DEF Without
<1> HIDE DEF k
<1>3. /\ SubSeq(queue, 1, k - 1) \in Seq(Items) /\ Len(SubSeq(queue, 1, k - 1)) = k - 1
      /\ SubSeq(queue, k + 1, n) \in Seq(Items) /\ Len(SubSeq(queue, k + 1, n)) = n - k
      /\ \A j \in 1..(k - 1) : SubSeq(queue, 1, k - 1)[j] = queue[j]
      /\ \A j \in 1..(n - k) : SubSeq(queue, k + 1, n)[j] = queue[k + j]
  BY <1>1
<1>4. /\ w \in Seq(Items) /\ Len(w) = n - 1
      /\ \A j \in 1..(k - 1) : w[j] = queue[j]
      /\ \A j \in (k + 1)..n : w[j - 1] = queue[j]
  <2> DEFINE a == SubSeq(queue, 1, k - 1)
             b == SubSeq(queue, k + 1, n)
  <2>1. /\ a \in Seq(Items) /\ b \in Seq(Items) /\ Len(a) = k - 1 /\ Len(b) = n - k
        /\ \A j \in 1..(k - 1) : a[j] = queue[j]
        /\ \A j \in 1..(n - k) : b[j] = queue[k + j]
        /\ w = a \o b
    BY <1>2, <1>3
  <2> HIDE DEF a, b, w, n
  <2>2. /\ w \in Seq(Items) /\ Len(w) = Len(a) + Len(b)
        /\ \A j \in 1..Len(a) : w[j] = a[j]
        /\ \A j \in 1..Len(b) : w[Len(a) + j] = b[j]
    <3>1. /\ w \in Seq(Items) /\ Len(w) = Len(a) + Len(b)
          /\ \A j \in 1..Len(a) + Len(b) : w[j] = IF j <= Len(a) THEN a[j] ELSE b[j - Len(a)]
      BY <2>1, ConcatProperties
    <3>2. Len(a) \in Nat /\ Len(b) \in Nat
      BY <2>1
    <3>3. ASSUME NEW j \in 1..Len(b)
          PROVE  w[Len(a) + j] = b[j]
      <4>1. /\ Len(a) + j \in 1..Len(a) + Len(b) /\ ~(Len(a) + j <= Len(a))
            /\ (Len(a) + j) - Len(a) = j
        BY <3>2, <3>3
      <4> QED
        BY <3>1, <4>1
    <3>4. ASSUME NEW j \in 1..Len(a)
          PROVE  w[j] = a[j]
      <4>1. j \in 1..Len(a) + Len(b) /\ j <= Len(a)
        BY <3>2, <3>4
      <4> QED
        BY <3>1, <4>1
    <3> QED
      BY <3>1, <3>3, <3>4
  <2>3. ASSUME NEW j \in (k + 1)..n
        PROVE  w[j - 1] = queue[j]
    <3>1. j - k \in 1..(n - k) /\ (k - 1) + (j - k) = j - 1 /\ k + (j - k) = j
      BY <1>1, <2>3
    <3>2. w[(k - 1) + (j - k)] = b[j - k] /\ b[j - k] = queue[k + (j - k)]
      BY <2>1, <2>2, <3>1
    <3> QED
      BY <3>1, <3>2
  <2>4. \A j \in 1..(k - 1) : w[j] = queue[j]
    BY <2>1, <2>2
  <2>5. Len(w) = n - 1
    BY <1>1, <2>1, <2>2
  <2> QED
    BY <2>2, <2>3, <2>4, <2>5
<1> HIDE DEF w
<1>5. ASSUME NEW x \in Queued(queue), x # i
      PROVE  x \in Queued(w)
  <2>1. PICK j \in 1..n : queue[j] = x
    BY DEF Queued
  <2>2. j # k
    BY <1>1, <1>5, <2>1
  <2>3. \E m \in 1..(n - 1) : w[m] = x
    <3>1. CASE j < k
      BY <1>1, <1>4, <2>1, <3>1
    <3>2. CASE j > k
      BY <1>1, <1>4, <2>1, <3>2
    <3> QED
      BY <1>1, <2>1, <2>2, <3>1, <3>2
  <2> QED
    BY <1>4, <2>3 DEF Queued
<1> QED
  BY <1>4, <1>5 DEF w

\* Steps that write items, their queue or their tasks, and stay awake.
LEMMA ItemStep ==
    ASSUME LoopInv,
           item' \in [Items -> {"absent", "due", "leased", "abandoned", "later", "settled"}],
           queue' \in Seq(Items), UNCHANGED locked, loop' \in LoopState,
           ended' \in Nat, panicked' \in BOOLEAN, generation' \in Nat,
           heard' \subseteq Items, notes' \subseteq Receipts,
           listener' \in {"connecting", "listening", "ended", "dropped"},
           \A i \in Items : item'[i] \in {"due", "leased", "abandoned"} => i \in Queued(queue'),
           HeardInv', CapacityInv', SignalInv', ScanInv',
           loop'.pc = "wait" /\ Undisturbed' /\ Workers' < Capacity => heard' = {}
    PROVE  LoopInv'
<1>1. ended' \in 0..Capacity
  <2>1. Cardinality(Leased') \in Nat
    BY TaskCount DEF Leased
  <2> QED
    BY <2>1, LoopAssumption DEF CapacityInv, Workers
<1>2. LoopTypeOK'
  BY <1>1 DEF LoopInv, NoHintSleptThrough, LoopTypeOK
<1>3. NoHintSleptThrough'
  BY <1>2 DEF NoHintSleptThrough, Undisturbed
<1>4. QueueInv'
  BY DEF QueueInv, Queued
<1> QED
  BY <1>3, <1>4 DEF LoopInv


-----------------------------------------------------------------------------
\* What the invariant says of the state's parts.
LEMMA LoopTypes ==
    ASSUME LoopInv
    PROVE  /\ item \in [Items -> {"absent", "due", "leased", "abandoned", "later", "settled"}]
           /\ queue \in Seq(Items) /\ locked \subseteq Items
           /\ loop \in LoopState /\ loop.observed \in Nat /\ loop.observed <= generation
           /\ loop.first \in BOOLEAN /\ loop.blind \in BOOLEAN
           /\ ended \in Nat /\ panicked \in BOOLEAN /\ generation \in Nat
           /\ heard \subseteq Items /\ notes \subseteq Receipts
           /\ listener \in {"connecting", "listening", "ended", "dropped"}
           /\ Workers \in Nat /\ Workers <= Capacity
           /\ \A i \in Items :
                item[i] \in {"due", "leased", "abandoned"} => i \in Queued(queue)
<1>1. LoopTypeOK
  BY DEF LoopInv, NoHintSleptThrough
<1>2. ended \in Nat
  BY <1>1, LoopAssumption DEF LoopTypeOK
<1>3. Workers \in Nat
  BY <1>2, LeasedFinite DEF Workers
<1>4. loop.observed \in Nat /\ loop.first \in BOOLEAN /\ loop.blind \in BOOLEAN
  BY <1>1 DEF LoopTypeOK, LoopState
<1>5. \A i \in Items : item[i] \in {"due", "leased", "abandoned"} => i \in Queued(queue)
  BY DEF LoopInv, QueueInv, Queued
<1> QED
  BY <1>1, <1>2, <1>3, <1>4, <1>5 DEF LoopTypeOK, LoopInv, SignalInv, CapacityInv

\* A claim takes a free place among the tasks, and forgets the hint.
LEMMA ClaimPreserves ==
    ASSUME LoopInv, ClaimNext \/ LoopStopsInClaim
    PROVE  LoopInv'
<1>1. /\ UNCHANGED <<queue, locked, ended, panicked, generation, notes, listener>>
      /\ heard' = heard \ {First} /\ Open # {} /\ Workers < Capacity
  BY DEF ClaimNext, LoopStopsInClaim, Scanning
<1>2. First \in Items /\ item[First] = "due"
  BY <1>1, FirstIsOpen
<1>3. PICK m \in {"leased", "abandoned"} : item' = [item EXCEPT ![First] = m]
  BY DEF ClaimNext, LoopStopsInClaim
<1> DEFINE f == First
<1>4. /\ f \in Items /\ item[f] = "due" /\ item' = [item EXCEPT ![f] = m]
      /\ heard' = heard \ {f}
  BY <1>1, <1>2, <1>3
<1> HIDE DEF f
<1>5. loop' \in LoopState /\ loop'.pc \in {"scan", "drain"} /\ loop'.observed = loop.observed
  <2>1. CASE ClaimNext
    <3>1. loop' = [loop EXCEPT !.pc = "scan", !.first = ~loop.first]
      BY <2>1 DEF ClaimNext
    <3> QED
      BY <3>1, LoopTypes DEF LoopState
  <2>2. CASE LoopStopsInClaim
    <3>1. loop' = [loop EXCEPT !.pc = "drain"]
      BY <2>2 DEF LoopStopsInClaim
    <3> QED
      BY <3>1, LoopTypes DEF LoopState
  <2> QED
    BY <2>1, <2>2
<1>6. Leased' = Leased \/ Leased' = Leased \cup {f}
  BY <1>4, LoopTypes DEF Leased
<1>7. CapacityInv'
  <2>1. Leased \in SUBSET Items /\ f \notin Leased
    BY <1>4 DEF Leased
  <2>2. Cardinality(Leased') <= Cardinality(Leased) + 1 /\ Cardinality(Leased') \in Nat
    BY <1>4, <1>6, <2>1, TaskCount
  <2>3. Cardinality(Leased) \in Nat
    BY LeasedFinite
  <2> DEFINE p == IF panicked THEN 1 ELSE 0
  <2>4. Workers = Cardinality(Leased) + ended + p /\ Workers' = Cardinality(Leased') + ended + p
    BY <1>1 DEF Workers
  <2>5. p \in Nat /\ ended \in Nat
    BY LoopTypes
  <2> HIDE DEF p
  <2>6. Workers' <= Capacity
    BY <1>1, <2>2, <2>3, <2>4, <2>5, LoopAssumption
  <2> QED
    BY <2>6 DEF CapacityInv
<1>8. HeardInv'
  BY <1>4, LoopTypes DEF LoopInv, HeardInv
<1>9. SignalInv' /\ ScanInv'
  BY <1>1, <1>5, LoopTypes DEF SignalInv, ScanInv
<1>10. \A i \in Items : item'[i] \in {"due", "leased", "abandoned"} => i \in Queued(queue')
  BY <1>1, <1>4, LoopTypes
<1>11. /\ item' \in [Items -> {"absent", "due", "leased", "abandoned", "later", "settled"}]
       /\ heard' \subseteq Items
  BY <1>4, LoopTypes
<1> QED
  BY <1>1, <1>5, <1>7, <1>8, <1>9, <1>10, <1>11, LoopTypes, ItemStep

\* An item comes due: the loop is told of it later, if at all.
LEMMA DuePreserves ==
    ASSUME LoopInv, NEW i \in Items,
           (i \in Receipts /\ ReceiptArrives(i)) \/ ComesDue(i) \/ LeaseExpires(i)
    PROVE  LoopInv'
<1>1. /\ UNCHANGED <<locked, loop, ended, panicked, generation, heard, listener>>
      /\ item[i] \in {"absent", "later", "abandoned"}
      /\ item' = [item EXCEPT ![i] = "due"]
      /\ notes' \subseteq notes \cup {i}
      /\ i \notin Receipts => notes' = notes
      /\ queue' = Append(queue, i) \/ (queue' = queue /\ item[i] = "abandoned")
  BY DEF ReceiptArrives, ComesDue, LeaseExpires
<1>2. notes' \subseteq Receipts
  BY <1>1, LoopTypes
<1>3. queue' \in Seq(Items) /\ Queued(queue') = Queued(queue) \cup {i}
  <2>1. CASE queue' = Append(queue, i)
    BY <2>1, AppendQueues, LoopTypes
  <2>2. CASE queue' = queue /\ item[i] = "abandoned"
    BY <2>2, LoopTypes
  <2> QED
    BY <1>1, <2>1, <2>2
<1>4. Leased' = Leased
  BY <1>1, LoopTypes DEF Leased
<1>5. Workers' = Workers
  BY <1>1, <1>4 DEF Workers
<1>6. CapacityInv' /\ SignalInv' /\ ScanInv'
  BY <1>1, <1>5 DEF LoopInv, CapacityInv, SignalInv, ScanInv, Undisturbed
<1>7. HeardInv'
  BY <1>1, LoopTypes DEF LoopInv, HeardInv
<1>8. loop'.pc = "wait" /\ Undisturbed' /\ Workers' < Capacity => heard' = {}
  BY <1>1, <1>5 DEF LoopInv, NoHintSleptThrough, Undisturbed
<1>9. \A j \in Items : item'[j] \in {"due", "leased", "abandoned"} => j \in Queued(queue')
  BY <1>1, <1>3, LoopTypes
<1>10. item' \in [Items -> {"absent", "due", "leased", "abandoned", "later", "settled"}]
  BY <1>1, LoopTypes
<1> QED
  BY <1>1, <1>2, <1>3, <1>6, <1>7, <1>8, <1>9, <1>10, LoopTypes, ItemStep

\* A notification moves the generation past the loop's snapshot.
LEMMA NotifyPreserves ==
    ASSUME LoopInv, NEW e \in Receipts, Notify(e)
    PROVE  LoopInv'
<1>1. /\ UNCHANGED <<item, queue, locked, loop, ended, panicked, listener>>
      /\ notes' = notes \ {e} /\ generation' = generation + 1
      /\ heard' = IF item[e] = "due" THEN heard \cup {e} ELSE heard
  BY DEF Notify
<1>2. generation' \in Nat /\ loop.observed < generation'
  BY <1>1, LoopTypes
<1>3. SignalInv' /\ ~Undisturbed'
  BY <1>1, <1>2, LoopTypes DEF SignalInv, Undisturbed
<1>4. HeardInv' /\ heard' \subseteq Items
  BY <1>1, LoopTypes DEF LoopInv, HeardInv, Items
<1>5. CapacityInv'
  BY <1>1 DEF LoopInv, CapacityInv, Workers, Leased
<1>6. ScanInv'
  BY <1>3 DEF ScanInv
<1>7. notes' \subseteq Receipts
  BY <1>1, LoopTypes
<1>8. \A j \in Items : item'[j] \in {"due", "leased", "abandoned"} => j \in Queued(queue')
  BY <1>1, LoopTypes
<1> QED
  BY <1>1, <1>2, <1>3, <1>4, <1>5, <1>6, <1>7, <1>8, LoopTypes, ItemStep

\* Joining a task sends the loop back to its snapshot.
LEMMA JoinPreserves ==
    ASSUME LoopInv, JoinTask
    PROVE  LoopInv'
<1>1. /\ UNCHANGED <<item, queue, locked, panicked, generation, heard, notes, listener>>
      /\ ended > 0 /\ ended' = ended - 1 /\ loop' = [loop EXCEPT !.pc = "top"]
  BY DEF JoinTask
<1>2. loop' \in LoopState /\ loop'.pc = "top" /\ loop'.observed = loop.observed
  BY <1>1, LoopTypes DEF LoopState
<1>3. ended' \in Nat
  BY <1>1, LoopTypes
<1>4. CapacityInv'
  <2> DEFINE p == IF panicked THEN 1 ELSE 0
  <2>1. Leased' = Leased
    BY <1>1 DEF Leased
  <2>2. Workers = Cardinality(Leased) + ended + p /\ Workers' = Cardinality(Leased) + ended' + p
    BY <1>1, <2>1 DEF Workers
  <2>3. p \in Nat /\ ended \in Nat /\ Cardinality(Leased) \in Nat
    BY LoopTypes, LeasedFinite
  <2> HIDE DEF p
  <2>4. Workers' <= Capacity
    BY <1>1, <2>2, <2>3, LoopTypes, LoopAssumption
  <2> QED
    BY <2>4 DEF CapacityInv
<1>5. HeardInv' /\ SignalInv' /\ ScanInv'
  BY <1>1, <1>2, LoopTypes DEF LoopInv, HeardInv, SignalInv, ScanInv
<1>6. \A j \in Items : item'[j] \in {"due", "leased", "abandoned"} => j \in Queued(queue')
  BY <1>1, LoopTypes
<1> QED
  BY <1>1, <1>2, <1>3, <1>4, <1>5, <1>6, LoopTypes, ItemStep

\* A loop that is over has no task, and nothing it was told of.
LEMMA FinishPreserves ==
    ASSUME LoopInv, NEW pc \in Finished, Finish(pc), notes' \subseteq Receipts,
           listener' \in {"connecting", "listening", "ended", "dropped"}
    PROVE  LoopInv' /\ Leased' = {} /\ loop'.pc = pc
<1>1. /\ UNCHANGED <<queue, locked, generation>>
      /\ ended' = 0 /\ panicked' = FALSE /\ heard' = {}
      /\ item' = [i \in Items |-> IF item[i] = "leased" THEN "abandoned" ELSE item[i]]
  BY DEF Finish
<1>2. loop' \in LoopState /\ loop'.pc = pc /\ loop'.observed = 0
  BY DEF Finish, LoopState, Finished
<1>3. Leased' = {}
  BY <1>1, LoopTypes DEF Leased
<1>4. CapacityInv'
  <2>1. Workers' = 0
    BY <1>1, <1>3, FS_EmptySet DEF Workers
  <2> QED
    BY <2>1, LoopAssumption DEF CapacityInv
<1>5. HeardInv' /\ SignalInv' /\ ScanInv'
  BY <1>1, <1>2, LoopTypes DEF HeardInv, SignalInv, ScanInv, Finished
<1>6. \A j \in Items : item'[j] \in {"due", "leased", "abandoned"} => j \in Queued(queue')
  BY <1>1, LoopTypes
<1>7. item' \in [Items -> {"absent", "due", "leased", "abandoned", "later", "settled"}]
  BY <1>1, LoopTypes
<1>8. LoopInv'
  BY <1>1, <1>2, <1>4, <1>5, <1>6, <1>7, LoopTypes, ItemStep
<1> QED
  BY <1>2, <1>3, <1>8

\* A task that ends keeps its place among the tasks until it is joined.
LEMMA TaskEndPreserves ==
    ASSUME LoopInv, NEW i \in Items, item[i] = "leased",
           ended' = ended + 1, Leased' = Leased \ {i},
           item' \in [Items -> {"absent", "due", "leased", "abandoned", "later", "settled"}],
           queue' \in Seq(Items), heard' \subseteq Items, HeardInv',
           \A j \in Items : item'[j] \in {"due", "leased", "abandoned"} => j \in Queued(queue'),
           UNCHANGED <<locked, loop, panicked, generation, notes, listener>>
    PROVE  LoopInv'
<1>1. ended' \in Nat /\ ended' # 0
  BY LoopTypes
<1>2. Workers' = Workers
  <2>1. Leased \in SUBSET Items /\ i \in Leased
    BY DEF Leased
  <2>2. Cardinality(Leased') = Cardinality(Leased) - 1
    BY <2>1, TaskCount
  <2> DEFINE p == IF panicked THEN 1 ELSE 0
  <2>3. Workers = Cardinality(Leased) + ended + p /\ Workers' = Cardinality(Leased') + ended' + p
    BY DEF Workers
  <2>4. p \in Nat /\ ended \in Nat /\ Cardinality(Leased) \in Nat
    BY LoopTypes, LeasedFinite
  <2> HIDE DEF p
  <2> QED
    BY <2>2, <2>3, <2>4
<1>3. CapacityInv' /\ SignalInv' /\ ~Undisturbed'
  BY <1>1, <1>2 DEF LoopInv, CapacityInv, SignalInv, Undisturbed
<1>4. ScanInv'
  BY <1>3 DEF ScanInv
<1> QED
  BY <1>1, <1>3, <1>4, LoopTypes, ItemStep

\* The end of a task, with or without a match, and its panic.
LEMMA TaskPreserves ==
    ASSUME LoopInv,
           \/ \E i \in Items : TaskEnds(i) \/ TaskPanics(i)
           \/ \E e \in Receipts, o \in Results : ReceiptMatches(e, o)
    PROVE  LoopInv'
<1>1. ASSUME NEW i \in Items, TaskEnds(i)
      PROVE  LoopInv'
  <2>1. PICK m \in {"settled", "later"} : item' = [item EXCEPT ![i] = m]
    BY <1>1 DEF TaskEnds
  <2>2. /\ UNCHANGED <<locked, loop, panicked, generation, heard, notes, listener>>
        /\ item[i] = "leased" /\ ended' = ended + 1 /\ queue' = Without(i)
    BY <1>1 DEF TaskEnds
  <2>3. Leased' = Leased \ {i}
    BY <2>1, LoopTypes DEF Leased
  <2>4. queue' \in Seq(Items) /\ Queued(queue) \subseteq Queued(queue') \cup {i}
    BY <2>2, LoopTypes, WithoutQueues
  <2>5. HeardInv'
    BY <2>1, <2>2, LoopTypes DEF LoopInv, HeardInv
  <2>6. /\ item' \in [Items -> {"absent", "due", "leased", "abandoned", "later", "settled"}]
        /\ \A j \in Items : item'[j] \in {"due", "leased", "abandoned"} => j \in Queued(queue')
    BY <2>1, <2>4, LoopTypes
  <2> QED
    BY <2>2, <2>3, <2>4, <2>5, <2>6, LoopTypes, TaskEndPreserves
<1>2. ASSUME NEW e \in Receipts, NEW o \in Results, ReceiptMatches(e, o)
      PROVE  LoopInv'
  <2>1. /\ UNCHANGED <<locked, loop, panicked, generation, notes, listener>>
        /\ item[e] = "leased" /\ item[o] = "later" /\ ended' = ended + 1
        /\ item' = [item EXCEPT ![e] = "settled", ![o] = "due"]
        /\ heard' = heard \cup {o} /\ queue' = Append(Without(e), o)
    BY <1>2 DEF ReceiptMatches
  <2>2. e \in Items /\ o \in Items /\ e # o
    BY LoopAssumption DEF Items
  <2>3. Leased' = Leased \ {e}
    BY <2>1, <2>2, LoopTypes DEF Leased
  <2>4. queue' \in Seq(Items) /\ Queued(queue) \cup {o} \subseteq Queued(queue') \cup {e}
    <3>1. Without(e) \in Seq(Items) /\ Queued(queue) \subseteq Queued(Without(e)) \cup {e}
      BY <2>1, <2>2, LoopTypes, WithoutQueues
    <3> QED
      BY <2>1, <2>2, <3>1, AppendQueues
  <2>5. HeardInv' /\ heard' \subseteq Items
    BY <2>1, <2>2, LoopTypes DEF LoopInv, HeardInv
  <2>6. /\ item' \in [Items -> {"absent", "due", "leased", "abandoned", "later", "settled"}]
        /\ \A j \in Items : item'[j] \in {"due", "leased", "abandoned"} => j \in Queued(queue')
    BY <2>1, <2>2, <2>4, LoopTypes
  <2> QED
    BY <2>1, <2>2, <2>3, <2>4, <2>5, <2>6, TaskEndPreserves
<1>3. ASSUME NEW i \in Items, TaskPanics(i)
      PROVE  LoopInv'
  <2>1. /\ UNCHANGED <<queue, locked, loop, ended, generation, heard, notes, listener>>
        /\ item[i] = "leased" /\ ~panicked /\ panicked' = TRUE
        /\ item' = [item EXCEPT ![i] = "abandoned"]
    BY <1>3 DEF TaskPanics
  <2>2. Leased' = Leased \ {i}
    BY <2>1, LoopTypes DEF Leased
  <2>3. Workers' = Workers
    <3>1. Leased \in SUBSET Items /\ i \in Leased
      BY <2>1 DEF Leased
    <3>2. Cardinality(Leased') = Cardinality(Leased) - 1 /\ Cardinality(Leased) \in Nat
      BY <2>2, <3>1, TaskCount
    <3>3. Workers = Cardinality(Leased) + ended + 0 /\ Workers' = Cardinality(Leased') + ended + 1
      BY <2>1 DEF Workers
    <3> QED
      BY <3>2, <3>3, LoopTypes
  <2>4. CapacityInv' /\ SignalInv' /\ ScanInv'
    BY <2>1, <2>3 DEF LoopInv, CapacityInv, SignalInv, ScanInv, Undisturbed
  <2>5. HeardInv'
    BY <2>1, LoopTypes DEF LoopInv, HeardInv
  <2>6. loop'.pc = "wait" /\ Undisturbed' /\ Workers' < Capacity => heard' = {}
    BY <2>1, <2>3 DEF LoopInv, NoHintSleptThrough, Undisturbed
  <2>7. /\ item' \in [Items -> {"absent", "due", "leased", "abandoned", "later", "settled"}]
        /\ \A j \in Items : item'[j] \in {"due", "leased", "abandoned"} => j \in Queued(queue')
    BY <2>1, LoopTypes
  <2>8. panicked' \in BOOLEAN
    BY <2>1
  <2> QED
    BY <2>1, <2>4, <2>5, <2>6, <2>7, <2>8, LoopTypes, ItemStep
<1> QED
  BY <1>1, <1>2, <1>3

-----------------------------------------------------------------------------
\* Dropping the loops keeps the loop's invariant and leaves no task.
LEMMA DropPreserves ==
    ASSUME LoopInv, DropLoop
    PROVE  LoopInv' /\ Leased' = {} /\ (loop.pc \in Finished => loop'.pc = loop.pc)
<1> DEFINE pc == IF loop.pc \in Finished THEN loop.pc ELSE "dropped"
<1>1. pc \in Finished
  BY DEF Finished
<1>2. /\ Finish(pc) /\ notes' \subseteq Receipts
      /\ listener' \in {"connecting", "listening", "ended", "dropped"}
  BY LoopTypes DEF DropLoop
<1>3. LoopInv' /\ Leased' = {} /\ loop'.pc = pc
  BY <1>1, <1>2, FinishPreserves
<1> QED
  BY <1>3

\* Every step of the loop, its listener and its tasks keeps the loop's invariant.
LEMMA LoopPreserves ==
    ASSUME LoopInv, LoopNext \/ WorkArrives \/ LoopFault
    PROVE  LoopInv'
<1>1. CASE LoopNext
  <2>1. CASE LoopStep
    BY <2>1, MovePreserves, ClaimPreserves DEF LoopStep
  <2>2. CASE JoinTask
    BY <2>2, JoinPreserves
  <2>3. CASE JoinPanickedTask
    BY <2>3, FinishPreserves, LoopTypes DEF JoinPanickedTask, Finished
  <2>4. CASE LoopStops
    BY <2>4, MovePreserves
  <2>5. CASE LoopStopsInClaim
    BY <2>5, ClaimPreserves
  <2>6. CASE DrainEnds \/ DrainAborts
    BY <2>6, FinishPreserves, LoopTypes DEF DrainEnds, DrainAborts, Finished
  <2>7. CASE ListenerConnects \/ ListenerStops
    BY <2>7, OutsidePreserves
  <2>8. CASE \E e \in Receipts : Notify(e)
    BY <2>8, NotifyPreserves
  <2>9. CASE \E i \in Items : RowUnlocked(i) \/ TaskEnds(i)
    BY <2>9, OutsidePreserves, TaskPreserves
  <2>10. CASE \E e \in Receipts, o \in Results : ReceiptMatches(e, o)
    BY <2>10, TaskPreserves
  <2> QED
    BY <1>1, <2>1, <2>2, <2>3, <2>4, <2>5, <2>6, <2>7, <2>8, <2>9, <2>10 DEF LoopNext
<1>2. CASE WorkArrives
  <2>1. CASE \E e \in Receipts : ReceiptArrives(e)
    BY <2>1, DuePreserves DEF Items
  <2>2. CASE \E i \in Items : ComesDue(i) \/ LeaseExpires(i)
    BY <2>2, DuePreserves
  <2> QED
    BY <1>2, <2>1, <2>2 DEF WorkArrives
<1>3. CASE LoopFault
  <2>1. CASE ListenerDisconnects \/ \E i \in Items : RowLocked(i)
    BY <2>1, OutsidePreserves
  <2>2. CASE ScanFails
    BY <2>2, MovePreserves
  <2>3. CASE \E i \in Items : TaskPanics(i)
    BY <2>3, TaskPreserves
  <2> QED
    BY <1>3, <2>1, <2>2, <2>3 DEF LoopFault
<1> QED
  BY <1>1, <1>2, <1>3

\* A loop and a listener that have ended do not start again, and leave no task.
LEMMA EndedStays ==
    ASSUME LoopInv, LoopNext, loop.pc = "ended", listener = "ended", Leased = {}
    PROVE  loop'.pc = "ended" /\ listener' = "ended" /\ Leased' = {}
<1>1. \A i \in Items : item[i] # "leased"
  BY DEF Leased
<1>2. PICK i \in Items : RowUnlocked(i)
  <2>1. ~LoopStep /\ ~JoinTask /\ ~JoinPanickedTask
    BY DEF LoopStep, Snapshot, ClaimNext, FindsNothing, CapacityReached, WaitReturns, Scanning,
           JoinTask, JoinPanickedTask
  <2>2. ~LoopStops /\ ~LoopStopsInClaim /\ ~DrainEnds /\ ~DrainAborts /\ ~ListenerConnects /\ ~ListenerStops
    BY DEF LoopStops, LoopStopsInClaim, Scanning, DrainEnds, DrainAborts, ListenerConnects, ListenerStops
  <2>3. \A e \in Receipts : ~Notify(e)
    BY DEF Notify
  <2>4. \A i \in Items : ~TaskEnds(i)
    BY <1>1 DEF TaskEnds
  <2>5. \A e \in Receipts, o \in Results : ~ReceiptMatches(e, o)
    BY <1>1 DEF ReceiptMatches, Items
  <2> QED
    BY <2>1, <2>2, <2>3, <2>4, <2>5 DEF LoopNext
<1> QED
  BY <1>2 DEF RowUnlocked, Leased

-----------------------------------------------------------------------------
\* What the invariant says of the process.
LEMMA MainTypes ==
    ASSUME MainInv
    PROVE  /\ stop \in BOOLEAN /\ accepting \in BOOLEAN /\ open \in BOOLEAN
           /\ main \in MainState /\ main.branch \in {"none", "shutdown", "runtime", "server"}
           /\ http \in {"serving", "closed", "failed"}
           /\ others \in {"running", "ended", "failed", "dropped"} /\ faults \in 0..MaxFaults
  BY DEF MainInv, ExitInv, TypeOK, MainState

\* A fault is counted within its bound.
LEMMA FaultCounted ==
    ASSUME MainInv, Fault \/ UNCHANGED faults
    PROVE  faults' \in 0..MaxFaults
  BY MainTypes, ServerAssumption DEF Fault

\* Steps of the loops before the process has reported success.
LEMMA MainQuiet ==
    ASSUME MainInv, UNCHANGED <<stop, main, accepting, http, open>>,
           others' \in {"running", "ended", "failed", "dropped"}, faults' \in 0..MaxFaults,
           main.result = "ok" => LoopsEnded' /\ Leased' = {}
    PROVE  MainInv'
<1>1. TypeOK'
  BY DEF MainInv, ExitInv, TypeOK
<1>2. main.result = "ok" =>
        main.branch = "shutdown" /\ http = "closed" /\ ~open /\ LoopsEnded' /\ Leased' = {}
  BY DEF MainInv, ExitInv
<1>3. ExitInv'
  BY <1>1, <1>2 DEF MainInv, ExitInv
<1> QED
  BY <1>3 DEF MainInv

\* The loop acts: after a clean exit nothing is left that could.
LEMMA LoopActsPreserves ==
    ASSUME IndInv, LoopActs
    PROVE  IndInv'
<1>1. LoopInv /\ MainInv
  BY DEF IndInv
<1>2. UNCHANGED <<stop, main, accepting, http, open, others>> /\ (Fault \/ UNCHANGED faults)
  BY DEF LoopActs, serverVars
<1>3. LoopInv'
  BY <1>1, LoopPreserves DEF LoopActs
<1>4. main.result = "ok" => LoopsEnded' /\ Leased' = {}
  <2> SUFFICES ASSUME main.result = "ok"
               PROVE  LoopsEnded' /\ Leased' = {}
    OBVIOUS
  <2>1. main.pc = "exited" /\ LoopsEnded /\ Leased = {}
    BY <1>1 DEF MainInv, ExitInv
  <2>2. LoopNext
    BY <2>1 DEF LoopActs, Running
  <2>3. loop'.pc = "ended" /\ listener' = "ended" /\ Leased' = {}
    BY <1>1, <2>1, <2>2, EndedStays DEF LoopsEnded
  <2> QED
    BY <1>2, <2>1, <2>3 DEF LoopsEnded
<1>5. MainInv'
  BY <1>1, <1>2, <1>4, FaultCounted, MainTypes, MainQuiet
<1> QED
  BY <1>3, <1>5 DEF IndInv

\* Steps of the process that leave the loop alone keep its invariant.
LEMMA LoopAlone ==
    ASSUME LoopInv, UNCHANGED loopVars
    PROVE  LoopInv' /\ Leased' = Leased /\ loop' = loop /\ listener' = listener
<1>1. UNCHANGED <<item, queue, locked, loop, ended, panicked, generation, heard, notes, listener>>
  BY DEF loopVars
<1>2. Leased' = Leased
  BY <1>1 DEF Leased
<1>3. Workers' = Workers /\ LoopTypeOK'
  BY <1>1, <1>2 DEF Workers, LoopTypeOK, LoopInv, NoHintSleptThrough
<1>4. NoHintSleptThrough'
  BY <1>1, <1>3 DEF NoHintSleptThrough, LoopInv
<1>5. QueueInv' /\ HeardInv' /\ CapacityInv' /\ SignalInv' /\ ScanInv'
  BY <1>1, <1>3 DEF LoopInv, QueueInv, HeardInv, CapacityInv, SignalInv, ScanInv, Undisturbed
<1> QED
  BY <1>1, <1>2, <1>4, <1>5 DEF LoopInv

\* The HTTP server closes only when told to and with no request under way.
LEMMA HttpPreserves ==
    ASSUME IndInv, RequestOpens \/ RequestCloses \/ HttpCloses \/ HttpFails
    PROVE  IndInv'
<1>1. LoopInv /\ MainInv /\ UNCHANGED loopVars /\ UNCHANGED <<stop, main, accepting, others>>
  BY DEF IndInv, RequestOpens, RequestCloses, HttpCloses, HttpFails
<1>2. LoopInv'
  BY <1>1, LoopAlone
<1>3. main.pc # "exited" /\ main.result = "none" /\ faults' \in 0..MaxFaults
  BY <1>1, FaultCounted
     DEF RequestOpens, RequestCloses, HttpCloses, HttpFails, Running, MainInv
<1>4. \/ http = "serving" /\ http' = http /\ open' = TRUE
      \/ http' = http /\ open' = FALSE
      \/ stop /\ ~open /\ http' = "closed" /\ open' = open /\ http = "serving"
      \/ http' = "failed" /\ open' = open
  BY DEF RequestOpens, RequestCloses, HttpCloses, HttpFails
<1>5. TypeOK'
  <2>1. open' \in BOOLEAN
    BY <1>1, <1>4, MainTypes
  <2>2. http' \in {"serving", "closed", "failed"}
    BY <1>1, <1>4, MainTypes
  <2> QED
    BY <1>1, <1>3, <2>1, <2>2, MainTypes DEF TypeOK
<1>6. main'.branch = "server" => http' = "failed"
  BY <1>1, <1>4 DEF MainInv
<1>7. http' = "closed" => stop' /\ ~open'
  BY <1>1, <1>4 DEF MainInv
<1>8. /\ main'.result = "none" /\ (accepting' => ~stop') /\ (main'.pc = "running" <=> ~stop')
      /\ main'.pc # "running" => main'.branch # "none"
  BY <1>1, <1>3 DEF MainInv, ExitInv
<1>9. MainInv'
  BY <1>5, <1>6, <1>7, <1>8 DEF MainInv, ExitInv
<1> QED
  BY <1>2, <1>9 DEF IndInv

\* The other loops stop or fail, and a failure drops what still runs: a process that
\* has reported success has nothing left that could.
LEMMA RuntimePreserves ==
    ASSUME IndInv, OthersStop \/ OthersFail \/ RuntimeFails
    PROVE  IndInv'
<1>1. LoopInv /\ MainInv /\ UNCHANGED <<stop, main, accepting, http, open>>
  BY DEF IndInv, OthersStop, OthersFail, RuntimeFails
<1>2. LoopInv'
  BY <1>1, LoopAlone, DropPreserves DEF OthersStop, OthersFail, RuntimeFails, DropLoops
<1>3. main.result # "ok"
  <2> SUFFICES ASSUME main.result = "ok"
               PROVE  FALSE
    OBVIOUS
  <2>1. LoopsEnded
    BY <1>1 DEF MainInv, ExitInv
  <2> QED
    BY <2>1 DEF LoopsEnded, LoopsFailed, OthersStop, OthersFail, RuntimeFails
<1>4. /\ others' \in {"running", "ended", "failed", "dropped"}
      /\ Fault \/ UNCHANGED faults
  BY <1>1, MainTypes DEF OthersStop, OthersFail, RuntimeFails, DropLoops
<1>5. MainInv'
  BY <1>1, <1>3, <1>4, FaultCounted, MainQuiet
<1> QED
  BY <1>2, <1>5 DEF IndInv

\* Draining begins once, and refuses new requests.
LEMMA DrainPreserves ==
    ASSUME IndInv, SelectShutdown \/ SelectRuntime \/ SelectServer
    PROVE  IndInv'
<1>1. LoopInv /\ MainInv
  BY DEF IndInv
<1>2. PICK branch \in {"shutdown", "runtime", "server"} :
        /\ Drain(branch)
        /\ branch = "server" => http # "serving"
  BY DEF SelectShutdown, SelectRuntime, SelectServer
<1>3. /\ UNCHANGED loopVars /\ UNCHANGED <<http, open, others, faults>>
      /\ main.pc = "running" /\ accepting' = FALSE /\ stop' = TRUE
      /\ main' = [main EXCEPT !.pc = "draining", !.branch = branch]
  BY <1>2 DEF Drain
<1>4. LoopInv'
  BY <1>1, <1>3, LoopAlone
<1>5. main.result = "none" /\ ~stop
  BY <1>1, <1>3 DEF MainInv
<1>6. /\ main' \in MainState /\ main'.pc = "draining" /\ main'.branch = branch
      /\ main'.result = "none"
  BY <1>1, <1>3, <1>5, MainTypes DEF MainState
<1>7. TypeOK'
  <2>1. stop' \in BOOLEAN /\ accepting' \in BOOLEAN
    BY <1>3
  <2> QED
    BY <1>1, <1>3, <1>6, <2>1, MainTypes DEF TypeOK
<1>8. http # "closed"
  BY <1>1, <1>5 DEF MainInv
<1>9. branch = "server" => http = "failed"
  BY <1>1, <1>2, <1>8, MainTypes
<1>10. ~accepting' /\ stop' /\ http' = http
  BY <1>3
<1>11. ExitInv'
  BY <1>6, <1>7, <1>10 DEF ExitInv
<1>12. MainInv'
  BY <1>6, <1>8, <1>9, <1>10, <1>11 DEF MainInv
<1> QED
  BY <1>4, <1>12 DEF IndInv

\* What run_listener returns has been waited for.
LEMMA ExitPreserves ==
    ASSUME IndInv, DrainCompletes \/ GracePasses
    PROVE  IndInv'
<1>1. LoopInv /\ MainInv
  BY DEF IndInv
<1>2. PICK result \in {"ok", "timed_out", "io", "worker", "runtime_stopped"} :
        /\ Exit(result)
        /\ result # "timed_out" => result = Result(main.branch) /\ Awaited(main.branch)
  BY DEF DrainCompletes, GracePasses, Result
<1>3. /\ UNCHANGED <<stop, accepting, http, open, faults>> /\ DropLoop /\ main.pc = "draining"
      /\ main' = [main EXCEPT !.pc = "exited", !.result = result]
      /\ others' = IF others = "running" THEN "dropped" ELSE others
  BY <1>2 DEF Exit, DropLoops
<1>4. /\ LoopInv' /\ Leased' = {}
      /\ loop.pc \in Finished => loop'.pc = loop.pc
      /\ listener = "ended" => listener' = "ended"
  BY <1>1, <1>3, DropPreserves DEF DropLoop
<1>5. /\ main' \in MainState /\ main'.pc = "exited" /\ main'.branch = main.branch
      /\ main'.result = result
  BY <1>1, <1>3, MainTypes DEF MainState
<1>6. TypeOK'
  <2>1. others' \in {"running", "ended", "failed", "dropped"}
    BY <1>1, <1>3, MainTypes
  <2> QED
    BY <1>1, <1>3, <1>5, <2>1, MainTypes DEF TypeOK
<1>7. stop
  BY <1>1, <1>3 DEF MainInv
<1>8. result \in {"ok", "worker"} /\ http # "failed" => http = "closed" /\ ~open
  <2> SUFFICES ASSUME result \in {"ok", "worker"}, http # "failed"
               PROVE  http = "closed" /\ ~open
    OBVIOUS
  <2>1. main.branch # "server"
    BY <1>1 DEF MainInv
  <2>2. http # "serving"
    BY <1>2, <2>1 DEF Awaited
  <2>3. http = "closed"
    BY <1>1, <2>2, MainTypes
  <2> QED
    BY <1>1, <2>3 DEF MainInv
<1>9. result = "ok" =>
        main.branch = "shutdown" /\ http = "closed" /\ ~open /\ LoopsEnded' /\ Leased' = {}
  <2> SUFFICES ASSUME result = "ok"
               PROVE  /\ main.branch = "shutdown" /\ http = "closed" /\ ~open
                      /\ LoopsEnded' /\ Leased' = {}
    OBVIOUS
  <2>1. Awaited(main.branch) /\ Result(main.branch) = "ok"
    BY <1>2
  <2>2. http # "failed" /\ main.branch # "runtime" /\ ~LoopsFailed
    BY <2>1 DEF Result
  <2>3. http = "closed" /\ ~open
    BY <1>8, <2>2
  <2>4. main.branch \notin {"none", "server"}
    <3>1. main.branch # "server"
      BY <1>1, <2>2 DEF MainInv
    <3> QED
      BY <1>1, <1>3, <3>1 DEF MainInv
  <2>5. LoopsEnded
    BY <2>1, <2>2 DEF Awaited
  <2>6. LoopsEnded'
    BY <1>3, <1>4, <2>5 DEF LoopsEnded, Finished
  <2> QED
    BY <1>1, <1>4, <2>2, <2>3, <2>4, <2>6, MainTypes
<1>10. ExitInv'
  <2>1. accepting' => ~stop'
    BY <1>1, <1>3 DEF MainInv, ExitInv
  <2>2. main'.result = "ok" =>
          main'.branch = "shutdown" /\ http' = "closed" /\ ~open' /\ LoopsEnded' /\ Leased' = {}
    BY <1>3, <1>5, <1>9
  <2>3. main'.result \in {"ok", "worker"} /\ http' # "failed" => ~open'
    BY <1>3, <1>5, <1>8
  <2> QED
    BY <1>6, <2>1, <2>2, <2>3 DEF ExitInv
<1>11. MainInv'
  <2>1. main'.branch = "server" => http' = "failed"
    BY <1>1, <1>3, <1>5 DEF MainInv
  <2>2. http' = "closed" => stop' /\ ~open'
    BY <1>1, <1>3 DEF MainInv
  <2>3. stop' /\ main'.branch # "none"
    BY <1>1, <1>3, <1>5, <1>7 DEF MainInv
  <2> QED
    BY <1>5, <1>10, <2>1, <2>2, <2>3 DEF MainInv
<1> QED
  BY <1>4, <1>11 DEF IndInv

\* Every step of the process keeps the invariant.
LEMMA NextPreserves == IndInv /\ [Next]_vars => IndInv'
<1> SUFFICES ASSUME IndInv, [Next]_vars
             PROVE  IndInv'
  OBVIOUS
<1>1. CASE LoopActs
  BY <1>1, LoopActsPreserves
<1>2. CASE RequestOpens \/ RequestCloses \/ HttpCloses \/ HttpFails
  BY <1>2, HttpPreserves
<1>3. CASE OthersStop \/ OthersFail \/ RuntimeFails
  BY <1>3, RuntimePreserves
<1>4. CASE SelectShutdown \/ SelectRuntime \/ SelectServer
  BY <1>4, DrainPreserves
<1>5. CASE DrainCompletes \/ GracePasses
  BY <1>5, ExitPreserves
<1>6. CASE UNCHANGED vars
  <2>1. /\ LoopInv /\ MainInv /\ UNCHANGED loopVars
        /\ UNCHANGED <<stop, main, accepting, http, open, others, faults>>
    BY <1>6 DEF IndInv, vars, serverVars
  <2>2. LoopInv' /\ Leased' = Leased /\ loop' = loop /\ listener' = listener
    BY <2>1, LoopAlone
  <2>3. main.result = "ok" => LoopsEnded' /\ Leased' = {}
    BY <2>1, <2>2 DEF MainInv, ExitInv, LoopsEnded
  <2>4. MainInv'
    BY <2>1, <2>3, MainTypes, FaultCounted, MainQuiet
  <2> QED
    BY <2>2, <2>4 DEF IndInv
<1> QED
  BY <1>1, <1>2, <1>3, <1>4, <1>5, <1>6 DEF Next, MainStep

-----------------------------------------------------------------------------
\* IndInv holds in every reachable state of the server process
\* (CompletionRuntime::run, claim_next, run_listener).
THEOREM Inductive == Spec => []IndInv
<1>1. Init => IndInv
  BY InitEstablishes
<1>2. IndInv /\ [Next]_vars => IndInv'
  BY NextPreserves
<1> QED
  BY <1>1, <1>2, PTL DEF Spec

\* With any number of receipts and results and any capacity, the completion loop
\* never sleeps on an item it was told of and could claim (run, WorkSignal::wait):
\* the generation read before the scan, and not after it, is what this rests on.
THEOREM HintsAreHeeded == Spec => []NoHintSleptThrough
<1>1. IndInv => NoHintSleptThrough
  BY DEF IndInv, LoopInv
<1> QED
  BY <1>1, Inductive, PTL

\* The tasks of the loop never exceed max_concurrent_results (run).
THEOREM TasksWithinCapacity == Spec => [](Workers <= Capacity)
<1>1. IndInv => Workers <= Capacity
  BY DEF IndInv, LoopInv, CapacityInv
<1> QED
  BY <1>1, Inductive, PTL

\* Success is reported only after a signal, with every admitted request answered and
\* every loop returned by itself; what the tasks aborted by a loop worked on keeps its
\* lease and its place in the queue (run_listener, CompletionRuntime::run).
THEOREM SuccessIsEarned == Spec => []CleanExitIsEarned
<1>1. IndInv => CleanExitIsEarned
  BY DEF IndInv, MainInv, ExitInv, LoopInv, QueueInv, CleanExitIsEarned
<1> QED
  BY <1>1, Inductive, PTL
=============================================================================
