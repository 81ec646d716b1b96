-------------------------- MODULE UpdateLogProofs ---------------------------
(***************************************************************************)
(* Proofs about UpdateLog, for every set of clients, every page and prune  *)
(* batch size and every bound.                                             *)
(*                                                                         *)
(* That a client misses nothing rests on three facts: an update announces  *)
(* no version the session has not reached (LogInv); what a page, a stream  *)
(* and the wire hold continues, without a gap, what comes before it        *)
(* (StreamInv); and a cursor that has not expired lies at or above the     *)
(* floor of the log, so that a page starts right after it (PageContinues). *)
(***************************************************************************)
EXTENDS UpdateLog, FiniteSetTheorems, TLAPS

\* Each transaction emits an update, and no update announces a later version.
LogInv ==
    /\ version <= next
    /\ retained <= next
    /\ \A q \in UpdateSeq : announces[q] <= version

\* The wire holds what was sent and not received, the page continues it.
StreamInv(r) ==
    /\ r.cursor <= r.stream /\ r.stream < next
    /\ r.wire = (r.cursor + 1)..r.stream
    /\ \A q \in r.page : r.stream < q /\ q < next /\ \A p \in (r.stream + 1)..q : p \in r.page

\* What a client's cursor covers it has seen.
RowInv(r) ==
    /\ r.pc \in {"snapshot", "idle", "streaming"} => r.cursor < next /\ r.seen = 1..r.cursor
    /\ r.pc \in {"snapshot", "idle"} => r.page = {} /\ r.wire = {}
    /\ r.pc \in {"idle", "streaming"} => \A q \in 1..r.cursor : r.known >= announces[q]
    /\ r.pc = "streaming" => StreamInv(r)

IndInv == TypeOK /\ LogInv /\ \A c \in Clients : RowInv(client[c])

-----------------------------------------------------------------------------
\* A nonempty bounded set of numbers has a greatest element, so that a cursor can
\* move to the end of a page and a client can know the newest version it met.
LEMMA GreatestExists ==
    ASSUME NEW n \in Nat, NEW S \in SUBSET (0..n), S # {}
    PROVE  \E k \in S : \A j \in S : j <= k
<1> DEFINE Above(k) == {j \in S : k < j}
           Tops == {Above(k) : k \in S}
<1>1. IsFiniteSet(S)
  <2>1. IsFiniteSet(0..n)
    BY FS_Interval
  <2> QED
    BY <2>1, FS_Subset
<1>2. \A k \in S : Above(k) \in FiniteSubsetsOf(S)
  BY <1>1, FS_FiniteSubsetsOfFinite
<1>3. PICK low \in Tops : \A h \in Tops : ~(<<h, low>> \in StrictSubsetOrdering(S))
  <2>1. Tops \subseteq FiniteSubsetsOf(S) /\ Tops # {}
    BY <1>2
  <2>2. IsWellFoundedOn(StrictSubsetOrdering(S), FiniteSubsetsOf(S))
    BY FS_StrictSubsetOrderingWellFounded
  <2> HIDE DEF Tops
  <2> QED
    BY <2>1, <2>2, WFMin
<1>4. PICK k \in S : low = Above(k)
  OBVIOUS
<1>5. ASSUME NEW j \in S, k < j
      PROVE  FALSE
  <2>1. Above(j) \subseteq Above(k) /\ j \in Above(k) /\ j \notin Above(j)
    <3>1. j \in Nat /\ k \in Nat /\ \A x \in S : x \in Nat
      OBVIOUS
    <3>2. \A x \in S : j < x => k < x
      BY <1>5, <3>1
    <3>3. ~(j < j)
      BY <3>1
    <3> QED
      BY <1>5, <3>2, <3>3
  <2>2. <<Above(j), Above(k)>> \in StrictSubsetOrdering(S)
    <3>1. Above(j) \in SUBSET S /\ Above(k) \in SUBSET S
      OBVIOUS
    <3>2. Above(j) # Above(k)
      BY <2>1
    <3> HIDE DEF Above
    <3> QED
      BY <2>1, <3>1, <3>2 DEF StrictSubsetOrdering
  <2>3. Above(j) \in Tops
    OBVIOUS
  <2> QED
    BY <1>3, <1>4, <2>2, <2>3
<1>6. \A j \in S : j <= k
  <2>1. k \in Nat /\ \A x \in S : x \in Nat
    OBVIOUS
  <2> HIDE DEF Above, Tops
  <2> QED
    BY <1>5, <2>1
<1> QED
  BY <1>6

-----------------------------------------------------------------------------
\* What the invariant says of the log and of a client.
LEMMA LogTypes ==
    ASSUME IndInv
    PROVE  /\ version \in Nat /\ next \in Nat /\ retained \in Nat /\ horizon \in Nat
           /\ 1 <= next /\ next <= MaxUpdates + 1 /\ 1 <= retained /\ retained <= next
           /\ log = retained..(next - 1)
           /\ announces \in [UpdateSeq -> Versions]
           /\ \A q \in UpdateSeq : announces[q] \in Nat /\ announces[q] <= version
           /\ version <= next
  BY BoundsAssumption DEF IndInv, TypeOK, LogInv, Versions

\* The fields of a client's record.
LEMMA RowTypes ==
    ASSUME NEW r \in Client
    PROVE  /\ r.pc \in {"new", "snapshot", "idle", "streaming", "resnapshot"}
           /\ r.known \in Nat /\ r.cursor \in Nat /\ r.stream \in Nat
           /\ r.cursor <= MaxUpdates /\ r.stream <= MaxUpdates
           /\ r.known \in Versions
           /\ r.seen \subseteq UpdateSeq /\ r.page \subseteq UpdateSeq
           /\ r.wire \subseteq UpdateSeq
  BY BoundsAssumption DEF Client, Versions

\* The initial state satisfies the invariant.
LEMMA InitEstablishes == Init => IndInv
<1> SUFFICES ASSUME Init PROVE IndInv
  OBVIOUS
<1>1. NewClient \in Client
  BY BoundsAssumption DEF NewClient, Client, Versions, UpdateSeq
<1>2. TypeOK
  <2>1. client \in [Clients -> Client]
    BY <1>1 DEF Init
  <2>2. draining \in BOOLEAN
    BY DEF Init
  <2>3. /\ version \in Versions /\ next \in 1..(MaxUpdates + 1)
        /\ retained \in 1..(MaxUpdates + 1) /\ horizon \in 1..(MaxUpdates + 1)
        /\ faults \in 0..MaxFaults /\ log = retained..(next - 1)
        /\ announces \in [UpdateSeq -> Versions]
    BY BoundsAssumption DEF Init, Versions
  <2> QED
    BY <2>1, <2>2, <2>3 DEF TypeOK
<1>3. LogInv
  BY DEF Init, LogInv
<1>4. \A c \in Clients : RowInv(client[c])
  BY DEF Init, RowInv, NewClient
<1> QED
  BY <1>2, <1>3, <1>4 DEF IndInv

-----------------------------------------------------------------------------
\* A page read with a cursor that has not expired continues it without a gap.
LEMMA PageContinues ==
    ASSUME IndInv, NEW after \in Nat, ~Expired(after)
    PROVE  /\ Page(after) \subseteq UpdateSeq
           /\ \A q \in Page(after) : after < q /\ q < next
           /\ \A q \in Page(after) : \A p \in (after + 1)..q : p \in Page(after)
<1> DEFINE rows == {q \in log : q > after}
           Before(q) == {p \in rows : p < q}
<1>1. /\ next \in Nat /\ retained \in Nat /\ retained <= after + 1 /\ 1 <= retained
      /\ log = retained..(next - 1) /\ next <= MaxUpdates + 1
  BY LogTypes DEF Expired
<1>2. \A q : q \in rows <=> q \in Int /\ after < q /\ q < next
  BY <1>1
<1>3. Page(after) = {q \in rows : Cardinality(Before(q)) < PageSize}
  BY DEF Page
<1>4. IsFiniteSet(rows)
  <2>1. IsFiniteSet(log)
    BY <1>1, FS_Interval
  <2> QED
    BY <2>1, FS_Subset
<1>5. ASSUME NEW q \in Page(after), NEW p \in (after + 1)..q
      PROVE  p \in Page(after)
  <2>1. q \in rows /\ Cardinality(Before(q)) < PageSize
    BY <1>3
  <2>2. q \in Int /\ q < next /\ p \in Int /\ after < p /\ p <= q
    BY <1>2, <2>1
  <2>3. p \in rows
    BY <1>1, <1>2, <2>2
  <2>4. Before(p) \subseteq Before(q)
    <3>1. \A x \in rows : x \in Int
      BY <1>2
    <3>2. \A x \in rows : x < p => x < q
      BY <2>2, <3>1
    <3> HIDE DEF rows
    <3> QED
      BY <3>2
  <2>5. IsFiniteSet(Before(q)) /\ IsFiniteSet(Before(p))
    <3> HIDE DEF rows
    <3> QED
      BY <1>4, FS_Subset
  <2>6. Cardinality(Before(p)) <= Cardinality(Before(q))
    <3> HIDE DEF Before
    <3> QED
      BY <2>4, <2>5, FS_Subset
  <2>7. Cardinality(Before(p)) \in Nat /\ Cardinality(Before(q)) \in Nat
    <3> HIDE DEF Before
    <3> QED
      BY <2>5, FS_CardinalityType
  <2>8. Cardinality(Before(p)) < PageSize
    <3> HIDE DEF Before
    <3> QED
      BY <2>1, <2>6, <2>7, SizesAssumption
  <2> QED
    BY <1>3, <2>3, <2>8
<1>6. \A q \in Page(after) : after < q /\ q < next /\ q \in UpdateSeq
  BY <1>1, <1>2, <1>3, BoundsAssumption DEF UpdateSeq
<1> QED
  BY <1>5, <1>6

\* Having covered the updates in qs, a client has seen what they announce, and its
\* cursor is the last of them.
LEMMA LearnCovers ==
    ASSUME IndInv, NEW r \in Client, NEW qs \in SUBSET UpdateSeq, qs # {}
    PROVE  /\ Learn(r, qs) \in Client
           /\ Learn(r, qs).cursor \in qs /\ \A p \in qs : p <= Learn(r, qs).cursor
           /\ Learn(r, qs).known >= r.known
           /\ \A q \in qs : Learn(r, qs).known >= announces[q]
           /\ Learn(r, qs).seen = r.seen \cup qs
           /\ Learn(r, qs).pc = r.pc /\ Learn(r, qs).stream = r.stream
           /\ Learn(r, qs).page = r.page /\ Learn(r, qs).wire = r.wire
<1> DEFINE top == CHOOSE q \in qs : \A p \in qs : p <= q
           vs == {r.known} \cup {announces[q] : q \in qs}
           v == CHOOSE v \in vs : v >= r.known /\ \A q \in qs : v >= announces[q]
<1>1. top \in qs /\ \A p \in qs : p <= top
  <2>1. qs \in SUBSET (0..MaxUpdates)
    BY DEF UpdateSeq
  <2>2. \E q \in qs : \A p \in qs : p <= q
    BY <2>1, BoundsAssumption, GreatestExists
  <2> QED
    BY <2>2
<1>2. v \in vs /\ v >= r.known /\ \A q \in qs : v >= announces[q]
  <2>1. vs \in SUBSET (0..(MaxUpdates + 1)) /\ vs # {} /\ MaxUpdates + 1 \in Nat
    BY RowTypes, LogTypes, BoundsAssumption DEF Versions
  <2>2. PICK x \in vs : \A y \in vs : y <= x
    <3> HIDE DEF vs
    <3> QED
      BY <2>1, GreatestExists
  <2>3. /\ r.known \in vs /\ \A q \in qs : announces[q] \in vs
        /\ x \in Int /\ \A y \in vs : y \in Int
    BY <2>1
  <2>4. x >= r.known /\ \A q \in qs : x >= announces[q]
    <3> HIDE DEF vs
    <3> QED
      BY <2>2, <2>3
  <2> HIDE DEF vs
  <2> QED
    BY <2>4
<1>3. v \in Versions
  <2>1. vs \subseteq Versions
    BY RowTypes, LogTypes
  <2> HIDE DEF v, vs
  <2> QED
    BY <1>2, <2>1
<1>4. Learn(r, qs) = [r EXCEPT !.cursor = top, !.known = v, !.seen = r.seen \cup qs]
  BY DEF Learn
<1>5. top \in 0..MaxUpdates
  <2>1. qs \subseteq 0..MaxUpdates
    BY BoundsAssumption DEF UpdateSeq
  <2> HIDE DEF top
  <2> QED
    BY <1>1, <2>1
<1> HIDE DEF top, v
<1>6. Learn(r, qs) \in Client
  BY <1>3, <1>4, <1>5 DEF Client
<1> QED
  BY <1>1, <1>2, <1>4, <1>6 DEF Client

-----------------------------------------------------------------------------
\* Steps that change one client only.
LEMMA ClientStep ==
    ASSUME IndInv, NEW c \in Clients, NEW row \in Client, RowInv(row),
           client' = [client EXCEPT ![c] = row], UNCHANGED logVars,
           draining' \in BOOLEAN, faults' \in 0..MaxFaults
    PROVE  IndInv'
<1>1. UNCHANGED <<version, next, retained, log, announces, horizon>>
  BY DEF logVars
<1>2. client \in [Clients -> Client]
  BY DEF IndInv, TypeOK
<1>3. client' \in [Clients -> Client]
  BY <1>2
<1>4. TypeOK'
  BY <1>1, <1>3 DEF IndInv, TypeOK
<1>5. LogInv'
  BY <1>1 DEF IndInv, LogInv
<1>6. ASSUME NEW d \in Clients
      PROVE  RowInv(client'[d])
  BY <1>2 DEF IndInv
<1>7. \A d \in Clients : RowInv(client[d])'
  BY <1>1, <1>6 DEF RowInv, StreamInv
<1> QED
  BY <1>4, <1>5, <1>7 DEF IndInv

\* The invariant gives what is known of a client's record.
LEMMA RowFacts ==
    ASSUME IndInv, NEW c \in Clients
    PROVE  client[c] \in Client /\ RowInv(client[c])
  BY DEF IndInv, TypeOK

\* Writers move the end of the feed: what clients hold lies before it.
LEMMA LogMovesOn ==
    ASSUME IndInv, NEW r \in Client, RowInv(r), next' \in Nat, next <= next',
           \A q \in UpdateSeq : q < next => announces'[q] = announces[q]
    PROVE  /\ r.pc \in {"snapshot", "idle", "streaming"} => r.cursor < next' /\ r.seen = 1..r.cursor
           /\ r.pc \in {"idle", "streaming"} => \A q \in 1..r.cursor : r.known >= announces'[q]
           /\ r.pc = "streaming" =>
                /\ r.stream < next'
                /\ \A q \in r.page : q < next'
<1>1. r.cursor \in Nat /\ r.stream \in Nat /\ next \in Nat /\ r.page \subseteq UpdateSeq
      /\ r.cursor <= MaxUpdates
  BY RowTypes, LogTypes
<1>2. r.pc \in {"snapshot", "idle", "streaming"} => r.cursor < next' /\ r.seen = 1..r.cursor
  BY <1>1 DEF RowInv
<1>3. r.pc \in {"idle", "streaming"} => \A q \in 1..r.cursor : r.known >= announces'[q]
  <2> SUFFICES ASSUME r.pc \in {"idle", "streaming"}, NEW q \in 1..r.cursor
               PROVE  r.known >= announces'[q]
    OBVIOUS
  <2>1. r.known >= announces[q] /\ r.cursor < next
    BY DEF RowInv
  <2>2. q < next /\ q \in UpdateSeq
    BY <1>1, <2>1, BoundsAssumption DEF UpdateSeq
  <2> QED
    BY <2>1, <2>2
<1>4. r.pc = "streaming" => r.stream < next' /\ \A q \in r.page : q < next'
  <2> SUFFICES ASSUME r.pc = "streaming"
               PROVE  r.stream < next' /\ \A q \in r.page : q < next'
    OBVIOUS
  <2>1. r.stream < next /\ \A q \in r.page : q < next
    BY DEF RowInv, StreamInv
  <2>2. \A q \in r.page : q \in Int
    BY <1>1, BoundsAssumption DEF UpdateSeq
  <2> QED
    BY <1>1, <2>1, <2>2
<1> QED
  BY <1>2, <1>3, <1>4

\* Steps that change the log only.
LEMMA LogStep ==
    ASSUME IndInv, UNCHANGED <<client, draining, faults>>,
           version' \in Nat, version' <= next', version <= version',
           next' \in 1..(MaxUpdates + 1), next <= next',
           retained' \in 1..(MaxUpdates + 1), retained' <= next', log' = retained'..(next' - 1),
           announces' \in [UpdateSeq -> Versions], horizon' \in 1..(MaxUpdates + 1),
           \A q \in UpdateSeq : announces'[q] <= version',
           \A q \in UpdateSeq : q < next => announces'[q] = announces[q]
    PROVE  IndInv'
<1>1. TypeOK'
  <2>1. version' \in Versions
    BY BoundsAssumption DEF Versions
  <2> QED
    BY <2>1 DEF IndInv, TypeOK
<1>2. LogInv'
  BY DEF LogInv
<1>3. ASSUME NEW c \in Clients
      PROVE  RowInv(client[c])'
  <2> DEFINE r == client[c]
  <2>1. r \in Client /\ RowInv(r) /\ client'[c] = r
    BY RowFacts
  <2> HIDE DEF r
  <2>2. next' \in Nat
    BY BoundsAssumption
  <2>3. /\ r.pc \in {"snapshot", "idle", "streaming"} => r.cursor < next' /\ r.seen = 1..r.cursor
        /\ r.pc \in {"idle", "streaming"} => \A q \in 1..r.cursor : r.known >= announces'[q]
        /\ r.pc = "streaming" => r.stream < next' /\ \A q \in r.page : q < next'
    BY <2>1, <2>2, LogMovesOn
  <2>4. r.pc \in {"snapshot", "idle"} => r.page = {} /\ r.wire = {}
    BY <2>1 DEF RowInv
  <2>5. r.pc = "streaming" =>
          /\ r.cursor <= r.stream /\ r.stream < next'
          /\ r.wire = (r.cursor + 1)..r.stream
          /\ \A q \in r.page :
                r.stream < q /\ q < next' /\ \A p \in (r.stream + 1)..q : p \in r.page
    BY <2>1, <2>3 DEF RowInv, StreamInv
  <2> QED
    BY <2>1, <2>3, <2>4, <2>5 DEF RowInv, StreamInv
<1> QED
  BY <1>1, <1>2, <1>3 DEF IndInv

-----------------------------------------------------------------------------
\* A committed change emits at least one update, and its updates come after all others.
LEMMA WritersPreserve ==
    ASSUME IndInv, CreateSession \/ (\E n \in 1..2 : ChangeSession(n)) \/ UpdateAges
    PROVE  IndInv'
<1>1. CASE CreateSession
  <2>1. /\ version = 0 /\ version' = 1
        /\ UNCHANGED <<next, retained, log, announces, horizon, client, draining, faults>>
    BY <1>1 DEF CreateSession
  <2>2. \A q \in UpdateSeq : announces'[q] <= version'
    BY <2>1, LogTypes
  <2> QED
    BY <2>1, <2>2, LogTypes, LogStep DEF IndInv, TypeOK
<1>2. ASSUME NEW n \in 1..2, ChangeSession(n)
      PROVE  IndInv'
  <2>1. /\ version' = version + 1 /\ next' = next + n /\ next + n <= MaxUpdates + 1
        /\ log' = log \cup next..(next + n - 1)
        /\ announces' = [q \in UpdateSeq |->
                            IF q \in next..(next + n - 1) THEN version + 1 ELSE announces[q]]
        /\ UNCHANGED <<retained, horizon, client, draining, faults>>
    BY <1>2 DEF ChangeSession, EmitUpdates
  <2>2. /\ version' \in Nat /\ version' <= next' /\ version <= version' /\ next <= next'
        /\ next' \in 1..(MaxUpdates + 1) /\ retained' <= next' /\ version' \in Versions
    BY <2>1, LogTypes, BoundsAssumption DEF Versions
  <2>3. log' = retained'..(next' - 1)
    BY <2>1, LogTypes
  <2>4. announces' \in [UpdateSeq -> Versions]
    BY <2>1, <2>2, LogTypes
  <2>5. \A q \in UpdateSeq : announces'[q] <= version'
    BY <2>1, LogTypes
  <2>6. \A q \in UpdateSeq : q < next => announces'[q] = announces[q]
    BY <2>1, LogTypes, BoundsAssumption DEF UpdateSeq
  <2>7. retained' \in 1..(MaxUpdates + 1) /\ horizon' \in 1..(MaxUpdates + 1)
    BY <2>1 DEF IndInv, TypeOK
  <2> QED
    BY <2>1, <2>2, <2>3, <2>4, <2>5, <2>6, <2>7, LogStep
<1>3. CASE UpdateAges
  <2>1. /\ horizon < next /\ horizon' = horizon + 1
        /\ UNCHANGED <<version, next, retained, log, announces, client, draining, faults>>
    BY <1>3 DEF UpdateAges
  <2>2. horizon' \in 1..(MaxUpdates + 1)
    BY <2>1, LogTypes, BoundsAssumption
  <2>3. next' \in 1..(MaxUpdates + 1) /\ retained' \in 1..(MaxUpdates + 1)
    BY <2>1 DEF IndInv, TypeOK
  <2> QED
    BY <2>1, <2>2, <2>3, LogTypes, LogStep
<1> QED
  BY <1>1, <1>2, <1>3

\* Pruning takes the oldest updates and raises the floor to the first one it leaves.
LEMMA PrunePreserves ==
    ASSUME IndInv, PruneUpdates
    PROVE  IndInv'
<1>1. PICK maximum \in log :
        log' = {q \in log : q > maximum} /\ retained' = RetainedAfter(maximum)
  BY DEF PruneUpdates
<1>2. UNCHANGED <<version, next, announces, horizon, client, draining, faults>>
  BY DEF PruneUpdates
<1>3. /\ maximum \in Nat /\ retained \in Nat /\ next \in Nat
      /\ retained <= maximum /\ maximum < next /\ next <= MaxUpdates + 1 /\ 1 <= retained
      /\ log = retained..(next - 1)
  BY LogTypes
<1>4. retained' = maximum + 1
  BY <1>1, <1>3 DEF RetainedAfter
<1>5. log' = retained'..(next' - 1)
  BY <1>1, <1>2, <1>3, <1>4
<1>6. retained' \in 1..(MaxUpdates + 1) /\ retained' <= next'
  BY <1>2, <1>3, <1>4, BoundsAssumption
<1>7. next' \in 1..(MaxUpdates + 1) /\ horizon' \in 1..(MaxUpdates + 1)
  BY <1>2 DEF IndInv, TypeOK
<1> QED
  BY <1>2, <1>5, <1>6, <1>7, LogTypes, LogStep

-----------------------------------------------------------------------------
\* A snapshot covers what its cursor covers, because the cursor is read first.
LEMMA SnapshotPreserves ==
    ASSUME IndInv, NEW c \in Clients,
           BeginSnapshot(c) \/ FinishSnapshot(c) \/ CreatorSnapshot(c)
    PROVE  IndInv'
<1>1. UNCHANGED logVars /\ UNCHANGED <<draining, faults>>
  BY DEF BeginSnapshot, FinishSnapshot, CreatorSnapshot
<1>2. draining' \in BOOLEAN
  BY <1>1 DEF IndInv, TypeOK
<1>3. faults' \in 0..MaxFaults
  BY <1>1 DEF IndInv, TypeOK
<1>4. NewClient \in Client /\ version \in Versions
  BY BoundsAssumption DEF NewClient, Client, Versions, UpdateSeq, IndInv, TypeOK
<1>5. CASE BeginSnapshot(c)
  <2> DEFINE row == [[NewClient EXCEPT !.pc = "snapshot"]
                        EXCEPT !.cursor = next - 1, !.seen = 1..(next - 1)]
  <2>1. client' = [client EXCEPT ![c] = row]
    BY <1>5 DEF BeginSnapshot, Read, DetailOrder
  <2>2. next - 1 \in 0..MaxUpdates /\ 1..(next - 1) \subseteq UpdateSeq /\ next - 1 < next
    BY LogTypes, BoundsAssumption DEF UpdateSeq
  <2>3. /\ row \in Client /\ row.pc = "snapshot" /\ row.cursor = next - 1
        /\ row.seen = 1..(next - 1) /\ row.page = {} /\ row.wire = {}
    BY <1>4, <2>2 DEF NewClient, Client
  <2> HIDE DEF row
  <2>4. RowInv(row)
    BY <2>2, <2>3 DEF RowInv
  <2> QED
    BY <1>1, <1>2, <1>3, <2>1, <2>3, <2>4, ClientStep
<1>6. CASE FinishSnapshot(c)
  <2> DEFINE r == client[c]
             row == [[r EXCEPT !.pc = "idle"] EXCEPT !.known = version]
  <2>1. r \in Client /\ RowInv(r) /\ r.pc = "snapshot" /\ client' = [client EXCEPT ![c] = row]
    BY <1>6, RowFacts DEF FinishSnapshot, Read, DetailOrder
  <2> HIDE DEF r
  <2>2. /\ row \in Client /\ row.pc = "idle" /\ row.cursor = r.cursor /\ row.known = version
        /\ row.seen = r.seen /\ row.page = r.page /\ row.wire = r.wire
    BY <1>4, <2>1 DEF Client
  <2> HIDE DEF row
  <2>3. r.cursor < next /\ r.seen = 1..r.cursor /\ r.page = {} /\ r.wire = {}
    BY <2>1 DEF RowInv
  <2>4. \A q \in 1..r.cursor : q \in UpdateSeq
    BY <2>1, RowTypes, BoundsAssumption DEF UpdateSeq
  <2>5. \A q \in 1..r.cursor : version >= announces[q]
    BY <2>4, LogTypes
  <2>6. RowInv(row)
    BY <2>2, <2>3, <2>5 DEF RowInv
  <2> QED
    BY <1>1, <1>2, <1>3, <2>1, <2>2, <2>6, ClientStep
<1>7. CASE CreatorSnapshot(c)
  <2> DEFINE row == [[NewClient EXCEPT !.pc = "idle"] EXCEPT !.known = version]
  <2>1. client' = [client EXCEPT ![c] = row]
    BY <1>7 DEF CreatorSnapshot, Read
  <2>2. /\ row \in Client /\ row.pc = "idle" /\ row.cursor = 0
        /\ row.seen = {} /\ row.page = {} /\ row.wire = {}
    BY <1>4 DEF NewClient, Client
  <2> HIDE DEF row
  <2>3. RowInv(row)
    BY <2>2, LogTypes DEF RowInv
  <2> QED
    BY <1>1, <1>2, <1>3, <2>1, <2>2, <2>3, ClientStep
<1> QED
  BY <1>5, <1>6, <1>7

\* A page read with the client's own cursor continues what it has seen.
LEMMA ListPreserves ==
    ASSUME IndInv, NEW c \in Clients, ListUpdates(c)
    PROVE  IndInv'
<1> DEFINE r == client[c]
           page == Page(r.cursor)
           row == Learn(r, page)
<1>1. /\ UNCHANGED logVars /\ UNCHANGED <<draining, faults>>
      /\ r.pc = "idle" /\ ~Expired(r.cursor) /\ page # {} /\ client' = [client EXCEPT ![c] = row]
  BY DEF ListUpdates
<1>2. draining' \in BOOLEAN /\ faults' \in 0..MaxFaults
  BY <1>1 DEF IndInv, TypeOK
<1>3. r \in Client /\ RowInv(r) /\ r.cursor \in Nat
  BY RowFacts, RowTypes
<1>4. /\ page \subseteq UpdateSeq
      /\ \A q \in page : r.cursor < q /\ q < next
      /\ \A q \in page : \A p \in (r.cursor + 1)..q : p \in page
  BY <1>1, <1>3, PageContinues
<1> HIDE DEF r, page
<1>5. /\ row \in Client /\ row.cursor \in page /\ \A p \in page : p <= row.cursor
      /\ row.known >= r.known /\ \A q \in page : row.known >= announces[q]
      /\ row.seen = r.seen \cup page /\ row.pc = r.pc /\ row.page = r.page /\ row.wire = r.wire
  BY <1>1, <1>3, <1>4, LearnCovers
<1> HIDE DEF row
<1>6. /\ r.seen = 1..r.cursor /\ r.page = {} /\ r.wire = {}
      /\ \A q \in 1..r.cursor : r.known >= announces[q]
  BY <1>1, <1>3 DEF RowInv
<1>7. row.cursor \in Nat /\ row.cursor < next /\ r.cursor < row.cursor
  BY <1>4, <1>5, RowTypes
<1>8. ASSUME NEW q \in 1..row.cursor
      PROVE  q \in 1..r.cursor \/ q \in page
  BY <1>3, <1>4, <1>5, <1>7
<1>9. row.seen = 1..row.cursor
  <2>1. \A q \in page : q \in Nat /\ q > 0
    BY <1>4, BoundsAssumption DEF UpdateSeq
  <2>2. \A q \in page : q \in 1..row.cursor
    BY <1>5, <1>7, <2>1
  <2>3. \A q \in 1..r.cursor : q \in 1..row.cursor
    BY <1>3, <1>7
  <2> QED
    BY <1>5, <1>6, <1>8, <2>2, <2>3
<1>10. \A q \in 1..row.cursor : row.known >= announces[q]
  <2>1. ASSUME NEW q \in 1..r.cursor
        PROVE  row.known >= announces[q]
    <3>1. q \in UpdateSeq
      BY <1>3, RowTypes, BoundsAssumption DEF UpdateSeq
    <3>2. announces[q] \in Nat /\ row.known \in Nat /\ r.known \in Nat
      BY <1>3, <1>5, <3>1, LogTypes, RowTypes
    <3> QED
      BY <1>5, <1>6, <3>2
  <2> QED
    BY <1>5, <1>8, <2>1
<1>11. RowInv(row)
  BY <1>1, <1>5, <1>6, <1>7, <1>9, <1>10 DEF RowInv
<1> QED
  BY <1>1, <1>2, <1>5, <1>11, ClientStep

\* A stream starts at the client's cursor; a rejected cursor asks for a snapshot; a
\* stream that ends leaves the client what it has received.
LEMMA StreamEndsPreserve ==
    ASSUME IndInv, NEW c \in Clients,
           \/ CursorRejected(c) \/ OpenStream(c) \/ StreamExpires(c)
           \/ StreamLost(c) \/ StreamDrains(c)
    PROVE  IndInv'
<1> DEFINE r == client[c]
<1>1. UNCHANGED logVars /\ draining' = draining
  BY DEF CursorRejected, OpenStream, StreamExpires, StreamLost, StreamDrains
<1>2. draining' \in BOOLEAN
  BY <1>1 DEF IndInv, TypeOK
<1>3. faults' \in 0..MaxFaults
  <2>1. faults \in 0..MaxFaults
    BY DEF IndInv, TypeOK
  <2>2. faults' = faults \/ (faults < MaxFaults /\ faults' = faults + 1)
    BY DEF CursorRejected, OpenStream, StreamExpires, StreamLost, StreamDrains
  <2> QED
    BY <2>1, <2>2, BoundsAssumption
<1>4. r \in Client /\ RowInv(r)
  BY RowFacts
<1>5. CASE CursorRejected(c) \/ StreamExpires(c)
  <2> DEFINE row == [r EXCEPT !.pc = "resnapshot"]
  <2>1. client' = [client EXCEPT ![c] = row]
    BY <1>5 DEF CursorRejected, StreamExpires
  <2>2. row \in Client /\ row.pc = "resnapshot"
    BY <1>4 DEF Client
  <2> HIDE DEF row
  <2>3. RowInv(row)
    BY <2>2 DEF RowInv
  <2> QED
    BY <1>1, <1>2, <1>3, <2>1, <2>2, <2>3, ClientStep
<1>6. CASE OpenStream(c)
  <2> DEFINE row == [r EXCEPT !.pc = "streaming", !.stream = r.cursor]
  <2>1. client' = [client EXCEPT ![c] = row] /\ r.pc = "idle"
    BY <1>6 DEF OpenStream
  <2> HIDE DEF r
  <2>2. /\ row \in Client /\ row.pc = "streaming" /\ row.stream = r.cursor
        /\ row.cursor = r.cursor /\ row.known = r.known /\ row.seen = r.seen
        /\ row.page = r.page /\ row.wire = r.wire
    BY <1>4 DEF Client
  <2> HIDE DEF row
  <2>3. /\ r.cursor < next /\ r.seen = 1..r.cursor /\ r.page = {} /\ r.wire = {}
        /\ \A q \in 1..r.cursor : r.known >= announces[q]
    BY <1>4, <2>1 DEF RowInv
  <2>4. r.cursor \in Nat
    BY <1>4, RowTypes
  <2>5. StreamInv(row)
    BY <2>2, <2>3, <2>4 DEF StreamInv
  <2>6. RowInv(row)
    BY <2>2, <2>3, <2>5 DEF RowInv
  <2> QED
    BY <1>1, <1>2, <1>3, <2>1, <2>2, <2>6, ClientStep
<1>7. CASE StreamLost(c) \/ StreamDrains(c)
  <2> DEFINE row == [r EXCEPT !.pc = "idle", !.page = {}, !.wire = {}]
  <2>1. client' = [client EXCEPT ![c] = row] /\ r.pc = "streaming"
    BY <1>7 DEF StreamLost, StreamDrains, Disconnect
  <2> HIDE DEF r
  <2>2. /\ row \in Client /\ row.pc = "idle" /\ row.page = {} /\ row.wire = {}
        /\ row.cursor = r.cursor /\ row.known = r.known /\ row.seen = r.seen
    BY <1>4 DEF Client
  <2> HIDE DEF row
  <2>3. RowInv(row)
    BY <1>4, <2>1, <2>2 DEF RowInv
  <2> QED
    BY <1>1, <1>2, <1>3, <2>1, <2>2, <2>3, ClientStep
<1> QED
  BY <1>5, <1>6, <1>7

\* A stream reads on from what it has sent, and sends in order.
LEMMA StreamPreserves ==
    ASSUME IndInv, NEW c \in Clients, StreamReads(c) \/ StreamSends(c)
    PROVE  IndInv'
<1> DEFINE r == client[c]
<1>1. UNCHANGED logVars /\ UNCHANGED <<draining, faults>> /\ r.pc = "streaming"
  BY DEF StreamReads, StreamSends
<1>2. draining' \in BOOLEAN /\ faults' \in 0..MaxFaults
  BY <1>1 DEF IndInv, TypeOK
<1>3. r \in Client /\ RowInv(r) /\ r.cursor \in Nat /\ r.stream \in Nat
      /\ r.page \subseteq UpdateSeq /\ r.wire \subseteq UpdateSeq
  BY RowFacts, RowTypes
<1>4. /\ r.cursor < next /\ r.seen = 1..r.cursor
      /\ \A q \in 1..r.cursor : r.known >= announces[q]
      /\ r.cursor <= r.stream /\ r.stream < next /\ r.wire = (r.cursor + 1)..r.stream
      /\ \A q \in r.page : r.stream < q /\ q < next /\ \A p \in (r.stream + 1)..q : p \in r.page
  BY <1>1, <1>3 DEF RowInv, StreamInv
<1>5. CASE StreamReads(c)
  <2> DEFINE page == Page(r.stream)
             row == [r EXCEPT !.page = page]
  <2>1. ~Expired(r.stream) /\ client' = [client EXCEPT ![c] = row]
    BY <1>5 DEF StreamReads
  <2>2. /\ page \subseteq UpdateSeq
        /\ \A q \in page : r.stream < q /\ q < next
        /\ \A q \in page : \A p \in (r.stream + 1)..q : p \in page
    BY <1>3, <2>1, PageContinues
  <2> HIDE DEF r, page
  <2>3. /\ row \in Client /\ row.pc = r.pc /\ row.page = page /\ row.wire = r.wire
        /\ row.stream = r.stream /\ row.cursor = r.cursor /\ row.known = r.known
        /\ row.seen = r.seen
    BY <1>3, <2>2 DEF Client
  <2> HIDE DEF row
  <2>4. StreamInv(row)
    BY <1>4, <2>2, <2>3 DEF StreamInv
  <2>5. RowInv(row)
    BY <1>1, <1>4, <2>3, <2>4 DEF RowInv
  <2> QED
    BY <1>1, <1>2, <2>1, <2>3, <2>5, ClientStep
<1>6. CASE StreamSends(c)
  <2>1. PICK q \in r.page :
          /\ \A p \in r.page : q <= p
          /\ client' = [client EXCEPT ![c] = [@ EXCEPT !.page = r.page \ {q}, !.stream = q,
                                                       !.wire = r.wire \cup {q}]]
    BY <1>6 DEF StreamSends
  <2> DEFINE row == [r EXCEPT !.page = r.page \ {q}, !.stream = q, !.wire = r.wire \cup {q}]
  <2>2. client' = [client EXCEPT ![c] = row]
    BY <2>1
  <2> HIDE DEF r
  <2>3. q \in Nat /\ q \in 0..MaxUpdates /\ q \in UpdateSeq
    BY <1>3, <2>1, BoundsAssumption DEF UpdateSeq
  <2>4. q = r.stream + 1
    <3>1. r.stream < q /\ \A p \in (r.stream + 1)..q : p \in r.page
      BY <1>4, <2>1
    <3>2. r.stream + 1 \in (r.stream + 1)..q
      BY <1>3, <2>3, <3>1
    <3>3. q <= r.stream + 1
      BY <2>1, <3>1, <3>2
    <3> QED
      BY <1>3, <2>3, <3>1, <3>3
  <2>5. /\ row \in Client /\ row.pc = r.pc /\ row.page = r.page \ {q}
        /\ row.wire = r.wire \cup {q} /\ row.stream = q /\ row.cursor = r.cursor
        /\ row.known = r.known /\ row.seen = r.seen
    BY <1>3, <2>3 DEF Client
  <2> HIDE DEF row
  <2>6. row.cursor <= row.stream /\ row.stream < next /\ row.wire = (row.cursor + 1)..row.stream
    BY <1>3, <1>4, <2>1, <2>4, <2>5
  <2>7. ASSUME NEW x \in row.page
        PROVE  /\ row.stream < x /\ x < next
               /\ \A p \in (row.stream + 1)..x : p \in row.page
    <3>1. x \in r.page /\ x # q /\ x \in Nat
      BY <1>3, <2>5, BoundsAssumption DEF UpdateSeq
    <3>2. q < x /\ x < next
      BY <1>4, <2>1, <2>3, <3>1
    <3>3. ASSUME NEW p \in (q + 1)..x
          PROVE  p \in r.page \ {q}
      <4>1. p \in (r.stream + 1)..x /\ p # q
        BY <1>3, <2>3, <2>4, <3>1
      <4> QED
        BY <1>4, <3>1, <4>1
    <3> QED
      BY <2>5, <3>2, <3>3
  <2>8. StreamInv(row)
    BY <2>6, <2>7 DEF StreamInv
  <2>9. RowInv(row)
    BY <1>1, <1>4, <2>5, <2>8 DEF RowInv
  <2> QED
    BY <1>1, <1>2, <2>2, <2>5, <2>9, ClientStep
<1> QED
  BY <1>5, <1>6

\* The client receives the update right after its cursor.
LEMMA ReceivePreserves ==
    ASSUME IndInv, NEW c \in Clients, ClientReceives(c)
    PROVE  IndInv'
<1> DEFINE r == client[c]
<1>1. UNCHANGED logVars /\ UNCHANGED <<draining, faults>> /\ r.pc = "streaming"
  BY DEF ClientReceives
<1>2. draining' \in BOOLEAN /\ faults' \in 0..MaxFaults
  BY <1>1 DEF IndInv, TypeOK
<1>3. PICK q \in r.wire :
        /\ \A p \in r.wire : q <= p
        /\ client' = [client EXCEPT ![c] = Learn([r EXCEPT !.wire = r.wire \ {q}], {q})]
  BY DEF ClientReceives
<1>4. r \in Client /\ RowInv(r)
  BY RowFacts
<1> DEFINE mid == [r EXCEPT !.wire = r.wire \ {q}]
           row == Learn(mid, {q})
<1>5. client' = [client EXCEPT ![c] = row]
  BY <1>3
<1> HIDE DEF r
<1>6. /\ r.cursor \in Nat /\ r.stream \in Nat /\ r.known \in Nat
      /\ r.cursor <= MaxUpdates /\ r.wire \subseteq UpdateSeq
  BY <1>4, RowTypes
<1>7. /\ r.cursor < next /\ r.seen = 1..r.cursor
      /\ \A p \in 1..r.cursor : r.known >= announces[p]
      /\ r.cursor <= r.stream /\ r.stream < next /\ r.wire = (r.cursor + 1)..r.stream
      /\ \A p \in r.page : r.stream < p /\ p < next /\ \A x \in (r.stream + 1)..p : x \in r.page
  BY <1>1, <1>4 DEF RowInv, StreamInv
<1>8. q \in Nat /\ q \in UpdateSeq /\ q = r.cursor + 1 /\ q <= r.stream
  <2>1. q \in (r.cursor + 1)..r.stream /\ q \in UpdateSeq
    BY <1>6, <1>7
  <2>2. q \in Nat /\ r.cursor + 1 <= q /\ q <= r.stream
    BY <1>6, <2>1
  <2>3. r.cursor + 1 \in r.wire
    BY <1>6, <1>7, <2>2
  <2>4. q <= r.cursor + 1
    BY <1>3, <2>3
  <2> QED
    BY <1>6, <2>1, <2>2, <2>4
<1>9. /\ mid \in Client /\ mid.pc = r.pc /\ mid.wire = r.wire \ {q} /\ mid.page = r.page
      /\ mid.stream = r.stream /\ mid.cursor = r.cursor /\ mid.known = r.known
      /\ mid.seen = r.seen
  BY <1>4 DEF Client
<1> HIDE DEF mid
<1>10. /\ row \in Client /\ row.cursor \in {q} /\ row.known >= r.known
       /\ row.known >= announces[q] /\ row.seen = r.seen \cup {q}
       /\ row.pc = r.pc /\ row.stream = r.stream /\ row.page = r.page
       /\ row.wire = r.wire \ {q}
  BY <1>8, <1>9, LearnCovers
<1> HIDE DEF row
<1>11. row.seen = 1..row.cursor /\ row.cursor < next /\ row.cursor <= row.stream
  BY <1>6, <1>7, <1>8, <1>10, LogTypes
<1>12. row.wire = (row.cursor + 1)..row.stream
  BY <1>6, <1>7, <1>8, <1>10
<1>13. \A p \in 1..row.cursor : row.known >= announces[p]
  <2>1. ASSUME NEW p \in 1..r.cursor
        PROVE  row.known >= announces[p]
    <3>1. p \in UpdateSeq
      BY <1>6, BoundsAssumption DEF UpdateSeq
    <3>2. announces[p] \in Nat /\ row.known \in Nat
      BY <1>10, <3>1, LogTypes, RowTypes
    <3> QED
      BY <1>6, <1>7, <1>10, <3>2
  <2> QED
    BY <1>6, <1>8, <1>10, <2>1
<1>14. StreamInv(row)
  BY <1>7, <1>10, <1>11, <1>12 DEF StreamInv
<1>15. RowInv(row)
  BY <1>1, <1>10, <1>11, <1>13, <1>14 DEF RowInv
<1> QED
  BY <1>1, <1>2, <1>5, <1>10, <1>15, ClientStep

\* Draining and restarting do not touch the feed or what clients hold.
LEMMA DrainPreserves ==
    ASSUME IndInv, BeginDrain \/ Restart \/ UNCHANGED vars
    PROVE  IndInv'
<1>1. UNCHANGED <<version, next, retained, log, announces, horizon, client>>
  BY DEF BeginDrain, Restart, vars, logVars
<1>2. draining' \in BOOLEAN
  BY DEF BeginDrain, Restart, vars, IndInv, TypeOK
<1>3. faults' \in 0..MaxFaults
  BY BoundsAssumption DEF BeginDrain, Restart, vars, IndInv, TypeOK
<1>4. TypeOK' /\ LogInv'
  BY <1>1, <1>2, <1>3 DEF IndInv, TypeOK, LogInv
<1>5. \A c \in Clients : RowInv(client[c])'
  BY <1>1 DEF IndInv, RowInv, StreamInv
<1> QED
  BY <1>4, <1>5 DEF IndInv

\* Every step of writers, pruning, clients and servers keeps the invariant.
LEMMA NextPreserves == IndInv /\ [Next]_vars => IndInv'
<1> SUFFICES ASSUME IndInv, [Next]_vars
             PROVE  IndInv'
  OBVIOUS
<1>1. CASE CreateSession \/ (\E n \in 1..2 : ChangeSession(n)) \/ UpdateAges
  BY <1>1, WritersPreserve
<1>2. CASE PruneUpdates
  BY <1>2, PrunePreserves
<1>3. ASSUME NEW c \in Clients, BeginSnapshot(c) \/ CreatorSnapshot(c)
      PROVE  IndInv'
  BY <1>3, SnapshotPreserves
<1>4. ASSUME NEW c \in Clients, ListUpdates(c)
      PROVE  IndInv'
  BY <1>4, ListPreserves
<1>5. ASSUME NEW c \in Clients, FollowStep(c)
      PROVE  IndInv'
  BY <1>5, SnapshotPreserves, StreamEndsPreserve, StreamPreserves, ReceivePreserves DEF FollowStep
<1>6. ASSUME NEW c \in Clients, StreamLost(c)
      PROVE  IndInv'
  BY <1>6, StreamEndsPreserve
<1>7. CASE BeginDrain \/ Restart \/ UNCHANGED vars
  BY <1>7, DrainPreserves
<1> QED
  BY <1>1, <1>2, <1>3, <1>4, <1>5, <1>6, <1>7 DEF Next

-----------------------------------------------------------------------------
\* IndInv holds in every reachable state (emit_update, updates, prune_updates,
\* update_stream).
THEOREM Inductive == Spec => []IndInv
<1>1. Init => IndInv
  BY InitEstablishes
<1>2. IndInv /\ [Next]_vars => IndInv'
  BY NextPreserves
<1> QED
  BY <1>1, <1>2, PTL DEF Spec

\* Replay misses no change, whatever commits between the two reads of a snapshot and
\* whatever the page size, for any number of clients and updates (detail, updates):
\* the log has no hole, and what a cursor covers its client has seen.
THEOREM NoChangeIsMissed == Spec => []NoMissedChange
<1>1. IndInv => NoMissedChange
  BY DEF IndInv, RowInv, NoMissedChange, Following
<1> QED
  BY <1>1, Inductive, PTL

\* A client has every update between its snapshot and its cursor, across lost
\* connections, restarts and pruning (updates, prune_updates, update_stream).
THEOREM ReplayHasNoGaps == Spec => []ReplayIsGapless
<1>1. IndInv => ReplayIsGapless
  BY DEF IndInv, RowInv, ReplayIsGapless, Following
<1> QED
  BY <1>1, Inductive, PTL
=============================================================================
