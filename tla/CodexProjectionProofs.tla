----------------------- MODULE CodexProjectionProofs ------------------------
(***************************************************************************)
(* Proofs about the projection of CodexHarness, the history that goes out  *)
(* with every request: calls are followed by their results, and the user   *)
(* messages are the newest ones the session received, in their order, for  *)
(* every set of plans and every bound.                                     *)
(*                                                                         *)
(* The user items are numbered by counting those up to their place (Rank), *)
(* so that what a filter keeps follows from facts about finite sets and    *)
(* not from an induction over the projection.                              *)
(***************************************************************************)
EXTENDS CodexHarnessProofs

\* A user message in the projection.
UserItem == {"user"} \X Nat \X {0}

\* What the projection holds: kind, the response or message it belongs to, and the
\* number of calls or the number of the call.
Items == UserItem \cup ({"assistant", "calls", "result", "compaction"} \X Nat \X Nat)

\* The messages that user items carry.
Messages(items) == [n \in DOMAIN items |-> items[n][2]]

\* t ends with s.
EndsWith(t, s) ==
    Len(s) <= Len(t) /\ \A i \in 1 .. Len(s) : s[i] = t[Len(t) - Len(s) + i]

\* Calls at place n are followed by one result for each of them, in call order.
CallAnswered(h, n) ==
    h[n][1] = "calls" =>
        \A i \in 1 .. h[n][3] : n + i \in DOMAIN h /\ h[n + i] = <<"result", h[n][2], i>>

\* A result at place n answers calls that come before it.
ResultAsked(h, n) ==
    h[n][1] = "result" =>
        \E m \in 1 .. n - 1 : h[m][1] = "calls" /\ n = m + h[n][3] /\ h[m][2] = h[n][2]

\* Calls and results pair off everywhere in h.
Paired(h) == \A n \in DOMAIN h : CallAnswered(h, n) /\ ResultAsked(h, n)

\* All of h is paired but its last item, the calls of the plan p.
AwaitsResults(h, p) ==
    /\ Len(h) > 0
    /\ h[Len(h)] = <<"calls", p.assistant, h[Len(h)][3]>>
    /\ DOMAIN p.calls = 1 .. h[Len(h)][3]
    /\ Paired(SubSeq(h, 1, Len(h) - 1))

\* The messages in the order a request will name them: in the projection, held by a
\* compaction that comes first, and steering.
Queued == Messages(UserItems(history)) \o turn.input \o turn.steering

\* What clients and the model may still ask for.
InputsInv == inputs \in [messages : 0 .. MaxMessages, cancels : Nat, rounds : Nat]

\* Only a compaction holds back the input of a turn, and a turn that is over or being
\* cancelled has no steering.
HistoryInv ==
    /\ history \in Seq(Items)
    /\ received \in Seq(Nat) /\ turn.input \in Seq(Nat) /\ turn.steering \in Seq(Nat)
    /\ turn.phase # "compacting" => turn.input = <<>>
    /\ turn.phase \in {"none", "cancelling"} => turn.steering = <<>>

\* Until a cancellation, only the calls of the plan that runs lack their results, and
\* they are the last item.
PairsInv ==
    ~cancel.requested =>
        IF turn.phase = "executing_tools" THEN AwaitsResults(history, plan) ELSE Paired(history)

\* The session has received what is queued last, and in that order.
MessagesInv == Live => EndsWith(received, Queued)

\* The inductive invariant, next to IndInv.
ProjectionInv == InputsInv /\ HistoryInv /\ PairsInv /\ MessagesInv

-----------------------------------------------------------------------------
(* The user items of a projection.                                         *)

\* The places of user items are finitely many, and so are those up to one of them.
LEMMA PlacesFinite ==
    ASSUME NEW S, NEW h \in Seq(S)
    PROVE  /\ UserPlaces(h) \subseteq 1 .. Len(h) /\ IsFiniteSet(UserPlaces(h))
           /\ Cardinality(UserPlaces(h)) \in Nat
           /\ \A n : /\ IsFiniteSet({m \in UserPlaces(h) : m <= n})
                     /\ Rank(h, n) \in Nat /\ Rank(h, n) <= Cardinality(UserPlaces(h))
<1>1. UserPlaces(h) \subseteq 1 .. Len(h)
  BY DEF UserPlaces
<1>2. IsFiniteSet(1 .. Len(h))
  BY FS_Interval
<1>3. IsFiniteSet(UserPlaces(h))
  BY <1>1, <1>2, FS_Subset
<1>4. ASSUME NEW n
      PROVE  /\ IsFiniteSet({m \in UserPlaces(h) : m <= n})
             /\ Rank(h, n) \in Nat /\ Rank(h, n) <= Cardinality(UserPlaces(h))
  <2>1. {m \in UserPlaces(h) : m <= n} \in SUBSET UserPlaces(h)
    OBVIOUS
  <2> HIDE DEF UserPlaces
  <2>2. /\ IsFiniteSet({m \in UserPlaces(h) : m <= n})
        /\ Cardinality({m \in UserPlaces(h) : m <= n}) <= Cardinality(UserPlaces(h))
    BY <1>3, <2>1, FS_Subset
  <2> QED
    BY <2>2, FS_CardinalityType DEF Rank
<1> QED
  BY <1>1, <1>3, <1>4, FS_CardinalityType

\* retained_user_messages misses none: every number up to the count of the user items
\* is the number of one of them.
LEMMA RankExists ==
    ASSUME NEW S, NEW h \in Seq(S), NEW k \in 1 .. Cardinality(UserPlaces(h))
    PROVE  \E n \in UserPlaces(h) : Rank(h, n) = k
<1> DEFINE L == Len(h)
           Late == {n \in 0 .. L : Rank(h, n) >= k}
<1>1. \A n : IsFiniteSet({m \in UserPlaces(h) : m <= n}) /\ Rank(h, n) \in Nat
  BY PlacesFinite
<1>2. UserPlaces(h) \subseteq 1 .. L /\ L \in Nat /\ k \in Nat /\ k >= 1
  BY PlacesFinite
<1>3. Rank(h, L) = Cardinality(UserPlaces(h)) /\ Rank(h, 0) = 0
  <2>1. {m \in UserPlaces(h) : m <= L} = UserPlaces(h) /\ {m \in UserPlaces(h) : m <= 0} = {}
    BY <1>2
  <2> QED
    BY <2>1, FS_EmptySet DEF Rank
<1>4. Late \in SUBSET Nat /\ Late # {} /\ IsFiniteSet(Late)
  <2>1. L \in Late
    BY <1>2, <1>3
  <2>2. Late \in SUBSET (0 .. L) /\ IsFiniteSet(0 .. L)
    BY <1>2, FS_Interval
  <2>3. IsFiniteSet(Late)
    <3> DEFINE All == 0 .. L
    <3>1. Late \in SUBSET All /\ IsFiniteSet(All)
      BY <2>2
    <3> HIDE DEF Late, All
    <3> QED
      BY <3>1, FS_Subset
  <2> QED
    BY <1>2, <2>1, <2>3
<1>5. PICK n \in Late : \A j \in Late : n <= j
  <2> HIDE DEF Late
  <2> QED
    BY <1>4, LeastExists
<1>6. n \in 1 .. L /\ Rank(h, n) >= k /\ Rank(h, n - 1) < k
  <2>1. n # 0
    BY <1>2, <1>3
  <2>2. n \in 1 .. L /\ n - 1 \in 0 .. L /\ Rank(h, n) >= k
    BY <1>2, <2>1
  <2>3. n - 1 \notin Late
    BY <1>5, <2>2
  <2>4. ~(Rank(h, n - 1) >= k)
    BY <2>2, <2>3
  <2>5. Rank(h, n - 1) \in Nat
    BY <1>1
  <2> QED
    BY <1>2, <2>2, <2>4, <2>5
<1>7. {m \in UserPlaces(h) : m <= n} =
        IF n \in UserPlaces(h) THEN {m \in UserPlaces(h) : m <= n - 1} \cup {n}
        ELSE {m \in UserPlaces(h) : m <= n - 1}
  <2>1. \A m \in UserPlaces(h) : m <= n <=> m <= n - 1 \/ m = n
    BY <1>2, <1>6
  <2>2. CASE n \in UserPlaces(h)
    <3>1. \A m : m \in {x \in UserPlaces(h) : x <= n} <=>
                  m \in {x \in UserPlaces(h) : x <= n - 1} \cup {n}
      BY <1>6, <2>1, <2>2
    <3> QED
      BY <2>2, <3>1
  <2>3. CASE n \notin UserPlaces(h)
    BY <2>1, <2>3
  <2> QED
    BY <2>2, <2>3
<1>8. n \notin {m \in UserPlaces(h) : m <= n - 1}
  BY <1>6
<1>9. Rank(h, n) = IF n \in UserPlaces(h) THEN Rank(h, n - 1) + 1 ELSE Rank(h, n - 1)
  <2> DEFINE Before == {m \in UserPlaces(h) : m <= n - 1}
  <2>1. IsFiniteSet(Before) /\ n \notin Before
    BY <1>1, <1>8
  <2>2. Cardinality(Before \cup {n}) = Cardinality(Before) + 1
    <3> HIDE DEF Before
    <3> QED
      BY <2>1, FS_AddElement
  <2> QED
    BY <1>7, <2>2 DEF Rank
<1>10. Rank(h, n) \in Nat /\ Rank(h, n - 1) \in Nat
  BY <1>1
<1> QED
  BY <1>2, <1>6, <1>9, <1>10

\* No two user items have the same number.
LEMMA RankInjective ==
    ASSUME NEW S, NEW h \in Seq(S), NEW n \in UserPlaces(h), NEW m \in UserPlaces(h), n < m
    PROVE  Rank(h, n) < Rank(h, m)
<1> DEFINE Up(x) == {y \in UserPlaces(h) : y <= x}
<1>1. UserPlaces(h) \subseteq 1 .. Len(h) /\ Len(h) \in Nat
  BY PlacesFinite
<1>2. Up(n) \in SUBSET Up(m) /\ m \in Up(m) /\ m \notin Up(n)
  <2>1. \A y \in UserPlaces(h) : y <= n => y <= m
    BY <1>1
  <2> QED
    BY <1>1, <2>1
<1>3. IsFiniteSet(Up(m)) /\ IsFiniteSet(Up(n))
  BY PlacesFinite
<1>4. Rank(h, n) = Cardinality(Up(n)) /\ Rank(h, m) = Cardinality(Up(m))
  BY DEF Rank
<1> HIDE DEF Up
<1>5. Cardinality(Up(n)) <= Cardinality(Up(m)) /\ Cardinality(Up(n)) # Cardinality(Up(m))
  BY <1>2, <1>3, FS_Subset
<1>6. Cardinality(Up(n)) \in Nat /\ Cardinality(Up(m)) \in Nat
  BY <1>3, FS_CardinalityType
<1> QED
  BY <1>4, <1>5, <1>6

\* The user items are a sequence of user items of the projection.
LEMMA UserItemsFacts ==
    ASSUME NEW S, NEW h \in Seq(S)
    PROVE  /\ UserItems(h) \in Seq({x \in S : IsUser(x)})
           /\ Len(UserItems(h)) = Cardinality(UserPlaces(h))
           /\ \A n \in UserPlaces(h) :
                  /\ Rank(h, n) \in 1 .. Cardinality(UserPlaces(h))
                  /\ UserItems(h)[Rank(h, n)] = h[n]
<1> DEFINE C == Cardinality(UserPlaces(h))
           At(k) == CHOOSE m \in UserPlaces(h) : Rank(h, m) = k
<1>1. C \in Nat /\ UserPlaces(h) \subseteq 1 .. Len(h) /\ Len(h) \in Nat
  BY PlacesFinite
<1>2. ASSUME NEW k \in 1 .. C
      PROVE  At(k) \in UserPlaces(h) /\ Rank(h, At(k)) = k
  <2>1. \E n \in UserPlaces(h) : Rank(h, n) = k
    BY <1>2, RankExists
  <2> QED
    BY <2>1
<1> HIDE DEF C
<1>3. UserItems(h) = [k \in 1 .. C |-> h[At(k)]]
  BY DEF UserItems, C
<1>4. \A k \in 1 .. C : h[At(k)] \in {x \in S : IsUser(x)}
  BY <1>1, <1>2 DEF UserPlaces
<1> HIDE DEF At
<1>5. UserItems(h) \in Seq({x \in S : IsUser(x)})
  <2> DEFINE T == {x \in S : IsUser(x)}
             f == [k \in 1 .. C |-> h[At(k)]]
  <2>1. \A k \in 1 .. C : f[k] \in T
    BY <1>4
  <2>2. f = [k \in 1 .. C |-> f[k]]
    OBVIOUS
  <2> HIDE DEF T, f
  <2>3. f \in Seq(T)
    BY <1>1, <2>1, <2>2, IsASeq
  <2> QED
    BY <1>3, <2>3 DEF T, f
<1>6. Len(UserItems(h)) = C
  BY <1>1, <1>3
<1>7. ASSUME NEW n \in UserPlaces(h)
      PROVE  Rank(h, n) \in 1 .. C /\ UserItems(h)[Rank(h, n)] = h[n]
  <2>1. Rank(h, n) \in Nat /\ Rank(h, n) <= C /\ IsFiniteSet({x \in UserPlaces(h) : x <= n})
    BY PlacesFinite DEF C
  <2>2. {x \in UserPlaces(h) : x <= n} # {}
    BY <1>1, <1>7
  <2>3. Rank(h, n) # 0
    BY <2>1, <2>2, FS_EmptySet DEF Rank
  <2>4. Rank(h, n) \in 1 .. C
    BY <1>1, <2>1, <2>3
  <2>5. PICK m \in UserPlaces(h) : m = At(Rank(h, n)) /\ Rank(h, m) = Rank(h, n)
    BY <1>2, <2>4
  <2>6. m \in Nat /\ n \in Nat
    BY <1>1
  <2>7. m = n
    <3>1. ~(m < n) /\ ~(n < m)
      BY <2>1, <2>5, RankInjective
    <3> QED
      BY <2>6, <3>1
  <2> QED
    BY <1>3, <2>4, <2>5, <2>7
<1> QED
  BY <1>5, <1>6, <1>7 DEF C

\* A user item's place in a longer projection, and the number it has there.
LEMMA PlacesOfConcat ==
    ASSUME NEW S, NEW h \in Seq(S), NEW g \in Seq(S)
    PROVE  /\ \A n \in 1 .. Len(h) : n \in UserPlaces(h \o g) <=> n \in UserPlaces(h)
           /\ \A n \in 1 .. Len(g) : Len(h) + n \in UserPlaces(h \o g) <=> n \in UserPlaces(g)
           /\ \A n \in 1 .. Len(h) : Rank(h \o g, n) = Rank(h, n)
           /\ UserPlaces(h \o g) \subseteq 1 .. Len(h) + Len(g)
<1>1. /\ h \o g \in Seq(S) /\ Len(h \o g) = Len(h) + Len(g)
      /\ Len(h) \in Nat /\ Len(g) \in Nat
  BY ConcatProperties, LenProperties
<1>2. \A n \in 1 .. Len(h) : (h \o g)[n] = h[n]
  BY ConcatProperties, LenProperties
<1>3. \A n \in 1 .. Len(g) : (h \o g)[Len(h) + n] = g[n]
  BY ConcatProperties, LenProperties
<1>4. /\ DOMAIN (h \o g) = 1 .. Len(h) + Len(g)
      /\ DOMAIN h = 1 .. Len(h) /\ DOMAIN g = 1 .. Len(g)
  BY <1>1
<1>5. \A n \in 1 .. Len(h) : n \in UserPlaces(h \o g) <=> n \in UserPlaces(h)
  BY <1>1, <1>2, <1>4 DEF UserPlaces
<1>6. \A n \in 1 .. Len(g) : Len(h) + n \in UserPlaces(h \o g) <=> n \in UserPlaces(g)
  BY <1>1, <1>3, <1>4 DEF UserPlaces
<1>7. UserPlaces(h \o g) \subseteq 1 .. Len(h) + Len(g) /\ UserPlaces(h) \subseteq 1 .. Len(h)
  BY <1>4 DEF UserPlaces
<1>8. ASSUME NEW n \in 1 .. Len(h)
      PROVE  Rank(h \o g, n) = Rank(h, n)
  <2>1. \A m : m \in {x \in UserPlaces(h \o g) : x <= n} <=> m \in {x \in UserPlaces(h) : x <= n}
    <3>1. ASSUME NEW m \in UserPlaces(h \o g), m <= n
          PROVE  m \in UserPlaces(h)
      BY <1>1, <1>5, <1>7, <3>1
    <3>2. ASSUME NEW m \in UserPlaces(h)
          PROVE  m \in UserPlaces(h \o g)
      BY <1>5, <1>7, <3>2
    <3> QED
      BY <3>1, <3>2
  <2>2. {x \in UserPlaces(h \o g) : x <= n} = {x \in UserPlaces(h) : x <= n}
    BY <2>1
  <2> QED
    BY <2>2 DEF Rank
<1> QED
  BY <1>5, <1>6, <1>7, <1>8

\* The oldest user items of a longer projection are those of the projection it begins
\* with.
LEMMA UserItemsKept ==
    ASSUME NEW S, NEW h \in Seq(S), NEW g \in Seq(S), NEW k \in 1 .. Cardinality(UserPlaces(h))
    PROVE  UserItems(h \o g)[k] = UserItems(h)[k]
<1>1. PICK n \in UserPlaces(h) : Rank(h, n) = k
  BY RankExists
<1>2. n \in 1 .. Len(h)
  BY PlacesFinite
<1>3. n \in UserPlaces(h \o g) /\ Rank(h \o g, n) = k
  BY <1>1, <1>2, PlacesOfConcat
<1>4. h \o g \in Seq(S) /\ (h \o g)[n] = h[n]
  BY <1>2, ConcatProperties, LenProperties
<1>5. UserItems(h \o g)[Rank(h \o g, n)] = (h \o g)[n]
  BY <1>3, <1>4, UserItemsFacts
<1>6. UserItems(h)[Rank(h, n)] = h[n]
  BY UserItemsFacts
<1> QED
  BY <1>1, <1>3, <1>4, <1>5, <1>6

\* Items that are no user messages (a response, its results, a compaction) leave the
\* user items as they are.
LEMMA UserItemsOfOthers ==
    ASSUME NEW S, NEW h \in Seq(S), NEW g \in Seq(S), \A n \in 1 .. Len(g) : ~IsUser(g[n])
    PROVE  UserItems(h \o g) = UserItems(h)
<1> DEFINE T == {x \in S : IsUser(x)}
<1>1. h \o g \in Seq(S)
  BY ConcatProperties
<1>2. UserPlaces(g) = {}
  BY DEF UserPlaces
<1>3. UserPlaces(h \o g) = UserPlaces(h)
  <2>1. UserPlaces(h) \subseteq 1 .. Len(h) /\ Len(h) \in Nat /\ Len(g) \in Nat
    BY PlacesFinite, LenProperties
  <2>2. ASSUME NEW n \in UserPlaces(h \o g)
        PROVE  n \in UserPlaces(h)
    <3>1. n \in 1 .. Len(h) + Len(g)
      BY PlacesOfConcat
    <3>2. CASE n > Len(h)
      <4>1. n - Len(h) \in 1 .. Len(g) /\ n = Len(h) + (n - Len(h))
        BY <2>1, <3>1, <3>2
      <4>2. Len(h) + (n - Len(h)) \in UserPlaces(h \o g)
        BY <2>2, <4>1
      <4>3. n - Len(h) \in UserPlaces(g)
        BY <4>1, <4>2, PlacesOfConcat
      <4> QED
        BY <1>2, <4>3
    <3>3. CASE n <= Len(h)
      BY <2>1, <3>1, <3>3, PlacesOfConcat
    <3> QED
      BY <2>1, <3>1, <3>2, <3>3
  <2>3. \A n \in UserPlaces(h) : n \in UserPlaces(h \o g)
    BY <2>1, PlacesOfConcat
  <2> QED
    BY <2>2, <2>3
<1>4. /\ UserItems(h \o g) \in Seq(T) /\ UserItems(h) \in Seq(T)
      /\ Len(UserItems(h \o g)) = Len(UserItems(h))
      /\ Len(UserItems(h)) = Cardinality(UserPlaces(h))
  BY <1>1, <1>3, UserItemsFacts
<1>5. \A k \in 1 .. Cardinality(UserPlaces(h)) : UserItems(h \o g)[k] = UserItems(h)[k]
  BY UserItemsKept
<1> HIDE DEF T
<1> QED
  BY <1>4, <1>5, SeqEqual

\* User messages that join a projection are its newest user items.
LEMMA UserItemsOfUsers ==
    ASSUME NEW S, NEW h \in Seq(S), NEW g \in Seq(S), \A n \in 1 .. Len(g) : IsUser(g[n])
    PROVE  UserItems(h \o g) = UserItems(h) \o g
<1> DEFINE T == {x \in S : IsUser(x)}
           C == Cardinality(UserPlaces(h))
           Added(j) == Len(h) + 1 .. Len(h) + j
<1>1. h \o g \in Seq(S) /\ Len(h) \in Nat /\ Len(g) \in Nat /\ C \in Nat
  BY ConcatProperties, LenProperties, PlacesFinite
<1>2. UserPlaces(g) = 1 .. Len(g)
  BY DEF UserPlaces
<1>3. UserPlaces(h) \subseteq 1 .. Len(h) /\ IsFiniteSet(UserPlaces(h))
  BY PlacesFinite
<1>4. ASSUME NEW n
      PROVE  n \in UserPlaces(h \o g) <=> n \in UserPlaces(h) \/ n \in Added(Len(g))
  <2>1. ASSUME n \in UserPlaces(h \o g)
        PROVE  n \in UserPlaces(h) \/ n \in Added(Len(g))
    <3>1. n \in 1 .. Len(h) + Len(g)
      BY <2>1, PlacesOfConcat
    <3>2. n \in 1 .. Len(h) \/ n \in Added(Len(g))
      BY <1>1, <3>1
    <3> QED
      BY <2>1, <3>2, PlacesOfConcat
  <2>2. ASSUME n \in Added(Len(g))
        PROVE  n \in UserPlaces(h \o g)
    <3>1. n - Len(h) \in 1 .. Len(g) /\ n = Len(h) + (n - Len(h))
      BY <1>1, <2>2
    <3>2. Len(h) + (n - Len(h)) \in UserPlaces(h \o g)
      BY <1>2, <3>1, PlacesOfConcat
    <3> QED
      BY <3>1, <3>2
  <2>3. n \in UserPlaces(h) => n \in UserPlaces(h \o g)
    BY <1>3, PlacesOfConcat
  <2> QED
    BY <2>1, <2>2, <2>3
<1>5. ASSUME NEW j \in 0 .. Len(g)
      PROVE  Cardinality(UserPlaces(h) \cup Added(j)) = C + j
  <2>1. IsFiniteSet(Added(j)) /\ Cardinality(Added(j)) = j
    <3>1. PICK a \in Int : a = Len(h) + 1
      BY <1>1
    <3>2. PICK b \in Int : b = Len(h) + j
      BY <1>1
    <3>3. IsFiniteSet(a .. b) /\ Cardinality(a .. b) = IF a > b THEN 0 ELSE b - a + 1
      BY FS_Interval
    <3>4. Added(j) = a .. b
      BY <3>1, <3>2
    <3> QED
      BY <1>1, <3>1, <3>2, <3>3, <3>4
  <2>2. UserPlaces(h) \cap Added(j) = {}
    BY <1>1, <1>3
  <2> HIDE DEF Added
  <2>3. Cardinality(UserPlaces(h) \cup Added(j)) = Cardinality(UserPlaces(h)) + Cardinality(Added(j)) - Cardinality({})
    BY <1>3, <2>1, <2>2, FS_Union
  <2> QED
    BY <1>1, <2>1, <2>3, FS_EmptySet
<1>6. Cardinality(UserPlaces(h \o g)) = C + Len(g)
  <2>1. UserPlaces(h \o g) = UserPlaces(h) \cup Added(Len(g))
    BY <1>4
  <2> QED
    BY <1>1, <1>5, <2>1
<1>7. ASSUME NEW j \in 1 .. Len(g)
      PROVE  Len(h) + j \in UserPlaces(h \o g) /\ Rank(h \o g, Len(h) + j) = C + j
  <2>1. Len(h) + j \in UserPlaces(h \o g)
    BY <1>2, PlacesOfConcat
  <2>2. \A m : m \in {x \in UserPlaces(h \o g) : x <= Len(h) + j} <=> m \in UserPlaces(h) \cup Added(j)
    <3> SUFFICES ASSUME NEW m
                 PROVE  m \in {x \in UserPlaces(h \o g) : x <= Len(h) + j}
                          <=> m \in UserPlaces(h) \cup Added(j)
      OBVIOUS
    <3>1. m \in UserPlaces(h) => m <= Len(h) + j
      BY <1>1, <1>3
    <3>2. m \in Added(Len(g)) /\ m <= Len(h) + j <=> m \in Added(j)
      BY <1>1
    <3> QED
      BY <1>4, <3>1, <3>2
  <2>3. {x \in UserPlaces(h \o g) : x <= Len(h) + j} = UserPlaces(h) \cup Added(j)
    BY <2>2
  <2> QED
    BY <1>5, <2>1, <2>3 DEF Rank
<1>8. /\ UserItems(h \o g) \in Seq(T) /\ UserItems(h) \in Seq(T) /\ g \in Seq(T)
      /\ Len(UserItems(h \o g)) = C + Len(g) /\ Len(UserItems(h)) = C
  <2>1. g \in Seq(T)
    BY ElementOfSeq, IsASeq
  <2> QED
    BY <1>1, <1>6, <2>1, UserItemsFacts
<1>9. \A k \in 1 .. C : UserItems(h \o g)[k] = UserItems(h)[k]
  BY UserItemsKept
<1>10. ASSUME NEW j \in 1 .. Len(g)
       PROVE  UserItems(h \o g)[C + j] = g[j]
  <2>1. UserItems(h \o g)[Rank(h \o g, Len(h) + j)] = (h \o g)[Len(h) + j]
    BY <1>1, <1>7, UserItemsFacts
  <2>2. (h \o g)[Len(h) + j] = g[j]
    BY <1>1, ConcatProperties
  <2> QED
    BY <1>7, <2>1, <2>2
<1> HIDE DEF T, C
<1>11. /\ UserItems(h) \o g \in Seq(T) /\ Len(UserItems(h) \o g) = C + Len(g)
       /\ \A k \in 1 .. C + Len(g) :
              (UserItems(h) \o g)[k] = IF k <= C THEN UserItems(h)[k] ELSE g[k - C]
  BY <1>8, ConcatProperties
<1>12. ASSUME NEW k \in 1 .. C + Len(g)
       PROVE  UserItems(h \o g)[k] = (UserItems(h) \o g)[k]
  <2>0. k \in Nat /\ k >= 1 /\ k <= C + Len(g)
    BY <1>1
  <2>1. CASE k <= C
    BY <1>1, <1>9, <1>11, <2>0, <2>1
  <2>2. CASE k > C
    <3>1. k - C \in 1 .. Len(g) /\ C + (k - C) = k
      BY <1>1, <2>0, <2>2
    <3>2. UserItems(h \o g)[C + (k - C)] = g[k - C]
      BY <1>10, <3>1
    <3> QED
      BY <1>1, <1>11, <2>2, <3>1, <3>2
  <2>3. k <= C \/ k > C
    BY <1>1, <2>0
  <2> QED
    BY <2>1, <2>2, <2>3
<1> QED
  BY <1>8, <1>11, <1>12, SeqEqual

-----------------------------------------------------------------------------
(* The messages that user items carry.                                     *)

\* The messages of user items are a sequence of messages, one for each item.
LEMMA MessagesFacts ==
    ASSUME NEW s \in Seq(UserItem)
    PROVE  /\ Messages(s) \in Seq(Nat) /\ Len(Messages(s)) = Len(s)
           /\ \A i \in 1 .. Len(s) : Messages(s)[i] = s[i][2]
<1>1. Len(s) \in Nat /\ DOMAIN s = 1 .. Len(s) /\ \A i \in 1 .. Len(s) : s[i] \in UserItem
  BY LenProperties, ElementOfSeq
<1>2. \A i \in 1 .. Len(s) : s[i][2] \in Nat
  BY <1>1 DEF UserItem
<1>3. Messages(s) = [i \in 1 .. Len(s) |-> s[i][2]]
  BY <1>1 DEF Messages
<1> DEFINE f == [i \in 1 .. Len(s) |-> s[i][2]]
<1>4. f \in Seq(Nat)
  <2>1. f = [i \in 1 .. Len(s) |-> f[i]] /\ \A i \in 1 .. Len(s) : f[i] \in Nat
    BY <1>2
  <2> HIDE DEF f
  <2> QED
    BY <1>1, <2>1, IsASeq
<1>5. Len(f) = Len(s)
  BY <1>1
<1> QED
  BY <1>3, <1>4, <1>5

\* Messages that come as items are the items' messages.
LEMMA UsersFacts ==
    ASSUME NEW ms \in Seq(Nat)
    PROVE  /\ Users(ms) \in Seq(UserItem) /\ Len(Users(ms)) = Len(ms)
           /\ Messages(Users(ms)) = ms
<1>1. Len(ms) \in Nat /\ DOMAIN ms = 1 .. Len(ms) /\ \A i \in 1 .. Len(ms) : ms[i] \in Nat
  BY LenProperties, ElementOfSeq
<1> DEFINE f == [i \in 1 .. Len(ms) |-> <<"user", ms[i], 0>>]
<1>2. Users(ms) = f
  BY <1>1 DEF Users
<1>3. \A i \in 1 .. Len(ms) : f[i] \in UserItem /\ f[i][2] = ms[i]
  BY <1>1 DEF UserItem
<1>4. f \in Seq(UserItem) /\ Len(f) = Len(ms)
  <2>1. f = [i \in 1 .. Len(ms) |-> f[i]]
    OBVIOUS
  <2>2. Len(f) = Len(ms)
    BY <1>1
  <2> HIDE DEF f
  <2> QED
    BY <1>1, <1>3, <2>1, <2>2, IsASeq
<1> HIDE DEF f
<1>5. /\ Messages(f) \in Seq(Nat) /\ Len(Messages(f)) = Len(ms)
      /\ \A i \in 1 .. Len(ms) : Messages(f)[i] = ms[i]
  BY <1>3, <1>4, MessagesFacts
<1>6. Messages(f) = ms
  BY <1>5, SeqEqual
<1> QED
  BY <1>2, <1>4, <1>6

\* The messages of items in a row are in the same order.
LEMMA MessagesOfConcat ==
    ASSUME NEW s \in Seq(UserItem), NEW t \in Seq(UserItem)
    PROVE  Messages(s \o t) = Messages(s) \o Messages(t)
<1>1. /\ s \o t \in Seq(UserItem) /\ Len(s \o t) = Len(s) + Len(t)
      /\ \A i \in 1 .. Len(s) + Len(t) : (s \o t)[i] = IF i <= Len(s) THEN s[i] ELSE t[i - Len(s)]
  BY ConcatProperties
<1>2. Len(s) \in Nat /\ Len(t) \in Nat
  BY LenProperties
<1>3. /\ Messages(s \o t) \in Seq(Nat) /\ Len(Messages(s \o t)) = Len(s) + Len(t)
      /\ \A i \in 1 .. Len(s) + Len(t) : Messages(s \o t)[i] = (s \o t)[i][2]
  BY <1>1, MessagesFacts
<1>4. /\ Messages(s) \in Seq(Nat) /\ Len(Messages(s)) = Len(s)
      /\ \A i \in 1 .. Len(s) : Messages(s)[i] = s[i][2]
  BY MessagesFacts
<1>5. /\ Messages(t) \in Seq(Nat) /\ Len(Messages(t)) = Len(t)
      /\ \A i \in 1 .. Len(t) : Messages(t)[i] = t[i][2]
  BY MessagesFacts
<1>6. /\ Messages(s) \o Messages(t) \in Seq(Nat)
      /\ Len(Messages(s) \o Messages(t)) = Len(s) + Len(t)
      /\ \A i \in 1 .. Len(s) + Len(t) :
             (Messages(s) \o Messages(t))[i] =
                 IF i <= Len(s) THEN Messages(s)[i] ELSE Messages(t)[i - Len(s)]
  <2>1. PICK a \in Seq(Nat) : a = Messages(s)
    BY <1>4
  <2>2. PICK b \in Seq(Nat) : b = Messages(t)
    BY <1>5
  <2>3. /\ a \o b \in Seq(Nat) /\ Len(a \o b) = Len(a) + Len(b)
        /\ \A i \in 1 .. Len(a) + Len(b) : (a \o b)[i] = IF i <= Len(a) THEN a[i] ELSE b[i - Len(a)]
    BY ConcatProperties
  <2> QED
    BY <1>4, <1>5, <2>1, <2>2, <2>3
<1>7. ASSUME NEW i \in 1 .. Len(s) + Len(t)
      PROVE  Messages(s \o t)[i] = (Messages(s) \o Messages(t))[i]
  <2>1. i \in Nat /\ (i <= Len(s) => i \in 1 .. Len(s)) /\ (~(i <= Len(s)) => i - Len(s) \in 1 .. Len(t))
    BY <1>2
  <2> QED
    BY <1>1, <1>3, <1>4, <1>5, <1>6, <2>1
<1> QED
  BY <1>3, <1>6, <1>7, SeqEqual

\* The newest of some user items carry the newest of their messages.
LEMMA MessagesOfNewest ==
    ASSUME NEW s \in Seq(UserItem), NEW d \in 0 .. Len(s)
    PROVE  /\ SubSeq(s, d + 1, Len(s)) \in Seq(UserItem)
           /\ Len(SubSeq(s, d + 1, Len(s))) = Len(s) - d
           /\ EndsWith(Messages(s), Messages(SubSeq(s, d + 1, Len(s))))
<1> DEFINE t == SubSeq(s, d + 1, Len(s))
<1>1. Len(s) \in Nat /\ \A i \in 1 .. Len(s) : s[i] \in UserItem
  BY LenProperties, ElementOfSeq
<1>2. \A i \in d + 1 .. Len(s) : s[i] \in UserItem
  BY <1>1
<1>3. d + 1 \in Int /\ Len(s) \in Int
  BY <1>1
<1>4. /\ t \in Seq(UserItem)
      /\ Len(t) = IF d + 1 <= Len(s) THEN Len(s) - (d + 1) + 1 ELSE 0
      /\ \A i \in 1 .. Len(s) - (d + 1) + 1 : t[i] = s[d + 1 + i - 1]
  BY <1>2, <1>3, SubSeqProperties
<1>5. Len(t) = Len(s) - d /\ \A i \in 1 .. Len(t) : t[i] = s[d + i]
  BY <1>1, <1>4
<1> HIDE DEF t
<1>6. /\ Len(Messages(s)) = Len(s) /\ \A i \in 1 .. Len(s) : Messages(s)[i] = s[i][2]
  BY MessagesFacts
<1>7. /\ Len(Messages(t)) = Len(t) /\ \A i \in 1 .. Len(t) : Messages(t)[i] = t[i][2]
  BY <1>4, MessagesFacts
<1>8. \A i \in 1 .. Len(t) : d + i \in 1 .. Len(s) /\ Len(s) - Len(t) + i = d + i
  BY <1>1, <1>5
<1>9. EndsWith(Messages(s), Messages(t))
  BY <1>1, <1>5, <1>6, <1>7, <1>8 DEF EndsWith
<1> QED
  BY <1>4, <1>5, <1>9 DEF t

-----------------------------------------------------------------------------
(* Sequences that end another.                                             *)

\* Messages queued in three parts are one queue.
LEMMA ThreeParts ==
    ASSUME NEW a \in Seq(Nat), NEW b \in Seq(Nat), NEW c \in Seq(Nat)
    PROVE  (a \o b) \o c = a \o (b \o c)
<1>1. PICK T : T = Nat
  OBVIOUS
<1>2. a \in Seq(T) /\ b \in Seq(T) /\ c \in Seq(T)
  BY <1>1
<1> QED
  BY <1>2, ConcatAssociative

\* What is added to the last part is added to the queue.
LEMMA AppendAfterConcat ==
    ASSUME NEW a \in Seq(Nat), NEW b \in Seq(Nat), NEW m \in Nat
    PROVE  a \o Append(b, m) = Append(a \o b, m)
<1>1. PICK one \in Seq(Nat) : one = <<m>>
  <2>1. <<m>> \in Seq(Nat)
    OBVIOUS
  <2> QED
    BY <2>1
<1>2. Append(b, m) = b \o one
  BY <1>1, AppendIsConcat
<1>3. PICK ab \in Seq(Nat) : ab = a \o b
  BY ConcatProperties
<1>4. Append(ab, m) = ab \o one
  BY <1>1, AppendIsConcat
<1>5. (a \o b) \o one = a \o (b \o one)
  BY ThreeParts
<1> QED
  BY <1>2, <1>3, <1>4, <1>5

\* A message that is queued last is the last one that was received.
LEMMA EndsWithAppend ==
    ASSUME NEW s \in Seq(Nat), NEW t \in Seq(Nat), EndsWith(t, s), NEW m \in Nat
    PROVE  EndsWith(Append(t, m), Append(s, m))
<1>1. Len(s) \in Nat /\ Len(t) \in Nat
  BY LenProperties
<1>2. /\ Len(Append(s, m)) = Len(s) + 1 /\ Append(s, m)[Len(s) + 1] = m
      /\ \A i \in 1 .. Len(s) : Append(s, m)[i] = s[i]
  BY AppendProperties
<1>3. /\ Len(Append(t, m)) = Len(t) + 1 /\ Append(t, m)[Len(t) + 1] = m
      /\ \A i \in 1 .. Len(t) : Append(t, m)[i] = t[i]
  BY AppendProperties
<1>4. ASSUME NEW i \in 1 .. Len(s) + 1
      PROVE  Append(s, m)[i] = Append(t, m)[Len(t) + 1 - (Len(s) + 1) + i]
  <2>1. CASE i = Len(s) + 1
    BY <1>1, <1>2, <1>3, <2>1
  <2>2. CASE i # Len(s) + 1
    <3>1. /\ i \in 1 .. Len(s) /\ Len(t) - Len(s) + i \in 1 .. Len(t)
          /\ Len(t) + 1 - (Len(s) + 1) + i = Len(t) - Len(s) + i
      BY <1>1, <2>2 DEF EndsWith
    <3> QED
      BY <1>2, <1>3, <3>1 DEF EndsWith
  <2> QED
    BY <2>1, <2>2
<1>5. PICK a, b : a = Append(s, m) /\ b = Append(t, m)
  OBVIOUS
<1>6. /\ Len(a) = Len(s) + 1 /\ Len(b) = Len(t) + 1
      /\ \A i \in 1 .. Len(s) + 1 : a[i] = b[Len(t) + 1 - (Len(s) + 1) + i]
  BY <1>2, <1>3, <1>4, <1>5
<1>7. Len(s) + 1 <= Len(t) + 1
  BY <1>1 DEF EndsWith
<1>8. Len(a) <= Len(b)
  BY <1>6, <1>7
<1>9. ASSUME NEW i \in 1 .. Len(a)
      PROVE  a[i] = b[Len(b) - Len(a) + i]
  <2>1. i \in 1 .. Len(s) + 1 /\ Len(b) - Len(a) + i = Len(t) + 1 - (Len(s) + 1) + i
    BY <1>6, <1>9
  <2> QED
    BY <1>6, <2>1
<1>10. EndsWith(b, a)
  BY <1>8, <1>9 DEF EndsWith
<1> QED
  BY <1>5, <1>10

\* The oldest of the messages may be dropped.
LEMMA EndsWithNewest ==
    ASSUME NEW s \in Seq(Nat), NEW u \in Seq(Nat), NEW q \in Seq(Nat), NEW t \in Seq(Nat),
           EndsWith(t, s \o q), EndsWith(s, u)
    PROVE  EndsWith(t, u \o q)
<1>1. Len(s) \in Nat /\ Len(t) \in Nat /\ Len(u) \in Nat /\ Len(q) \in Nat
  BY LenProperties
<1>2. /\ Len(s \o q) = Len(s) + Len(q)
      /\ \A i \in 1 .. Len(s) + Len(q) : (s \o q)[i] = IF i <= Len(s) THEN s[i] ELSE q[i - Len(s)]
  BY ConcatProperties
<1>3. /\ Len(u \o q) = Len(u) + Len(q)
      /\ \A i \in 1 .. Len(u) + Len(q) : (u \o q)[i] = IF i <= Len(u) THEN u[i] ELSE q[i - Len(u)]
  BY ConcatProperties
<1>4. Len(u) <= Len(s) /\ Len(s) + Len(q) <= Len(t)
  BY <1>2 DEF EndsWith
<1>5. PICK d \in Nat : d = Len(s) - Len(u)
  <2>1. Len(s) - Len(u) \in Nat
    BY <1>1, <1>4
  <2> QED
    BY <2>1
<1>6. ASSUME NEW i \in 1 .. Len(u) + Len(q)
      PROVE  (u \o q)[i] = t[Len(t) - (Len(u) + Len(q)) + i]
  <2>1. PICK j \in Nat : j = d + i
    OBVIOUS
  <2>2. j \in 1 .. Len(s) + Len(q) /\ Len(t) - (Len(u) + Len(q)) + i = Len(t) - (Len(s) + Len(q)) + j
    BY <1>1, <1>5, <2>1
  <2>3. (s \o q)[j] = t[Len(t) - (Len(s) + Len(q)) + j]
    BY <1>2, <2>2 DEF EndsWith
  <2>4. (s \o q)[j] = (u \o q)[i]
    <3>1. CASE i <= Len(u)
      <4>1. i \in 1 .. Len(u) /\ j <= Len(s) /\ Len(s) - Len(u) + i = j
        BY <1>1, <1>5, <2>1, <3>1
      <4>2. u[i] = s[j]
        BY <4>1 DEF EndsWith
      <4> QED
        BY <1>2, <1>3, <2>2, <3>1, <4>1, <4>2
    <3>2. CASE ~(i <= Len(u))
      <4>1. ~(j <= Len(s)) /\ j - Len(s) = i - Len(u)
        BY <1>1, <1>5, <2>1, <3>2
      <4> QED
        BY <1>2, <1>3, <2>2, <3>2, <4>1
    <3> QED
      BY <3>1, <3>2
  <2> QED
    BY <2>2, <2>3, <2>4
<1>7. PICK v : v = u \o q
  OBVIOUS
<1>8. /\ Len(v) = Len(u) + Len(q) /\ Len(v) <= Len(t)
      /\ \A i \in 1 .. Len(u) + Len(q) : v[i] = t[Len(t) - (Len(u) + Len(q)) + i]
  BY <1>1, <1>3, <1>4, <1>6, <1>7
<1>9. EndsWith(t, v)
  BY <1>8 DEF EndsWith
<1> QED
  BY <1>7, <1>9

\* What ends a sequence is a suffix of it.
LEMMA EndsWithIsSuffix ==
    ASSUME NEW s \in Seq(Nat), NEW t \in Seq(Nat), EndsWith(t, s)
    PROVE  IsSuffix(s, t)
<1>1. Len(s) \in Nat /\ Len(t) \in Nat /\ Len(s) <= Len(t)
  BY LenProperties DEF EndsWith
<1> DEFINE rs == [i \in 1 .. Len(s) |-> s[(Len(s) - i) + 1]]
           rt == [i \in 1 .. Len(t) |-> t[(Len(t) - i) + 1]]
<1>2. Reverse(s) = rs /\ Reverse(t) = rt
  BY DEF Reverse
<1>3. Len(rs) = Len(s) /\ Len(rt) = Len(t)
  BY <1>1
<1>4. \A i \in 1 .. Len(s) : rs[i] \in Nat /\ rt[i] \in Nat
  <2>1. \A i \in 1 .. Len(s) : /\ (Len(s) - i) + 1 \in 1 .. Len(s) /\ (Len(t) - i) + 1 \in 1 .. Len(t)
                               /\ i \in 1 .. Len(t)
    BY <1>1
  <2>2. \A i \in 1 .. Len(s) : s[i] \in Nat
    BY ElementOfSeq
  <2>3. \A i \in 1 .. Len(t) : t[i] \in Nat
    BY ElementOfSeq
  <2> QED
    BY <2>1, <2>2, <2>3
<1>5. \A i \in 1 .. Len(s) : rs[i] = rt[i]
  <2> SUFFICES ASSUME NEW i \in 1 .. Len(s)
               PROVE  rs[i] = rt[i]
    OBVIOUS
  <2>1. rs[i] = s[(Len(s) - i) + 1] /\ rt[i] = t[(Len(t) - i) + 1]
    BY <1>1
  <2>2. (Len(s) - i) + 1 \in 1 .. Len(s) /\ Len(t) - Len(s) + ((Len(s) - i) + 1) = (Len(t) - i) + 1
    BY <1>1
  <2> QED
    BY <2>1, <2>2 DEF EndsWith
<1> HIDE DEF rs, rt
<1>6. SubSeq(rs, 1, Len(s)) = SubSeq(rt, 1, Len(s))
  <2> DEFINE a == SubSeq(rs, 1, Len(s))
             b == SubSeq(rt, 1, Len(s))
  <2>1. PICK l \in Int : l = Len(s) /\ l >= 0
    BY <1>1
  <2>2. /\ a \in Seq(Nat) /\ Len(a) = IF 1 <= l THEN l - 1 + 1 ELSE 0
        /\ \A i \in 1 .. l - 1 + 1 : a[i] = rs[1 + i - 1]
    BY <1>4, <2>1, SubSeqProperties
  <2>3. /\ b \in Seq(Nat) /\ Len(b) = IF 1 <= l THEN l - 1 + 1 ELSE 0
        /\ \A i \in 1 .. l - 1 + 1 : b[i] = rt[1 + i - 1]
    BY <1>4, <2>1, SubSeqProperties
  <2> HIDE DEF a, b
  <2>4. Len(a) = Len(b) /\ \A i \in 1 .. Len(a) : a[i] = b[i]
    BY <1>5, <2>1, <2>2, <2>3
  <2>5. a = b
    BY <2>2, <2>3, <2>4, SeqEqual
  <2> QED
    BY <2>5 DEF a, b
<1> QED
  BY <1>1, <1>2, <1>3, <1>6 DEF IsSuffix, IsPrefix

-----------------------------------------------------------------------------
(* Calls and their results.                                                *)

\* An item that is neither calls nor a result.
IsPlain(item) == item[1] \notin {"calls", "result"}

\* What holds of the items of a sequence at its places.
LEMMA ConcatAt ==
    ASSUME NEW S, NEW h \in Seq(S), NEW g \in Seq(S)
    PROVE  /\ h \o g \in Seq(S) /\ Len(h) \in Nat /\ Len(g) \in Nat
           /\ DOMAIN h = 1 .. Len(h) /\ DOMAIN (h \o g) = 1 .. Len(h) + Len(g)
           /\ \A n \in 1 .. Len(h) : (h \o g)[n] = h[n]
           /\ \A n \in 1 .. Len(g) : (h \o g)[Len(h) + n] = g[n]
           /\ \A n \in 1 .. Len(h) + Len(g) :
                  n \in 1 .. Len(h) \/ \E i \in 1 .. Len(g) : n = Len(h) + i
<1>1. Len(h) \in Nat /\ Len(g) \in Nat /\ DOMAIN h = 1 .. Len(h)
  BY LenProperties
<1>2. /\ h \o g \in Seq(S) /\ Len(h \o g) = Len(h) + Len(g)
      /\ \A i \in 1 .. Len(h) + Len(g) : (h \o g)[i] = IF i <= Len(h) THEN h[i] ELSE g[i - Len(h)]
  BY ConcatProperties
<1>3. DOMAIN (h \o g) = 1 .. Len(h) + Len(g)
  BY <1>2, LenProperties
<1>4. ASSUME NEW n \in 1 .. Len(h) + Len(g), n \notin 1 .. Len(h)
      PROVE  \E i \in 1 .. Len(g) : n = Len(h) + i
  <2>1. n - Len(h) \in 1 .. Len(g) /\ n = Len(h) + (n - Len(h))
    BY <1>1, <1>4
  <2> QED
    BY <2>1
<1>5. \A n \in 1 .. Len(h) : (h \o g)[n] = h[n]
  BY <1>1, <1>2
<1>6. \A n \in 1 .. Len(g) : (h \o g)[Len(h) + n] = g[n]
  BY <1>1, <1>2
<1> QED
  BY <1>1, <1>2, <1>3, <1>4, <1>5, <1>6

\* A paired projection stays paired in front of anything, as far as it reaches.
LEMMA PairedAhead ==
    ASSUME NEW S, NEW h \in Seq(S), NEW g \in Seq(S), Paired(h), NEW n \in 1 .. Len(h)
    PROVE  CallAnswered(h \o g, n) /\ ResultAsked(h \o g, n)
<1>1. PICK f : f = h \o g
  OBVIOUS
<1>2. /\ Len(h) \in Nat /\ Len(g) \in Nat /\ DOMAIN h = 1 .. Len(h)
      /\ DOMAIN f = 1 .. Len(h) + Len(g) /\ \A m \in 1 .. Len(h) : f[m] = h[m]
  BY <1>1, ConcatAt
<1>3. CallAnswered(h, n) /\ ResultAsked(h, n)
  BY <1>2 DEF Paired
<1>4. f[n] = h[n]
  BY <1>2
<1>5. \A m \in 1 .. Len(h) : m \in 1 .. Len(h) + Len(g)
  BY <1>2
<1>6. CallAnswered(f, n)
  BY <1>2, <1>3, <1>4, <1>5 DEF CallAnswered
<1>7. \A m \in 1 .. n - 1 : m \in 1 .. Len(h)
  BY <1>2
<1>8. ResultAsked(f, n)
  BY <1>2, <1>3, <1>4, <1>7 DEF ResultAsked
<1> QED
  BY <1>1, <1>6, <1>8

\* Items that are neither calls nor results leave a projection paired.
LEMMA PairedPlain ==
    ASSUME NEW S, NEW h \in Seq(S), NEW g \in Seq(S), Paired(h), \A n \in 1 .. Len(g) : IsPlain(g[n])
    PROVE  Paired(h \o g)
<1>1. PICK f : f = h \o g
  OBVIOUS
<1>2. /\ DOMAIN f = 1 .. Len(h) + Len(g)
      /\ \A n \in 1 .. Len(g) : f[Len(h) + n] = g[n]
      /\ \A n \in 1 .. Len(h) + Len(g) :
             n \in 1 .. Len(h) \/ \E i \in 1 .. Len(g) : n = Len(h) + i
  BY <1>1, ConcatAt
<1>3. \A n \in 1 .. Len(h) : CallAnswered(f, n) /\ ResultAsked(f, n)
  BY <1>1, PairedAhead
<1>4. ASSUME NEW i \in 1 .. Len(g)
      PROVE  CallAnswered(f, Len(h) + i) /\ ResultAsked(f, Len(h) + i)
  BY <1>2 DEF IsPlain, CallAnswered, ResultAsked
<1>5. Paired(f)
  BY <1>2, <1>3, <1>4 DEF Paired
<1> QED
  BY <1>1, <1>5

\* r holds the results of the calls c, in call order.
ResultsOf(r, c) ==
    c[1] = "calls" /\ c[3] \in Nat /\ Len(r) = c[3] /\ \A i \in 1 .. c[3] : r[i] = <<"result", c[2], i>>

\* finish_completed_tool_plan: calls and then their results, in call order, leave a
\* projection paired.
LEMMA PairedResults ==
    ASSUME NEW S, NEW h \in Seq(S), Paired(h), NEW c \in S, NEW r \in Seq(S), ResultsOf(r, c)
    PROVE  Paired(Append(h, c) \o r)
<1>2. PICK e \in Seq(S) : e = Append(h, c)
  BY AppendProperties
<1>3. /\ Len(h) \in Nat /\ Len(e) = Len(h) + 1 /\ e[Len(h) + 1] = c
      /\ \A i \in 1 .. Len(h) : e[i] = h[i]
  BY <1>2, AppendProperties, LenProperties
<1>4. e = h \o <<c>>
  BY <1>2, AppendIsConcat
<1>5. <<c>> \in Seq(S)
  OBVIOUS
<1> DEFINE l == Len(h)
           a == c[2]
           k == c[3]
<1>6. PICK g \in Seq(S) : g = <<c>> \o r
  BY <1>5, ConcatProperties
<1>7. PICK f : f = e \o r
  OBVIOUS
<1>8. f = h \o g
  BY <1>4, <1>5, <1>6, <1>7, ConcatAssociative
<1>9. /\ DOMAIN f = 1 .. l + 1 + k
      /\ f[l + 1] = c /\ \A i \in 1 .. k : f[l + 1 + i] = <<"result", a, i>>
      /\ \A n \in 1 .. l + 1 + k : n \in 1 .. l + 1 \/ \E i \in 1 .. k : n = l + 1 + i
  <2>0. \A n \in 1 .. Len(e) + Len(r) :
            n \in 1 .. Len(e) \/ \E i \in 1 .. Len(r) : n = Len(e) + i
    <3> HIDE DEF l, a, k
    <3> QED
      BY ConcatAt
  <2>1. /\ DOMAIN f = 1 .. Len(e) + Len(r)
        /\ \A n \in 1 .. Len(e) : f[n] = e[n]
        /\ \A n \in 1 .. Len(r) : f[Len(e) + n] = r[n]
    <3>1. DOMAIN (e \o r) = 1 .. Len(e) + Len(r)
      BY ConcatAt
    <3>2. \A n \in 1 .. Len(e) : (e \o r)[n] = e[n]
      BY ConcatAt
    <3>3. \A n \in 1 .. Len(r) : (e \o r)[Len(e) + n] = r[n]
      BY ConcatAt
    <3> QED
      BY <1>7, <3>1, <3>2, <3>3
  <2>2. l + 1 \in 1 .. Len(e)
    BY <1>3
  <2>3. Len(r) = k /\ \A i \in 1 .. k : r[i] = <<"result", a, i>>
    BY DEF ResultsOf
  <2> QED
    BY <1>3, <2>0, <2>1, <2>2, <2>3
<1>10. \A n \in 1 .. l : CallAnswered(f, n) /\ ResultAsked(f, n)
  BY <1>8, PairedAhead
<1>11. l \in Nat /\ k \in Nat /\ c[1] = "calls"
  BY <1>3 DEF ResultsOf
<1> HIDE DEF l
<1>12. CallAnswered(f, l + 1) /\ ResultAsked(f, l + 1)
  <2>1. f[l + 1][1] = "calls" /\ f[l + 1][2] = a /\ f[l + 1][3] = k
    BY <1>9, <1>11
  <2>2. \A i \in 1 .. k : l + 1 + i \in 1 .. l + 1 + k
    BY <1>11
  <2> QED
    BY <1>9, <2>1, <2>2 DEF CallAnswered, ResultAsked
<1>13. ASSUME NEW i \in 1 .. k
       PROVE  CallAnswered(f, l + 1 + i) /\ ResultAsked(f, l + 1 + i)
  <2>1. f[l + 1 + i][1] = "result" /\ f[l + 1 + i][2] = a /\ f[l + 1 + i][3] = i
    BY <1>9
  <2>2. l + 1 \in 1 .. (l + 1 + i) - 1 /\ f[l + 1][1] = "calls" /\ f[l + 1][2] = a
    BY <1>9, <1>11
  <2> QED
    BY <2>1, <2>2 DEF CallAnswered, ResultAsked
<1>14. \A n \in 1 .. l + 1 : n \in 1 .. l \/ n = l + 1
  BY <1>11
<1>15. Paired(f)
  BY <1>9, <1>10, <1>12, <1>13, <1>14 DEF Paired
<1> QED
  BY <1>2, <1>7, <1>15

\* A projection with an item at its end.
LEMMA LastItem ==
    ASSUME NEW S, NEW b \in Seq(S), NEW c \in S
    PROVE  /\ Append(b, c) \in Seq(S) /\ Len(Append(b, c)) = Len(b) + 1
           /\ Append(b, c)[Len(b) + 1] = c
           /\ SubSeq(Append(b, c), 1, Len(b)) = b
<1>1. PICK h \in Seq(S) : h = Append(b, c)
  BY AppendProperties
<1>2. Len(b) \in Nat /\ Len(h) = Len(b) + 1 /\ h[Len(b) + 1] = c /\ \A i \in 1 .. Len(b) : h[i] = b[i]
  BY <1>1, AppendProperties, LenProperties
<1>3. PICK l \in Int : l = Len(b)
  BY <1>2
<1>4. \A i \in 1 .. l : h[i] \in S
  BY <1>2, <1>3, ElementOfSeq
<1>5. /\ SubSeq(h, 1, l) \in Seq(S) /\ Len(SubSeq(h, 1, l)) = IF 1 <= l THEN l - 1 + 1 ELSE 0
      /\ \A i \in 1 .. l - 1 + 1 : SubSeq(h, 1, l)[i] = h[1 + i - 1]
  BY <1>4, SubSeqProperties
<1>6. PICK d \in Seq(S) : d = SubSeq(h, 1, l)
  BY <1>5
<1>7. Len(d) = Len(b) /\ \A i \in 1 .. Len(d) : d[i] = b[i]
  BY <1>2, <1>3, <1>5, <1>6
<1>8. d = b
  BY <1>7, SeqEqual
<1> QED
  BY <1>1, <1>2, <1>3, <1>6, <1>8

\* A projection that is not empty is its items up to the last and the last one.
LEMMA UpToTheLast ==
    ASSUME NEW S, NEW h \in Seq(S), Len(h) > 0
    PROVE  \E b \in Seq(S), c \in S :
               b = SubSeq(h, 1, Len(h) - 1) /\ c = h[Len(h)] /\ h = Append(b, c)
<1>1. h # <<>>
  OBVIOUS
<1>2. PICK b \in Seq(S), c \in S : h = Append(b, c)
  BY <1>1, SequenceEmptyOrAppend
<1>3. /\ Len(h) = Len(b) + 1 /\ h[Len(b) + 1] = c /\ SubSeq(h, 1, Len(b)) = b /\ Len(b) \in Nat
  BY <1>2, LastItem, LenProperties
<1>4. Len(h) - 1 = Len(b)
  BY <1>3
<1> QED
  BY <1>2, <1>3, <1>4

\* AwaitsResults in terms of what the projection was before the calls.
LEMMA AwaitsResultsFacts ==
    ASSUME NEW b \in Seq(Items), NEW n \in Nat, NEW k \in Nat, Paired(b),
           NEW p, p.assistant = n, DOMAIN p.calls = 1 .. k
    PROVE  AwaitsResults(Append(b, <<"calls", n, k>>), p)
<1>1. PICK c \in Items : c = <<"calls", n, k>>
  BY DEF Items
<1>2. PICK h : h = Append(b, c)
  OBVIOUS
<1>3. Len(h) = Len(b) + 1 /\ h[Len(b) + 1] = c /\ SubSeq(h, 1, Len(b)) = b /\ Len(b) \in Nat
  BY <1>2, LastItem, LenProperties
<1>4. Len(h) > 0 /\ Len(h) - 1 = Len(b)
  BY <1>3
<1>5. h[Len(h)] = c /\ c[3] = k
  BY <1>1, <1>3
<1>6. AwaitsResults(h, p)
  BY <1>1, <1>3, <1>4, <1>5 DEF AwaitsResults
<1> QED
  BY <1>1, <1>2, <1>6

\* No two kinds of items are taken for each other.
LEMMA ItemKinds ==
    /\ \A n, k \in Nat : /\ <<"calls", n, k>> \in Items /\ ~IsUser(<<"calls", n, k>>)
                         /\ <<"result", n, k>> \in Items /\ ~IsUser(<<"result", n, k>>)
                         /\ <<"assistant", n, k>> \in Items /\ ~IsUser(<<"assistant", n, k>>)
                         /\ <<"compaction", n, k>> \in Items /\ ~IsUser(<<"compaction", n, k>>)
                         /\ IsPlain(<<"assistant", n, k>>) /\ IsPlain(<<"compaction", n, k>>)
    /\ \A x \in UserItem : x \in Items /\ IsUser(x) /\ IsPlain(x)
    /\ \A x \in Items : IsUser(x) => x \in UserItem
<1>1. \A n, k \in Nat : /\ <<"calls", n, k>> \in Items /\ ~IsUser(<<"calls", n, k>>)
                        /\ <<"result", n, k>> \in Items /\ ~IsUser(<<"result", n, k>>)
                        /\ <<"assistant", n, k>> \in Items /\ ~IsUser(<<"assistant", n, k>>)
                        /\ <<"compaction", n, k>> \in Items /\ ~IsUser(<<"compaction", n, k>>)
                        /\ IsPlain(<<"assistant", n, k>>) /\ IsPlain(<<"compaction", n, k>>)
  BY DEF Items, IsUser, IsPlain
<1>2. \A x \in UserItem : x \in Items /\ IsUser(x) /\ IsPlain(x)
  BY DEF Items, UserItem, IsUser, IsPlain
<1>3. \A x \in Items : IsUser(x) => x \in UserItem
  BY DEF Items, IsUser
<1> QED
  BY <1>1, <1>2, <1>3

\* Of a projection's items the user items are user items.
LEMMA UserItemsTyped ==
    ASSUME NEW h \in Seq(Items)
    PROVE  UserItems(h) \in Seq(UserItem) /\ Messages(UserItems(h)) \in Seq(Nat)
<1>1. UserItems(h) \in Seq({x \in Items : IsUser(x)})
  BY UserItemsFacts
<1>2. {x \in Items : IsUser(x)} \subseteq UserItem
  BY ItemKinds
<1>3. UserItems(h) \in Seq(UserItem)
  BY <1>1, <1>2, SeqMonotonic
<1> QED
  BY <1>3, MessagesFacts

\* A response joins the projection.
LEMMA ItemJoins ==
    ASSUME NEW h \in Seq(Items), NEW c \in Items, ~IsUser(c)
    PROVE  /\ Append(h, c) \in Seq(Items) /\ UserItems(Append(h, c)) = UserItems(h)
           /\ Paired(h) /\ IsPlain(c) => Paired(Append(h, c))
<1>1. PICK g \in Seq(Items) : g = <<c>> /\ Len(g) = 1 /\ g[1] = c
  <2>1. <<c>> \in Seq(Items) /\ Len(<<c>>) = 1 /\ <<c>>[1] = c
    OBVIOUS
  <2> QED
    BY <2>1
<1>2. Append(h, c) = h \o g
  BY <1>1, AppendIsConcat
<1>3. Append(h, c) \in Seq(Items)
  BY AppendProperties
<1>4. \A n \in 1 .. Len(g) : ~IsUser(g[n]) /\ (IsPlain(c) => IsPlain(g[n]))
  BY <1>1
<1>5. UserItems(h \o g) = UserItems(h)
  BY <1>4, UserItemsOfOthers
<1>6. ASSUME Paired(h), IsPlain(c)
      PROVE  Paired(h \o g)
  BY <1>4, <1>6, PairedPlain
<1> QED
  BY <1>2, <1>3, <1>5, <1>6

\* Messages join the projection.
LEMMA UsersJoin ==
    ASSUME NEW h \in Seq(Items), NEW ms \in Seq(Nat)
    PROVE  /\ h \o Users(ms) \in Seq(Items)
           /\ Messages(UserItems(h \o Users(ms))) = Messages(UserItems(h)) \o ms
           /\ UserItems(h \o Users(ms)) = UserItems(h) \o Users(ms)
           /\ Paired(h) => Paired(h \o Users(ms))
<1>1. PICK g \in Seq(UserItem) : g = Users(ms) /\ Messages(g) = ms
  BY UsersFacts
<1>2. UserItem \subseteq Items /\ \A x \in UserItem : IsUser(x) /\ IsPlain(x)
  BY ItemKinds
<1>3. g \in Seq(Items)
  BY <1>2, SeqMonotonic
<1>4. \A n \in 1 .. Len(g) : IsUser(g[n]) /\ IsPlain(g[n])
  BY <1>2, ElementOfSeq
<1>5. UserItems(h \o g) = UserItems(h) \o g
  BY <1>3, <1>4, UserItemsOfUsers
<1>6. PICK u \in Seq(UserItem) : u = UserItems(h)
  BY UserItemsTyped
<1>7. Messages(u \o g) = Messages(u) \o Messages(g)
  BY MessagesOfConcat
<1>8. Paired(h) => Paired(h \o g)
  BY <1>3, <1>4, PairedPlain
<1>9. h \o g \in Seq(Items)
  BY <1>3, ConcatProperties
<1> QED
  BY <1>1, <1>5, <1>6, <1>7, <1>8, <1>9

-----------------------------------------------------------------------------
(* The steps of a live turn.                                               *)

\* The state of a live turn that a handler finds.
LEMMA LiveFacts ==
    ASSUME IndInv, ProjectionInv, Live
    PROVE  /\ IsTurn(turn) /\ requests \in Nat /\ ~cancel.requested /\ ~failed /\ ~error
           /\ history \in Seq(Items) /\ received \in Seq(Nat)
           /\ turn.input \in Seq(Nat) /\ turn.steering \in Seq(Nat)
           /\ turn.phase # "compacting" => turn.input = <<>>
           /\ turn.phase # "executing_tools" => Paired(history)
           /\ Messages(UserItems(history)) \in Seq(Nat)
           /\ EndsWith(received, (Messages(UserItems(history)) \o turn.input) \o turn.steering)
<1>1. IsTurn(turn) /\ requests \in Nat /\ ~cancel.requested /\ ~failed /\ ~error
  BY DEF IndInv, TurnInv, Live
<1>2. /\ history \in Seq(Items) /\ received \in Seq(Nat)
      /\ turn.input \in Seq(Nat) /\ turn.steering \in Seq(Nat)
      /\ turn.phase # "compacting" => turn.input = <<>>
  BY DEF ProjectionInv, HistoryInv
<1>3. turn.phase # "executing_tools" => Paired(history)
  BY <1>1 DEF ProjectionInv, PairsInv
<1>4. EndsWith(received, (Messages(UserItems(history)) \o turn.input) \o turn.steering)
  BY DEF ProjectionInv, MessagesInv, Queued
<1>5. Messages(UserItems(history)) \in Seq(Nat)
  BY <1>2, UserItemsTyped
<1> QED
  BY <1>1, <1>2, <1>3, <1>4, <1>5

\* stage_after_boundary: the steering stays queued behind a compaction, or joins the
\* projection after everything that is in it.
LEMMA BoundaryKeepsOrder ==
    ASSUME IndInv, ProjectionInv, Live, InputsInv', NEW o, NEW h \in Seq(Items),
           StageAfterBoundary(o, h), Paired(h), UserItems(h) = UserItems(history),
           turn.phase \in {"awaiting_llm", "executing_tools"}
    PROVE  ProjectionInv'
<1>1. /\ IsTurn(turn) /\ received \in Seq(Nat) /\ turn.input = <<>> /\ turn.steering \in Seq(Nat)
      /\ EndsWith(received, (Messages(UserItems(history)) \o turn.input) \o turn.steering)
  BY LiveFacts
<1>2. PICK m \in Seq(Nat) : m = Messages(UserItems(history))
  BY LiveFacts
<1>3. PICK st \in Seq(Nat) : st = turn.steering
  BY <1>1
<1>4. m \o <<>> = m /\ m \o st \in Seq(Nat)
  BY ConcatEmptySeq, ConcatProperties
<1>5. (m \o st) \o <<>> = m \o st
  BY <1>4, ConcatEmptySeq
<1>6. EndsWith(received, m \o st)
  BY <1>1, <1>2, <1>3, <1>4
<1>7. received' = received /\ <<>> \in Seq(Nat)
  BY DEF StageAfterBoundary
<1>8. CASE /\ history' = h
           /\ turn' = [turn EXCEPT !.phase = "compacting", !.op = Llm(requests + 1),
                                   !.attempt = 1, !.input = <<>>, !.source = h]
  <2>1. turn'.phase = "compacting" /\ turn'.input = <<>> /\ turn'.steering = st
    BY <1>1, <1>3, <1>8 DEF IsTurn
  <2>2. HistoryInv'
    BY <1>1, <1>3, <1>7, <1>8, <2>1 DEF HistoryInv
  <2>3. PairsInv'
    BY <1>8, <2>1 DEF PairsInv
  <2>4. Queued' = m \o st
    BY <1>2, <1>4, <1>8, <2>1 DEF Queued
  <2>5. MessagesInv'
    BY <1>6, <1>7, <2>4 DEF MessagesInv
  <2> QED
    BY <2>2, <2>3, <2>5 DEF ProjectionInv
<1>9. CASE /\ history' = h \o Users(turn.steering)
           /\ turn' = [turn EXCEPT !.phase = "awaiting_llm", !.op = Llm(requests + 1),
                                   !.steering = <<>>]
  <2>1. turn'.phase = "awaiting_llm" /\ turn'.input = <<>> /\ turn'.steering = <<>>
    BY <1>1, <1>9 DEF IsTurn
  <2>2. /\ h \o Users(st) \in Seq(Items) /\ Paired(h \o Users(st))
        /\ Messages(UserItems(h \o Users(st))) = m \o st
    BY <1>2, UsersJoin
  <2>3. history' = h \o Users(st)
    BY <1>3, <1>9
  <2>4. HistoryInv'
    BY <1>1, <1>7, <2>1, <2>2, <2>3 DEF HistoryInv
  <2>5. PairsInv'
    BY <2>1, <2>2, <2>3 DEF PairsInv
  <2>6. Queued' = m \o st
    BY <1>5, <2>1, <2>2, <2>3 DEF Queued
  <2>7. MessagesInv'
    BY <1>6, <1>7, <2>6 DEF MessagesInv
  <2> QED
    BY <2>4, <2>5, <2>7 DEF ProjectionInv
<1> QED
  BY <1>8, <1>9 DEF StageAfterBoundary

\* A response joins the projection before what is staged next.
LEMMA SaidFacts ==
    ASSUME IndInv, ProjectionInv, NEW o, AwaitsLlm(o, "awaiting_llm")
    PROVE  /\ Live /\ turn.phase = "awaiting_llm" /\ o[2] = requests /\ requests \in Nat
           /\ Said(o) \in Seq(Items) /\ Paired(Said(o)) /\ UserItems(Said(o)) = UserItems(history)
<1>1. Live /\ turn.phase = "awaiting_llm" /\ turn.op = o
  BY DEF AwaitsLlm
<1>2. o[2] = requests
  BY <1>1 DEF IndInv, TurnInv, Llm
<1>3. history \in Seq(Items) /\ Paired(history) /\ requests \in Nat
  BY <1>1, LiveFacts
<1>4. PICK c : c = <<"assistant", requests, 0>>
  OBVIOUS
<1>5. c \in Items /\ ~IsUser(c) /\ IsPlain(c)
  BY <1>3, <1>4, ItemKinds
<1>6. Said(o) = Append(history, c)
  BY <1>2, <1>4 DEF Said
<1> QED
  BY <1>1, <1>2, <1>3, <1>5, <1>6, ItemJoins

\* PauseTurn.
LEMMA LlmPausesKeepsOrder ==
    ASSUME IndInv, ProjectionInv, InputsInv', NEW o, LlmPauses(o)
    PROVE  ProjectionInv'
<1>1. AwaitsLlm(o, "awaiting_llm") /\ StageAfterBoundary(o, Said(o))
  BY DEF LlmPauses
<1> QED
  BY <1>1, SaidFacts, BoundaryKeepsOrder

\* A turn that is over leaves a projection without steering.
LEMMA OverKeepsOrder ==
    ASSUME IndInv, ProjectionInv, Live, InputsInv', NEW h \in Seq(Items), Paired(h),
           UserItems(h) = UserItems(history), turn.phase = "awaiting_llm", turn.steering = <<>>,
           history' = h, turn' = NoTurn, received' = received
    PROVE  ProjectionInv'
<1>1. /\ NoTurn.phase = "none" /\ NoTurn.input = <<>> /\ NoTurn.steering = <<>> /\ <<>> \in Seq(Nat)
  BY DEF NoTurn
<1>2. /\ received \in Seq(Nat) /\ turn.input = <<>>
      /\ EndsWith(received, (Messages(UserItems(history)) \o turn.input) \o turn.steering)
  BY LiveFacts
<1>3. HistoryInv'
  BY <1>1, <1>2 DEF HistoryInv
<1>4. PairsInv'
  BY <1>1 DEF PairsInv
<1>5. Queued' = (Messages(UserItems(history)) \o turn.input) \o turn.steering
  BY <1>1, <1>2 DEF Queued
<1>6. MessagesInv'
  BY <1>2, <1>5 DEF MessagesInv
<1> QED
  BY <1>3, <1>4, <1>6 DEF ProjectionInv

\* Stop: steering that waits joins after the response, or the turn ends.
LEMMA LlmStopsKeepsOrder ==
    ASSUME IndInv, ProjectionInv, InputsInv', NEW o, LlmStops(o)
    PROVE  ProjectionInv'
<1>1. AwaitsLlm(o, "awaiting_llm")
  BY DEF LlmStops
<1>2. CASE StageAfterBoundary(o, Said(o))
  BY <1>1, <1>2, SaidFacts, BoundaryKeepsOrder
<1>3. CASE turn.steering = <<>> /\ turn' = NoTurn /\ history' = Said(o) /\ received' = received
  BY <1>1, <1>3, SaidFacts, OverKeepsOrder
<1> QED
  BY <1>2, <1>3 DEF LlmStops

\* A failed session keeps its projection, or its projection and the last response.
LEMMA FailKeepsOrder ==
    ASSUME IndInv, ProjectionInv, InputsInv', NEW o,
           LlmResponseRejected(o) \/ LlmFails(o) \/ CompactionFails(o)
    PROVE  ProjectionInv'
<1>1. PICK h : FailSession(o, h) /\ h \in Seq(Items) /\ Paired(h)
  <2>1. CASE LlmResponseRejected(o)
    <3>1. AwaitsLlm(o, "awaiting_llm") /\ FailSession(o, Said(o))
      BY <2>1 DEF LlmResponseRejected
    <3> QED
      BY <3>1, SaidFacts
  <2>2. CASE LlmFails(o) \/ CompactionFails(o)
    <3>1. Live /\ turn.phase # "executing_tools" /\ FailSession(o, history)
      BY <2>2 DEF LlmFails, CompactionFails, AwaitsLlm
    <3> QED
      BY <3>1, LiveFacts
  <2> QED
    BY <2>1, <2>2
<1>2. /\ history' = h /\ turn' = NoTurn /\ failed' = TRUE /\ received' = received
  BY <1>1 DEF FailSession
<1>3. /\ NoTurn.phase = "none" /\ NoTurn.input = <<>> /\ NoTurn.steering = <<>> /\ <<>> \in Seq(Nat)
  BY DEF NoTurn
<1>4. HistoryInv'
  BY <1>1, <1>2, <1>3 DEF HistoryInv, ProjectionInv
<1>5. PairsInv' /\ MessagesInv'
  BY <1>1, <1>2, <1>3 DEF PairsInv, MessagesInv, Live
<1> QED
  BY <1>4, <1>5 DEF ProjectionInv

\* schedule_ready keeps the plan's response and its calls.
LEMMA ScheduleKeepsCalls ==
    ASSUME NEW p, IsPlan(p), NEW tracked, NEW s, s = Schedule(p, tracked),
           NEW q, q = Submit(s.plan, s.prepared, tracked)
    PROVE  q.assistant = p.assistant /\ DOMAIN q.calls = DOMAIN p.calls
<1>1. PICK k : s = Arrive(p, k, tracked)
  BY DEF Schedule
<1>2. PICK half : DOMAIN half = DOMAIN p.calls /\ s.plan = [p EXCEPT !.active = k, !.calls = half]
  <2> DEFINE met == (p.active .. k) \cap DOMAIN p.segments
             refused == UNION {Refused(p, j, tracked) : j \in met}
             calls == [i \in DOMAIN p.calls |->
                          IF i \in refused THEN [p.calls[i] EXCEPT !.status = "completed"]
                          ELSE p.calls[i]]
  <2>1. DOMAIN calls = DOMAIN p.calls
    OBVIOUS
  <2>2. s.plan = [p EXCEPT !.active = k, !.calls = calls]
    BY <1>1 DEF Arrive
  <2> HIDE DEF calls
  <2> QED
    BY <2>1, <2>2
<1>3. s.plan = [assistant |-> p.assistant, calls |-> half, segments |-> p.segments, active |-> k]
  BY <1>2, PlanExcept
<1>4. PICK r : r = s.plan
  OBVIOUS
<1>5. IsPlan(r) /\ r.assistant = p.assistant /\ DOMAIN r.calls = DOMAIN p.calls
  BY <1>2, <1>3, <1>4 DEF IsPlan
<1>6. PICK final : DOMAIN final = DOMAIN r.calls /\ q = [r EXCEPT !.calls = final]
  <2> DEFINE calls == [i \in DOMAIN r.calls |->
                          IF i \in s.prepared THEN SubmittedCall(r.assistant, i, r.calls[i], tracked)
                          ELSE r.calls[i]]
  <2>1. DOMAIN calls = DOMAIN r.calls
    OBVIOUS
  <2>2. q = [r EXCEPT !.calls = calls]
    BY <1>4 DEF Submit
  <2> HIDE DEF calls
  <2> QED
    BY <2>1, <2>2
<1>7. q = [assistant |-> r.assistant, calls |-> final, segments |-> r.segments, active |-> r.active]
  BY <1>5, <1>6, PlanExcept
<1> QED
  BY <1>5, <1>6, <1>7

\* The results of a complete plan.
LEMMA ResultsFacts ==
    ASSUME NEW q, NEW n \in Nat, NEW k \in Nat, q.assistant = n, DOMAIN q.calls = 1 .. k
    PROVE  /\ Results(q) \in Seq(Items) /\ ResultsOf(Results(q), <<"calls", n, k>>)
           /\ \A i \in 1 .. Len(Results(q)) : ~IsUser(Results(q)[i])
<1> DEFINE f == [i \in 1 .. k |-> <<"result", n, i>>]
<1>1. Results(q) = f
  BY DEF Results
<1>2. \A i \in 1 .. k : f[i] = <<"result", n, i>> /\ f[i] \in Items /\ ~IsUser(f[i])
  <2>1. \A i \in Nat : <<"result", n, i>> \in Items /\ ~IsUser(<<"result", n, i>>)
    BY ItemKinds
  <2>2. \A i \in 1 .. k : i \in Nat /\ f[i] = <<"result", n, i>>
    OBVIOUS
  <2> QED
    BY <2>1, <2>2
<1>3. Len(f) = k /\ f = [i \in 1 .. k |-> f[i]]
  OBVIOUS
<1> HIDE DEF f
<1>4. f \in Seq(Items)
  BY <1>2, <1>3, IsASeq
<1>5. ResultsOf(f, <<"calls", n, k>>)
  BY <1>2, <1>3 DEF ResultsOf
<1> QED
  BY <1>1, <1>2, <1>3, <1>4, <1>5

\* schedule_ready and finish_completed_tool_plan: the plan goes on, with its calls last
\* in the projection, or its results follow them.
LEMMA RunPlanKeepsOrder ==
    ASSUME IndInv, ProjectionInv, Live, InputsInv', NEW o, NEW p, IsPlan(p), NEW tracked,
           NEW b \in Seq(Items), Paired(b), NEW n \in Nat, NEW k \in Nat, NEW h,
           h = Append(b, <<"calls", n, k>>), p.assistant = n, DOMAIN p.calls = 1 .. k,
           UserItems(h) = UserItems(history), RunPlan(o, p, tracked, h),
           turn.phase \in {"awaiting_llm", "executing_tools"}
    PROVE  ProjectionInv'
<1>1. PICK s : s = Schedule(p, tracked)
  OBVIOUS
<1>2. PICK q : q = Submit(s.plan, s.prepared, tracked)
  OBVIOUS
<1>3. q.assistant = n /\ DOMAIN q.calls = 1 .. k
  BY <1>1, <1>2, ScheduleKeepsCalls
<1>4. \/ StageAfterBoundary(o, h \o Results(q))
      \/ /\ plan' = q /\ history' = h /\ received' = received
         /\ turn' = [turn EXCEPT !.phase = "executing_tools", !.op = None]
  BY <1>1, <1>2 DEF RunPlan
<1>5. PICK c \in Items : c = <<"calls", n, k>>
  BY ItemKinds
<1>6. h \in Seq(Items) /\ h = Append(b, c)
  BY <1>5, AppendProperties
<1>7. CASE StageAfterBoundary(o, h \o Results(q))
  <2>1. PICK r \in Seq(Items) : /\ r = Results(q) /\ ResultsOf(r, c)
                                /\ \A i \in 1 .. Len(r) : ~IsUser(r[i])
    BY <1>3, <1>5, ResultsFacts
  <2>2. Paired(h \o r)
    BY <1>6, <2>1, PairedResults
  <2>3. UserItems(h \o r) = UserItems(history)
    BY <1>6, <2>1, UserItemsOfOthers
  <2>4. h \o r \in Seq(Items)
    BY <1>6, ConcatProperties
  <2>5. StageAfterBoundary(o, h \o r)
    BY <1>7, <2>1
  <2> QED
    BY <2>2, <2>3, <2>4, <2>5, BoundaryKeepsOrder
<1>8. CASE /\ plan' = q /\ history' = h /\ received' = received
           /\ turn' = [turn EXCEPT !.phase = "executing_tools", !.op = None]
  <2>1. /\ IsTurn(turn) /\ turn.input = <<>> /\ turn.steering \in Seq(Nat) /\ received \in Seq(Nat)
        /\ EndsWith(received, (Messages(UserItems(history)) \o turn.input) \o turn.steering)
    BY LiveFacts
  <2>2. /\ turn'.phase = "executing_tools" /\ turn'.input = turn.input
        /\ turn'.steering = turn.steering
    BY <1>8, <2>1 DEF IsTurn
  <2>3. HistoryInv'
    BY <1>6, <1>8, <2>1, <2>2 DEF HistoryInv, ProjectionInv
  <2>4. AwaitsResults(h, q)
    BY <1>3, AwaitsResultsFacts
  <2>5. PairsInv'
    BY <1>8, <2>2, <2>4 DEF PairsInv
  <2>6. Queued' = (Messages(UserItems(history)) \o turn.input) \o turn.steering
    BY <1>8, <2>2 DEF Queued
  <2>7. MessagesInv'
    BY <1>8, <2>1, <2>6 DEF MessagesInv
  <2> QED
    BY <2>3, <2>5, <2>7 DEF ProjectionInv
<1> QED
  BY <1>4, <1>7, <1>8

\* ToolUse: the calls are the last item of the projection.
LEMMA LlmAsksForToolsKeepsOrder ==
    ASSUME IndInv, ProjectionInv, InputsInv', NEW o, LlmAsksForTools(o)
    PROVE  ProjectionInv'
<1>1. AwaitsLlm(o, "awaiting_llm")
  BY DEF LlmAsksForTools
<1>2. Live /\ turn.phase = "awaiting_llm" /\ o[2] = requests /\ requests \in Nat
  BY <1>1, SaidFacts
<1>3. PICK asked \in Plans : RunPlan(o, ParsePlan(o[2], asked), executions,
                                     Append(history, <<"calls", o[2], Len(asked)>>))
  BY DEF LlmAsksForTools
<1>4. PICK p : p = ParsePlan(requests, asked)
  OBVIOUS
<1>5. Len(asked) \in Nat /\ DOMAIN asked = 1 .. Len(asked)
  BY PlansAssumption, LenProperties
<1>6. IsPlan(p) /\ p.assistant = requests /\ DOMAIN p.calls = 1 .. Len(asked)
  BY <1>4, <1>5 DEF ParsePlan, IsPlan
<1>7. history \in Seq(Items) /\ Paired(history)
  BY <1>2, LiveFacts
<1>8. PICK k \in Nat : k = Len(asked)
  BY <1>5
<1>9. PICK h : h = Append(history, <<"calls", requests, k>>)
  OBVIOUS
<1>10. UserItems(h) = UserItems(history)
  <2>1. PICK c \in Items : c = <<"calls", requests, k>> /\ ~IsUser(c)
    BY <1>2, ItemKinds
  <2> QED
    BY <1>7, <1>9, <2>1, ItemJoins
<1>11. RunPlan(o, p, executions, h)
  BY <1>2, <1>3, <1>4, <1>8, <1>9
<1> QED
  BY <1>2, <1>6, <1>7, <1>8, <1>9, <1>10, <1>11, RunPlanKeepsOrder

\* handle_execution_completion: the plan of the calls that are last goes on.
LEMMA ApplyKeepsOrder ==
    ASSUME IndInv, ProjectionInv, InputsInv', NEW o, NEW i, NEW d, NEW tracked,
           ApplyCompletion(o, i, d, tracked)
    PROVE  ProjectionInv'
<1>1. /\ Live /\ turn.phase = "executing_tools"
      /\ RunPlan(o, AdvanceCompletedSegments([plan EXCEPT !.calls[i] = d]), tracked, history)
  BY DEF ApplyCompletion
<1>2. IsPlan(plan) /\ plan.assistant = requests
  BY <1>1 DEF IndInv, PlanInv, PlanReady, PlanShape
<1>3. PICK calls : DOMAIN calls = DOMAIN plan.calls /\ [plan EXCEPT !.calls[i] = d] = [plan EXCEPT !.calls = calls]
  <2> DEFINE calls == [plan.calls EXCEPT ![i] = d]
  <2>1. DOMAIN calls = DOMAIN plan.calls
    OBVIOUS
  <2>2. [plan EXCEPT !.calls[i] = d] = [plan EXCEPT !.calls = calls]
    BY <1>2 DEF IsPlan
  <2> HIDE DEF calls
  <2> QED
    BY <2>1, <2>2
<1>4. PICK r : r = [plan EXCEPT !.calls[i] = d]
  OBVIOUS
<1>5. r = [assistant |-> plan.assistant, calls |-> calls, segments |-> plan.segments,
           active |-> plan.active]
  BY <1>2, <1>3, <1>4, PlanExcept
<1>6. PICK p : p = AdvanceCompletedSegments(r)
  OBVIOUS
<1>7. PICK k : p = [r EXCEPT !.active = k]
  BY <1>6 DEF AdvanceCompletedSegments
<1>8. IsPlan(p) /\ p.assistant = requests /\ DOMAIN p.calls = DOMAIN plan.calls
  <2>1. p = [assistant |-> plan.assistant, calls |-> calls, segments |-> plan.segments, active |-> k]
    BY <1>5, <1>7
  <2> QED
    BY <1>2, <1>3, <2>1 DEF IsPlan
<1>9. history \in Seq(Items) /\ requests \in Nat /\ AwaitsResults(history, plan)
  <2>1. history \in Seq(Items) /\ requests \in Nat /\ ~cancel.requested
    BY <1>1, LiveFacts
  <2> QED
    BY <1>1, <2>1 DEF ProjectionInv, PairsInv
<1>10. PICK b \in Seq(Items), c \in Items :
           /\ b = SubSeq(history, 1, Len(history) - 1)
           /\ c = history[Len(history)] /\ history = Append(b, c)
  BY <1>9, UpToTheLast DEF AwaitsResults
<1>11. /\ Paired(b) /\ c = <<"calls", requests, c[3]>> /\ DOMAIN plan.calls = 1 .. c[3]
  BY <1>2, <1>9, <1>10 DEF AwaitsResults
<1>12. PICK m \in Nat : m = c[3]
  <2>1. c[3] \in Nat
    BY DEF Items, UserItem
  <2> QED
    BY <2>1
<1>13. history = Append(b, <<"calls", requests, m>>) /\ DOMAIN p.calls = 1 .. m
  BY <1>8, <1>10, <1>11, <1>12
<1>14. RunPlan(o, p, tracked, history)
  BY <1>1, <1>4, <1>6
<1> QED
  BY <1>1, <1>8, <1>9, <1>11, <1>13, <1>14, RunPlanKeepsOrder

\* A tool call's completion.
LEMMA CallsKeepOrder ==
    ASSUME IndInv, ProjectionInv, InputsInv', NEW o, ShellResponds(o) \/ PatchContinues(o) \/ CallEnds(o)
    PROVE  ProjectionInv'
<1>1. \E i, d, tracked : ApplyCompletion(o, i, d, tracked)
  BY CallsApply
<1> QED
  BY <1>1, ApplyKeepsOrder

\* The user items of user items alone are these.
LEMMA UserItemsAlone ==
    ASSUME NEW v \in Seq(UserItem)
    PROVE  v \in Seq(Items) /\ UserItems(v) = v /\ Paired(v)
<1>1. UserItem \subseteq Items /\ \A x \in UserItem : IsUser(x) /\ IsPlain(x)
  BY ItemKinds
<1>2. v \in Seq(Items) /\ \A i \in 1 .. Len(v) : IsUser(v[i]) /\ IsPlain(v[i])
  BY <1>1, SeqMonotonic, ElementOfSeq
<1>3. <<>> \in Seq(Items) /\ Len(<<>>) = 0
  OBVIOUS
<1>4. PICK e \in Seq(Items) : e = <<>> /\ Len(e) = 0
  BY <1>3
<1>5. Paired(e) /\ UserPlaces(e) = {}
  BY <1>4 DEF Paired, UserPlaces
<1>6. UserItems(e) \in Seq(UserItem) /\ Len(UserItems(e)) = 0
  BY <1>5, UserItemsTyped, UserItemsFacts, FS_EmptySet
<1>7. e \o v = v
  BY <1>2, <1>4, ConcatEmptySeq
<1>8. UserItems(e \o v) = UserItems(e) \o v
  BY <1>2, UserItemsOfUsers
<1>9. UserItems(e) = <<>>
  BY <1>6, EmptySeq
<1>10. UserItems(e) \o v = v
  BY <1>9, ConcatEmptySeq
<1>11. Paired(e \o v)
  BY <1>2, <1>5, PairedPlain
<1> QED
  BY <1>2, <1>7, <1>8, <1>10, <1>11

\* The retained user items and the provider's item.
LEMMA CompactedHead ==
    ASSUME NEW v \in Seq(UserItem), NEW n \in Nat
    PROVE  \E h \in Seq(Items) :
               h = v \o <<<<"compaction", n, 0>>>> /\ UserItems(h) = v /\ Paired(h)
<1>1. v \in Seq(Items) /\ UserItems(v) = v /\ Paired(v)
  BY UserItemsAlone
<1>2. PICK c \in Items : c = <<"compaction", n, 0>> /\ ~IsUser(c) /\ IsPlain(c)
  BY ItemKinds
<1>3. Append(v, c) = v \o <<c>>
  BY <1>1, AppendIsConcat
<1>4. Append(v, c) \in Seq(Items) /\ UserItems(Append(v, c)) = v /\ Paired(Append(v, c))
  BY <1>1, <1>2, ItemJoins
<1> QED
  BY <1>2, <1>3, <1>4

\* The messages that were held and the steering come after it.
LEMMA CompactedTail ==
    ASSUME NEW h \in Seq(Items), Paired(h), NEW held \in Seq(Nat), NEW st \in Seq(Nat)
    PROVE  \E f \in Seq(Items) :
               /\ f = (h \o Users(held)) \o Users(st) /\ Paired(f)
               /\ Messages(UserItems(f)) = (Messages(UserItems(h)) \o held) \o st
<1>1. /\ h \o Users(held) \in Seq(Items) /\ Paired(h \o Users(held))
      /\ Messages(UserItems(h \o Users(held))) = Messages(UserItems(h)) \o held
  BY UsersJoin
<1>2. PICK g \in Seq(Items) : g = h \o Users(held)
  BY <1>1
<1>3. /\ g \o Users(st) \in Seq(Items) /\ Paired(g \o Users(st))
      /\ Messages(UserItems(g \o Users(st))) = Messages(UserItems(g)) \o st
  BY <1>1, <1>2, UsersJoin
<1> QED
  BY <1>1, <1>2, <1>3

\* A compaction that succeeds drops the oldest messages only.
LEMMA CompactionKeepsOrder ==
    ASSUME IndInv, ProjectionInv, InputsInv', NEW o, CompactionSucceeds(o)
    PROVE  ProjectionInv'
<1>1. PICK u : u = UserItems(history)
  OBVIOUS
<1>2. PICK d \in 0 .. Len(u) :
          history' = SubSeq(u, d + 1, Len(u)) \o <<<<"compaction", o[2], 0>>>>
                     \o Users(turn.input) \o Users(turn.steering)
  BY <1>1 DEF CompactionSucceeds
<1>3. /\ AwaitsLlm(o, "compacting") /\ received' = received
      /\ turn' = [turn EXCEPT !.phase = "awaiting_llm", !.op = Llm(requests + 1), !.attempt = 0,
                              !.input = <<>>, !.source = <<>>, !.steering = <<>>]
  BY DEF CompactionSucceeds
<1>4. Live /\ turn.phase = "compacting" /\ o[2] = requests
  <2>1. Live /\ turn.phase = "compacting" /\ turn.op = o
    BY <1>3 DEF AwaitsLlm
  <2> QED
    BY <2>1 DEF IndInv, TurnInv, Llm
<1>5. /\ IsTurn(turn) /\ requests \in Nat /\ history \in Seq(Items) /\ received \in Seq(Nat)
      /\ turn.input \in Seq(Nat) /\ turn.steering \in Seq(Nat)
      /\ EndsWith(received, (Messages(UserItems(history)) \o turn.input) \o turn.steering)
  BY <1>4, LiveFacts
<1>6. PICK held \in Seq(Nat) : held = turn.input
  BY <1>5
<1>7. PICK st \in Seq(Nat) : st = turn.steering
  BY <1>5
<1>8. u \in Seq(UserItem) /\ Messages(u) \in Seq(Nat)
  BY <1>1, <1>5, UserItemsTyped
<1>9. PICK h : h = history'
  OBVIOUS
<1>10. h = SubSeq(u, d + 1, Len(u)) \o <<<<"compaction", requests, 0>>>> \o Users(held) \o Users(st)
  BY <1>2, <1>4, <1>6, <1>7, <1>9
<1>11. PICK v \in Seq(UserItem) : v = SubSeq(u, d + 1, Len(u)) /\ EndsWith(Messages(u), Messages(v))
  BY <1>8, MessagesOfNewest
<1>12. PICK m \in Seq(Nat) :
           /\ h \in Seq(Items) /\ Paired(h)
           /\ EndsWith(Messages(u), m) /\ Messages(UserItems(h)) = (m \o held) \o st
  <2>1. PICK head \in Seq(Items) :
            head = v \o <<<<"compaction", requests, 0>>>> /\ UserItems(head) = v /\ Paired(head)
    BY <1>5, CompactedHead
  <2>2. PICK f \in Seq(Items) :
            /\ f = (head \o Users(held)) \o Users(st) /\ Paired(f)
            /\ Messages(UserItems(f)) = (Messages(UserItems(head)) \o held) \o st
    BY <2>1, CompactedTail
  <2>3. h = f
    BY <1>10, <1>11, <2>1, <2>2
  <2>4. Messages(v) \in Seq(Nat)
    BY MessagesFacts
  <2> QED
    BY <1>11, <2>1, <2>2, <2>3, <2>4
<1>13. PICK q \in Seq(Nat) : q = held \o st
  BY ConcatProperties
<1>14. EndsWith(received, m \o q)
  <2>1. PICK a \in Seq(Nat) : a = Messages(u)
    BY <1>8
  <2>2. (a \o held) \o st = a \o q
    <3>1. (a \o held) \o st = a \o (held \o st)
      BY ThreeParts
    <3> QED
      BY <1>13, <3>1
  <2>3. EndsWith(received, a \o q)
    BY <1>1, <1>5, <1>6, <1>7, <2>1, <2>2
  <2> QED
    BY <1>5, <1>12, <2>1, <2>3, EndsWithNewest
<1>15. (m \o held) \o st = m \o q /\ m \o q \in Seq(Nat)
  <2>1. (m \o held) \o st = m \o (held \o st)
    BY ThreeParts
  <2>2. m \o q \in Seq(Nat)
    BY ConcatProperties
  <2> QED
    BY <1>13, <2>1, <2>2
<1>16. ((m \o q) \o <<>>) \o <<>> = m \o q
  BY <1>15, ConcatEmptySeq
<1>17. turn'.phase = "awaiting_llm" /\ turn'.input = <<>> /\ turn'.steering = <<>> /\ <<>> \in Seq(Nat)
  BY <1>3, <1>5 DEF IsTurn
<1>18. HistoryInv'
  BY <1>3, <1>5, <1>9, <1>12, <1>17 DEF HistoryInv
<1>19. PairsInv'
  BY <1>9, <1>12, <1>17 DEF PairsInv
<1>20. Queued' = m \o q
  BY <1>9, <1>12, <1>15, <1>16, <1>17 DEF Queued
<1>21. MessagesInv'
  BY <1>3, <1>14, <1>20 DEF MessagesInv
<1> QED
  BY <1>18, <1>19, <1>21 DEF ProjectionInv

\* A step that leaves the projection and the queues alone, and no turn less live.
LEMMA QuietKeepsOrder ==
    ASSUME ProjectionInv, InputsInv', history' = history, received' = received, plan' = plan,
           turn'.phase = turn.phase, turn'.input = turn.input, turn'.steering = turn.steering,
           cancel' = cancel, Live' => Live
    PROVE  ProjectionInv'
<1>1. HistoryInv' /\ PairsInv'
  BY DEF ProjectionInv, HistoryInv, PairsInv
<1>2. Queued' = Queued
  BY DEF Queued
<1>3. MessagesInv'
  BY <1>2 DEF ProjectionInv, MessagesInv
<1> QED
  BY <1>1, <1>3 DEF ProjectionInv

\* A request or a compaction whose outcome is unknown.
LEMMA UnknownKeepsOrder ==
    ASSUME IndInv, ProjectionInv, InputsInv', NEW o, LlmUnknown(o) \/ CompactionUnknown(o)
    PROVE  ProjectionInv'
<1>1. IsTurn(turn)
  BY DEF IndInv, TurnInv
<1>2. /\ \/ turn' = [turn EXCEPT !.op = Llm(requests + 1), !.retries = @ + 1]
         \/ turn' = [turn EXCEPT !.op = Llm(requests + 1), !.attempt = @ + 1]
      /\ UNCHANGED <<history, received, plan, cancel, failed, error>>
  BY DEF LlmUnknown, CompactionUnknown
<1>3. turn'.phase = turn.phase /\ turn'.input = turn.input /\ turn'.steering = turn.steering
  BY <1>1, <1>2 DEF IsTurn
<1> QED
  BY <1>2, <1>3, QuietKeepsOrder DEF Live

\* The message a client sends next.
LEMMA NextMessageFacts ==
    ASSUME ProjectionInv, SendMessage
    PROVE  NextMessage \in Nat
<1>1. inputs.messages \in 0 .. MaxMessages
  BY DEF ProjectionInv, InputsInv
<1> QED
  BY <1>1, BoundsAssumption DEF NextMessage

\* handle_user_message during a turn: the message is queued last.
LEMMA SteerKeepsOrder ==
    ASSUME IndInv, ProjectionInv, InputsInv', Steer
    PROVE  ProjectionInv'
<1>1. /\ Live /\ SendMessage /\ turn.phase # "none" /\ received' = Append(received, NextMessage)
      /\ turn' = [turn EXCEPT !.steering = Append(@, NextMessage)]
      /\ UNCHANGED <<history, plan, cancel>>
  BY DEF Steer
<1>2. PICK m \in Nat : m = NextMessage
  BY <1>1, NextMessageFacts
<1>3. /\ IsTurn(turn) /\ received \in Seq(Nat) /\ turn.input \in Seq(Nat) /\ turn.steering \in Seq(Nat)
      /\ EndsWith(received, (Messages(UserItems(history)) \o turn.input) \o turn.steering)
      /\ ~cancel.requested
  BY <1>1, LiveFacts
<1>4. PICK a \in Seq(Nat) : a = Messages(UserItems(history))
  BY <1>1, LiveFacts
<1>5. PICK b \in Seq(Nat) : b = turn.input
  BY <1>3
<1>6. PICK st \in Seq(Nat) : st = turn.steering
  BY <1>3
<1>7. turn'.phase = turn.phase /\ turn'.input = b /\ turn'.steering = Append(st, m)
  BY <1>1, <1>2, <1>3, <1>5, <1>6 DEF IsTurn
<1>8. Append(st, m) \in Seq(Nat) /\ Append(received, m) \in Seq(Nat)
  BY <1>3, AppendProperties
<1>9. turn.phase # "cancelling"
  BY <1>3 DEF IndInv, TurnInv
<1>10. HistoryInv'
  BY <1>1, <1>2, <1>5, <1>7, <1>8, <1>9 DEF HistoryInv, ProjectionInv
<1>11. PairsInv'
  BY <1>1, <1>7 DEF PairsInv, ProjectionInv
<1>12. PICK ab \in Seq(Nat) : ab = a \o b
  BY ConcatProperties
<1>13. PICK q \in Seq(Nat) : q = ab \o st
  BY ConcatProperties
<1>14. EndsWith(Append(received, m), Append(q, m))
  <2>1. EndsWith(received, q)
    BY <1>3, <1>4, <1>5, <1>6, <1>12, <1>13
  <2> QED
    BY <1>3, <2>1, EndsWithAppend
<1>15. ab \o Append(st, m) = Append(q, m)
  BY <1>13, AppendAfterConcat
<1>16. Queued' = Append(q, m)
  <2>1. Queued' = (a \o b) \o Append(st, m)
    BY <1>1, <1>4, <1>7 DEF Queued
  <2> QED
    BY <1>12, <1>15, <2>1
<1>17. MessagesInv'
  BY <1>1, <1>2, <1>14, <1>16 DEF MessagesInv
<1> QED
  BY <1>10, <1>11, <1>17 DEF ProjectionInv

\* handle_user_message of an idle session: the message joins the projection, or is held
\* for the compaction that comes first.
LEMMA StartTurnKeepsOrder ==
    ASSUME IndInv, ProjectionInv, InputsInv', StartTurn
    PROVE  ProjectionInv'
<1> DEFINE opened == [NoTurn EXCEPT !.id = requests + 1, !.op = Llm(requests + 1)]
<1>1. /\ Live /\ SendMessage /\ turn.phase = "none" /\ received' = Append(received, NextMessage)
      /\ UNCHANGED <<plan, cancel>>
  BY DEF StartTurn
<1>2. \/ /\ turn' = [opened EXCEPT !.phase = "compacting", !.attempt = 1,
                                   !.input = <<NextMessage>>, !.source = history]
         /\ history' = history
      \/ /\ turn' = [opened EXCEPT !.phase = "awaiting_llm"]
         /\ history' = history \o Users(<<NextMessage>>)
  BY DEF StartTurn
<1>3. PICK m \in Nat : m = NextMessage
  BY <1>1, NextMessageFacts
<1>4. /\ history \in Seq(Items) /\ Paired(history) /\ received \in Seq(Nat)
      /\ turn.input = <<>>
      /\ EndsWith(received, (Messages(UserItems(history)) \o turn.input) \o turn.steering)
  BY <1>1, LiveFacts
<1>5. turn.steering = <<>>
  BY <1>1 DEF ProjectionInv, HistoryInv
<1>6. PICK a \in Seq(Nat) : a = Messages(UserItems(history))
  BY <1>1, LiveFacts
<1>7. (a \o <<>>) \o <<>> = a
  BY ConcatEmptySeq
<1>8. EndsWith(Append(received, m), Append(a, m))
  <2>1. EndsWith(received, a)
    BY <1>4, <1>5, <1>6, <1>7
  <2> QED
    BY <1>4, <2>1, EndsWithAppend
<1>9. PICK one \in Seq(Nat) : one = <<m>>
  <2>1. <<m>> \in Seq(Nat)
    OBVIOUS
  <2> QED
    BY <2>1
<1>10. Append(a, m) = a \o one /\ Append(received, m) \in Seq(Nat) /\ <<>> \in Seq(Nat)
       /\ a \o one \in Seq(Nat)
  BY <1>4, <1>9, AppendIsConcat, AppendProperties
<1>11. (a \o one) \o <<>> = a \o one /\ ((a \o one) \o <<>>) \o <<>> = a \o one
  BY <1>10, ConcatEmptySeq
<1>12. CASE /\ turn' = [opened EXCEPT !.phase = "compacting", !.attempt = 1,
                                      !.input = <<NextMessage>>, !.source = history]
            /\ history' = history
  <2>1. turn'.phase = "compacting" /\ turn'.input = one /\ turn'.steering = <<>>
    BY <1>3, <1>9, <1>12 DEF NoTurn
  <2>2. HistoryInv'
    BY <1>1, <1>3, <1>4, <1>10, <1>12, <2>1 DEF HistoryInv
  <2>3. PairsInv'
    BY <1>4, <1>12, <2>1 DEF PairsInv
  <2>4. Queued' = a \o one
    BY <1>6, <1>11, <1>12, <2>1 DEF Queued
  <2>5. MessagesInv'
    BY <1>1, <1>3, <1>8, <1>10, <2>4 DEF MessagesInv
  <2> QED
    BY <2>2, <2>3, <2>5 DEF ProjectionInv
<1>13. CASE /\ turn' = [opened EXCEPT !.phase = "awaiting_llm"]
            /\ history' = history \o Users(<<NextMessage>>)
  <2>1. turn'.phase = "awaiting_llm" /\ turn'.input = <<>> /\ turn'.steering = <<>>
    BY <1>13 DEF NoTurn
  <2>2. history' = history \o Users(one)
    BY <1>3, <1>9, <1>13
  <2>3. /\ history \o Users(one) \in Seq(Items) /\ Paired(history \o Users(one))
        /\ Messages(UserItems(history \o Users(one))) = a \o one
    BY <1>4, <1>6, UsersJoin
  <2>4. HistoryInv'
    BY <1>1, <1>3, <1>10, <2>1, <2>2, <2>3 DEF HistoryInv
  <2>5. PairsInv'
    BY <2>1, <2>2, <2>3 DEF PairsInv
  <2>6. Queued' = a \o one
    BY <1>11, <2>1, <2>2, <2>3 DEF Queued
  <2>7. MessagesInv'
    BY <1>1, <1>3, <1>8, <1>10, <2>6 DEF MessagesInv
  <2> QED
    BY <2>4, <2>5, <2>7 DEF ProjectionInv
<1> QED
  BY <1>2, <1>12, <1>13

-----------------------------------------------------------------------------
(* Cancellations, events that change nothing here, and the platform.       *)

\* A turn that is over or being cancelled holds no input and no steering.
HoldsNothing(t) ==
    t.phase \in {"none", "cancelling"} /\ t.input = <<>> /\ t.steering = <<>>

\* The cancellation c was asked for.
IsRequested(c) == c.requested = TRUE

\* set_lifecycle_status: what a cancellation leaves of the turn holds nothing.
LEMMA LifecycleKeepsOrder ==
    ASSUME ProjectionInv, InputsInv', NEW c, IsRequested(c), NEW t, HoldsNothing(t), NEW tracked,
           SetLifecycleStatus(c, t, tracked)
    PROVE  ProjectionInv'
<1>1. cancel' = c /\ (turn' = NoTurn \/ turn' = t) /\ history' = history /\ received' = received
  BY DEF SetLifecycleStatus
<1>2. turn'.phase \in {"none", "cancelling"} /\ turn'.input = <<>> /\ turn'.steering = <<>>
  BY <1>1 DEF HoldsNothing, NoTurn
<1>3. <<>> \in Seq(Nat)
  OBVIOUS
<1>4. HistoryInv'
  BY <1>1, <1>2, <1>3 DEF ProjectionInv, HistoryInv
<1>5. PairsInv' /\ MessagesInv'
  BY <1>1 DEF PairsInv, MessagesInv, Live, IsRequested
<1> QED
  BY <1>4, <1>5 DEF ProjectionInv

\* begin: the input and the steering of the turn are dropped with it.
LEMMA BeginKeepsOrder ==
    ASSUME ProjectionInv, InputsInv', BeginCancellation
    PROVE  ProjectionInv'
<1>1. PICK c, t : /\ SetLifecycleStatus(c, t, executions)
                  /\ c = [NoCancel EXCEPT
                            !.requested = TRUE, !.turn = turn.id,
                            !.targets = [x \in InFlight |->
                              [completed |-> FALSE, control |-> "withdraw", attempt |-> 0]],
                            !.processes = StageInterrupts(<<>>, executions)]
                  /\ t = IF turn.phase = "none" THEN NoTurn
                         ELSE [NoTurn EXCEPT !.phase = "cancelling", !.id = turn.id]
  BY DEF BeginCancellation
<1>2. IsRequested(c)
  BY <1>1 DEF NoCancel, IsRequested
<1>3. HoldsNothing(t)
  BY <1>1 DEF NoTurn, HoldsNothing
<1> QED
  BY <1>1, <1>2, <1>3, LifecycleKeepsOrder

\* A cancellation under way has a record that says so, and its turn holds nothing.
LEMMA CancellingTurnHoldsNothing ==
    ASSUME IndInv, ProjectionInv, Cancelling
    PROVE  IsCancel(cancel) /\ cancel.requested = TRUE /\ HoldsNothing(turn)
<1>1. cancel.requested /\ cancel.requested \in BOOLEAN
  BY DEF Cancelling, IndInv, OperationsAreAwaited, TypeOK
<1>2. IsCancel(cancel)
  BY <1>1 DEF IndInv, CancelInv, CancelRecord, NoCancel
<1>3. turn.phase \in {"none", "cancelling"}
  BY <1>1 DEF IndInv, TurnInv
<1> QED
  BY <1>1, <1>2, <1>3 DEF ProjectionInv, HistoryInv, HoldsNothing

\* cancellation::handle_completion: the projection is left alone.
LEMMA CleanupKeepsOrder ==
    ASSUME IndInv, ProjectionInv, InputsInv', NEW o,
           \/ WithdrawalCompletes(o) \/ LlmCancellationCompletes(o) \/ OriginalCompletes(o)
           \/ InterruptCompletes(o) \/ TerminateCompletes(o) \/ DiscoveryCompletes(o)
    PROVE  ProjectionInv'
<1>1. Cancelling
  BY DEF WithdrawalCompletes, LlmCancellationCompletes, OriginalCompletes, InterruptCompletes,
         TerminateCompletes, DiscoveryCompletes
<1>2. IsCancel(cancel) /\ cancel.requested = TRUE /\ HoldsNothing(turn)
  BY <1>1, CancellingTurnHoldsNothing
<1>3. \E c, tracked : c.requested = TRUE /\ SetLifecycleStatus(c, turn, tracked)
  <2>1. CASE WithdrawalCompletes(o)
    <3>1. \E r : SetLifecycleStatus([cancel EXCEPT !.targets[o[2]] = r], turn, executions)
      BY <2>1 DEF WithdrawalCompletes
    <3>2. PICK r : SetLifecycleStatus([cancel EXCEPT !.targets[o[2]] = r], turn, executions)
      BY <3>1
    <3>3. [cancel EXCEPT !.targets[o[2]] = r].requested = TRUE
      BY <1>2 DEF IsCancel
    <3> QED
      BY <3>2, <3>3
  <2>2. CASE LlmCancellationCompletes(o)
    <3>1. PICK f, r : SetLifecycleStatus([cancel EXCEPT !.failures = f, !.targets[o[2]] = r],
                                         turn, executions)
      BY <2>2 DEF LlmCancellationCompletes
    <3>2. [cancel EXCEPT !.failures = f, !.targets[o[2]] = r].requested = TRUE
      BY <1>2 DEF IsCancel
    <3> QED
      BY <3>1, <3>2
  <2>3. CASE OriginalCompletes(o)
    <3>1. PICK ps, d, a, n, r :
            SetLifecycleStatus([cancel EXCEPT !.processes = ps, !.discovery = d, !.attempt = a,
                                              !.listings = n, !.targets[o] = r], turn, executions)
      BY <2>3, ZenonT(60) DEF OriginalCompletes
    <3>2. [cancel EXCEPT !.processes = ps, !.discovery = d, !.attempt = a,
                         !.listings = n, !.targets[o] = r].requested = TRUE
      BY <1>2 DEF IsCancel
    <3> QED
      BY <3>1, <3>2
  <2>4. CASE InterruptCompletes(o)
    <3>1. PICK r, tracked : SetLifecycleStatus([cancel EXCEPT !.processes[o[2]] = r], turn, tracked)
      BY <2>4 DEF InterruptCompletes
    <3>2. [cancel EXCEPT !.processes[o[2]] = r].requested = TRUE
      BY <1>2 DEF IsCancel
    <3> QED
      BY <3>1, <3>2
  <2>5. CASE TerminateCompletes(o)
    <3>1. PICK f, r, tracked :
            SetLifecycleStatus([cancel EXCEPT !.failures = f, !.processes[o[2]] = r], turn, tracked)
      BY <2>5 DEF TerminateCompletes
    <3>2. [cancel EXCEPT !.failures = f, !.processes[o[2]] = r].requested = TRUE
      BY <1>2 DEF IsCancel
    <3> QED
      BY <3>1, <3>2
  <2>6. CASE DiscoveryCompletes(o)
    <3>1. PICK d, a, n, f, ts, ps :
            \/ SetLifecycleStatus([cancel EXCEPT !.discovery = d, !.attempt = a, !.listings = n,
                                                 !.failures = f], turn, executions)
            \/ SetLifecycleStatus([cancel EXCEPT !.discovery = d, !.attempt = a, !.targets = ts,
                                                 !.processes = ps], turn, executions)
      BY <2>6 DEF DiscoveryCompletes
    <3>2. /\ [cancel EXCEPT !.discovery = d, !.attempt = a, !.listings = n,
                            !.failures = f].requested = TRUE
          /\ [cancel EXCEPT !.discovery = d, !.attempt = a, !.targets = ts,
                            !.processes = ps].requested = TRUE
      BY <1>2 DEF IsCancel
    <3> QED
      BY <3>1, <3>2
  <2> QED
    BY <2>1, <2>2, <2>3, <2>4, <2>5, <2>6
<1>4. PICK c, tracked : IsRequested(c) /\ SetLifecycleStatus(c, turn, tracked)
  BY <1>3 DEF IsRequested
<1> QED
  BY <1>2, <1>4, LifecycleKeepsOrder

\* A refused completion blocks the session, an ignored event restates its status, and
\* the platform and the machine do not touch the harness state.
LEMMA OthersKeepOrder ==
    ASSUME ProjectionInv, InputsInv', NEW o,
           \/ RefuseCompletion(o) \/ IgnoreMessage \/ IgnoreCancel
           \/ Withdraw(o) \/ Launch(o) \/ List(o) \/ Exit(o) \/ UNCHANGED vars
    PROVE  ProjectionInv'
<1>1. UNCHANGED <<history, received, plan, turn, cancel, failed>> /\ (~error' => ~error)
  BY DEF RefuseCompletion, IgnoreMessage, IgnoreCancel, RestateStatus, Withdraw, Launch, List,
         Exit, vars, session
<1> QED
  BY <1>1, QuietKeepsOrder DEF Live

-----------------------------------------------------------------------------
(* The theorems.                                                           *)

\* A session without history has received nothing.
LEMMA ProjectionInit ==
    ASSUME Init
    PROVE  ProjectionInv
<1>1. history = <<>> /\ received = <<>> /\ turn = NoTurn /\ cancel = NoCancel
      /\ inputs = [messages |-> MaxMessages, cancels |-> MaxCancels, rounds |-> MaxRounds]
  BY DEF Init
<1>2. turn.input = <<>> /\ turn.steering = <<>> /\ turn.phase = "none"
  BY <1>1 DEF NoTurn
<1>3. InputsInv
  BY <1>1, BoundsAssumption DEF InputsInv
<1>4. <<>> \in Seq(Nat) /\ <<>> \in Seq(Items)
  OBVIOUS
<1>5. HistoryInv
  BY <1>1, <1>2, <1>4 DEF HistoryInv
<1>6. PairsInv
  BY <1>1, <1>2 DEF PairsInv, Paired
<1>7. Queued = <<>>
  <2>1. UserPlaces(history) = {}
    BY <1>1 DEF UserPlaces
  <2>2. Cardinality(UserPlaces(history)) = 0
    BY <2>1, FS_EmptySet
  <2>3. UserItems(history) = <<>>
    BY <2>2 DEF UserItems
  <2>4. Messages(UserItems(history)) = <<>>
    BY <2>3 DEF Messages
  <2>5. PICK e \in Seq(Nat) : e = <<>>
    BY <1>4
  <2>6. (e \o <<>>) \o <<>> = e
    BY ConcatEmptySeq
  <2> QED
    BY <1>2, <2>4, <2>5, <2>6 DEF Queued
<1>8. MessagesInv
  BY <1>1, <1>7 DEF MessagesInv, EndsWith
<1> QED
  BY <1>3, <1>5, <1>6, <1>8 DEF ProjectionInv

\* What clients and the model may still ask for only falls, and never below zero.
LEMMA InputsStep ==
    ASSUME InputsInv, [Next]_vars
    PROVE  InputsInv'
<1> DEFINE Less(f) == inputs[f] > 0 /\ inputs' = [inputs EXCEPT ![f] = @ - 1]
<1>1. ASSUME NEW f \in {"messages", "cancels", "rounds"}, Less(f)
      PROVE  InputsInv'
  BY <1>1, BoundsAssumption DEF InputsInv
<1>2. ASSUME NEW o, Handle(o)
      PROVE  inputs' = inputs \/ Less("rounds")
  <2>1. CASE LlmStops(o) \/ LlmUnknown(o) \/ LlmResponseRejected(o) \/ LlmFails(o)
    BY <2>1 DEF LlmStops, LlmUnknown, LlmResponseRejected, LlmFails, FailSession
  <2>2. CASE LlmPauses(o) \/ LlmAsksForTools(o)
    BY <2>2 DEF LlmPauses, LlmAsksForTools
  <2>3. CASE CompactionSucceeds(o) \/ CompactionUnknown(o) \/ CompactionFails(o)
    BY <2>3 DEF CompactionSucceeds, CompactionUnknown, CompactionFails, FailSession
  <2>4. CASE ShellResponds(o) \/ PatchContinues(o) \/ CallEnds(o)
    BY <2>4, CallsApply DEF ApplyCompletion
  <2>5. CASE \/ WithdrawalCompletes(o) \/ LlmCancellationCompletes(o) \/ OriginalCompletes(o)
             \/ InterruptCompletes(o) \/ TerminateCompletes(o) \/ DiscoveryCompletes(o)
    BY <2>5 DEF WithdrawalCompletes, LlmCancellationCompletes, OriginalCompletes,
                InterruptCompletes, TerminateCompletes, DiscoveryCompletes
  <2>6. CASE RefuseCompletion(o)
    BY <2>6 DEF RefuseCompletion
  <2> QED
    BY <1>2, <2>1, <2>2, <2>3, <2>4, <2>5, <2>6 DEF Handle
<1>3. CASE Steer \/ StartTurn \/ IgnoreMessage
  <2>1. Less("messages")
    BY <1>3 DEF Steer, StartTurn, IgnoreMessage, SendMessage
  <2> HIDE DEF Less
  <2> QED
    BY <1>1, <2>1
<1>4. CASE BeginCancellation \/ IgnoreCancel
  <2>1. Less("cancels")
    BY <1>4 DEF BeginCancellation, IgnoreCancel, SendCancel
  <2> HIDE DEF Less
  <2> QED
    BY <1>1, <2>1
<1>5. ASSUME NEW o, Withdraw(o) \/ Launch(o) \/ List(o) \/ Exit(o) \/ UNCHANGED vars
      PROVE  inputs' = inputs
  BY <1>5 DEF Withdraw, Launch, List, Exit, vars, session
<1>6. inputs' = inputs => InputsInv'
  BY DEF InputsInv
<1> HIDE DEF Less
<1>7. ASSUME NEW o, Handle(o)
      PROVE  InputsInv'
  BY <1>1, <1>2, <1>6, <1>7
<1> QED
  BY <1>3, <1>4, <1>5, <1>6, <1>7 DEF Next

\* Every step of the harness, the platform and the machine keeps the projection in order.
LEMMA NextKeepsOrder ==
    ASSUME IndInv, ProjectionInv, [Next]_vars
    PROVE  ProjectionInv'
<1>1. InputsInv'
  BY InputsStep DEF ProjectionInv
<1>2. ASSUME NEW o \in open, Handle(o)
      PROVE  ProjectionInv'
  <2>1. CASE LlmStops(o) \/ LlmPauses(o) \/ LlmAsksForTools(o)
    BY <1>1, <2>1, LlmStopsKeepsOrder, LlmPausesKeepsOrder, LlmAsksForToolsKeepsOrder
  <2>2. CASE LlmResponseRejected(o) \/ LlmFails(o) \/ CompactionFails(o)
    BY <1>1, <2>2, FailKeepsOrder
  <2>3. CASE CompactionSucceeds(o)
    BY <1>1, <2>3, CompactionKeepsOrder
  <2>4. CASE LlmUnknown(o) \/ CompactionUnknown(o)
    BY <1>1, <2>4, UnknownKeepsOrder
  <2>5. CASE ShellResponds(o) \/ PatchContinues(o) \/ CallEnds(o)
    BY <1>1, <2>5, CallsKeepOrder
  <2>6. CASE \/ WithdrawalCompletes(o) \/ LlmCancellationCompletes(o) \/ OriginalCompletes(o)
             \/ InterruptCompletes(o) \/ TerminateCompletes(o) \/ DiscoveryCompletes(o)
    BY <1>1, <2>6, CleanupKeepsOrder
  <2>7. CASE RefuseCompletion(o)
    BY <1>1, <2>7, OthersKeepOrder
  <2> QED
    BY <1>2, <2>1, <2>2, <2>3, <2>4, <2>5, <2>6, <2>7 DEF Handle
<1>3. CASE Steer \/ StartTurn \/ BeginCancellation
  BY <1>1, <1>3, SteerKeepsOrder, StartTurnKeepsOrder, BeginKeepsOrder
<1>4. CASE \/ IgnoreMessage \/ IgnoreCancel \/ UNCHANGED vars
           \/ \E o \in open : Withdraw(o) \/ Launch(o) \/ List(o)
           \/ \E p \in running : Exit(p)
  BY <1>1, <1>4, OthersKeepOrder
<1> QED
  BY <1>2, <1>3, <1>4 DEF Next

\* ProjectionInv is what the results of a plan, the steering of a turn and the input
\* held by a compaction keep of the projection, between its requests too.
THEOREM ProjectionInductive == Spec => []ProjectionInv
<1>1. Init => ProjectionInv
  BY ProjectionInit
<1>2. IndInv /\ ProjectionInv /\ [Next]_vars => ProjectionInv'
  BY NextKeepsOrder
<1> QED
  BY <1>1, <1>2, Inductive, PTL DEF Spec

\* The projection is in order, for every set of plans and any number of messages and
\* rounds: the results of a response's calls follow them at once and in their order in
\* every request, and the messages a live session accepted are in the projection, held
\* or queued, each once and in the order they came, but for the oldest that a
\* compaction dropped.
\* (handler.rs, finish_completed_tool_plan, stage_after_boundary and
\* handle_user_message; compaction.rs, retained_user_messages)
THEOREM ProjectionStaysInOrder == Spec => []ProjectionInOrder
<1>1. IndInv /\ ProjectionInv => ResultsFollowTheirCalls
  <2> SUFFICES ASSUME IndInv, ProjectionInv, turn.phase \in {"awaiting_llm", "compacting"}
               PROVE  ResultsFollowTheirCalls
    BY DEF ResultsFollowTheirCalls
  <2>1. ~cancel.requested
    BY DEF IndInv, TurnInv
  <2>2. Paired(history)
    BY <2>1 DEF ProjectionInv, PairsInv
  <2> QED
    BY <2>2 DEF ResultsFollowTheirCalls, Paired, CallAnswered, ResultAsked
<1>2. IndInv /\ ProjectionInv => MessagesKeepTheirOrder
  <2> SUFFICES ASSUME IndInv, ProjectionInv, Live
               PROVE  MessagesKeepTheirOrder
    BY DEF MessagesKeepTheirOrder
  <2>1. /\ received \in Seq(Nat) /\ turn.input \in Seq(Nat) /\ turn.steering \in Seq(Nat)
        /\ EndsWith(received, Queued)
    BY DEF ProjectionInv, HistoryInv, MessagesInv
  <2>2. PICK a \in Seq(Nat) : a = Messages(UserItems(history))
    BY LiveFacts
  <2>3. PICK b \in Seq(Nat) : b = turn.input
    BY <2>1
  <2>4. PICK st \in Seq(Nat) : st = turn.steering
    BY <2>1
  <2>5. PICK ab \in Seq(Nat) : ab = a \o b
    BY ConcatProperties
  <2>6. PICK q \in Seq(Nat) : q = ab \o st
    BY ConcatProperties
  <2>7. Queued = q
    BY <2>2, <2>3, <2>4, <2>5, <2>6 DEF Queued
  <2>8. IsSuffix(q, received)
    BY <2>1, <2>7, EndsWithIsSuffix
  <2>9. Queued = [n \in DOMAIN UserItems(history) |-> UserItems(history)[n][2]]
                   \o turn.input \o turn.steering
    BY DEF Queued, Messages
  <2> QED
    BY <2>7, <2>8, <2>9 DEF MessagesKeepTheirOrder
<1> QED
  BY <1>1, <1>2, Inductive, ProjectionInductive, PTL DEF ProjectionInOrder

=============================================================================
