--------------------------- MODULE AlertQueueProofs ---------------------------
(* Proofs about AlertQueue, for every pool, collection size, identity order  *)
(* and filter argument.                                                        *)
EXTENDS AlertQueue, FiniteSetTheorems, TLAPS

-----------------------------------------------------------------------------
(* The queue key.                                                           *)

\* Keys of Alert values are quadruples of integers.
LEMMA KeyType ==
  ASSUME NEW a \in AlertFields
  PROVE  /\ QueueKey(a)[1] \in Int /\ QueueKey(a)[2] \in Int
         /\ QueueKey(a)[3] \in Int /\ QueueKey(a)[4] \in Int
         /\ QueueKey(a)[4] = IdRank[a.alert_id]
  <1>1. a.priority \in AlertPriority /\ a.severity \in AlertSeverity
        /\ a.created_at \in Int /\ a.alert_id \in AlertIds
    BY MaxTimeAssumption DEF AlertFields, Instants
  <1>2. \A p \in AlertPriority : PriorityRank[p] \in Int
    BY DEF PriorityRank, AlertPriority
  <1>3. \A s \in AlertSeverity : SeverityRank[s] \in Int
    BY DEF SeverityRank, AlertSeverity
  <1>4. IdRank[a.alert_id] \in Int
    BY <1>1, IdRankAssumption
  <1> QED BY <1>1, <1>2, <1>3, <1>4 DEF QueueKey

\* Two Alerts of different identity are ordered one way, and one way only.
LEMMA BeforeDecides ==
  ASSUME NEW a \in AlertFields, NEW b \in AlertFields, a.alert_id # b.alert_id
  PROVE  Before(a, b) <=> ~Before(b, a)
  <1>1. IdRank[a.alert_id] # IdRank[b.alert_id]
    BY IdRankAssumption DEF AlertFields
  <1>2. QueueKey(a)[4] # QueueKey(b)[4]
    BY <1>1, KeyType
  <1> QED BY <1>2, KeyType DEF Before, KeyBefore

\* The order is transitive: with BeforeDecides, a strict total order on Alerts of
\* distinct identities, so at most one arrangement of them is sorted.
THEOREM BeforeTransitive ==
  ASSUME NEW a \in AlertFields, NEW b \in AlertFields, NEW c \in AlertFields,
         Before(a, b), Before(b, c)
  PROVE  Before(a, c)
  BY KeyType DEF Before, KeyBefore

-----------------------------------------------------------------------------
(* The validation loop.                                                     *)

\* What the loop has established: the Alerts read so far are the first entries,
\* all readable, of distinct identities, and seen holds exactly those.
PrefixRead ==
  /\ entries \in Seq(Pool)
  /\ validated \in Seq(AlertFields)
  /\ Len(validated) <= Len(entries)
  /\ \A i \in 1..Len(validated) : validated[i] = entries[i] /\ Readable(validated[i])
  /\ \A i, j \in 1..Len(validated) : validated[i].alert_id = validated[j].alert_id => i = j
  /\ seen = {validated[i].alert_id : i \in 1..Len(validated)}

\* How the next step, and the reply, depend on how far the call came.
Progress ==
  /\ pc \in {"idle", "measure", "take", "validate"}
  /\ pc \in {"measure", "take"} => validated = <<>>
  /\ pc = "validate" => Len(entries) = size
  /\ pc = "idle" /\ reply \in {"ok"} \cup FilterErrors =>
       Len(entries) = size /\ Len(validated) = Len(entries)

LoopInv == PrefixRead /\ Progress

\* A step that leaves entries, validated and seen_ids alone keeps their agreement.
LEMMA PrefixKept ==
  ASSUME PrefixRead, UNCHANGED <<entries, validated, seen>>
  PROVE  PrefixRead'
  BY DEF PrefixRead, Readable, ValidTimestampOrder

\* Nothing has been validated yet.
LEMMA PrefixEmpty ==
  ASSUME entries' \in Seq(Pool), validated' = <<>>, seen' = {}
  PROVE  PrefixRead'
  <1>1. 1..Len(validated') = {} BY Len(<<>>) = 0
  <1> QED BY <1>1 DEF PrefixRead

\* No call has run.
LEMMA LoopInit == Init => LoopInv
  <1> SUFFICES ASSUME Init PROVE LoopInv
    OBVIOUS
  <1>1. 1..Len(validated) = {} BY Len(<<>>) = 0 DEF Init
  <1> QED BY <1>1 DEF Init, LoopInv, PrefixRead, Progress, FilterErrors

\* Every step keeps the invariant.
LEMMA LoopNext == LoopInv /\ [Next]_vars => LoopInv'
  <1> SUFFICES ASSUME LoopInv, [Next]_vars PROVE LoopInv'
    OBVIOUS
  <1>1. CASE UNCHANGED vars
    BY <1>1, PrefixKept DEF vars, LoopInv, Progress, FilterErrors
  <1>2. CASE Call
    <2>1. entries' \in Seq(Pool) /\ validated' = <<>> /\ seen' = {}
      BY <1>2 DEF Call
    <2>2. Progress'
      BY <1>2 DEF Call, Progress, FilterErrors
    <2> QED BY <2>1, <2>2, PrefixEmpty DEF LoopInv
  <1>3. CASE Measure
    BY <1>3, PrefixKept DEF Measure, Fail, LoopInv, Progress, FilterErrors
  <1>4. CASE Take
    <2>1. PICK entry \in Pool : entries' = Append(entries, entry)
      BY <1>4 DEF Take
    <2>2. entries' \in Seq(Pool)
      BY <2>1 DEF LoopInv, PrefixRead
    <2>3. validated' = <<>> /\ seen' = {}
      <3>1. validated = <<>> /\ 1..Len(validated) = {}
        BY <1>4, Len(<<>>) = 0 DEF Take, LoopInv, Progress, FilterErrors
      <3> QED BY <1>4, <3>1 DEF Take, LoopInv, PrefixRead
    <2> QED BY <1>4, <2>2, <2>3, PrefixEmpty DEF Take, LoopInv, Progress, FilterErrors
  <1>5. CASE EndOfEntries
    BY <1>5, PrefixKept DEF EndOfEntries, Fail, LoopInv, Progress, FilterErrors
  <1>6. CASE Validate
    <2> DEFINE n == Len(validated)
               entry == entries[n + 1]
    <2>1. n \in Nat /\ n < Len(entries)
      BY <1>6 DEF Validate, LoopInv, PrefixRead
    <2>2. CASE UNCHANGED <<seen, validated>>
      BY <1>6, <2>2, PrefixKept DEF Validate, Fail, LoopInv, Progress, FilterErrors
    <2>3. CASE /\ Readable(entry) /\ entry.alert_id \notin seen
               /\ seen' = seen \cup {entry.alert_id}
               /\ validated' = Append(validated, entry)
               /\ UNCHANGED <<pc, answer, reply>>
      <3>1. entry \in AlertFields BY <2>3 DEF Readable
      <3>2. /\ validated' \in Seq(AlertFields)
            /\ Len(validated') = n + 1
            /\ \A i \in 1..n : validated'[i] = validated[i]
            /\ validated'[n + 1] = entry
        BY <2>1, <2>3, <3>1 DEF LoopInv, PrefixRead
      <3>3. \A i \in 1..Len(validated') : validated'[i] = entries[i] /\ Readable(validated'[i])
        BY <2>1, <2>3, <3>2 DEF LoopInv, PrefixRead
      <3>4. \A i \in 1..n : validated[i].alert_id # entry.alert_id
        BY <2>3 DEF LoopInv, PrefixRead
      <3>5. \A i, j \in 1..Len(validated') :
               validated'[i].alert_id = validated'[j].alert_id => i = j
        BY <2>1, <3>2, <3>4 DEF LoopInv, PrefixRead
      <3>6. seen' = {validated'[i].alert_id : i \in 1..Len(validated')}
        <4>1. 1..Len(validated') = (1..n) \cup {n + 1}
          BY <2>1, <3>2
        <4> QED BY <2>3, <3>2, <4>1 DEF LoopInv, PrefixRead
      <3> QED BY <1>6, <2>1, <2>3, <3>2, <3>3, <3>5, <3>6
              DEF Validate, LoopInv, PrefixRead, Progress, FilterErrors,
                  Readable, ValidTimestampOrder
    <2> QED BY <1>6, <2>2, <2>3 DEF Validate
  <1>7. CASE Select
    BY <1>7, PrefixKept DEF Select, Fail, LoopInv, Progress, FilterErrors
  <1> QED BY <1>1, <1>2, <1>3, <1>4, <1>5, <1>6, <1>7 DEF Next, Library

\* A result, and a complaint about a filter, both imply that the whole collection
\* was read and validated, whatever the collection's own code did meanwhile.
THEOREM InputCheckedFirst == Spec => []WholeInputChecked
  <1>1. LoopInv => WholeInputChecked
    BY DEF LoopInv, PrefixRead, Progress, WholeInputChecked, EntriesInOrder, InOrderUpTo
  <1> QED BY LoopInit, LoopNext, <1>1, PTL DEF Spec

\* The key decides the order of any two Alerts of a call, so a queue does not
\* depend on the order in which the collection was enumerated.
THEOREM OrderDecided == Spec => []OrderIsDecided
  <1>1. LoopInv => OrderIsDecided
    <2> SUFFICES ASSUME LoopInv, NEW i \in 1..Len(validated), NEW j \in 1..Len(validated), i # j
                 PROVE  Before(validated[i], validated[j]) <=> ~Before(validated[j], validated[i])
      BY DEF OrderIsDecided
    <2>1. validated[i] \in AlertFields /\ validated[j] \in AlertFields
      BY DEF LoopInv, PrefixRead
    <2>2. validated[i].alert_id # validated[j].alert_id
      BY DEF LoopInv, PrefixRead
    <2> QED BY <2>1, <2>2, BeforeDecides
  <1> QED BY LoopInit, LoopNext, <1>1, PTL DEF Spec

\* A filter argument that is not well formed is malformed in one of the three ways.
LEMMA MalformedFilter ==
  ASSUME NEW filter, NEW members, IsFilterArg(filter, members), Junk \notin members
  PROVE  Malformed(filter) <=> ~WellFormed(filter, members)
  BY DEF IsFilterArg, WellFormed, Malformed

\* A call that fails leaves what it failed on among its entries or filters.
RefusalInv == filters \in FilterArgs /\ RefusalsAreJustified

LEMMA RefusalNext == LoopInv /\ RefusalInv /\ [Next]_vars => RefusalInv'
  <1> SUFFICES ASSUME LoopInv, RefusalInv, [Next]_vars PROVE RefusalInv'
    OBVIOUS
  <1> USE DEF RefusalInv, RefusalsAreJustified, Answered, InOrderUpTo
  <1>0. \A f \in FilterArgs :
          /\ Malformed(f.states) <=> ~WellFormed(f.states, AlertState)
          /\ Malformed(f.severities) <=> ~WellFormed(f.severities, AlertSeverity)
          /\ Malformed(f.priorities) <=> ~WellFormed(f.priorities, AlertPriority)
    BY FilterAssumption, JunkAssumption, MalformedFilter
  <1>1. CASE UNCHANGED vars
    BY <1>1 DEF vars, Readable, ValidTimestampOrder
  <1>2. CASE Call
    BY <1>2 DEF Call
  <1>3. CASE Measure
    BY <1>3 DEF Measure, Fail
  <1>4. CASE Take
    BY <1>4 DEF Take
  <1>5. CASE EndOfEntries
    BY <1>5 DEF EndOfEntries, Fail
  <1>6. CASE Validate
    <2> DEFINE n == Len(validated)
               entry == entries[n + 1]
    <2>1. n \in Nat /\ n + 1 \in 1..Len(entries) /\ pc = "validate" /\ UNCHANGED <<entries, filters>>
      BY <1>6 DEF Validate, LoopInv, PrefixRead
    <2>1a. InOrderUpTo(n) /\ n + 1 - 1 = n
      BY <2>1 DEF LoopInv, PrefixRead
    <2>2. CASE ~Readable(entry) /\ Fail("invalid_alert")
      BY <2>1, <2>1a, <2>2 DEF Fail, Readable, ValidTimestampOrder
    <2>3. CASE Readable(entry) /\ entry.alert_id \in seen /\ Fail("duplicate_alert_id")
      <3>1. PICK i \in 1..n : validated[i].alert_id = entry.alert_id
        BY <2>3 DEF LoopInv, PrefixRead
      <3>2. i \in 1..(n + 1 - 1) /\ entries[i].alert_id = entry.alert_id
        BY <2>1, <3>1 DEF LoopInv, PrefixRead
      <3> QED BY <2>1, <2>1a, <2>3, <3>2 DEF Fail, Readable, ValidTimestampOrder
    <2>4. CASE UNCHANGED <<pc, answer, reply>>
      BY <2>1, <2>4
    <2> QED BY <1>6, <2>2, <2>3, <2>4 DEF Validate
  <1>7. CASE Select
    <2>1. UNCHANGED <<entries, filters>> /\ filters \in FilterArgs
      BY <1>7 DEF Select
    <2>2. CASE ~WellFormed(filters.states, AlertState) /\ Fail("invalid_filter: states")
      BY <1>0, <2>1, <2>2 DEF Fail
    <2>3. CASE /\ WellFormed(filters.states, AlertState)
               /\ ~WellFormed(filters.severities, AlertSeverity)
               /\ Fail("invalid_filter: severities")
      BY <1>0, <2>1, <2>3 DEF Fail
    <2>4. CASE /\ WellFormed(filters.states, AlertState)
               /\ WellFormed(filters.severities, AlertSeverity)
               /\ ~WellFormed(filters.priorities, AlertPriority)
               /\ Fail("invalid_filter: priorities")
      BY <1>0, <2>1, <2>4 DEF Fail
    <2>5. CASE reply' = "ok"
      BY <2>1, <2>5
    <2> QED BY <1>7, <2>2, <2>3, <2>4, <2>5 DEF Select
  <1> QED BY <1>1, <1>2, <1>3, <1>4, <1>5, <1>6, <1>7 DEF Next, Library

\* A complaint about an entry or a filter has its cause there, and everything checked before
\* it was in order, for every collection and all filter arguments.
THEOREM RefusalsJustified == Spec => []RefusalsAreJustified
  <1>1. Init => RefusalInv
    BY DEF Init, RefusalInv, RefusalsAreJustified, Answered
  <1>2. RefusalInv => RefusalsAreJustified
    BY DEF RefusalInv
  <1> QED BY LoopInit, LoopNext, <1>1, RefusalNext, <1>2, PTL DEF Spec

-----------------------------------------------------------------------------
(* The answer.                                                              *)

\* The elements of a finite set can be arranged along any strict total order: give
\* each the place that the number of its predecessors leaves it.
LEMMA ArrangementExists ==
  ASSUME NEW S, IsFiniteSet(S), NEW R,
         \A x \in S : <<x, x>> \notin R,
         \A x, y \in S : x # y => <<x, y>> \in R \/ <<y, x>> \in R,
         \A x, y, z \in S : <<x, y>> \in R /\ <<y, z>> \in R => <<x, z>> \in R
  PROVE  \E order \in [1..Cardinality(S) -> S] :
           \A k, l \in 1..Cardinality(S) : k < l => <<order[k], order[l]>> \in R
  <1> DEFINE n == Cardinality(S)
             Below(x) == {y \in S : <<y, x>> \in R}
             rank == [x \in S |-> Cardinality(Below(x)) + 1]
  <1>1. n \in Nat
    BY FS_CardinalityType
  <1>2. \A x \in S : IsFiniteSet(Below(x)) /\ Cardinality(Below(x)) \in 0..(n - 1)
    <2> SUFFICES ASSUME NEW x \in S
                 PROVE  IsFiniteSet(Below(x)) /\ Cardinality(Below(x)) \in 0..(n - 1)
      OBVIOUS
    <2>1. Below(x) \in SUBSET S /\ Below(x) # S
      OBVIOUS
    <2>2. IsFiniteSet(Below(x)) /\ Cardinality(Below(x)) <= n /\ Cardinality(Below(x)) # n
      BY <2>1, FS_Subset
    <2>3. Cardinality(Below(x)) \in Nat
      BY <2>2, FS_CardinalityType
    <2> QED BY <1>1, <2>2, <2>3
  <1>3. rank \in [S -> 1..n]
    <2> HIDE DEF Below, n
    <2> QED BY <1>1, <1>2
  <1>4. ASSUME NEW x \in S, NEW y \in S, <<x, y>> \in R
        PROVE  rank[x] < rank[y]
    <2>1. Below(x) \in SUBSET Below(y) /\ Below(x) # Below(y)
      BY <1>4
    <2>2. Cardinality(Below(x)) <= Cardinality(Below(y)) /\ Cardinality(Below(x)) # Cardinality(Below(y))
      BY <1>2, <2>1, FS_Subset
    <2> HIDE DEF Below, n
    <2> QED BY <1>1, <1>2, <2>2
  <1>5. rank \in Injection(S, 1..n)
    <2> HIDE DEF rank, n
    <2>1. \A x, y \in S : rank[x] = rank[y] => x = y
      <3>1. \A x \in S : rank[x] \in Int
        BY <1>1, <1>3
      <3> SUFFICES ASSUME NEW x \in S, NEW y \in S, rank[x] = rank[y], x # y
                   PROVE  FALSE
        OBVIOUS
      <3>2. CASE <<x, y>> \in R
        BY <1>4, <3>1, <3>2
      <3>3. CASE <<y, x>> \in R
        BY <1>4, <3>1, <3>3
      <3> QED BY <3>2, <3>3
    <2> QED BY <1>3, <2>1 DEF Injection, IsInjective
  <1>6. rank \in Surjection(S, 1..n)
    <2>1. IsFiniteSet(1..n) /\ Cardinality(1..n) = n
      BY <1>1, FS_Interval
    <2> HIDE DEF rank
    <2> QED BY <1>5, <2>1, FS_Injection
  <1> DEFINE order == [k \in 1..n |-> CHOOSE x \in S : rank[x] = k]
  <1>7. \A k \in 1..n : order[k] \in S /\ rank[order[k]] = k
    <2> HIDE DEF rank, n
    <2> QED BY <1>6 DEF Surjection
  <1>8. ASSUME NEW k \in 1..n, NEW l \in 1..n, k < l
        PROVE  <<order[k], order[l]>> \in R
    <2> HIDE DEF rank, order, n
    <2>1. order[k] # order[l]
      BY <1>1, <1>7, <1>8
    <2>2. <<order[l], order[k]>> \notin R
      BY <1>1, <1>4, <1>7, <1>8
    <2> QED BY <1>7, <2>1, <2>2
  <1>9. order \in [1..n -> S]
    BY <1>7
  <1> QED BY <1>8, <1>9

\* A finite set arranged without repetition in as many places is there entirely.
LEMMA ArrangementComplete ==
  ASSUME NEW S, IsFiniteSet(S), NEW order \in [1..Cardinality(S) -> S],
         \A k, l \in 1..Cardinality(S) : k < l => order[k] # order[l]
  PROVE  {order[k] : k \in 1..Cardinality(S)} = S
  <1> DEFINE n == Cardinality(S)
  <1>1. n \in Nat
    BY FS_CardinalityType
  <1>2. order \in Injection(1..n, S)
    <2>1. \A k, l \in 1..n : order[k] = order[l] => k = l
      BY <1>1
    <2> QED BY <2>1 DEF Injection, IsInjective
  <1>3. order \in Surjection(1..n, S)
    BY <1>1, <1>2, FS_Interval, FS_Injection
  <1> QED BY <1>3 DEF Surjection

\* The places sorted() works on: finitely many, of Alerts of distinct identities,
\* which Precedes orders strictly and totally, as Before does.
LEMMA PlacesOrdered ==
  ASSUME LoopInv
  PROVE  /\ IsFiniteSet(Matching)
         /\ Matching \subseteq 1..Len(validated)
         /\ \A i, j \in Matching : Precedes(i, j) <=> Before(validated[i], validated[j])
         /\ \A i, j \in Matching : i # j => (Precedes(i, j) <=> ~Precedes(j, i))
         /\ \A i \in Matching : ~Precedes(i, i)
         /\ \A i, j, k \in Matching : Precedes(i, j) /\ Precedes(j, k) => Precedes(i, k)
  <1>1. Matching \subseteq 1..Len(validated) /\ Len(validated) \in Nat
    BY DEF Matching, LoopInv, PrefixRead
  <1>2. IsFiniteSet(Matching)
    <2>1. IsFiniteSet(1..Len(validated))
      BY <1>1, FS_Interval
    <2> QED BY <1>1, <2>1, FS_Subset
  <1>3. \A i \in Matching : validated[i] \in AlertFields /\ ~Before(validated[i], validated[i])
    <2> SUFFICES ASSUME NEW i \in Matching
                 PROVE  validated[i] \in AlertFields /\ ~Before(validated[i], validated[i])
      OBVIOUS
    <2>1. validated[i] \in AlertFields
      BY <1>1 DEF LoopInv, PrefixRead
    <2> QED BY <2>1, KeyType DEF Before, KeyBefore
  <1>4. \A i, j \in Matching : i # j =>
          (Before(validated[i], validated[j]) <=> ~Before(validated[j], validated[i]))
    <2> SUFFICES ASSUME NEW i \in Matching, NEW j \in Matching, i # j
                 PROVE  Before(validated[i], validated[j]) <=> ~Before(validated[j], validated[i])
      OBVIOUS
    <2>1. validated[i].alert_id # validated[j].alert_id
      BY <1>1 DEF LoopInv, PrefixRead
    <2> QED BY <1>3, <2>1, BeforeDecides
  <1>5. \A i, j \in Matching : Precedes(i, j) <=> Before(validated[i], validated[j])
    <2> SUFFICES ASSUME NEW i \in Matching, NEW j \in Matching
                 PROVE  Precedes(i, j) <=> Before(validated[i], validated[j])
      OBVIOUS
    <2>1. CASE i = j
      BY <1>1, <1>3, <2>1 DEF Precedes
    <2>2. CASE i # j
      BY <1>4, <2>2 DEF Precedes
    <2> QED BY <2>1, <2>2
  <1>6. \A i, j, k \in Matching : Precedes(i, j) /\ Precedes(j, k) => Precedes(i, k)
    BY <1>3, <1>5, BeforeTransitive
  <1> QED BY <1>1, <1>2, <1>3, <1>4, <1>5, <1>6

\* sorted() returns the places it was given, each once, in the order of their keys.
LEMMA SortedPlaces ==
  ASSUME LoopInv
  PROVE  LET n == Cardinality(Matching)
             order == InQueueOrder(Matching)
         IN  /\ n \in Nat
             /\ order \in [1..n -> Matching]
             /\ \A k, l \in 1..n : k < l => Before(validated[order[k]], validated[order[l]])
             /\ {order[k] : k \in 1..n} = Matching
  <1> DEFINE S == Matching
             n == Cardinality(S)
             order == InQueueOrder(S)
             R == {p \in S \X S : Precedes(p[1], p[2])}
             Sorted(o) == \A k, l \in 1..n : k < l => Precedes(o[k], o[l])
  <1>1. n \in Nat
    BY PlacesOrdered, FS_CardinalityType
  <1>2. \E o \in [1..n -> S] : Sorted(o)
    <2>1. \A x, y \in S : <<x, y>> \in R <=> Precedes(x, y)
      OBVIOUS
    <2> HIDE DEF R, S
    <2>2. \E o \in [1..Cardinality(S) -> S] :
             \A k, l \in 1..Cardinality(S) : k < l => <<o[k], o[l]>> \in R
      <3>1. /\ IsFiniteSet(S)
            /\ \A x \in S : <<x, x>> \notin R
            /\ \A x, y \in S : x # y => <<x, y>> \in R \/ <<y, x>> \in R
            /\ \A x, y, z \in S : <<x, y>> \in R /\ <<y, z>> \in R => <<x, z>> \in R
        BY <2>1, PlacesOrdered DEF S
      <3> QED BY <3>1, ArrangementExists
    <2> QED BY <2>1, <2>2
  <1>3. order \in [1..n -> S] /\ Sorted(order)
    BY <1>2 DEF InQueueOrder
  <1>4. \A k, l \in 1..n : k < l => order[k] # order[l]
    <2> HIDE DEF order, n, S
    <2> QED BY <1>3, PlacesOrdered DEF S
  <1>5. \A k, l \in 1..n : k < l => Before(validated[order[k]], validated[order[l]])
    <2> HIDE DEF order, n, S
    <2> QED BY <1>3, PlacesOrdered DEF S
  <1>6. {order[k] : k \in 1..n} = S
    <2>1. IsFiniteSet(S)
      BY PlacesOrdered
    <2> HIDE DEF order, S, Sorted
    <2> QED BY <1>3, <1>4, <2>1, ArrangementComplete
  <1> QED BY <1>1, <1>3, <1>5, <1>6

\* The order of the keys is the order the contract lists.
LEMMA BeforeIsContract ==
  ASSUME NEW a \in AlertFields, NEW b \in AlertFields, Before(a, b)
  PROVE  ContractBefore(a, b)
  <1> DEFINE urgency == <<"AlertPriority.URGENT", "AlertPriority.HIGH", "AlertPriority.NORMAL",
                          "AlertPriority.LOW">>
             significance == <<"AlertSeverity.CRITICAL", "AlertSeverity.HIGH",
                               "AlertSeverity.MEDIUM", "AlertSeverity.LOW",
                               "AlertSeverity.INFORMATIONAL", "AlertSeverity.UNASSIGNED">>
  <1>1. \A x \in AlertPriority : PriorityRank[x] \in 0..3 /\ urgency[PriorityRank[x] + 1] = x
    BY DEF PriorityRank, AlertPriority
  <1>2. \A x \in AlertSeverity : SeverityRank[x] \in 0..5 /\ significance[SeverityRank[x] + 1] = x
    BY DEF SeverityRank, AlertSeverity
  <1>3. Len(urgency) = 4 /\ Len(significance) = 6
    OBVIOUS
  <1>4. \A x, y \in AlertPriority : PriorityRank[x] < PriorityRank[y] => ListedBefore(urgency, x, y)
    <2> HIDE DEF urgency
    <2> SUFFICES ASSUME NEW x \in AlertPriority, NEW y \in AlertPriority,
                        PriorityRank[x] < PriorityRank[y]
                 PROVE  ListedBefore(urgency, x, y)
      OBVIOUS
    <2>1. PICK i \in 0..3 : i = PriorityRank[x] /\ urgency[i + 1] = x
      BY <1>1
    <2>2. PICK j \in 0..3 : j = PriorityRank[y] /\ urgency[j + 1] = y
      BY <1>1
    <2> QED BY <1>3, <2>1, <2>2 DEF ListedBefore
  <1>5. \A x, y \in AlertSeverity :
          SeverityRank[x] < SeverityRank[y] => ListedBefore(significance, x, y)
    <2> HIDE DEF significance
    <2> SUFFICES ASSUME NEW x \in AlertSeverity, NEW y \in AlertSeverity,
                        SeverityRank[x] < SeverityRank[y]
                 PROVE  ListedBefore(significance, x, y)
      OBVIOUS
    <2>1. PICK i \in 0..5 : i = SeverityRank[x] /\ significance[i + 1] = x
      BY <1>2
    <2>2. PICK j \in 0..5 : j = SeverityRank[y] /\ significance[j + 1] = y
      BY <1>2
    <2> QED BY <1>3, <2>1, <2>2 DEF ListedBefore
  <1>6. /\ a.priority \in AlertPriority /\ b.priority \in AlertPriority
        /\ a.severity \in AlertSeverity /\ b.severity \in AlertSeverity
    BY DEF AlertFields
  <1>7. PriorityRank[a.priority] = PriorityRank[b.priority] => a.priority = b.priority
    BY <1>1, <1>6
  <1>8. SeverityRank[a.severity] = SeverityRank[b.severity] => a.severity = b.severity
    BY <1>2, <1>6
  <1>9. \/ PriorityRank[a.priority] < PriorityRank[b.priority]
        \/ /\ PriorityRank[a.priority] = PriorityRank[b.priority]
           /\ \/ SeverityRank[a.severity] < SeverityRank[b.severity]
              \/ /\ SeverityRank[a.severity] = SeverityRank[b.severity]
                 /\ \/ a.created_at < b.created_at
                    \/ a.created_at = b.created_at /\ IdRank[a.alert_id] < IdRank[b.alert_id]
    BY DEF Before, KeyBefore, QueueKey
  <1> HIDE DEF urgency, significance
  <1>10. \/ ListedBefore(urgency, a.priority, b.priority)
         \/ /\ a.priority = b.priority
            /\ \/ ListedBefore(significance, a.severity, b.severity)
               \/ /\ a.severity = b.severity
                  /\ \/ a.created_at < b.created_at
                     \/ a.created_at = b.created_at /\ IdRank[a.alert_id] < IdRank[b.alert_id]
    BY <1>4, <1>5, <1>6, <1>7, <1>8, <1>9
  <1> QED BY <1>10 DEF ContractBefore, urgency, significance

\* A call that answers at its last step returns what the contract says.
LEMMA SelectAnswers ==
  ASSUME LoopInv, Select, reply' = "ok"
  PROVE  AnswerIsTheQueue'
  <1> DEFINE n == Cardinality(Matching)
             order == InQueueOrder(Matching)
             all == {entries[i] : i \in 1..Len(entries)}
             Wanted(a) ==
               /\ ContractSelects(filters.states, AlertState \ {"AlertState.CLOSED"}, a.state)
               /\ ContractSelects(filters.severities, AlertSeverity, a.severity)
               /\ ContractSelects(filters.priorities, AlertPriority, a.priority)
  <1>1. UNCHANGED <<entries, filters>>
    BY DEF Select
  <1>2. answer' = [k \in 1..n |-> validated[order[k]]]
    BY DEF Select, Fail
  <1>3. /\ n \in Nat
        /\ order \in [1..n -> Matching]
        /\ \A k, l \in 1..n : k < l => Before(validated[order[k]], validated[order[l]])
        /\ {order[k] : k \in 1..n} = Matching
    BY SortedPlaces
  <1>4. /\ Len(validated) = Len(entries) /\ Len(entries) \in Nat
        /\ Matching \subseteq 1..Len(entries)
        /\ \A i \in 1..Len(entries) : validated[i] = entries[i] /\ validated[i] \in AlertFields
    <2>1. Len(validated) = Len(entries) /\ Len(entries) \in Nat
      <3>1. entries \in Seq(Pool)
        BY DEF LoopInv, PrefixRead
      <3>2. Len(validated) = Len(entries)
        BY DEF Select
      <3> QED BY <3>1, <3>2
    <2>2. Matching \subseteq 1..Len(entries)
      BY <2>1 DEF Matching
    <2> QED BY <2>1, <2>2 DEF LoopInv, PrefixRead
  <1>5. \A a \in AlertFields : Selected(a, filters) <=> Wanted(a)
    <2>1. ActiveStates = AlertState \ {"AlertState.CLOSED"}
      BY DEF ActiveStates, AlertState
    <2> QED BY <2>1 DEF Selected, ContractSelects, AlertFields
  <1>6. \A i \in 1..Len(entries) : i \in Matching <=> Wanted(entries[i])
    <2> HIDE DEF Wanted
    <2> QED BY <1>4, <1>5 DEF Matching
  <1> HIDE DEF n, order
  <1>7. Len(answer') = n
    BY <1>2, <1>3
  <1>8. {answer'[k] : k \in 1..Len(answer')} = {a \in all : Wanted(a)}
    <2> HIDE DEF Wanted
    <2>1. \A k \in 1..n : answer'[k] = entries[order[k]] /\ order[k] \in Matching
      BY <1>2, <1>3, <1>4
    <2>2. \A i \in Matching : \E k \in 1..n : order[k] = i
      BY <1>3
    <2>3. \A k \in 1..n : answer'[k] \in {a \in all : Wanted(a)}
      BY <1>4, <1>6, <2>1
    <2>4. \A a \in all : Wanted(a) => \E k \in 1..n : answer'[k] = a
      <3> SUFFICES ASSUME NEW i \in 1..Len(entries), Wanted(entries[i])
                   PROVE  \E k \in 1..n : answer'[k] = entries[i]
        OBVIOUS
      <3> QED BY <1>6, <2>1, <2>2
    <2> QED BY <1>7, <2>3, <2>4
  <1>9. \A k, l \in 1..Len(answer') : k < l => ContractBefore(answer'[k], answer'[l])
    <2> SUFFICES ASSUME NEW k \in 1..n, NEW l \in 1..n, k < l
                 PROVE  ContractBefore(answer'[k], answer'[l])
      BY <1>7
    <2>1. /\ answer'[k] \in AlertFields /\ answer'[l] \in AlertFields
          /\ Before(answer'[k], answer'[l])
      BY <1>2, <1>3, <1>4
    <2> QED BY <2>1, BeforeIsContract
  <1> QED BY <1>1, <1>8, <1>9
          DEF AnswerIsTheQueue, ContractBefore, ContractSelects, ListedBefore

\* No other step touches an answer while it stands.
LEMMA AnswerNext == LoopInv /\ AnswerIsTheQueue /\ [Next]_vars => AnswerIsTheQueue'
  <1> SUFFICES ASSUME LoopInv, AnswerIsTheQueue, [Next]_vars PROVE AnswerIsTheQueue'
    OBVIOUS
  <1>1. CASE UNCHANGED vars
    BY <1>1 DEF vars, AnswerIsTheQueue, Answered, ContractBefore, ContractSelects, ListedBefore
  <1>2. CASE Select /\ reply' = "ok"
    BY <1>2, SelectAnswers
  <1>3. CASE ~Answered("ok")'
    BY <1>3 DEF AnswerIsTheQueue
  <1>4. Next /\ Answered("ok")' => Select /\ reply' = "ok"
    BY DEF Next, Library, Call, Measure, Take, EndOfEntries, Validate, Select, Fail, Answered
  <1> QED BY <1>1, <1>2, <1>3, <1>4

\* The queue a call returns holds exactly the Alerts its filters select, in the order
\* the contract lists, for every collection, filter and identity order.
THEOREM QueueIsRight == Spec => []AnswerIsTheQueue
  <1>1. Init => AnswerIsTheQueue
    BY DEF Init, AnswerIsTheQueue, Answered
  <1> QED BY LoopInit, LoopNext, <1>1, AnswerNext, PTL DEF Spec

=============================================================================
