------------------------ MODULE ConditionEvaluatorProofs ------------------------
(* What holds of every condition tree of any size: outcomes that are decided  *)
(* are certain, those left unknown are open both ways, and every leaf is      *)
(* checked.                                                                   *)
EXTENDS ConditionEvaluator, WellFoundedInduction, TLAPS

\* What the loop over the nodes has established: how far it is, and that every leaf
\* behind it passed its checks.
Progress ==
  /\ status = "running" =>
       /\ Len(trace) < tree.size
       /\ \A n \in Leaves : n <= Len(trace) => test[n].valid
  /\ NothingSkipped

\* The inductive invariant.
EvaluationInv == TypeOK /\ Progress /\ DecidedIsCertain

\* Every leaf outcome, negation and aggregation is one of the three outcomes.
LEMMA OutcomesClosed ==
  /\ \A t : LeafOutcome(t) \in ConditionOutcome
  /\ \A o : Negated(o) \in ConditionOutcome
  /\ \A os : Aggregated(os, "false", "true") \in ConditionOutcome
  /\ \A os : Aggregated(os, "true", "false") \in ConditionOutcome
BY DEF LeafOutcome, Negated, Aggregated, Outcome, ConditionOutcome

\* An evaluation starts with nothing claimed.
LEMMA EvaluationInit == Init => EvaluationInv
<1>1. Init => Len(trace) = 0 /\ trace \in Seq(ConditionOutcome)
  BY Len(<<>>) = 0 DEF Init
<1>2. Init => IsTree(tree)
  BY TreesAssumption DEF Init
<1>3. Init => TypeOK
  BY <1>1, <1>2 DEF Init, TypeOK, IsTree
<1>4. Init => Progress
  BY <1>1, <1>2 DEF Init, Progress, NothingSkipped, Leaves, IsTree
<1>5. Init => DecidedIsCertain
  BY <1>1 DEF Init, DecidedIsCertain
<1>. QED  BY <1>3, <1>4, <1>5 DEF EvaluationInv

\* What the recording of an outcome makes of the trace, for any outcome of the three.
LEMMA RecordAppends ==
  ASSUME TypeOK, status = "running", Len(trace) < tree.size,
         NEW o \in ConditionOutcome, Record(o)
  PROVE  /\ trace' \in Seq(ConditionOutcome)
         /\ Len(trace') = Node
         /\ trace'[Node] = o
         /\ \A n \in 1..Len(trace) : trace'[n] = trace[n]
         /\ tree' = tree /\ test' = test
         /\ Node \in 1..tree.size
BY DEF TypeOK, Record, Node, IsTree

\* An outcome keeps the types and, when a leaf is recorded only if it is valid, the
\* progress.
LEMMA RecordProgresses ==
  ASSUME TypeOK, Progress, status = "running",
         NEW o \in ConditionOutcome, Record(o),
         Node \in Leaves => test[Node].valid
  PROVE  TypeOK' /\ Progress'
<1>1. Len(trace) < tree.size /\ Len(trace) \in Nat /\ tree.size \in Nat
  BY DEF Progress, TypeOK, IsTree
<1>2. /\ trace' \in Seq(ConditionOutcome)
      /\ Len(trace') = Node
      /\ tree' = tree /\ test' = test
      /\ Node \in 1..tree.size
  BY <1>1, RecordAppends
<1>3. status' = IF Node = tree.size THEN "returned" ELSE "running"
  BY DEF Record
<1>4. TypeOK'
  <2>1. IsTree(tree)' /\ Leaves' = Leaves
    BY <1>2 DEF TypeOK, Leaves, IsTree
  <2>. QED  BY <1>1, <1>2, <1>3, <2>1 DEF TypeOK
<1>5. \A n \in Leaves : n <= Node => test[n].valid
  BY <1>1 DEF Progress, Node, Leaves
<1>6. Progress'
  BY <1>1, <1>2, <1>3, <1>5 DEF Progress, NothingSkipped, Leaves
<1>. QED  BY <1>4, <1>6

\* A certain outcome of the node that is next keeps all outcomes certain.
LEMMA RecordCertain ==
  ASSUME TypeOK, Progress, DecidedIsCertain, status = "running",
         NEW o \in ConditionOutcome, Record(o),
         o # "unknown" =>
           \A v \in [1..tree.size -> BOOLEAN] : IsReading(v) => v[Node] = (o = "true")
  PROVE  DecidedIsCertain'
<1>1. Len(trace) < tree.size /\ Len(trace) \in Nat
  BY DEF Progress, TypeOK
<1>2. /\ Len(trace') = Node
      /\ trace'[Node] = o
      /\ \A n \in 1..Len(trace) : trace'[n] = trace[n]
      /\ tree' = tree /\ test' = test
  BY <1>1, RecordAppends
<1>3. \A v : IsReading(v)' <=> IsReading(v)
  BY <1>2 DEF IsReading, IsReadingOf, ReadsAs
<1>4. SUFFICES ASSUME NEW n \in 1..Node, trace'[n] # "unknown",
                      NEW v \in [1..tree.size -> BOOLEAN], IsReading(v)
               PROVE  v[n] = (trace'[n] = "true")
  BY <1>2, <1>3 DEF DecidedIsCertain, IsReading
<1>5. CASE n = Node
  BY <1>2, <1>4, <1>5
<1>6. CASE n # Node
  <2>1. n \in 1..Len(trace)
    BY <1>1, <1>6 DEF Node
  <2>. QED  BY <1>2, <1>4, <2>1 DEF DecidedIsCertain
<1>. QED  BY <1>5, <1>6

\* While the evaluation runs, the children of the next node have been evaluated, and
\* what is decided of them is certain.
LEMMA ChildrenCertain ==
  ASSUME TypeOK, Progress, DecidedIsCertain, status = "running",
         NEW v \in [1..tree.size -> BOOLEAN], IsReading(v)
  PROVE  /\ Node \in 1..tree.size
         /\ \A c \in tree.children[Node] :
              /\ c \in 1..tree.size /\ c \in 1..Len(trace)
              /\ trace[c] \in ConditionOutcome
              /\ v[c] \in BOOLEAN
              /\ trace[c] = "true" => v[c]
              /\ trace[c] = "false" => ~v[c]
<1>1. Len(trace) < tree.size /\ Len(trace) \in Nat /\ tree.size \in Nat
  BY DEF Progress, TypeOK, IsTree
<1>2. Node \in 1..tree.size /\ Node = Len(trace) + 1
  BY <1>1 DEF Node
<1>3. ASSUME NEW c \in tree.children[Node]
      PROVE  c \in 1..tree.size /\ c < Node
  BY <1>2, <1>3 DEF TypeOK, IsTree
<1>4. ASSUME NEW c \in tree.children[Node]
      PROVE  c \in 1..Len(trace) /\ trace[c] \in ConditionOutcome
  BY <1>1, <1>2, <1>3 DEF TypeOK
<1>. QED  BY <1>2, <1>3, <1>4 DEF DecidedIsCertain, ConditionOutcome

\* Every step keeps the invariant.
LEMMA EvaluationNext == EvaluationInv /\ [Next]_vars => EvaluationInv'
<1>. SUFFICES ASSUME EvaluationInv, [Next]_vars  PROVE EvaluationInv'
  OBVIOUS
<1>0. TypeOK /\ Progress /\ DecidedIsCertain
  BY DEF EvaluationInv
<1>1. CASE EvaluateLeaf
  <2>1. /\ status = "running" /\ tree.kind[Node] = "leaf" /\ test[Node].valid
        /\ Record(LeafOutcome(test[Node]))
    BY <1>1 DEF EvaluateLeaf, Reaches
  <2>2. LeafOutcome(test[Node]) \in ConditionOutcome
    BY OutcomesClosed
  <2>3. Node \in 1..tree.size
    BY <1>0, <2>1 DEF Progress, TypeOK, IsTree, Node
  <2>4. LeafOutcome(test[Node]) # "unknown" =>
          \A v \in [1..tree.size -> BOOLEAN] :
            IsReading(v) => v[Node] = (LeafOutcome(test[Node]) = "true")
    BY <2>1, <2>3 DEF IsReading, IsReadingOf, ReadsAs
  <2>. QED  BY <1>0, <2>1, <2>2, <2>4, RecordProgresses, RecordCertain DEF EvaluationInv
<1>2. CASE RaiseAtLeaf
  <2>1. status = "running" /\ tree.kind[Node] = "leaf" /\ ~test[Node].valid
    BY <1>2 DEF RaiseAtLeaf, Reaches
  <2>2. trace' = <<>> /\ status' = "raised" /\ tree' = tree /\ test' = test
    BY <1>2 DEF RaiseAtLeaf
  <2>3. Len(trace') = 0 /\ trace' \in Seq(ConditionOutcome)
    BY <2>2, Len(<<>>) = 0
  <2>4. Node \in Leaves
    BY <1>0, <2>1 DEF Progress, TypeOK, IsTree, Node, Leaves
  <2>5. TypeOK'
    BY <1>0, <2>2, <2>3 DEF TypeOK, IsTree, Leaves
  <2>6. Progress'
    BY <2>1, <2>2, <2>4 DEF Progress, NothingSkipped, Leaves
  <2>7. DecidedIsCertain'
    BY <2>3 DEF DecidedIsCertain
  <2>. QED  BY <2>5, <2>6, <2>7 DEF EvaluationInv
<1>3. CASE EvaluateNot
  <2>1. status = "running" /\ tree.kind[Node] = "not"
    BY <1>3 DEF EvaluateNot, Reaches
  <2>2. PICK c \in tree.children[Node] : Record(Negated(trace[c]))
    BY <1>3 DEF EvaluateNot, ChildOutcomes
  <2>3. Negated(trace[c]) \in ConditionOutcome
    BY OutcomesClosed
  <2>4. Negated(trace[c]) # "unknown" =>
          \A v \in [1..tree.size -> BOOLEAN] :
            IsReading(v) => v[Node] = (Negated(trace[c]) = "true")
    <3>1. SUFFICES ASSUME Negated(trace[c]) # "unknown",
                          NEW v \in [1..tree.size -> BOOLEAN], IsReading(v)
                   PROVE  v[Node] = (Negated(trace[c]) = "true")
      OBVIOUS
    <3>2. /\ Node \in 1..tree.size
          /\ v[c] \in BOOLEAN
          /\ trace[c] = "true" => v[c]
          /\ trace[c] = "false" => ~v[c]
      BY <1>0, <2>1, <3>1, ChildrenCertain
    <3>3. v[Node] = ~v[c]
      BY <2>1, <3>1, <3>2 DEF IsReading, IsReadingOf, ReadsAs
    <3>. QED  BY <3>1, <3>2, <3>3 DEF Negated
  <2>5. Node \notin Leaves
    BY <2>1 DEF Leaves
  <2>. QED  BY <1>0, <2>1, <2>2, <2>3, <2>4, <2>5, RecordProgresses, RecordCertain
            DEF EvaluationInv
<1>4. CASE EvaluateAll
  <2>. DEFINE o == Aggregated(ChildOutcomes, "false", "true")
  <2>1. status = "running" /\ tree.kind[Node] = "all" /\ Record(o)
    BY <1>4 DEF EvaluateAll, Reaches
  <2>2. o \in ConditionOutcome
    BY OutcomesClosed
  <2>3. ASSUME NEW v \in [1..tree.size -> BOOLEAN], IsReading(v), o # "unknown"
        PROVE  v[Node] = (o = "true")
    <3>1. /\ Node \in 1..tree.size
          /\ \A c \in tree.children[Node] :
               /\ trace[c] \in ConditionOutcome
               /\ v[c] \in BOOLEAN
               /\ trace[c] = "true" => v[c]
               /\ trace[c] = "false" => ~v[c]
      BY <1>0, <2>1, <2>3, ChildrenCertain
    <3>2. v[Node] = (\A c \in tree.children[Node] : v[c])
      BY <2>1, <2>3, <3>1 DEF IsReading, IsReadingOf, ReadsAs
    <3>3. CASE "false" \in ChildOutcomes
      <4>1. \E c \in tree.children[Node] : ~v[c]
        BY <3>1, <3>3 DEF ChildOutcomes
      <4>2. o = "false"
        BY <3>3 DEF Aggregated
      <4>. QED  BY <3>2, <4>1, <4>2
    <3>4. CASE "false" \notin ChildOutcomes
      <4>1. o = "true" /\ "unknown" \notin ChildOutcomes
        BY <2>3, <3>4 DEF Aggregated
      <4>2. \A c \in tree.children[Node] : trace[c] = "true"
        BY <3>1, <3>4, <4>1 DEF ChildOutcomes, ConditionOutcome
      <4>. QED  BY <3>1, <3>2, <4>1, <4>2
    <3>. QED  BY <3>3, <3>4
  <2>4. Node \notin Leaves
    BY <2>1 DEF Leaves
  <2>. HIDE DEF o
  <2>. QED  BY <1>0, <2>1, <2>2, <2>3, <2>4, RecordProgresses, RecordCertain DEF EvaluationInv
<1>5. CASE EvaluateAny
  <2>. DEFINE o == Aggregated(ChildOutcomes, "true", "false")
  <2>1. status = "running" /\ tree.kind[Node] = "any" /\ Record(o)
    BY <1>5 DEF EvaluateAny, Reaches
  <2>2. o \in ConditionOutcome
    BY OutcomesClosed
  <2>3. ASSUME NEW v \in [1..tree.size -> BOOLEAN], IsReading(v), o # "unknown"
        PROVE  v[Node] = (o = "true")
    <3>1. /\ Node \in 1..tree.size
          /\ \A c \in tree.children[Node] :
               /\ trace[c] \in ConditionOutcome
               /\ v[c] \in BOOLEAN
               /\ trace[c] = "true" => v[c]
               /\ trace[c] = "false" => ~v[c]
      BY <1>0, <2>1, <2>3, ChildrenCertain
    <3>2. v[Node] = (\E c \in tree.children[Node] : v[c])
      BY <2>1, <2>3, <3>1 DEF IsReading, IsReadingOf, ReadsAs
    <3>3. CASE "true" \in ChildOutcomes
      <4>1. \E c \in tree.children[Node] : v[c]
        BY <3>1, <3>3 DEF ChildOutcomes
      <4>2. o = "true"
        BY <3>3 DEF Aggregated
      <4>. QED  BY <3>2, <4>1, <4>2
    <3>4. CASE "true" \notin ChildOutcomes
      <4>1. o = "false" /\ "unknown" \notin ChildOutcomes
        BY <2>3, <3>4 DEF Aggregated
      <4>2. \A c \in tree.children[Node] : trace[c] = "false"
        BY <3>1, <3>4, <4>1 DEF ChildOutcomes, ConditionOutcome
      <4>. QED  BY <3>1, <3>2, <4>1, <4>2
    <3>. QED  BY <3>3, <3>4
  <2>4. Node \notin Leaves
    BY <2>1 DEF Leaves
  <2>. HIDE DEF o
  <2>. QED  BY <1>0, <2>1, <2>2, <2>3, <2>4, RecordProgresses, RecordCertain DEF EvaluationInv
<1>6. CASE UNCHANGED vars
  <2>1. tree' = tree /\ test' = test /\ trace' = trace /\ status' = status
    BY <1>6 DEF vars
  <2>2. IsTree(tree)' /\ Leaves' = Leaves
    BY <1>0, <2>1 DEF TypeOK, IsTree, Leaves
  <2>3. TypeOK'
    BY <1>0, <2>1, <2>2 DEF TypeOK
  <2>4. Progress'
    BY <1>0, <2>1, <2>2 DEF Progress, NothingSkipped
  <2>5. \A v : IsReading(v)' <=> IsReading(v)
    BY <2>1 DEF IsReading, IsReadingOf, ReadsAs
  <2>6. DecidedIsCertain'
    BY <1>0, <2>1, <2>5 DEF DecidedIsCertain
  <2>. QED  BY <2>3, <2>4, <2>6 DEF EvaluationInv
<1>. QED  BY <1>1, <1>2, <1>3, <1>4, <1>5, <1>6 DEF Next

-----------------------------------------------------------------------------
(* Completeness: an outcome of "unknown" may turn out either way.             *)

\* Every set of numbers that is not empty has a least one.
LEMMA LeastExists ==
  ASSUME NEW T, T \subseteq Nat, T # {}
  PROVE  \E x \in T : \A y \in T : x <= y
<1>. DEFINE R == OpToRel(<, Nat)
<1>1. IsWellFoundedOn(R, Nat)
  BY NatLessThanWellFounded
<1>2. \A y, x \in Nat : y < x => <<y, x>> \in R
  BY DEF OpToRel
<1>. HIDE DEF R
<1>3. PICK x \in T : \A y \in T : ~(<<y, x>> \in R)
  BY <1>1, WFMin
<1>4. \A y \in T : ~(y < x)
  BY <1>2, <1>3
<1>. QED  BY <1>3, <1>4

\* The first k nodes read as the connectives make them.
ReadsUpTo(t, e, v, k) == \A n \in 1..k : ReadsAs(t, e, v, n)

Assignments(t) == [1..t.size -> BOOLEAN]

\* Of the first k nodes, those whose parent comes later: the roots of what is evaluated.
Tops(t, k) == {n \in 1..k : \A m \in 1..k : n \notin t.children[m]}

\* Outcome n of s is what the leaf, or the outcomes of the children, make of it.
Follows(t, e, s, n) ==
  /\ s[n] \in ConditionOutcome
  /\ t.kind[n] = "leaf" => s[n] = LeafOutcome(e[n])
  /\ t.kind[n] = "not" => \E c \in t.children[n] : s[n] = Negated(s[c])
  /\ t.kind[n] = "all" =>
       s[n] = Aggregated({s[c] : c \in t.children[n]}, "false", "true")
  /\ t.kind[n] = "any" =>
       s[n] = Aggregated({s[c] : c \in t.children[n]}, "true", "false")

\* What f asks of a node an outcome does not forbid.
Allowed(s, f, n) == s[n] # "unknown" => f[n] = (s[n] = "true")

\* The roots of the first k nodes can be read in every way their outcomes allow,
\* independently of each other.
Independent(t, e, s, k) ==
  \A f \in Assignments(t) :
    (\A n \in Tops(t, k) : Allowed(s, f, n)) =>
      \E v \in Assignments(t) : ReadsUpTo(t, e, v, k) /\ \A n \in Tops(t, k) : v[n] = f[n]

\* How a node reads depends on itself and its children.
LEMMA ReadingIsLocal ==
  ASSUME NEW t, IsTree(t), NEW e, NEW n \in 1..t.size,
         NEW v \in Assignments(t), NEW w \in Assignments(t),
         v[n] = w[n], \A c \in t.children[n] : v[c] = w[c],
         ReadsAs(t, e, v, n)
  PROVE  ReadsAs(t, e, w, n)
<1>1. t.kind[n] \in {"leaf", "not", "all", "any"}
  BY DEF IsTree
<1>2. CASE t.kind[n] = "leaf"
  BY <1>2 DEF ReadsAs
<1>3. CASE t.kind[n] = "not"
  BY <1>3 DEF ReadsAs
<1>4. CASE t.kind[n] = "all"
  BY <1>4 DEF ReadsAs
<1>5. CASE t.kind[n] = "any"
  BY <1>5 DEF ReadsAs
<1>. QED  BY <1>1, <1>2, <1>3, <1>4, <1>5

\* How the first k nodes read does not depend on the others.
LEMMA PrefixIsLocal ==
  ASSUME NEW t, IsTree(t), NEW e, NEW k \in Nat, k <= t.size,
         NEW v \in Assignments(t), NEW w \in Assignments(t),
         \A n \in 1..k : v[n] = w[n],
         ReadsUpTo(t, e, v, k)
  PROVE  ReadsUpTo(t, e, w, k)
<1>1. SUFFICES ASSUME NEW n \in 1..k  PROVE ReadsAs(t, e, w, n)
  BY DEF ReadsUpTo
<1>2. n \in 1..t.size /\ \A c \in t.children[n] : c \in 1..k
  BY DEF IsTree
<1>3. v[n] = w[n] /\ \A c \in t.children[n] : v[c] = w[c]
  BY <1>2
<1>. QED  BY <1>2, <1>3, ReadingIsLocal DEF ReadsUpTo

\* A reading of the first nodes can be continued by one node, whatever it is.
LEMMA ReadingContinues ==
  ASSUME NEW t, IsTree(t), NEW e, NEW k \in Nat, k < t.size,
         NEW v \in Assignments(t), ReadsUpTo(t, e, v, k)
  PROVE  \E w \in Assignments(t) :
           ReadsUpTo(t, e, w, k + 1) /\ \A n \in 1..k : w[n] = v[n]
<1>. DEFINE m == k + 1
            b == CASE t.kind[m] = "leaf" -> LeafOutcome(e[m]) = "true"
                   [] t.kind[m] = "not" -> \A c \in t.children[m] : ~v[c]
                   [] t.kind[m] = "all" -> \A c \in t.children[m] : v[c]
                   [] t.kind[m] = "any" -> \E c \in t.children[m] : v[c]
            w == [v EXCEPT ![m] = b]
<1>0. m \in 1..t.size /\ \A c \in t.children[m] : c \in 1..k
  BY DEF IsTree
<1>1. t.kind[m] \in {"leaf", "not", "all", "any"}
  BY <1>0 DEF IsTree
<1>2. b \in BOOLEAN
  BY <1>1
<1>3. /\ w \in Assignments(t) /\ w[m] = b
      /\ \A n \in 1..k : w[n] = v[n]
  <2>. HIDE DEF b
  <2>. QED  BY <1>0, <1>2 DEF Assignments
<1>4. ReadsAs(t, e, w, m)
  <2>. HIDE DEF w
  <2>1. \A c \in t.children[m] : w[c] = v[c] /\ v[c] \in BOOLEAN
    <3>. HIDE DEF b
    <3>1. t.size \in Nat
      BY DEF IsTree
    <3>. QED  BY <1>0, <1>3, <3>1 DEF Assignments
  <2>2. CASE t.kind[m] = "leaf"
    BY <1>3, <2>2 DEF ReadsAs
  <2>3. CASE t.kind[m] = "not"
    <3>1. PICK c : t.children[m] = {c}
      BY <1>0, <2>3 DEF IsTree
    <3>. QED  BY <1>3, <2>1, <2>3, <3>1 DEF ReadsAs
  <2>4. CASE t.kind[m] = "all"
    BY <1>3, <2>1, <2>4 DEF ReadsAs
  <2>5. CASE t.kind[m] = "any"
    BY <1>3, <2>1, <2>5 DEF ReadsAs
  <2>. QED  BY <1>1, <2>2, <2>3, <2>4, <2>5
<1>5. ReadsUpTo(t, e, w, m)
  <2>. HIDE DEF w
  <2>1. k <= t.size
    BY DEF IsTree
  <2>2. w \in Assignments(t) /\ \A n \in 1..k : v[n] = w[n]
    BY <1>3
  <2>3. ReadsUpTo(t, e, w, k)
    BY <2>1, <2>2, PrefixIsLocal
  <2>. QED  BY <1>4, <2>3 DEF ReadsUpTo
<1>. QED
  <2>. HIDE DEF w
  <2>. QED  BY <1>3, <1>5

\* And so to the end.
LEMMA ReadingCompletes ==
  ASSUME NEW t, IsTree(t), NEW e, NEW k \in Nat, k <= t.size,
         NEW v \in Assignments(t), ReadsUpTo(t, e, v, k)
  PROVE  \E w \in Assignments(t) : IsReadingOf(t, e, w) /\ \A n \in 1..k : w[n] = v[n]
<1>. DEFINE Reached(j) ==
       \E w \in Assignments(t) : ReadsUpTo(t, e, w, j) /\ \A n \in 1..k : w[n] = v[n]
     Missed == {j \in k..t.size : ~Reached(j)}
<1>0. t.size \in Nat
  BY DEF IsTree
<1>1. Reached(k)
  OBVIOUS
<1>2. ASSUME NEW j \in k..t.size, j < t.size, Reached(j)  PROVE Reached(j + 1)
  <2>1. PICK w \in Assignments(t) : ReadsUpTo(t, e, w, j) /\ \A n \in 1..k : w[n] = v[n]
    BY <1>2
  <2>2. PICK u \in Assignments(t) : ReadsUpTo(t, e, u, j + 1) /\ \A n \in 1..j : u[n] = w[n]
    BY <1>0, <1>2, <2>1, ReadingContinues
  <2>. QED  BY <1>0, <2>1, <2>2
<1>. HIDE DEF Reached
<1>3. Missed = {}
  <2>1. SUFFICES ASSUME Missed # {}  PROVE FALSE
    OBVIOUS
  <2>2. Missed \subseteq Nat
    BY <1>0
  <2>. HIDE DEF Missed
  <2>3. PICK j \in Missed : \A i \in Missed : j <= i
    BY <2>1, <2>2, LeastExists
  <2>. USE DEF Missed
  <2>4. j # k /\ j \in k..t.size /\ ~Reached(j)
    BY <1>1, <2>3
  <2>5. j - 1 \in k..t.size /\ j - 1 < t.size /\ (j - 1) + 1 = j
    BY <1>0, <2>4
  <2>6. Reached(j - 1)
    <3>1. j - 1 \notin Missed
      <4>1. ~(j <= j - 1)
        BY <1>0, <2>4
      <4>. HIDE DEF Missed
      <4>. QED  BY <2>3, <4>1
    <3>. QED  BY <2>5, <3>1
  <2>. QED  BY <1>2, <2>4, <2>5, <2>6
<1>4. Reached(t.size)
  BY <1>0, <1>3
<1>. QED  BY <1>4 DEF Reached, ReadsUpTo, IsReadingOf

\* What the next node leaves to the roots before it: its children give up their places.
LEMMA NextTops ==
  ASSUME NEW t, IsTree(t), NEW k \in Nat, k < t.size
  PROVE  /\ k + 1 \in 1..t.size
         /\ t.children[k + 1] \subseteq Tops(t, k)
         /\ Tops(t, k) \subseteq 1..k
         /\ \A n \in Tops(t, k + 1) :
              n = k + 1 \/ (n \in Tops(t, k) /\ n \notin t.children[k + 1])
<1>0. t.size \in Nat /\ k + 1 \in 1..t.size
  BY DEF IsTree
<1>1. ASSUME NEW c \in t.children[k + 1]  PROVE c \in Tops(t, k)
  <2>1. c \in 1..k
    BY <1>0 DEF IsTree
  <2>2. \A m \in 1..k : t.children[m] \cap t.children[k + 1] = {}
    BY <1>0 DEF IsTree
  <2>. QED  BY <2>1, <2>2 DEF Tops
<1>2. ASSUME NEW n \in Tops(t, k + 1), n # k + 1
      PROVE  n \in Tops(t, k) /\ n \notin t.children[k + 1]
  BY <1>2 DEF Tops
<1>. QED  BY <1>0, <1>1, <1>2 DEF Tops

\* What to ask of the children of a node so that it reads as f wants.
Demand(t, s, f, m) ==
  [n \in 1..t.size |->
     IF n \in t.children[m]
     THEN IF s[n] # "unknown" THEN s[n] = "true"
          ELSE IF t.kind[m] = "not" THEN ~f[m] ELSE f[m]
     ELSE f[n]]

\* What is asked of the children is allowed, and enough.
LEMMA DemandSuffices ==
  ASSUME NEW t, IsTree(t), NEW e, NEW s, NEW m \in 1..t.size,
         Follows(t, e, s, m), \A c \in t.children[m] : s[c] \in ConditionOutcome,
         NEW f \in Assignments(t), Allowed(s, f, m),
         NEW w \in Assignments(t), w[m] = f[m],
         \A c \in t.children[m] : w[c] = Demand(t, s, f, m)[c]
  PROVE  ReadsAs(t, e, w, m)
<1>1. t.kind[m] \in {"leaf", "not", "all", "any"} /\ t.children[m] \subseteq 1..t.size
  BY DEF IsTree
<1>2. \A c \in t.children[m] :
        w[c] = IF s[c] # "unknown" THEN s[c] = "true"
               ELSE IF t.kind[m] = "not" THEN ~f[m] ELSE f[m]
  BY <1>1 DEF Demand
<1>3. f[m] \in BOOLEAN /\ w[m] \in BOOLEAN /\ \A c \in t.children[m] : w[c] \in BOOLEAN
  BY <1>1 DEF Assignments
<1>4. CASE t.kind[m] = "leaf"
  BY <1>4 DEF ReadsAs, Follows, Allowed
<1>5. CASE t.kind[m] = "not"
  <2>1. PICK c : t.children[m] = {c}
    BY <1>5 DEF IsTree
  <2>2. s[m] = Negated(s[c]) /\ s[c] \in ConditionOutcome
    BY <1>5, <2>1 DEF Follows
  <2>3. w[c] = ~f[m]
    <3>1. CASE s[c] = "unknown"
      BY <1>2, <1>5, <2>1, <3>1
    <3>2. CASE s[c] = "true"
      <4>1. s[m] = "false"
        BY <2>2, <3>2 DEF Negated
      <4>. QED  BY <1>2, <1>3, <2>1, <3>2, <4>1 DEF Allowed
    <3>3. CASE s[c] = "false"
      <4>1. s[m] = "true"
        BY <2>2, <3>3 DEF Negated
      <4>. QED  BY <1>2, <1>3, <2>1, <3>3, <4>1 DEF Allowed
    <3>. QED  BY <2>2, <3>1, <3>2, <3>3 DEF ConditionOutcome
  <2>. QED  BY <1>3, <1>5, <2>1, <2>3 DEF ReadsAs
<1>6. CASE t.kind[m] = "all"
  <2>1. s[m] = Aggregated({s[c] : c \in t.children[m]}, "false", "true")
    BY <1>6 DEF Follows
  <2>2. w[m] = (\A c \in t.children[m] : w[c])
    <3>1. CASE \E c \in t.children[m] : s[c] = "false"
      <4>1. s[m] = "false"
        BY <2>1, <3>1 DEF Aggregated
      <4>2. \E c \in t.children[m] : ~w[c]
        BY <1>2, <3>1
      <4>. QED  BY <1>3, <4>1, <4>2 DEF Allowed
    <3>2. CASE (\A c \in t.children[m] : s[c] # "false") /\ \E c \in t.children[m] : s[c] = "unknown"
      <4>1. \A c \in t.children[m] : s[c] = "unknown" \/ s[c] = "true"
        BY <3>2 DEF ConditionOutcome
      <4>2. \A c \in t.children[m] : (s[c] = "unknown" /\ w[c] = f[m]) \/ (s[c] = "true" /\ w[c])
        BY <1>2, <1>3, <1>6, <4>1
      <4>. QED  BY <1>3, <3>2, <4>2
    <3>3. CASE \A c \in t.children[m] : s[c] = "true"
      <4>1. s[m] = "true"
        BY <2>1, <3>3 DEF Aggregated
      <4>2. \A c \in t.children[m] : w[c]
        BY <1>2, <3>3
      <4>. QED  BY <1>3, <4>1, <4>2 DEF Allowed
    <3>. QED  BY <3>1, <3>2, <3>3 DEF ConditionOutcome
  <2>. QED  BY <1>6, <2>2 DEF ReadsAs
<1>7. CASE t.kind[m] = "any"
  <2>1. s[m] = Aggregated({s[c] : c \in t.children[m]}, "true", "false")
    BY <1>7 DEF Follows
  <2>2. w[m] = (\E c \in t.children[m] : w[c])
    <3>1. CASE \E c \in t.children[m] : s[c] = "true"
      <4>1. s[m] = "true"
        BY <2>1, <3>1 DEF Aggregated
      <4>2. \E c \in t.children[m] : w[c]
        BY <1>2, <3>1
      <4>. QED  BY <1>3, <4>1, <4>2 DEF Allowed
    <3>2. CASE (\A c \in t.children[m] : s[c] # "true") /\ \E c \in t.children[m] : s[c] = "unknown"
      <4>1. \A c \in t.children[m] : s[c] = "unknown" \/ s[c] = "false"
        BY <3>2 DEF ConditionOutcome
      <4>2. \A c \in t.children[m] : (s[c] = "unknown" /\ w[c] = f[m]) \/ (s[c] = "false" /\ ~w[c])
        BY <1>2, <1>3, <1>7, <4>1
      <4>. QED  BY <1>3, <3>2, <4>2
    <3>3. CASE \A c \in t.children[m] : s[c] = "false"
      <4>1. s[m] = "false"
        BY <2>1, <1>7, <3>3 DEF Aggregated, IsTree
      <4>2. \A c \in t.children[m] : ~w[c]
        BY <1>2, <3>3
      <4>. QED  BY <1>3, <4>1, <4>2 DEF Allowed
    <3>. QED  BY <3>1, <3>2, <3>3 DEF ConditionOutcome
  <2>. QED  BY <1>7, <2>2 DEF ReadsAs
<1>. QED  BY <1>1, <1>4, <1>5, <1>6, <1>7

\* The next node leaves the roots independent.
LEMMA StaysIndependent ==
  ASSUME NEW t, IsTree(t), NEW e, NEW s, NEW k \in Nat, k < t.size,
         \A n \in 1..(k + 1) : Follows(t, e, s, n),
         Independent(t, e, s, k)
  PROVE  Independent(t, e, s, k + 1)
<1>. DEFINE m == k + 1
            C == t.children[m]
<1>0. /\ t.size \in Nat /\ m \in 1..t.size /\ k <= t.size
      /\ C \subseteq Tops(t, k) /\ Tops(t, k) \subseteq 1..k
      /\ \A n \in Tops(t, m) : n = m \/ (n \in Tops(t, k) /\ n \notin C)
      /\ C \subseteq 1..t.size
      /\ \A c \in C : s[c] \in ConditionOutcome
  <2>1. t.size \in Nat /\ k <= t.size
    BY DEF IsTree
  <2>2. m \in 1..t.size /\ C \subseteq Tops(t, k) /\ Tops(t, k) \subseteq 1..k
    BY NextTops
  <2>3. \A n \in Tops(t, m) : n = m \/ (n \in Tops(t, k) /\ n \notin C)
    BY NextTops
  <2>4. C \subseteq 1..t.size /\ C \subseteq 1..(k + 1)
    BY <2>1, <2>2
  <2>5. \A c \in C : s[c] \in ConditionOutcome
    BY <2>4 DEF Follows
  <2>. QED  BY <2>1, <2>2, <2>3, <2>4, <2>5
<1>1. SUFFICES ASSUME NEW f \in Assignments(t), \A n \in Tops(t, m) : Allowed(s, f, n)
               PROVE  \E w \in Assignments(t) :
                        ReadsUpTo(t, e, w, m) /\ \A n \in Tops(t, m) : w[n] = f[n]
  BY DEF Independent
<1>2. m \in Tops(t, m) /\ Allowed(s, f, m)
  <2>1. \A n \in 1..m : m \notin t.children[n]
    BY <1>0 DEF IsTree
  <2>2. m \in Tops(t, m)
    BY <1>0, <2>1 DEF Tops
  <2>. QED  BY <1>1, <2>2
<1>3. PICK g : g = Demand(t, s, f, m)
  OBVIOUS
<1>4. /\ g \in Assignments(t)
      /\ \A n \in 1..t.size : n \notin C => g[n] = f[n]
      /\ \A c \in C : s[c] # "unknown" => g[c] = (s[c] = "true")
  BY <1>0, <1>3 DEF Demand, Assignments
<1>5. \A n \in Tops(t, k) : Allowed(s, g, n)
  <2>1. SUFFICES ASSUME NEW n \in Tops(t, k)  PROVE Allowed(s, g, n)
    OBVIOUS
  <2>2. CASE n \in C
    BY <1>4, <2>2 DEF Allowed
  <2>3. CASE n \notin C
    <3>1. n \in 1..k /\ n \in 1..t.size /\ n # m
      BY <1>0
    <3>2. n \in Tops(t, m)
      BY <2>1, <2>3, <3>1 DEF Tops
    <3>. QED  BY <1>1, <1>4, <2>3, <3>1, <3>2 DEF Allowed
  <2>. QED  BY <2>2, <2>3
<1>6. PICK v \in Assignments(t) : ReadsUpTo(t, e, v, k) /\ \A n \in Tops(t, k) : v[n] = g[n]
  BY <1>4, <1>5 DEF Independent
<1>7. PICK w : w = [v EXCEPT ![m] = f[m]]
  OBVIOUS
<1>8. w \in Assignments(t) /\ w[m] = f[m] /\ \A n \in 1..k : v[n] = w[n]
  BY <1>0, <1>7 DEF Assignments
<1>9. ReadsUpTo(t, e, w, k)
  BY <1>0, <1>6, <1>8, PrefixIsLocal
<1>10. ReadsAs(t, e, w, m)
  <2>1. \A c \in C : w[c] = Demand(t, s, f, m)[c]
    BY <1>0, <1>3, <1>6, <1>8
  <2>2. Follows(t, e, s, m)
    BY <1>0
  <2>. QED  BY <1>0, <1>2, <1>8, <2>1, <2>2, DemandSuffices
<1>11. ReadsUpTo(t, e, w, m)
  BY <1>9, <1>10 DEF ReadsUpTo
<1>12. \A n \in Tops(t, m) : w[n] = f[n]
  <2>1. ASSUME NEW n \in Tops(t, m), n # m  PROVE w[n] = f[n]
    <3>1. n \in Tops(t, k) /\ n \notin C /\ n \in 1..k /\ n \in 1..t.size
      BY <1>0, <2>1
    <3>. QED  BY <1>4, <1>6, <1>8, <3>1
  <2>. QED  BY <1>8, <2>1
<1>. QED  BY <1>8, <1>11, <1>12

\* So the roots of any part that was evaluated are independent.
LEMMA RootsIndependent ==
  ASSUME NEW t, IsTree(t), NEW e, NEW s, NEW k \in Nat, k <= t.size,
         \A n \in 1..k : Follows(t, e, s, n)
  PROVE  Independent(t, e, s, k)
<1>. DEFINE Missed == {j \in 0..k : ~Independent(t, e, s, j)}
<1>0. t.size \in Nat
  BY DEF IsTree
<1>1. Independent(t, e, s, 0)
  BY DEF Independent, ReadsUpTo, Tops
<1>2. Missed = {}
  <2>1. SUFFICES ASSUME Missed # {}  PROVE FALSE
    OBVIOUS
  <2>2. Missed \subseteq Nat
    OBVIOUS
  <2>3. PICK j \in Missed : \A i \in Missed : j <= i
    <3>. HIDE DEF Missed
    <3>. QED  BY <2>1, <2>2, LeastExists
  <2>4. j \in 1..k /\ ~Independent(t, e, s, j)
    BY <1>1, <2>3
  <2>5. PICK i \in Nat : i = j - 1
    BY <2>4
  <2>6. i \in 0..k /\ i < t.size /\ j = i + 1 /\ ~(j <= i)
    BY <1>0, <2>4, <2>5
  <2>7. i \notin Missed
    <3>. HIDE DEF Missed
    <3>. QED  BY <2>3, <2>6
  <2>8. Independent(t, e, s, i)
    BY <2>6, <2>7
  <2>9. \A n \in 1..(i + 1) : Follows(t, e, s, n)
    BY <2>4, <2>6
  <2>10. Independent(t, e, s, i + 1)
    <3>. HIDE DEF Missed
    <3>. QED  BY <2>6, <2>8, <2>9, StaysIndependent
  <2>. QED  BY <2>4, <2>6, <2>10
<1>3. k \in 0..k
  OBVIOUS
<1>. QED  BY <1>2, <1>3

\* Whatever the outcome of a node allows, some reading of the whole condition does.
LEMMA OutcomeIsSharp ==
  ASSUME NEW t, IsTree(t), NEW e, NEW s, NEW k \in Nat, k <= t.size,
         \A n \in 1..k : Follows(t, e, s, n),
         NEW n \in 1..k, NEW b \in BOOLEAN, s[n] # "unknown" => b = (s[n] = "true")
  PROVE  \E v \in Assignments(t) : IsReadingOf(t, e, v) /\ v[n] = b
<1>0. t.size \in Nat /\ n \in Nat /\ n \in 1..t.size /\ n <= t.size
  BY DEF IsTree
<1>1. Independent(t, e, s, n)
  <2>1. \A m \in 1..n : Follows(t, e, s, m)
    OBVIOUS
  <2>. QED  BY <1>0, <2>1, RootsIndependent
<1>2. PICK f : f = [m \in 1..t.size |-> IF m = n THEN b ELSE s[m] = "true"]
  OBVIOUS
<1>3. f \in Assignments(t) /\ f[n] = b
  BY <1>0, <1>2 DEF Assignments
<1>4. \A m \in Tops(t, n) : Allowed(s, f, m)
  BY <1>0, <1>2 DEF Allowed, Tops
<1>5. PICK v \in Assignments(t) : ReadsUpTo(t, e, v, n) /\ \A m \in Tops(t, n) : v[m] = f[m]
  BY <1>1, <1>3, <1>4 DEF Independent
<1>6. n \in Tops(t, n)
  BY <1>0 DEF Tops, IsTree
<1>7. PICK w \in Assignments(t) : IsReadingOf(t, e, w) /\ \A m \in 1..n : w[m] = v[m]
  BY <1>0, <1>5, ReadingCompletes
<1>. QED  BY <1>0, <1>3, <1>5, <1>6, <1>7

-----------------------------------------------------------------------------

\* A node that was decided reads that way whatever the absent values would have been;
\* in particular, negation never makes a match of absent evidence.
THEOREM OutcomesCertain == Spec => []DecidedIsCertain
<1>1. EvaluationInv => DecidedIsCertain
  BY DEF EvaluationInv
<1>. QED  BY EvaluationInit, EvaluationNext, <1>1, PTL DEF Spec

\* The trace holds outcomes only and never outgrows the condition.
THEOREM EvaluatorTypeCorrect == Spec => []TypeOK
<1>1. EvaluationInv => TypeOK
  BY DEF EvaluationInv
<1>. QED  BY EvaluationInit, EvaluationNext, <1>1, PTL DEF Spec

\* A returned trace is complete, and an invalid leaf is never passed over.
THEOREM TracesComplete == Spec => []NothingSkipped
<1>1. EvaluationInv => NothingSkipped
  BY DEF EvaluationInv, Progress
<1>. QED  BY EvaluationInit, EvaluationNext, <1>1, PTL DEF Spec

\* So a node whose outcome is not "true" is false in some reading.
LEMMA NotTrueIsNotCertain ==
  ASSUME NEW t, IsTree(t), NEW e, NEW s, NEW k \in Nat, k <= t.size,
         \A n \in 1..k : Follows(t, e, s, n),
         NEW n \in 1..k, s[n] # "true"
  PROVE  \E v \in Assignments(t) : IsReadingOf(t, e, v) /\ ~v[n]
<1>1. PICK b \in BOOLEAN : b = FALSE
  OBVIOUS
<1>2. \E v \in Assignments(t) : IsReadingOf(t, e, v) /\ v[n] = b
  BY <1>1, OutcomeIsSharp
<1>. QED  BY <1>1, <1>2

-----------------------------------------------------------------------------

\* Every outcome recorded is what its leaf or its children's outcomes make of it.
TraceFollows == \A n \in 1..Len(trace) : Follows(tree, test, trace, n)

\* What an outcome follows from lies before it.
LEMMA FollowingIsLocal ==
  ASSUME NEW t, IsTree(t), NEW e, NEW s, NEW r, NEW n \in 1..t.size,
         \A m \in 1..n : s[m] = r[m],
         Follows(t, e, s, n)
  PROVE  Follows(t, e, r, n)
<1>1. \A c \in t.children[n] : s[c] = r[c]
  BY DEF IsTree
<1>2. s[n] = r[n]
  BY DEF IsTree
<1>3. {s[c] : c \in t.children[n]} = {r[c] : c \in t.children[n]}
  BY <1>1
<1>. QED  BY <1>1, <1>2, <1>3 DEF Follows

\* Recording what follows keeps the trace in order.
LEMMA RecordFollows ==
  ASSUME TypeOK, Progress, TraceFollows, status = "running",
         NEW o \in ConditionOutcome, Record(o),
         tree.kind[Node] = "leaf" => o = LeafOutcome(test[Node]),
         tree.kind[Node] = "not" => \E c \in tree.children[Node] : o = Negated(trace[c]),
         tree.kind[Node] = "all" => o = Aggregated(ChildOutcomes, "false", "true"),
         tree.kind[Node] = "any" => o = Aggregated(ChildOutcomes, "true", "false")
  PROVE  TraceFollows'
<1>1. Len(trace) < tree.size /\ Len(trace) \in Nat /\ tree.size \in Nat /\ IsTree(tree)
  <2>1. IsTree(tree) /\ Len(trace) \in Nat
    BY DEF TypeOK
  <2>. QED  BY <2>1 DEF Progress, IsTree
<1>2. PICK s : s = trace'
  OBVIOUS
<1>3. /\ Len(s) = Node /\ Node = Len(trace) + 1 /\ s[Node] = o
      /\ \A n \in 1..Len(trace) : s[n] = trace[n]
      /\ tree' = tree /\ test' = test
      /\ Node \in 1..tree.size
  BY <1>1, <1>2, RecordAppends DEF Node
<1>4. \A n \in 1..Len(trace) : Follows(tree, test, s, n)
  <2>1. SUFFICES ASSUME NEW n \in 1..Len(trace)  PROVE Follows(tree, test, s, n)
    OBVIOUS
  <2>2. n \in 1..tree.size /\ Follows(tree, test, trace, n) /\ \A m \in 1..n : trace[m] = s[m]
    BY <1>1, <1>3 DEF TraceFollows
  <2>. QED  BY <1>1, <2>2, FollowingIsLocal
<1>5. Follows(tree, test, s, Node)
  <2>1. \A c \in tree.children[Node] : c \in 1..Len(trace)
    BY <1>1, <1>3 DEF IsTree
  <2>2. \A c \in tree.children[Node] : s[c] = trace[c]
    BY <1>3, <2>1
  <2>3. ChildOutcomes = {s[c] : c \in tree.children[Node]}
    BY <2>2 DEF ChildOutcomes
  <2>. QED  BY <1>3, <2>2, <2>3 DEF Follows
<1>. QED  BY <1>2, <1>3, <1>4, <1>5 DEF TraceFollows

LEMMA FollowsInit == Init => TraceFollows
<1>1. Init => Len(trace) = 0
  BY Len(<<>>) = 0 DEF Init
<1>. QED  BY <1>1 DEF TraceFollows

LEMMA FollowsNext == EvaluationInv /\ TraceFollows /\ [Next]_vars => TraceFollows'
<1>. SUFFICES ASSUME EvaluationInv, TraceFollows, [Next]_vars  PROVE TraceFollows'
  OBVIOUS
<1>0. TypeOK /\ Progress
  BY DEF EvaluationInv
<1>1. CASE EvaluateLeaf
  <2>1. /\ status = "running" /\ tree.kind[Node] = "leaf" /\ Record(LeafOutcome(test[Node]))
        /\ LeafOutcome(test[Node]) \in ConditionOutcome
    BY <1>1, OutcomesClosed DEF EvaluateLeaf, Reaches
  <2>. QED  BY <1>0, <2>1, RecordFollows
<1>2. CASE RaiseAtLeaf
  <2>1. Len(trace') = 0
    BY <1>2, Len(<<>>) = 0 DEF RaiseAtLeaf
  <2>. QED  BY <2>1 DEF TraceFollows
<1>3. CASE EvaluateNot
  <2>1. status = "running" /\ tree.kind[Node] = "not"
    BY <1>3 DEF EvaluateNot, Reaches
  <2>2. PICK c \in tree.children[Node] : Record(Negated(trace[c]))
    BY <1>3 DEF EvaluateNot, ChildOutcomes
  <2>3. Negated(trace[c]) \in ConditionOutcome
    BY OutcomesClosed
  <2>. QED  BY <1>0, <2>1, <2>2, <2>3, RecordFollows
<1>4. CASE EvaluateAll
  <2>1. /\ status = "running" /\ tree.kind[Node] = "all"
        /\ Record(Aggregated(ChildOutcomes, "false", "true"))
        /\ Aggregated(ChildOutcomes, "false", "true") \in ConditionOutcome
    BY <1>4, OutcomesClosed DEF EvaluateAll, Reaches
  <2>. QED  BY <1>0, <2>1, RecordFollows
<1>5. CASE EvaluateAny
  <2>1. /\ status = "running" /\ tree.kind[Node] = "any"
        /\ Record(Aggregated(ChildOutcomes, "true", "false"))
        /\ Aggregated(ChildOutcomes, "true", "false") \in ConditionOutcome
    BY <1>5, OutcomesClosed DEF EvaluateAny, Reaches
  <2>. QED  BY <1>0, <2>1, RecordFollows
<1>6. CASE UNCHANGED vars
  BY <1>6 DEF vars, TraceFollows
<1>. QED  BY <1>1, <1>2, <1>3, <1>4, <1>5, <1>6 DEF Next

\* A node whose outcome is "unknown" can still turn out true and false: no match is
\* given away, however the connectives are nested.
THEOREM UnknownsAreOpen == Spec => []UnknownIsUndecided
<1>1. EvaluationInv /\ TraceFollows => UnknownIsUndecided
  <2>1. SUFFICES ASSUME EvaluationInv, TraceFollows, NEW n \in 1..Len(trace),
                        trace[n] = "unknown", NEW b \in BOOLEAN
                 PROVE  \E v \in Readings : v[n] = b
    BY DEF UnknownIsUndecided
  <2>2. IsTree(tree) /\ Len(trace) \in Nat /\ Len(trace) <= tree.size
    BY <2>1 DEF EvaluationInv, TypeOK
  <2>3. \E v \in Assignments(tree) : IsReadingOf(tree, test, v) /\ v[n] = b
    <3>1. \A m \in 1..Len(trace) : Follows(tree, test, trace, m)
      BY <2>1 DEF TraceFollows
    <3>. HIDE DEF TraceFollows
    <3>2. CASE b = TRUE
      BY <2>1, <2>2, <3>1, <3>2, OutcomeIsSharp
    <3>3. CASE b = FALSE
      BY <2>1, <2>2, <3>1, <3>3, OutcomeIsSharp
    <3>. QED  BY <3>2, <3>3
  <2>. QED  BY <2>3 DEF Readings, IsReading, Assignments
<1>2. Init => EvaluationInv /\ TraceFollows
  BY EvaluationInit, FollowsInit
<1>3. EvaluationInv /\ TraceFollows /\ [Next]_vars => (EvaluationInv /\ TraceFollows)'
  BY EvaluationNext, FollowsNext
<1>. QED  BY <1>1, <1>2, <1>3, PTL DEF Spec

=============================================================================
