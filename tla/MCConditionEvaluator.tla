------------------------- MODULE MCConditionEvaluator -------------------------
(* Every condition tree of at most MCSize nodes, every leaf meeting every     *)
(* kind of test that makes a difference.                                      *)
EXTENDS ConditionEvaluator, FiniteSets

CONSTANT MCSize

\* Trees of n nodes, from the parent of every node but the root: the subtree of a
\* node is numbered without a gap, as a recursion returns from it.
MCTreesOf(n) ==
  {t \in {[size |-> n, kind |-> kind,
           children |-> [m \in 1..n |-> {c \in 1..(n - 1) : parent[c] = m}]] :
            kind \in [1..n -> {"leaf", "not", "all", "any"}],
            parent \in {p \in [1..(n - 1) -> 1..n] :
              \A i \in 1..(n - 1) :
                i < p[i] /\ \A j \in 1..(n - 1) : i < j /\ j < p[i] => p[j] <= p[i]}} :
     IsTree(t)}

MCTrees == UNION {MCTreesOf(n) : n \in 1..MCSize}

MCTest(op, valid, presence, holds) ==
  [op |-> op, valid |-> valid, presence |-> presence, holds |-> holds]

MCLeafTests ==
  {MCTest("comparison", TRUE, "present", TRUE),
   MCTest("comparison", TRUE, "present", FALSE),
   MCTest("comparison", TRUE, "absent", TRUE),
   MCTest("exists", TRUE, "missing", TRUE),
   MCTest("not_exists", TRUE, "absent", FALSE),
   MCTest("comparison", FALSE, "missing", TRUE)}

=============================================================================
