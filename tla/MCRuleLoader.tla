----------------------------- MODULE MCRuleLoader -----------------------------
(* A small instance of RuleLoader: a directory whose files are found after   *)
(* "b.yaml" but come before it in path order, and a file that is no rule.     *)
EXTENDS RuleLoader

MCPaths == {<<>>, <<"a">>, <<"a", "x.yml">>, <<"a", "y.yaml">>, <<"b.yaml">>, <<"notes">>}

MCRuleFiles == {<<"a", "x.yml">>, <<"a", "y.yaml">>, <<"b.yaml">>}

MCNames == <<"a", "b.yaml", "notes", "x.yml", "y.yaml">>

MCPathTexts == <<<<>>, <<"a">>, <<"a", "x.yml">>, <<"a", "y.yaml">>, <<"b.yaml">>, <<"notes">>>>

MCListedBefore(list, x, y) == \E i, j \in DOMAIN list : i < j /\ list[i] = x /\ list[j] = y

MCNameBefore(x, y) == MCListedBefore(MCNames, x, y)

MCPathBefore(x, y) == MCListedBefore(MCPathTexts, x, y)

\* What each path may be at the start.
MCMayBe(p) ==
  CASE p = <<>> -> {"directory", "gone"}
    [] p = <<"a">> -> {"directory", "link", "gone"}
    [] p = <<"notes">> -> {"special", "link", "gone"}
    [] p = <<"b.yaml">> -> {"r1", "r2", "invalid_rule", "special", "directory", "gone"}
    [] OTHER -> {"r1", "r2", "link", "gone"}

MCTrees == {f \in [MCPaths -> Nodes] : IsTree(f) /\ \A p \in MCPaths : f[p] \in MCMayBe(p)}

MCReplacements == {"directory", "link", "gone", "r2"}

=============================================================================
