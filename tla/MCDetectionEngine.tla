--------------------------- MODULE MCDetectionEngine ---------------------------
(* A small instance of DetectionEngine: five rules, two of which share an ID, *)
(* one that DetectionMatch refuses and one that hides an invalid leaf behind  *)
(* a decisive one, and events of two categories and two sources in which two  *)
(* leaves meet every combination of what makes a difference.                  *)
EXTENDS DetectionEngine

CONSTANTS x, y, z

MCTest(valid, presence, holds) ==
  [op |-> "comparison", valid |-> valid, presence |-> presence, holds |-> holds]

MCHolds == MCTest(TRUE, "present", TRUE)
MCFails == MCTest(TRUE, "present", FALSE)
MCAbsent == MCTest(TRUE, "absent", FALSE)
MCInvalid == MCTest(FALSE, "present", TRUE)

MCLeafTests == {MCHolds, MCFails, MCAbsent, MCInvalid}

MCEvents ==
  {[category |-> c, source |-> s, meets |-> (x :> tx) @@ (y :> ty) @@ (z :> MCHolds)] :
     c \in {"process", "network"}, s \in {"sysmon", "windows_security"},
     tx \in MCLeafTests, ty \in {MCHolds, MCAbsent, MCInvalid}}

MCLeaf == [size |-> 1, kind |-> <<"leaf">>, children |-> <<{}>>]

MCNotLeaf == [size |-> 2, kind |-> <<"leaf", "not">>, children |-> <<{}, {1}>>]

MCAnyOfTwo == [size |-> 3, kind |-> <<"leaf", "leaf", "any">>, children |-> <<{}, {}, {1, 2}>>]

MCAllWithNot ==
  [size |-> 4, kind |-> <<"leaf", "leaf", "not", "all">>,
   children |-> <<{}, {}, {2}, {1, 3}>>]

MCRule(id, categories, sources, condition, leaf, valid_match) ==
  [id |-> id, categories |-> categories, sources |-> sources,
   condition |-> condition, leaf |-> leaf, valid_match |-> valid_match]

MCRules ==
  {MCRule("a", {"process"}, AnySource, MCAllWithNot, <<z, x>>, TRUE),
   MCRule("b", {"process", "network"}, {"sysmon"}, MCAnyOfTwo, <<x, y>>, TRUE),
   MCRule("b", {"network"}, AnySource, MCLeaf, <<z>>, TRUE),
   MCRule("c", {"process", "network"}, AnySource, MCNotLeaf, <<y>>, FALSE),
   MCRule("d", {"process"}, {"windows_security"}, MCLeaf, <<x>>, FALSE)}

MCIdRank == [id \in {"a", "b", "c", "d"} |->
               CASE id = "a" -> 0 [] id = "b" -> 1 [] id = "c" -> 2 [] id = "d" -> 3]

=============================================================================
