SPECIFICATION Spec
CONSTANTS
  Names = {"a", "b.yaml", "notes", "x.yml", "y.yaml"}
  Paths <- MCPaths
  RuleFiles <- MCRuleFiles
  NameBefore <- MCNameBefore
  PathBefore <- MCPathBefore
  RuleIds = {"r1", "r2"}
  Faults = {"invalid_rule"}
  Trees <- MCTrees
  Replacements <- MCReplacements
  MaxChanges = 2
INVARIANTS
  TypeOK
  WholeLibraryLoaded
  ResultIsALibrary
  RefusalsAreJustified
  OnlyNewLinksLeadAstray
PROPERTY LoadEnds
CHECK_DEADLOCK FALSE
