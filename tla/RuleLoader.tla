------------------------------- MODULE RuleLoader -------------------------------
(***************************************************************************)
(* load_detection_rules of detection/loader.py over a directory tree that  *)
(* another process may change while it runs: every access to the file      *)
(* system is a step of its own, and may fail.  A path is the sequence of   *)
(* its names below the root <<>>; what is at a path is "directory",        *)
(* "link", "special", "gone" or, for a regular file, the ID of the rule    *)
(* its content yields or the error category it is refused with.            *)
(***************************************************************************)
EXTENDS Naturals, Sequences, SequencesExt

CONSTANTS
  Names, Paths,   \* the names and the paths there may be
  RuleFiles,      \* those whose name ends in .yaml or .yml
  NameBefore(_, _), PathBefore(_, _),   \* lexical orders of names and of POSIX path texts
  RuleIds,        \* the rules files may hold
  Faults,         \* the error categories of contents that hold no valid rule
  Trees,          \* what the library may be at the start
  Replacements,   \* what another process may put in place of a node
  MaxChanges      \* bound on how often it does

VARIABLES
  fs,             \* what is at each path
  changes,        \* how often another process has replaced a node
  changed,        \* history variable: the paths replaced since the load began
  planted,        \* history variable: whether it has put a link in the place of one
  strayed,        \* history variable: whether an access was led through a link
  pc,             \* the step to be run next, or "returned"
  subject, seen, access, checked,       \* _checked_path: the path in hand, how many of its
                                        \* names were looked at, the step that will access
                                        \* it, and the path that one will use
  pending, listing, subdirectories,     \* the search: directories to read, entries to visit
  files,          \* the rule files found, later those still to be loaded
  rules,          \* the pairs of a path and its rule loaded so far; dropped by an error
  reply           \* <<"none">>, then <<"ok">>, or the category of the error and its paths

checking == <<subject, seen, access, checked>>
loading == <<pending, listing, subdirectories, files, rules>>
vars == <<fs, changes, changed, planted, strayed, pc, checking, loading, reply>>

Root == <<>>

Regular(node) == node \in RuleIds \cup Faults

Nodes == {"directory", "link", "special", "gone"} \cup RuleIds \cup Faults

\* Everything that is there is in a directory.
IsTree(f) ==
  /\ f \in [Paths -> Nodes]
  /\ \A p, q \in Paths : IsStrictPrefix(q, p) /\ f[p] # "gone" => f[q] = "directory"

ASSUME PathsAssumption ==
  /\ Paths \subseteq Seq(Names) /\ IsFiniteSet(Paths)
  /\ Root \in Paths
  /\ \A p \in Paths : Prefixes(p) \subseteq Paths
  /\ RuleFiles \subseteq Paths
ASSUME OrderAssumption ==   \* two paths have different texts
  \A p, q \in Paths :
    /\ ~(PathBefore(p, q) /\ PathBefore(q, p))
    /\ p = q \/ PathBefore(p, q) \/ PathBefore(q, p)
ASSUME ContentsAssumption ==
  /\ (RuleIds \cup Faults) \cap {"directory", "link", "special", "gone"} = {}
  /\ Faults \cap
       {"none", "ok", "absolute_root_required", "invalid_root", "path_error", "unsafe_path",
        "read_error", "not_regular_file", "duplicate_rule_id"} = {}
ASSUME ReplacementsAssumption == Replacements \subseteq Nodes
ASSUME BoundAssumption == MaxChanges \in Nat
ASSUME TreesAssumption == \A f \in Trees : IsTree(f)

LinksOn(p) == {q \in Paths : IsPrefix(q, p) /\ fs[q] = "link"}

\* What an access to p may find that resolves the given links.
Finds(p, links) == IF links = {} THEN {fs[p]} ELSE Nodes

ParentLinks(p) == LinksOn(p) \ {p}

\* Through whatever links an access leads, the first of them is one of these.
LedThrough(links) == strayed' = (strayed \/ links # {})

Init ==
  /\ fs \in Trees /\ changes = 0 /\ changed = {} /\ planted = FALSE /\ strayed = FALSE
  /\ pc = "root" /\ reply = <<"none">>
  /\ subject = Root /\ seen = 0 /\ access = "none" /\ checked = Root
  /\ pending = <<>> /\ listing = <<>> /\ subdirectories = <<>> /\ files = <<>> /\ rules = <<>>

-----------------------------------------------------------------------------

\* No partial result is returned on any error.
Fail(error) ==
  /\ pc' = "returned"
  /\ reply' = error
  /\ rules' = <<>>
  /\ UNCHANGED <<checking, pending, listing, subdirectories, files>>

Continue(step) == pc' = step /\ UNCHANGED reply

\* The argument may be relative, and resolving it may fail.
StartAtRoot ==
  /\ pc = "root"
  /\ \/ \E error \in {"absolute_root_required", "invalid_root"} : Fail(<<error, Root>>)
     \/ /\ fs[Root] = "directory"
        /\ Continue("directory")
        /\ pending' = <<Root>>
        /\ UNCHANGED <<checking, listing, subdirectories, files, rules>>
  /\ UNCHANGED <<fs, changes, changed, planted, strayed>>

\* The call of _checked_path for p; the step that accesses p comes after it.
CheckPath(p, step) ==
  /\ Continue("look")
  /\ subject' = p /\ seen' = 0 /\ access' = step /\ checked' = p
  /\ UNCHANGED <<fs, changes, changed, planted, strayed, loading>>

\* Mutant: the last name is not looked at.
LookAtParents ==
  /\ pc = "look"
  /\ \E q \in Paths :
     /\ IsPrefix(q, subject) /\ Len(q) = seen
     /\ LedThrough(ParentLinks(q))
     /\ \/ Fail(<<"path_error", subject>>)
        \/ \E node \in Finds(q, ParentLinks(q)) \ {"gone"} :
             \/ node = "link" /\ q # subject /\ Fail(<<"unsafe_path", subject>>)
             \/ /\ node # "link" /\ q # subject
                /\ seen' = seen + 1
                /\ UNCHANGED <<pc, reply, subject, access, checked, loading>>
             \/ /\ q = subject
                /\ Continue("resolve")
                /\ UNCHANGED <<checking, loading>>
  /\ UNCHANGED <<fs, changes, changed, planted>>

LookAtName ==
  /\ pc = "look"
  /\ \E q \in Paths :
     /\ IsPrefix(q, subject) /\ Len(q) = seen
     /\ LedThrough(ParentLinks(q))
     /\ \/ Fail(<<"path_error", subject>>)
        \/ \E node \in Finds(q, ParentLinks(q)) \ {"gone"} :
             \/ node = "link" /\ Fail(<<"unsafe_path", subject>>)
             \/ /\ node # "link" /\ q # subject
                /\ seen' = seen + 1
                /\ UNCHANGED <<pc, reply, subject, access, checked, loading>>
             \/ /\ node # "link" /\ q = subject
                /\ Continue("resolve")
                /\ UNCHANGED <<checking, loading>>
  /\ UNCHANGED <<fs, changes, changed, planted>>

\* A link that has appeared since leads to another path, or out of the library.
Targets(p) ==
  IF LinksOn(p) = {} THEN {p} \ {q \in Paths : fs[q] = "gone"}
  ELSE {q \in Paths : fs[q] # "gone" /\ LinksOn(q) = {}}

Resolve ==
  /\ pc = "resolve"
  /\ LedThrough(LinksOn(subject))
  /\ \/ Fail(<<"path_error", subject>>)
     \/ LinksOn(subject) # {} /\ Fail(<<"unsafe_path", subject>>)
     \/ /\ checked' \in Targets(subject)
        /\ Continue(access)
        /\ UNCHANGED <<subject, seen, access, loading>>
  /\ UNCHANGED <<fs, changes, changed, planted>>

CheckDirectory == pc = "directory" /\ pending # <<>> /\ CheckPath(Last(pending), "list")

Entries(d) == {p \in Paths \ {Root} : Front(p) = d}

\* The entries in order of their names: one sequence, as names differ.
ByName(paths) ==
  {s \in SetToSeqs(paths) :
     \A i, j \in DOMAIN s : i < j => ~NameBefore(Last(s[j]), Last(s[i]))}

\* Mutant: the subdirectories of the last directory stay in the list.
ListAlongsideLast ==
  /\ pc = "list"
  /\ LET links == LinksOn(checked) IN
     /\ LedThrough(links)
     /\ \/ Fail(<<"read_error", subject>>)
        \/ \E found \in SUBSET Entries(checked) :
             /\ "directory" \in Finds(checked, links)
             /\ links = {} => found = {p \in Entries(checked) : fs[p] # "gone"}
             /\ Continue("entries")
             /\ listing' \in ByName(found)
             /\ pending' = Front(pending)
             /\ UNCHANGED <<checking, subdirectories, files, rules>>
  /\ UNCHANGED <<fs, changes, changed, planted>>

ListDirectory ==
  /\ pc = "list"
  /\ LET links == LinksOn(checked) IN
     /\ LedThrough(links)
     /\ \/ Fail(<<"read_error", subject>>)
        \/ \E found \in SUBSET Entries(checked) :
             /\ "directory" \in Finds(checked, links)
             /\ links = {} => found = {p \in Entries(checked) : fs[p] # "gone"}
             /\ Continue("entries")
             /\ listing' \in ByName(found)
             /\ pending' = Front(pending)
             /\ subdirectories' = <<>>
             /\ UNCHANGED <<checking, files, rules>>
  /\ UNCHANGED <<fs, changes, changed, planted>>

CheckEntry == pc = "entries" /\ listing # <<>> /\ CheckPath(Head(listing), "stat")

\* Mutants: a rule file that is no regular file is passed over; an entry that is
\* neither a directory nor a rule file stays in the list.
StatEntrySkipping ==
  /\ pc = "stat"
  /\ LedThrough(ParentLinks(checked))
  /\ \/ Fail(<<"path_error", subject>>)
     \/ \E node \in Finds(checked, ParentLinks(checked)) \ {"gone"} :
          LET found == Regular(node) /\ subject \in RuleFiles IN
          \/ found /\ ~Regular(node) /\ Fail(<<"not_regular_file", subject>>)
          \/ /\ found => Regular(node)
             /\ Continue("entries")
             /\ subdirectories' =
                  IF node = "directory" THEN Append(subdirectories, subject) ELSE subdirectories
             /\ files' = IF found THEN Append(files, subject) ELSE files
             /\ listing' = Tail(listing)
             /\ UNCHANGED <<checking, pending, rules>>
  /\ UNCHANGED <<fs, changes, changed, planted>>

StatEntryStaying ==
  /\ pc = "stat"
  /\ LedThrough(ParentLinks(checked))
  /\ \/ Fail(<<"path_error", subject>>)
     \/ \E node \in Finds(checked, ParentLinks(checked)) \ {"gone"} :
          LET found == node # "directory" /\ subject \in RuleFiles IN
          \/ found /\ ~Regular(node) /\ Fail(<<"not_regular_file", subject>>)
          \/ /\ found => Regular(node)
             /\ Continue("entries")
             /\ subdirectories' =
                  IF node = "directory" THEN Append(subdirectories, subject) ELSE subdirectories
             /\ files' = IF found THEN Append(files, subject) ELSE files
             /\ listing' = IF node = "directory" \/ found THEN Tail(listing) ELSE listing
             /\ UNCHANGED <<checking, pending, rules>>
  /\ UNCHANGED <<fs, changes, changed, planted>>

StatEntry ==
  /\ pc = "stat"
  /\ LedThrough(ParentLinks(checked))
  /\ \/ Fail(<<"path_error", subject>>)
     \/ \E node \in Finds(checked, ParentLinks(checked)) \ {"gone"} :
          LET found == node # "directory" /\ subject \in RuleFiles IN
          \/ found /\ ~Regular(node) /\ Fail(<<"not_regular_file", subject>>)
          \/ /\ found => Regular(node)
             /\ Continue("entries")
             /\ subdirectories' =
                  IF node = "directory" THEN Append(subdirectories, subject) ELSE subdirectories
             /\ files' = IF found THEN Append(files, subject) ELSE files
             /\ listing' = Tail(listing)
             /\ UNCHANGED <<checking, pending, rules>>
  /\ UNCHANGED <<fs, changes, changed, planted>>

EndOfDirectory ==
  /\ pc = "entries" /\ listing = <<>>
  /\ Continue("directory")
  /\ pending' = pending \o Reverse(subdirectories)
  /\ UNCHANGED <<fs, changes, changed, planted, strayed>>
  /\ UNCHANGED <<checking, listing, subdirectories, files, rules>>

\* Mutant: the files stay in the order they were found in.
EndOfSearchAsFound ==
  /\ pc = "directory" /\ pending = <<>>
  /\ Continue("load")
  /\ UNCHANGED <<fs, changes, changed, planted, strayed, checking, loading>>

EndOfSearch ==
  /\ pc = "directory" /\ pending = <<>>
  /\ Continue("load")
  /\ \E order \in Bijection(DOMAIN files, DOMAIN files) :
       /\ files' = [i \in DOMAIN files |-> files[order[i]]]
       /\ \A i, j \in DOMAIN files : i < j => ~PathBefore(files'[j], files'[i])
  /\ UNCHANGED <<fs, changes, changed, planted, strayed>>
  /\ UNCHANGED <<checking, pending, listing, subdirectories, rules>>

CheckFile == pc = "load" /\ files # <<>> /\ CheckPath(Head(files), "regular")

StatFile ==
  /\ pc = "regular"
  /\ LedThrough(ParentLinks(checked))
  /\ \/ Fail(<<"read_error", subject>>)
     \/ \E node \in Finds(checked, ParentLinks(checked)) \ {"gone"} :
          \/ ~Regular(node) /\ Fail(<<"not_regular_file", subject>>)
          \/ Regular(node) /\ Continue("read") /\ UNCHANGED <<checking, loading>>
  /\ UNCHANGED <<fs, changes, changed, planted>>

\* Mutant: the last rule loaded is named as the one with the same ID.
AddRuleNamingLast(id) ==
  \/ \E i \in DOMAIN rules :
       rules[i][2] = id /\ Fail(<<"duplicate_rule_id", rules[Len(rules)][1], subject>>)
  \/ /\ \A i \in DOMAIN rules : rules[i][2] # id
     /\ Continue("load")
     /\ rules' = Append(rules, <<subject, id>>)
     /\ files' = Tail(files)
     /\ UNCHANGED <<checking, pending, listing, subdirectories>>

AddRule(id) ==
  \/ \E i \in DOMAIN rules :
       rules[i][2] = id /\ Fail(<<"duplicate_rule_id", rules[i][1], subject>>)
  \/ /\ \A i \in DOMAIN rules : rules[i][2] # id
     /\ Continue("load")
     /\ rules' = Append(rules, <<subject, id>>)
     /\ files' = Tail(files)
     /\ UNCHANGED <<checking, pending, listing, subdirectories>>

ReadFile ==
  /\ pc = "read"
  /\ LedThrough(LinksOn(checked))
  /\ \/ Fail(<<"read_error", subject>>)
     \/ \E fault \in Faults \cap Finds(checked, LinksOn(checked)) : Fail(<<fault, subject>>)
     \/ \E id \in RuleIds \cap Finds(checked, LinksOn(checked)) : AddRule(id)
  /\ UNCHANGED <<fs, changes, changed, planted>>

ReturnRules ==
  /\ pc = "load" /\ files = <<>>
  /\ pc' = "returned"
  /\ reply' = <<"ok">>
  /\ UNCHANGED <<fs, changes, changed, planted, strayed, checking, loading>>

Loader ==
  \/ StartAtRoot \/ LookAtName \/ Resolve \/ CheckDirectory \/ ListDirectory \/ CheckEntry \/ StatEntry
  \/ EndOfDirectory \/ EndOfSearch \/ CheckFile \/ StatFile \/ ReadFile \/ ReturnRules

\* Another process replaces the node at p, with all that was below it.
Replace(p, node) ==
  /\ pc # "returned"
  /\ changes < MaxChanges
  /\ \A q \in Paths : IsStrictPrefix(q, p) => fs[q] = "directory"
  /\ node # fs[p]
  /\ fs' = [q \in Paths |-> IF q = p THEN node ELSE IF IsPrefix(p, q) THEN "gone" ELSE fs[q]]
  /\ changes' = changes + 1
  /\ changed' = changed \cup {q \in Paths : IsPrefix(p, q)}
  /\ planted' = (planted \/ node = "link")
  /\ UNCHANGED <<strayed, pc, checking, loading, reply>>

Next == Loader \/ \E p \in Paths, node \in Replacements : Replace(p, node)

\* The loader is not suspended for ever; the other process may do nothing.
Spec == Init /\ [][Next]_vars /\ WF_vars(Loader)

-----------------------------------------------------------------------------
(* Properties.                                                             *)

\* What the search holds are paths; in a library left alone each is found once.
TypeOK ==
  /\ IsTree(fs)
  /\ changes \in 0 .. MaxChanges /\ changed \subseteq Paths
  /\ planted \in BOOLEAN /\ strayed \in BOOLEAN
  /\ pending \in Seq(Paths) /\ listing \in Seq(Paths) /\ subdirectories \in Seq(Paths)
  /\ files \in Seq(RuleFiles)
  /\ rules \in Seq(RuleFiles \X RuleIds)
  /\ subject \in Paths /\ seen \in 0 .. Len(subject) /\ checked \in Paths
  /\ changed = {} => \A queue \in {pending, listing, subdirectories, files} :
                        \A i, j \in DOMAIN queue : queue[i] = queue[j] => i = j

Loaded == reply = <<"ok">>

\* If the library is left alone, a successful load returns every rule file of it and
\* nothing else, and there is no link, no special rule file and no invalid file in it.
WholeLibraryLoaded ==
  Loaded /\ changed = {} =>
    /\ \A p \in Paths : fs[p] # "link"
    /\ \A p \in RuleFiles : fs[p] \in {"gone", "directory"} \cup RuleIds
    /\ Range(rules) = {<<p, fs[p]>> : p \in {q \in RuleFiles : fs[q] \in RuleIds}}

\* Whatever happens to the library meanwhile, the rules returned have different IDs
\* and none comes after one of a later path; after an error there are none.
ResultIsALibrary ==
  /\ pc = "returned" /\ ~Loaded => rules = <<>>
  /\ Loaded => \A i, j \in DOMAIN rules : i < j =>
                 rules[i][2] # rules[j][2] /\ ~PathBefore(rules[j][1], rules[i][1])

\* If the library is left alone, an error is one of its own, or of an access that
\* failed: a duplicate names the first path and a later one that hold the same ID.
RefusalsAreJustified ==
  changed = {} =>
    /\ reply[1] = "unsafe_path" => fs[reply[2]] = "link"
    /\ reply[1] = "not_regular_file" => reply[2] \in RuleFiles /\ fs[reply[2]] = "special"
    /\ reply[1] \in Faults => fs[reply[2]] = reply[1]
    /\ reply[1] = "duplicate_rule_id" =>
         /\ fs[reply[2]] = fs[reply[3]] /\ fs[reply[2]] \in RuleIds
         /\ PathBefore(reply[2], reply[3])
         /\ \A p \in RuleFiles : fs[p] = fs[reply[2]] => ~PathBefore(p, reply[2])

\* No access to the file system leads through a link, wherever that link may be, as long as
\* no other process puts a link into the library while the load is running: neither the
\* links that were there before nor anything else that is replaced leads one astray.
OnlyNewLinksLeadAstray == strayed => planted

\* Every load ends, whatever links and directories appear while it runs.
LoadEnds == <>(pc = "returned")

=============================================================================
