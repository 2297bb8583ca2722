--------------------------- MODULE RuleLoaderProofs ---------------------------
(* Proofs about load_detection_rules: it follows no link of the library and *)
(* returns rules in order without repeated IDs, whatever happens to the      *)
(* library meanwhile; and if nothing does, it loads the whole of it or       *)
(* reports an error the library has.                                         *)
EXTENDS RuleLoader, FiniteSetTheorems, SequenceTheorems, TLAPS

Loading ==
  \/ pc \in {"load", "regular", "read"}
  \/ pc \in {"look", "resolve"} /\ access = "regular"

SeqTypes ==
  /\ pending \in Seq(Paths) /\ listing \in Seq(Paths) /\ subdirectories \in Seq(Paths)
  /\ files \in Seq(Paths) /\ rules \in Seq(Paths \X RuleIds)

PathTypes == subject \in Paths /\ checked \in Paths /\ seen \in Nat

\* The path in hand is the one the queue of its step puts first.
InHand ==
  pc \in {"look", "resolve", "list", "stat", "regular", "read"} =>
    /\ access \in {"list", "stat", "regular"}
    /\ pc = "list" => access = "list"
    /\ pc = "stat" => access = "stat"
    /\ pc \in {"regular", "read"} => access = "regular"
    /\ access = "list" => pending # <<>>
    /\ access = "stat" => listing # <<>>
    /\ access = "regular" => files # <<>> /\ subject = Head(files)

Held == SeqTypes /\ PathTypes /\ InHand

LEMMA RootIsPath == Root \in Paths
BY PathsAssumption

LEMMA HeldInit == Init => Held
BY RootIsPath DEF Init, Held, SeqTypes, PathTypes, InHand

\* The operators on sequences keep their types.
LEMMA ReverseType == ASSUME NEW S, NEW s \in Seq(S) PROVE Reverse(s) \in Seq(S)
BY DEF Reverse

LEMMA LastType == ASSUME NEW S, NEW s \in Seq(S), s # <<>> PROVE Last(s) \in S
BY DEF Last

LEMMA FrontType == ASSUME NEW S, NEW s \in Seq(S) PROVE Front(s) \in Seq(S)
BY DEF Front

LEMMA ByNameType ==
  ASSUME NEW found \in SUBSET Paths, NEW s \in ByName(found)
  PROVE  s \in Seq(Paths)
<1>1. IsFiniteSet(found)
  BY PathsAssumption, FS_Subset
<1>2. Cardinality(found) \in Nat
  BY <1>1, FS_CardinalityType
<1>3. s \in [1..Cardinality(found) -> found]
  BY DEF ByName, SetToSeqs
<1> QED
  BY <1>2, <1>3

LEMMA ArrangementType ==
  ASSUME NEW S, NEW s \in Seq(S), NEW order \in Bijection(DOMAIN s, DOMAIN s)
  PROVE  [i \in DOMAIN s |-> s[order[i]]] \in Seq(S)
<1>1. order \in [DOMAIN s -> DOMAIN s]
  BY DEF Bijection, Injection
<1>2. \A i \in DOMAIN s : s[order[i]] \in S
  BY <1>1
<1>3. DOMAIN s = 1..Len(s) /\ Len(s) \in Nat
  OBVIOUS
<1> QED
  BY <1>2, <1>3

LEMMA FailHeld == ASSUME Held, NEW error, Fail(error) PROVE Held'
BY DEF Held, SeqTypes, PathTypes, InHand, Fail, checking

LEMMA CheckPathHeld ==
  ASSUME Held, NEW p \in Paths, NEW step, CheckPath(p, step),
         \/ step = "list" /\ pending # <<>>
         \/ step = "stat" /\ listing # <<>>
         \/ step = "regular" /\ files # <<>> /\ p = Head(files)
  PROVE  Held'
BY DEF Held, SeqTypes, PathTypes, InHand, CheckPath, Continue, loading

LEMMA HeldNext == Held /\ [Next]_vars => Held'
<1> SUFFICES ASSUME Held, [Next]_vars PROVE Held'
  OBVIOUS
<1> USE DEF Held
<1>1. CASE StartAtRoot
  <2>1. CASE \E error : Fail(error)
    BY <2>1, FailHeld
  <2>2. CASE ~\E error : Fail(error)
    <3>1. /\ Continue("directory") /\ pending' = <<Root>>
          /\ UNCHANGED <<checking, listing, subdirectories, files, rules>>
      BY <1>1, <2>2 DEF StartAtRoot
    <3>2. pending' \in Seq(Paths)
      BY <3>1, RootIsPath
    <3> QED
      BY <3>1, <3>2 DEF Continue, SeqTypes, PathTypes, InHand, checking
  <2> QED
    BY <2>1, <2>2
<1>2. CASE LookAtName
  BY <1>2, FailHeld DEF LookAtName, Continue, SeqTypes, PathTypes, InHand, checking, loading
<1>3. CASE Resolve
  <2>1. \A q \in Targets(subject) : q \in Paths
    BY DEF Targets, PathTypes
  <2>2. CASE checked' \in Targets(subject) /\ Continue(access)
             /\ UNCHANGED <<subject, seen, access, loading>>
    BY <1>3, <2>1, <2>2 DEF Resolve, Continue, SeqTypes, PathTypes, InHand, loading
  <2> QED
    BY <1>3, <2>2, FailHeld DEF Resolve
<1>4. CASE CheckDirectory
  BY <1>4, CheckPathHeld, LastType DEF CheckDirectory, SeqTypes
<1>5. CASE ListDirectory
  <2>1. CASE \E error : Fail(error)
    BY <2>1, FailHeld
  <2>2. CASE ~\E error : Fail(error)
    <3>1. PICK found \in SUBSET Entries(checked) :
            /\ listing' \in ByName(found) /\ pending' = Front(pending) /\ subdirectories' = <<>>
            /\ Continue("entries") /\ UNCHANGED <<checking, files, rules>>
      BY <1>5, <2>2 DEF ListDirectory
    <3>2. found \subseteq Paths
      BY <3>1 DEF Entries
    <3>3. listing' \in Seq(Paths)
      BY <3>1, <3>2, ByNameType
    <3>4. pending' \in Seq(Paths)
      BY <3>1, FrontType DEF SeqTypes
    <3> QED
      BY <3>1, <3>3, <3>4 DEF Continue, SeqTypes, PathTypes, InHand, checking
  <2> QED
    BY <2>1, <2>2
<1>6. CASE CheckEntry
  BY <1>6, CheckPathHeld DEF CheckEntry, SeqTypes
<1>7. CASE StatEntry
  <2>1. CASE \E error : Fail(error)
    BY <2>1, FailHeld
  <2>2. CASE ~\E error : Fail(error)
    <3>1. /\ Continue("entries") /\ listing' = Tail(listing)
          /\ subdirectories' \in {subdirectories, Append(subdirectories, subject)}
          /\ files' \in {files, Append(files, subject)}
          /\ UNCHANGED <<checking, pending, rules>>
      BY <1>7, <2>2 DEF StatEntry
    <3>2. listing # <<>>
      BY <1>7 DEF StatEntry, InHand
    <3>3. listing' \in Seq(Paths)
      BY <3>1, <3>2 DEF SeqTypes
    <3>4. Append(subdirectories, subject) \in Seq(Paths) /\ Append(files, subject) \in Seq(Paths)
      BY DEF SeqTypes, PathTypes
    <3>5. SeqTypes'
      BY <3>1, <3>3, <3>4 DEF SeqTypes
    <3> QED
      BY <3>1, <3>5 DEF Continue, PathTypes, InHand, checking
  <2> QED
    BY <2>1, <2>2
<1>8. CASE EndOfDirectory
  <2>1. pending' \in Seq(Paths)
    BY <1>8, ReverseType DEF EndOfDirectory, SeqTypes
  <2> QED
    BY <1>8, <2>1 DEF EndOfDirectory, Continue, SeqTypes, PathTypes, InHand, checking
<1>9. CASE EndOfSearch
  <2>1. files' \in Seq(Paths)
    BY <1>9, ArrangementType DEF EndOfSearch, SeqTypes
  <2> QED
    BY <1>9, <2>1 DEF EndOfSearch, Continue, SeqTypes, PathTypes, InHand, checking
<1>10. CASE CheckFile
  BY <1>10, CheckPathHeld DEF CheckFile, SeqTypes
<1>11. CASE StatFile
  BY <1>11, FailHeld DEF StatFile, Continue, SeqTypes, PathTypes, InHand, checking, loading
<1>12. CASE ReadFile
  <2>1. CASE \E error : Fail(error)
    BY <2>1, FailHeld
  <2>2. CASE ~\E error : Fail(error)
    <3>1. PICK id \in RuleIds :
            /\ rules' = Append(rules, <<subject, id>>) /\ files' = Tail(files)
            /\ Continue("load") /\ UNCHANGED <<checking, pending, listing, subdirectories>>
      BY <1>12, <2>2 DEF ReadFile, AddRule
    <3>2. files # <<>>
      BY <1>12 DEF ReadFile, AddRule, InHand
    <3>3. <<subject, id>> \in Paths \X RuleIds
      BY DEF PathTypes
    <3>4. rules' \in Seq(Paths \X RuleIds)
      BY <3>1, <3>3 DEF SeqTypes
    <3>5. files' \in Seq(Paths)
      BY <3>1, <3>2 DEF SeqTypes
    <3> QED
      BY <3>1, <3>4, <3>5 DEF Continue, SeqTypes, PathTypes, InHand, checking
  <2> QED
    BY <2>1, <2>2
<1>13. CASE ReturnRules
  BY <1>13 DEF ReturnRules, SeqTypes, PathTypes, InHand, checking, loading
<1>14. CASE \E p \in Paths, node \in Replacements : Replace(p, node)
  BY <1>14 DEF Replace, SeqTypes, PathTypes, InHand, checking, loading
<1>15. CASE UNCHANGED vars
  BY <1>15 DEF vars, SeqTypes, PathTypes, InHand, checking, loading
<1> QED
  BY <1>1, <1>2, <1>3, <1>4, <1>5, <1>6, <1>7, <1>8, <1>9, <1>10, <1>11, <1>12, <1>13, <1>14, <1>15
     DEF Next, Loader

-----------------------------------------------------------------------------
(* Links.  A name that was looked at, and everything the resolved path     *)
(* passes, is a link only if it was replaced since the load began.         *)

Rooted == \A p, q \in Paths : IsStrictPrefix(q, p) /\ fs[p] # "gone" => fs[q] = "directory"

LookedAt ==
  pc = "look" =>
    \A x \in Paths : IsPrefix(x, subject) /\ Len(x) < seen /\ fs[x] = "link" => x \in changed

Resolved ==
  /\ pc = "resolve" => LinksOn(subject) \subseteq changed
  /\ pc \in {"list", "stat", "regular", "read"} => LinksOn(checked) \subseteq changed

\* A link where something was replaced is one another process put there.
LinksArePlanted ==
  /\ \A x \in Paths : x \in changed /\ fs[x] = "link" => planted
  /\ planted => changed # {}

Linked == Rooted /\ LookedAt /\ Resolved /\ LinksArePlanted /\ OnlyNewLinksLeadAstray

LEMMA PrefixPointwise ==
  ASSUME NEW p \in Paths, NEW q \in Paths
  PROVE  IsPrefix(p, q) <=> Len(p) <= Len(q) /\ \A i \in 1..Len(p) : p[i] = q[i]
<1>1. p \in Seq(Names) /\ q \in Seq(Names)
  BY PathsAssumption
<1>2. ASSUME IsPrefix(p, q) PROVE Len(p) <= Len(q) /\ \A i \in 1..Len(p) : p[i] = q[i]
  <2>1. Len(p) <= Len(q) /\ SubSeq(p, 1, Len(p)) = SubSeq(q, 1, Len(p))
    BY <1>2 DEF IsPrefix
  <2>2. \A i \in 1..Len(p) : SubSeq(p, 1, Len(p))[i] = p[i] /\ SubSeq(q, 1, Len(p))[i] = q[i]
    BY <1>1, <2>1
  <2> QED
    BY <2>1, <2>2
<1>3. ASSUME Len(p) <= Len(q), \A i \in 1..Len(p) : p[i] = q[i] PROVE IsPrefix(p, q)
  <2>1. SubSeq(p, 1, Len(p)) = SubSeq(q, 1, Len(p))
    BY <1>1, <1>3
  <2> QED
    BY <1>3, <2>1 DEF IsPrefix
<1> QED
  BY <1>2, <1>3

LEMMA PrefixTransitive ==
  ASSUME NEW p \in Paths, NEW q \in Paths, NEW r \in Paths, IsPrefix(p, q), IsPrefix(q, r)
  PROVE  IsPrefix(p, r)
<1>1. Len(p) \in Nat /\ Len(q) \in Nat /\ Len(r) \in Nat
  BY PathsAssumption
<1>2. Len(p) <= Len(q) /\ \A i \in 1..Len(p) : p[i] = q[i]
  BY PrefixPointwise
<1>3. Len(q) <= Len(r) /\ \A i \in 1..Len(q) : q[i] = r[i]
  BY PrefixPointwise
<1>4. Len(p) <= Len(r) /\ \A i \in 1..Len(p) : p[i] = r[i]
  BY <1>1, <1>2, <1>3
<1> QED
  BY <1>4, PrefixPointwise

\* Two prefixes of a path that have the same length are the same.
LEMMA PrefixUnique ==
  ASSUME NEW p \in Paths, NEW q \in Paths, NEW r \in Paths,
         IsPrefix(p, r), IsPrefix(q, r), Len(p) = Len(q)
  PROVE  p = q
<1>1. p \in Seq(Names) /\ q \in Seq(Names)
  BY PathsAssumption
<1>2. \A i \in 1..Len(p) : p[i] = r[i] /\ q[i] = r[i]
  BY PrefixPointwise
<1> QED
  BY <1>1, <1>2

LEMMA PrefixReflexive == ASSUME NEW p \in Paths PROVE IsPrefix(p, p)
<1>1. Len(p) \in Nat
  BY PathsAssumption
<1> QED
  BY <1>1, PrefixPointwise

LEMMA StrictPrefixShorter ==
  ASSUME NEW p \in Paths, NEW q \in Paths, IsPrefix(p, q), p # q
  PROVE  Len(p) < Len(q)
<1>1. Len(p) \in Nat /\ Len(q) \in Nat
  BY PathsAssumption
<1>2. Len(p) <= Len(q)
  BY PrefixPointwise
<1>3. Len(p) # Len(q)
  BY PrefixUnique, PrefixReflexive
<1> QED
  BY <1>1, <1>2, <1>3

LEMMA LinkedInit == Init => Linked
BY TreesAssumption DEF Init, Linked, Rooted, LookedAt, Resolved, LinksArePlanted,
                       OnlyNewLinksLeadAstray, IsTree

\* A step that leaves the library alone and is led through links only where it may.
LEMMA SameLibrary ==
  ASSUME Linked, UNCHANGED <<fs, changes, changed, planted>>, strayed' => planted,
         LookedAt', Resolved'
  PROVE  Linked'
BY DEF Linked, Rooted, LinksArePlanted, OnlyNewLinksLeadAstray

LEMMA FailLinked ==
  ASSUME NEW error, Fail(error)
  PROVE  LookedAt' /\ Resolved'
BY DEF Fail, LookedAt, Resolved

LEMMA ReplacedLinks ==
  ASSUME NEW p \in Paths, NEW node, Replace(p, node),
         NEW x \in Paths, fs'[x] = "link", x \notin changed'
  PROVE  fs[x] = "link" /\ x \notin changed
<1>1. ~IsPrefix(p, x) /\ x \notin changed
  BY DEF Replace
<1>2. x # p
  BY <1>1, PrefixReflexive
<1> QED
  BY <1>1, <1>2 DEF Replace

LEMMA ReplaceRooted ==
  ASSUME Rooted, NEW p \in Paths, NEW node, Replace(p, node)
  PROVE  Rooted'
<1> SUFFICES ASSUME NEW x \in Paths, NEW y \in Paths, IsStrictPrefix(y, x), fs'[x] # "gone"
             PROVE  fs'[y] = "directory"
  BY DEF Rooted
<1>1. \A z \in Paths : fs'[z] = IF z = p THEN node ELSE IF IsPrefix(p, z) THEN "gone" ELSE fs[z]
  BY DEF Replace
<1>2. IsPrefix(y, x) /\ y # x
  BY DEF IsStrictPrefix
<1>3. x = p \/ ~IsPrefix(p, x)
  BY <1>1
<1>4. ~IsPrefix(p, y)
  <2>1. ASSUME IsPrefix(p, y) PROVE FALSE
    <3>1. IsPrefix(p, x)
      BY <1>2, <2>1, PrefixTransitive
    <3>2. x = p
      BY <1>3, <3>1
    <3>3. Len(y) < Len(p)
      BY <1>2, <3>2, StrictPrefixShorter
    <3>4. Len(p) <= Len(y)
      BY <2>1, PrefixPointwise
    <3>5. Len(p) \in Nat /\ Len(y) \in Nat
      BY PathsAssumption
    <3> QED
      BY <3>3, <3>4, <3>5
  <2> QED
    BY <2>1
<1>5. y # p
  BY <1>4, PrefixReflexive
<1>6. fs[y] = "directory"
  <2>1. CASE x = p
    BY <2>1, <1>2 DEF Replace, IsStrictPrefix
  <2>2. CASE x # p
    BY <2>2, <1>1, <1>2, <1>3 DEF Rooted, IsStrictPrefix
  <2> QED
    BY <2>1, <2>2
<1> QED
  BY <1>1, <1>4, <1>5, <1>6

LEMMA LinkedNext == Held /\ Linked /\ [Next]_vars => Linked'
<1> SUFFICES ASSUME Held, Linked, [Next]_vars PROVE Linked'
  OBVIOUS
<1>1. strayed => planted
  BY DEF Linked, OnlyNewLinksLeadAstray
<1>2. LookedAt /\ Resolved
  BY DEF Linked
<1>3. \A p \in Paths : ParentLinks(p) \subseteq LinksOn(p)
  BY DEF ParentLinks
<1>4. CASE StartAtRoot
  <2>1. LookedAt' /\ Resolved'
    BY <1>4, FailLinked DEF StartAtRoot, Continue, LookedAt, Resolved
  <2> QED
    BY <1>1, <1>4, <2>1, SameLibrary DEF StartAtRoot
<1>5. ASSUME NEW p, NEW step, CheckPath(p, step) PROVE Linked'
  <2>1. \A x \in Paths : Len(x) \in Nat
    BY PathsAssumption
  <2>2. LookedAt' /\ Resolved'
    BY <1>5, <2>1 DEF CheckPath, Continue, LookedAt, Resolved
  <2> QED
    BY <1>1, <1>5, <2>2, SameLibrary DEF CheckPath
<1>6. CASE LookAtName
  <2>1. PICK q \in Paths :
          /\ IsPrefix(q, subject) /\ Len(q) = seen
          /\ LedThrough(ParentLinks(q))
          /\ \/ Fail(<<"path_error", subject>>)
             \/ \E node \in Finds(q, ParentLinks(q)) \ {"gone"} :
                  \/ node = "link" /\ Fail(<<"unsafe_path", subject>>)
                  \/ /\ node # "link" /\ q # subject
                     /\ seen' = seen + 1
                     /\ UNCHANGED <<pc, reply, subject, access, checked, loading>>
                  \/ /\ node # "link" /\ q = subject
                     /\ Continue("resolve")
                     /\ UNCHANGED <<checking, loading>>
    BY <1>6 DEF LookAtName
  <2>2. pc = "look" /\ UNCHANGED <<fs, changes, changed, planted>>
    BY <1>6 DEF LookAtName
  <2>3. subject \in Paths /\ seen \in Nat /\ \A x \in Paths : Len(x) \in Nat
    BY PathsAssumption DEF Held, PathTypes
  <2>4. ParentLinks(q) \subseteq changed
    <3> SUFFICES ASSUME NEW x \in ParentLinks(q) PROVE x \in changed
      OBVIOUS
    <3>1. x \in Paths /\ x # q /\ IsPrefix(x, q) /\ fs[x] = "link"
      BY DEF ParentLinks, LinksOn
    <3>2. IsPrefix(x, subject) /\ Len(x) < seen
      BY <2>1, <2>3, <3>1, PrefixTransitive, StrictPrefixShorter
    <3> QED
      BY <1>2, <2>2, <3>1, <3>2 DEF LookedAt
  <2>5. fs[q] = "link" => Finds(q, ParentLinks(q)) = {"link"}
    <3>1. ASSUME fs[q] = "link", NEW x \in ParentLinks(q) PROVE FALSE
      <4>1. x \in Paths /\ IsStrictPrefix(x, q) /\ fs[x] = "link"
        BY DEF ParentLinks, LinksOn, IsStrictPrefix
      <4>2. fs[x] = "directory"
        BY <3>1, <4>1 DEF Linked, Rooted
      <4> QED
        BY <4>1, <4>2
    <3> QED
      BY <3>1 DEF Finds
  <2>6. ASSUME fs[q] # "link", NEW x \in Paths, IsPrefix(x, subject), Len(x) < seen + 1,
               fs[x] = "link"
        PROVE  x \in changed
    <3>1. CASE Len(x) < seen
      BY <1>2, <2>2, <2>6, <3>1 DEF LookedAt
    <3>2. CASE Len(x) = seen
      <4>1. x = q
        BY <2>1, <2>3, <2>6, <3>2, PrefixUnique
      <4> QED
        BY <2>6, <4>1
    <3> QED
      BY <2>3, <2>6, <3>1, <3>2
  <2>7. LookedAt' /\ Resolved'
    <3>1. CASE \E error : Fail(error)
      BY <3>1, FailLinked
    <3>2. CASE fs[q] # "link" /\ seen' = seen + 1 /\ UNCHANGED <<pc, subject>>
      BY <2>2, <2>6, <3>2 DEF LookedAt, Resolved
    <3>3. CASE fs[q] # "link" /\ q = subject /\ Continue("resolve") /\ UNCHANGED checking
      <4>1. ASSUME NEW x \in LinksOn(subject) PROVE x \in changed
        <5>1. x \in Paths /\ IsPrefix(x, subject) /\ fs[x] = "link"
          BY DEF LinksOn
        <5>2. Len(x) < seen + 1
          BY <2>1, <2>3, <3>3, <5>1, PrefixPointwise
        <5> QED
          BY <2>6, <3>3, <5>1, <5>2
      <4> QED
        BY <2>2, <3>3, <4>1 DEF Continue, LookedAt, Resolved, LinksOn, checking
    <3> QED
      BY <2>1, <2>5, <3>1, <3>2, <3>3
  <2>8. strayed' => planted
    BY <2>1, <2>4 DEF Linked, LinksArePlanted, OnlyNewLinksLeadAstray, LedThrough, LinksOn,
                      ParentLinks
  <2> QED
    BY <2>2, <2>7, <2>8, SameLibrary
<1>7. CASE Resolve
  <2>1. pc = "resolve" /\ UNCHANGED <<fs, changes, changed, planted>>
    BY <1>7 DEF Resolve
  <2>2. strayed' => planted
    BY <1>7, <2>1 DEF Resolve, Linked, Resolved, LinksArePlanted, OnlyNewLinksLeadAstray,
                      LedThrough, LinksOn
  <2>3. \A q \in Targets(subject) : LinksOn(q) = {}
    BY DEF Targets
  <2>4. LookedAt' /\ Resolved'
    <3>1. CASE \E error : Fail(error)
      BY <3>1, FailLinked
    <3>2. CASE checked' \in Targets(subject) /\ Continue(access)
      <4>1. access \in {"list", "stat", "regular"}
        BY <2>1 DEF Held, InHand
      <4>2. LinksOn(checked)' = {}
        BY <2>1, <2>3, <3>2 DEF LinksOn
      <4> QED
        BY <3>2, <4>1, <4>2 DEF Continue, LookedAt, Resolved
    <3> QED
      BY <1>7, <3>1, <3>2 DEF Resolve
  <2> QED
    BY <2>1, <2>2, <2>4, SameLibrary
<1>8. CASE CheckDirectory \/ CheckEntry \/ CheckFile
  BY <1>5, <1>8 DEF CheckDirectory, CheckEntry, CheckFile
<1>9. ASSUME pc \in {"list", "stat", "regular", "read"}, UNCHANGED <<fs, changes, changed, planted>>,
             LedThrough(LinksOn(checked)) \/ LedThrough(ParentLinks(checked)),
             LookedAt', Resolved'
      PROVE  Linked'
  <2>1. LinksOn(checked) \subseteq changed /\ ParentLinks(checked) \subseteq LinksOn(checked)
    BY <1>2, <1>3, <1>9 DEF Held, PathTypes, Resolved
  <2>2. strayed' => planted
    BY <1>9, <2>1 DEF Linked, LinksArePlanted, OnlyNewLinksLeadAstray, LedThrough, LinksOn
  <2> QED
    BY <1>9, <2>2, SameLibrary
<1>10. CASE ListDirectory
  <2>1. LookedAt' /\ Resolved'
    BY <1>10, FailLinked DEF ListDirectory, Continue, LookedAt, Resolved
  <2> QED
    BY <1>9, <1>10, <2>1 DEF ListDirectory
<1>11. CASE StatEntry
  <2>1. LookedAt' /\ Resolved'
    BY <1>11, FailLinked DEF StatEntry, Continue, LookedAt, Resolved
  <2> QED
    BY <1>9, <1>11, <2>1 DEF StatEntry
<1>12. CASE EndOfDirectory
  BY <1>1, <1>12, SameLibrary DEF EndOfDirectory, Continue, LookedAt, Resolved
<1>13. CASE EndOfSearch
  BY <1>1, <1>13, SameLibrary DEF EndOfSearch, Continue, LookedAt, Resolved
<1>14. CASE StatFile
  <2>1. LookedAt' /\ Resolved'
    <3>1. CASE \E error : Fail(error)
      BY <3>1, FailLinked
    <3>2. CASE Continue("read") /\ UNCHANGED checking
      BY <1>2, <1>14, <3>2 DEF StatFile, Continue, LookedAt, Resolved, LinksOn, checking
    <3> QED
      BY <1>14, <3>1, <3>2 DEF StatFile
  <2> QED
    BY <1>9, <1>14, <2>1 DEF StatFile
<1>15. CASE ReadFile
  <2>1. LookedAt' /\ Resolved'
    BY <1>15, FailLinked DEF ReadFile, AddRule, Continue, LookedAt, Resolved
  <2> QED
    BY <1>9, <1>15, <2>1 DEF ReadFile, AddRule
<1>16. CASE ReturnRules
  BY <1>1, <1>16, SameLibrary DEF ReturnRules, LookedAt, Resolved
<1>17. ASSUME NEW p \in Paths, NEW node \in Replacements, Replace(p, node) PROVE Linked'
  <2>1. /\ UNCHANGED <<strayed, pc, checking>> /\ changed \subseteq changed'
        /\ planted' = (planted \/ node = "link")
    BY <1>17 DEF Replace
  <2>2. Rooted'
    BY <1>17, ReplaceRooted DEF Linked
  <2>3. \A x \in Paths : fs'[x] = "link" /\ x \notin changed' => fs[x] = "link" /\ x \notin changed
    BY <1>17, ReplacedLinks
  <2>4. LookedAt'
    BY <1>2, <2>1, <2>3 DEF LookedAt, checking
  <2>5. Resolved'
    BY <1>2, <2>1, <2>3 DEF Resolved, LinksOn, checking
  <2>6. LinksArePlanted'
    <3>1. p \in changed'
      BY <1>17, PrefixReflexive DEF Replace
    <3>2. ASSUME NEW x \in Paths, x \in changed', fs'[x] = "link" PROVE planted'
      <4>1. x = p => node = "link"
        BY <1>17, <3>2 DEF Replace
      <4>2. x # p => fs[x] = "link" /\ x \in changed
        BY <1>17, <3>2 DEF Replace
      <4> QED
        BY <2>1, <4>1, <4>2 DEF Linked, LinksArePlanted
    <3> QED
      BY <3>1, <3>2 DEF LinksArePlanted
  <2>7. OnlyNewLinksLeadAstray'
    BY <1>1, <2>1 DEF OnlyNewLinksLeadAstray
  <2> QED
    BY <2>2, <2>4, <2>5, <2>6, <2>7 DEF Linked
<1>18. CASE UNCHANGED vars
  BY <1>18 DEF vars, checking, Linked, Rooted, LookedAt, Resolved, LinksOn, LinksArePlanted,
               OnlyNewLinksLeadAstray
<1> QED
  BY <1>4, <1>6, <1>7, <1>8, <1>10, <1>11, <1>12, <1>13, <1>14, <1>15, <1>16, <1>17, <1>18
     DEF Next, Loader

\* In whatever order the loader looks, resolves and reads and another process replaces parts
\* of the library: if an access leads through a link, of whatever age and wherever it is,
\* then that process has put a link into the library since the load began, which is what
\* _checked_path before every access cannot exclude.
THEOREM OldLinksLeadNowhere == Spec => []OnlyNewLinksLeadAstray
<1>1. Held /\ Linked /\ [Next]_vars => (Held /\ Linked)'
  BY HeldNext, LinkedNext
<1>2. Held /\ Linked => OnlyNewLinksLeadAstray
  BY DEF Linked
<1> QED
  BY HeldInit, LinkedInit, <1>1, <1>2, PTL DEF Spec

-----------------------------------------------------------------------------
(* The result.  From the sort on, the rules loaded and the files still to  *)
(* be loaded are in path order, one after the other.                       *)

InPathOrder(s) == \A i, j \in DOMAIN s : i < j => ~PathBefore(s[j], s[i])

RulesInOrder ==
  \A i, j \in DOMAIN rules : i < j =>
    rules[i][2] # rules[j][2] /\ ~PathBefore(rules[j][1], rules[i][1])

RulesBeforeFiles ==
  \A i \in DOMAIN rules, j \in DOMAIN files : ~PathBefore(files[j], rules[i][1])

Pending == pc # "returned" => reply = <<"none">>

Ordered ==
  /\ RulesInOrder
  /\ Loading => InPathOrder(files) /\ RulesBeforeFiles
  /\ ~Loading /\ ~Loaded => rules = <<>>
  /\ Pending

LEMMA OrderedInit == Init => Ordered
BY DEF Init, Ordered, RulesInOrder, Loading, Pending

LEMMA FailOrdered == ASSUME NEW error, Fail(error) PROVE Ordered'
BY DEF Fail, Ordered, RulesInOrder, Loading, Pending

\* A step of the search, or a check, that changes neither files in order nor rules.
LEMMA KeepOrdered ==
  ASSUME Ordered, pc # "returned", pc' # "returned", UNCHANGED <<rules, reply>>,
         Loading' <=> Loading, Loading => UNCHANGED files
  PROVE  Ordered'
<1>1. RulesInOrder'
  BY DEF Ordered, RulesInOrder
<1>2. Loading' => InPathOrder(files)' /\ RulesBeforeFiles'
  <2> SUFFICES ASSUME Loading' PROVE InPathOrder(files)' /\ RulesBeforeFiles'
    OBVIOUS
  <2>1. UNCHANGED <<rules, files>> /\ InPathOrder(files) /\ RulesBeforeFiles
    BY DEF Ordered
  <2> QED
    BY <2>1 DEF InPathOrder, RulesBeforeFiles
<1>3. ~Loading' /\ ~Loaded' => rules' = <<>>
  BY DEF Ordered, Loaded
<1>4. Pending'
  BY DEF Ordered, Pending
<1> QED
  BY <1>1, <1>2, <1>3, <1>4 DEF Ordered

LEMMA CheckPathOrdered ==
  ASSUME Ordered, NEW p, NEW step, CheckPath(p, step),
         pc \in {"directory", "entries", "load"}, step = "regular" <=> pc = "load"
  PROVE  Ordered'
<1>1. Loading' <=> Loading
  BY DEF CheckPath, Continue, Loading
<1> QED
  BY <1>1, KeepOrdered DEF CheckPath, Continue, loading

LEMMA LoadOrders ==
  ASSUME Held, RulesInOrder, RulesBeforeFiles, InPathOrder(files), files # <<>>,
         NEW id \in RuleIds, \A i \in DOMAIN rules : rules[i][2] # id,
         rules' = Append(rules, <<Head(files), id>>), files' = Tail(files)
  PROVE  RulesInOrder' /\ RulesBeforeFiles' /\ InPathOrder(files)'
<1> DEFINE n == Len(rules)
<1>1. files \in Seq(Paths) /\ rules \in Seq(Paths \X RuleIds)
  BY DEF Held, SeqTypes
<1>2. Head(files) = files[1] /\ 1 \in DOMAIN files
  BY <1>1
<1>3. n \in Nat /\ DOMAIN rules = 1..n /\ DOMAIN rules' = 1..(n + 1)
  <2>1. <<Head(files), id>> \in Paths \X RuleIds
    BY <1>1, <1>2
  <2> QED
    BY <1>1, <2>1
<1>4. rules'[n + 1] = <<files[1], id>> /\ \A i \in 1..n : rules'[i] = rules[i]
  BY <1>1, <1>2
<1>5. \A j \in DOMAIN files' : j + 1 \in DOMAIN files /\ files'[j] = files[j + 1] /\ j \in Nat /\ j > 0
  BY <1>1
<1>6. RulesInOrder'
  <2> SUFFICES ASSUME NEW i \in 1..(n + 1), NEW j \in 1..(n + 1), i < j
               PROVE  rules'[i][2] # rules'[j][2] /\ ~PathBefore(rules'[j][1], rules'[i][1])
    BY <1>3 DEF RulesInOrder
  <2>1. CASE j = n + 1
    <3>1. i \in DOMAIN rules /\ rules'[i] = rules[i]
      BY <1>3, <1>4, <2>1
    <3>2. rules'[j][1] = files[1] /\ rules'[j][2] = id
      BY <1>4, <2>1
    <3> QED
      BY <1>2, <3>1, <3>2 DEF RulesBeforeFiles
  <2>2. CASE j # n + 1
    <3>1. i \in DOMAIN rules /\ j \in DOMAIN rules /\ rules'[i] = rules[i] /\ rules'[j] = rules[j]
      BY <1>3, <1>4, <2>2
    <3> QED
      BY <3>1 DEF RulesInOrder
  <2> QED
    BY <2>1, <2>2
<1>7. RulesBeforeFiles'
  <2> SUFFICES ASSUME NEW i \in 1..(n + 1), NEW j \in DOMAIN files'
               PROVE  ~PathBefore(files'[j], rules'[i][1])
    BY <1>3 DEF RulesBeforeFiles
  <2>1. CASE i = n + 1
    <3>1. rules'[i][1] = files[1]
      BY <1>4, <2>1
    <3> QED
      BY <1>2, <1>5, <3>1 DEF InPathOrder
  <2>2. CASE i # n + 1
    <3>1. i \in DOMAIN rules /\ rules'[i] = rules[i]
      BY <1>3, <1>4, <2>2
    <3> QED
      BY <1>5, <3>1 DEF RulesBeforeFiles
  <2> QED
    BY <2>1, <2>2
<1>8. InPathOrder(files)'
  BY <1>5 DEF InPathOrder
<1> QED
  BY <1>6, <1>7, <1>8

LEMMA OrderedNext == Held /\ Ordered /\ [Next]_vars => Ordered'
<1> SUFFICES ASSUME Held, Ordered, [Next]_vars PROVE Ordered'
  OBVIOUS
<1>1. CASE \E error : Fail(error)
  BY <1>1, FailOrdered
<1> SUFFICES ASSUME ~\E error : Fail(error) PROVE Ordered'
  BY <1>1
<1>2. CASE StartAtRoot
  BY <1>2, KeepOrdered DEF StartAtRoot, Continue, Loading
<1>3. CASE LookAtName
  <2>1. /\ pc = "look" /\ UNCHANGED <<rules, reply, files, access>>
        /\ pc' \in {"look", "resolve"}
    BY <1>3 DEF LookAtName, Continue, loading, checking
  <2> QED
    BY <2>1, KeepOrdered DEF Loading
<1>4. CASE Resolve
  <2>1. /\ pc = "resolve" /\ UNCHANGED <<rules, reply, files, access>> /\ pc' = access
    BY <1>4 DEF Resolve, Continue, loading
  <2>2. access \in {"list", "stat", "regular"}
    BY <2>1 DEF Held, InHand
  <2> QED
    BY <2>1, <2>2, KeepOrdered DEF Loading
<1>5. CASE CheckDirectory
  BY <1>5, CheckPathOrdered DEF CheckDirectory
<1>6. CASE ListDirectory
  BY <1>6, KeepOrdered DEF ListDirectory, Continue, Loading
<1>7. CASE CheckEntry
  BY <1>7, CheckPathOrdered DEF CheckEntry
<1>8. CASE StatEntry
  BY <1>8, KeepOrdered DEF StatEntry, Continue, Loading
<1>9. CASE EndOfDirectory
  BY <1>9, KeepOrdered DEF EndOfDirectory, Continue, Loading
<1>10. CASE EndOfSearch
  <2>1. /\ pc = "directory" /\ pc' = "load" /\ UNCHANGED <<reply, rules>>
        /\ \A i, j \in DOMAIN files : i < j => ~PathBefore(files'[j], files'[i])
        /\ DOMAIN files' = DOMAIN files
    BY <1>10 DEF EndOfSearch, Continue
  <2>2. InPathOrder(files)'
    BY <2>1 DEF InPathOrder
  <2>3. rules = <<>>
    BY <2>1 DEF Ordered, Loading, Pending, Loaded
  <2> QED
    BY <2>1, <2>2, <2>3 DEF Ordered, RulesInOrder, RulesBeforeFiles, Loading, Pending
<1>11. CASE CheckFile
  BY <1>11, CheckPathOrdered DEF CheckFile
<1>12. CASE StatFile
  BY <1>12, KeepOrdered DEF StatFile, Continue, Loading, loading, checking
<1>13. CASE ReadFile
  <2>1. PICK id \in RuleIds :
          /\ \A i \in DOMAIN rules : rules[i][2] # id
          /\ Continue("load") /\ rules' = Append(rules, <<subject, id>>) /\ files' = Tail(files)
    BY <1>13 DEF ReadFile, AddRule
  <2>2. pc = "read" /\ files # <<>> /\ subject = Head(files)
    BY <1>13 DEF ReadFile, AddRule, Held, InHand
  <2>3. RulesInOrder /\ RulesBeforeFiles /\ InPathOrder(files) /\ Pending
    BY <2>2 DEF Ordered, Loading
  <2>4. RulesInOrder' /\ RulesBeforeFiles' /\ InPathOrder(files)'
    BY <2>1, <2>2, <2>3, LoadOrders
  <2> QED
    BY <2>1, <2>2, <2>3, <2>4 DEF Ordered, Continue, Loading, Pending
<1>14. CASE ReturnRules
  BY <1>14 DEF ReturnRules, Ordered, RulesInOrder, Loading, Pending, Loaded, loading
<1>15. CASE \E p \in Paths, node \in Replacements : Replace(p, node)
  BY <1>15, KeepOrdered DEF Replace, Loading, loading, checking
<1>16. CASE UNCHANGED vars
  BY <1>16 DEF vars, loading, checking, Ordered, RulesInOrder, RulesBeforeFiles, InPathOrder,
               Loading, Pending, Loaded
<1> QED
  BY <1>2, <1>3, <1>4, <1>5, <1>6, <1>7, <1>8, <1>9, <1>10, <1>11, <1>12, <1>13, <1>14, <1>15, <1>16
     DEF Next, Loader

\* Whatever happens to the library meanwhile, load_detection_rules returns rules with
\* different IDs in path order, or no rules at all.
THEOREM ResultsAreLibraries == Spec => []ResultIsALibrary
<1>1. Held /\ Ordered /\ [Next]_vars => (Held /\ Ordered)'
  BY HeldNext, OrderedNext
<1>2. Ordered => ResultIsALibrary
  BY DEF Ordered, RulesInOrder, ResultIsALibrary, Loading
<1> QED
  BY HeldInit, OrderedInit, <1>1, <1>2, PTL DEF Spec

-----------------------------------------------------------------------------
(* Queues: what they hold, and that they hold it once.                      *)

LEMMA FrontHolds ==
  ASSUME NEW S, NEW s \in Seq(S), s # <<>>
  PROVE  /\ Range(s) = Range(Front(s)) \cup {Last(s)}
         /\ IsInjective(s) => IsInjective(Front(s)) /\ Last(s) \notin Range(Front(s))
<1>1. Len(s) \in Nat /\ Len(s) > 0 /\ DOMAIN s = 1..Len(s)
  OBVIOUS
<1>2. DOMAIN Front(s) = 1..(Len(s) - 1) /\ \A i \in DOMAIN Front(s) : Front(s)[i] = s[i]
  BY <1>1 DEF Front
<1>3. DOMAIN s = DOMAIN Front(s) \cup {Len(s)} /\ Len(s) \notin DOMAIN Front(s)
  BY <1>1, <1>2
<1>4. Range(s) = Range(Front(s)) \cup {Last(s)}
  BY <1>2, <1>3 DEF Range, Last
<1>5. ASSUME IsInjective(s) PROVE IsInjective(Front(s)) /\ Last(s) \notin Range(Front(s))
  BY <1>2, <1>3, <1>5 DEF IsInjective, Range, Last
<1> QED
  BY <1>4, <1>5

LEMMA TailHolds ==
  ASSUME NEW S, NEW s \in Seq(S), s # <<>>
  PROVE  /\ Range(s) = {Head(s)} \cup Range(Tail(s))
         /\ IsInjective(s) => IsInjective(Tail(s)) /\ Head(s) \notin Range(Tail(s))
<1>1. Len(s) \in Nat /\ Len(s) > 0 /\ DOMAIN s = 1..Len(s) /\ Head(s) = s[1]
  OBVIOUS
<1>2. DOMAIN Tail(s) = 1..(Len(s) - 1) /\ \A i \in DOMAIN Tail(s) : Tail(s)[i] = s[i + 1]
  BY <1>1
<1>3. \A i \in DOMAIN s : i = 1 \/ (i - 1 \in DOMAIN Tail(s) /\ Tail(s)[i - 1] = s[i])
  BY <1>1, <1>2
<1>4. \A i \in DOMAIN Tail(s) : i + 1 \in DOMAIN s /\ i + 1 # 1 /\ i \in Nat
  BY <1>1, <1>2
<1>5. Range(s) \subseteq {Head(s)} \cup Range(Tail(s))
  BY <1>1, <1>3 DEF Range
<1>6. {Head(s)} \cup Range(Tail(s)) \subseteq Range(s)
  BY <1>1, <1>2, <1>4 DEF Range
<1>7. ASSUME IsInjective(s) PROVE IsInjective(Tail(s)) /\ Head(s) \notin Range(Tail(s))
  <2>1. \A i, j \in DOMAIN Tail(s) : Tail(s)[i] = Tail(s)[j] => i + 1 = j + 1
    BY <1>2, <1>4, <1>7 DEF IsInjective
  <2>2. \A i \in DOMAIN Tail(s) : Tail(s)[i] # s[1]
    BY <1>1, <1>2, <1>4, <1>7 DEF IsInjective
  <2> QED
    BY <1>1, <1>4, <2>1, <2>2 DEF IsInjective, Range
<1> QED
  BY <1>5, <1>6, <1>7

LEMMA AppendHolds ==
  ASSUME NEW S, NEW s \in Seq(S), NEW x \in S
  PROVE  /\ Range(Append(s, x)) = Range(s) \cup {x}
         /\ IsInjective(s) /\ x \notin Range(s) => IsInjective(Append(s, x))
<1> DEFINE t == Append(s, x)
<1>1. Len(s) \in Nat /\ DOMAIN s = 1..Len(s) /\ DOMAIN t = 1..(Len(s) + 1)
  OBVIOUS
<1>2. t[Len(s) + 1] = x /\ \A i \in DOMAIN s : t[i] = s[i]
  OBVIOUS
<1>3. DOMAIN t = DOMAIN s \cup {Len(s) + 1} /\ Len(s) + 1 \notin DOMAIN s
  BY <1>1
<1> HIDE DEF t
<1>4. Range(t) = Range(s) \cup {x}
  BY <1>2, <1>3 DEF Range
<1>5. ASSUME IsInjective(s), x \notin Range(s) PROVE IsInjective(t)
  BY <1>2, <1>3, <1>5 DEF IsInjective, Range
<1> QED
  BY <1>4, <1>5 DEF t

LEMMA RangeType ==
  ASSUME NEW S, NEW T, NEW s \in Seq(S), Range(s) \subseteq T
  PROVE  s \in Seq(T)
<1>1. Len(s) \in Nat /\ s \in [1..Len(s) -> S] /\ \A i \in 1..Len(s) : s[i] \in T
  BY LenProperties DEF Range
<1>2. s \in [1..Len(s) -> T]
  BY <1>1
<1> QED
  BY <1>1, <1>2, SeqDef

LEMMA RuleAppended ==
  ASSUME NEW s \in Seq(Paths \X RuleIds), NEW rule \in Paths \X RuleIds
  PROVE  Range(Append(s, rule)) = Range(s) \cup {rule}
<1> DEFINE S == Paths \X RuleIds
<1>1. rule \in S /\ s \in Seq(S)
  OBVIOUS
<1> HIDE DEF S
<1> QED
  BY <1>1, AppendHolds

LEMMA PushHolds ==
  ASSUME NEW S, NEW s \in Seq(S), NEW t \in Seq(S)
  PROVE  /\ Range(s \o Reverse(t)) = Range(s) \cup Range(t)
         /\ IsInjective(s) /\ IsInjective(t) /\ Range(s) \cap Range(t) = {} =>
              IsInjective(s \o Reverse(t))
<1> DEFINE r == Reverse(t)
           u == s \o r
           m == Len(s)
           n == Len(t)
<1>1. m \in Nat /\ n \in Nat /\ DOMAIN s = 1..m /\ DOMAIN t = 1..n
  OBVIOUS
<1>2. r \in Seq(S) /\ Len(r) = n /\ \A i \in 1..n : r[i] = t[n - i + 1]
  BY <1>1, ReverseType DEF Reverse
<1>3. /\ DOMAIN u = 1..(m + n)
      /\ \A i \in 1..m : u[i] = s[i]
      /\ \A i \in 1..n : u[m + i] = r[i]
  <2> HIDE DEF r
  <2>1. /\ u \in Seq(S) /\ Len(u) = Len(s) + Len(r)
        /\ \A i \in 1..(Len(s) + Len(r)) : u[i] = IF i <= Len(s) THEN s[i] ELSE r[i - Len(s)]
    <3>1. r \in Seq(S)
      BY <1>2
    <3> HIDE DEF m, n
    <3> QED
      BY ONLY <3>1, s \in Seq(S), ConcatProperties, Zenon
  <2>2. /\ DOMAIN u = 1..(m + n)
        /\ \A i \in 1..(m + n) : u[i] = IF i <= m THEN s[i] ELSE r[i - m]
    BY <1>2, <2>1
  <2> HIDE DEF u, m, n
  <2>3. \A i \in 1..m : i \in 1..(m + n) /\ i <= m
    BY <1>1
  <2>4. \A i \in 1..n : m + i \in 1..(m + n) /\ ~(m + i <= m) /\ m + i - m = i
    BY <1>1
  <2>5. \A i \in 1..n : u[m + i] = r[i]
    <3> SUFFICES ASSUME NEW i \in 1..n PROVE u[m + i] = r[i]
      OBVIOUS
    <3>1. PICK k \in Int : k = m + i
      BY <1>1
    <3>2. k \in 1..(m + n) /\ ~(k <= m) /\ k - m = i
      BY <1>1, <3>1
    <3>3. u[k] = r[k - m]
      BY <2>2, <3>2
    <3> QED
      BY <3>1, <3>2, <3>3
  <2> QED
    BY <2>2, <2>3, <2>5
<1>4. \A i \in 1..n : n - i + 1 \in 1..n /\ n - (n - i + 1) + 1 = i
  BY <1>1
<1>5. \A i \in DOMAIN u : i \in 1..m \/ (i - m \in 1..n /\ u[i] = t[n - (i - m) + 1])
  <2> SUFFICES ASSUME NEW i \in 1..(m + n), i \notin 1..m
               PROVE  i - m \in 1..n /\ u[i] = t[n - (i - m) + 1]
    BY <1>3
  <2>1. i - m \in 1..n /\ m + (i - m) = i
    BY <1>1
  <2> QED
    BY <1>2, <1>3, <2>1
<1>6. \A i \in 1..n : m + (n - i + 1) \in DOMAIN u /\ u[m + (n - i + 1)] = t[i]
  <2> SUFFICES ASSUME NEW i \in 1..n
               PROVE  m + (n - i + 1) \in DOMAIN u /\ u[m + (n - i + 1)] = t[i]
    OBVIOUS
  <2>1. m + (n - i + 1) \in 1..(m + n)
    BY <1>1
  <2> QED
    BY <1>2, <1>3, <1>4, <2>1
<1>7. 1..m \subseteq DOMAIN u
  BY <1>1, <1>3
<1> HIDE DEF r, u, m, n
<1>8. Range(u) \subseteq Range(s) \cup Range(t)
  <2> SUFFICES ASSUME NEW i \in DOMAIN u PROVE u[i] \in Range(s) \cup Range(t)
    BY DEF Range
  <2>1. CASE i \in 1..m
    BY <1>1, <1>3, <2>1 DEF Range
  <2>2. CASE i \notin 1..m
    <3>1. i - m \in 1..n /\ u[i] = t[n - (i - m) + 1]
      BY <1>5, <2>2
    <3>2. n - (i - m) + 1 \in DOMAIN t
      BY <1>1, <1>4, <3>1
    <3> QED
      BY <3>1, <3>2 DEF Range
  <2> QED
    BY <2>1, <2>2
<1>9. Range(s) \cup Range(t) \subseteq Range(u)
  <2>1. \A i \in 1..m : s[i] \in Range(u)
    BY <1>3, <1>7 DEF Range
  <2>2. \A i \in 1..n : t[i] \in Range(u)
    BY <1>6 DEF Range
  <2> QED
    BY <1>1, <2>1, <2>2 DEF Range
<1>10. ASSUME IsInjective(s), IsInjective(t), Range(s) \cap Range(t) = {},
              NEW i \in DOMAIN u, NEW j \in DOMAIN u, u[i] = u[j]
       PROVE  i = j
  <2>1. CASE i \in 1..m /\ j \in 1..m
    BY <1>1, <1>3, <1>10, <2>1 DEF IsInjective
  <2>2. CASE i \notin 1..m /\ j \notin 1..m
    <3>1. /\ i - m \in 1..n /\ u[i] = t[n - (i - m) + 1]
          /\ j - m \in 1..n /\ u[j] = t[n - (j - m) + 1]
      BY <1>5, <2>2
    <3>2. n - (i - m) + 1 \in DOMAIN t /\ n - (j - m) + 1 \in DOMAIN t
      BY <1>1, <1>4, <3>1
    <3>3. n - (i - m) + 1 = n - (j - m) + 1
      BY <1>10, <3>1, <3>2 DEF IsInjective
    <3>4. i \in Int /\ j \in Int
      BY <1>1, <1>3
    <3> QED
      BY <1>1, <3>3, <3>4
  <2>3. ASSUME NEW a \in 1..m, NEW b \in DOMAIN u, b \notin 1..m PROVE u[a] # u[b]
    <3>1. b - m \in 1..n /\ u[b] = t[n - (b - m) + 1]
      BY <1>5, <2>3
    <3>2. n - (b - m) + 1 \in DOMAIN t
      BY <1>1, <1>4, <3>1
    <3>3. u[b] \in Range(t) /\ u[a] \in Range(s)
      BY <1>1, <1>3, <3>1, <3>2 DEF Range
    <3> QED
      BY <1>10, <3>3
  <2> QED
    BY <1>10, <2>1, <2>2, <2>3
<1> QED
  BY <1>8, <1>9, <1>10 DEF IsInjective, u, r

LEMMA ByNameHolds ==
  ASSUME NEW found \in SUBSET Paths, NEW s \in ByName(found)
  PROVE  Range(s) = found /\ IsInjective(s)
<1> DEFINE n == Cardinality(found)
<1>1. IsFiniteSet(found) /\ n \in Nat
  BY PathsAssumption, FS_Subset, FS_CardinalityType
<1>2. s \in [1..n -> found] /\ \A i, j \in 1..n : i # j => s[i] # s[j]
  BY DEF ByName, SetToSeqs
<1>3. IsInjective(s) /\ s \in Injection(1..n, found)
  BY <1>2 DEF Injection, IsInjective
<1>4. Cardinality(1..n) = n
  BY <1>1, FS_Interval
<1>5. s \in Surjection(1..n, found)
  BY <1>1, <1>3, <1>4, FS_Injection
<1>6. Range(s) = found
  BY <1>2, <1>5 DEF Surjection, Range
<1> QED
  BY <1>3, <1>6

LEMMA ArrangementHolds ==
  ASSUME NEW S, NEW s \in Seq(S), NEW order \in Bijection(DOMAIN s, DOMAIN s),
         NEW t, t = [i \in DOMAIN s |-> s[order[i]]]
  PROVE  Range(t) = Range(s) /\ (IsInjective(s) => IsInjective(t))
<1>1. /\ order \in [DOMAIN s -> DOMAIN s] /\ IsInjective(order) /\ DOMAIN order = DOMAIN s
      /\ \A i \in DOMAIN s : \E j \in DOMAIN s : order[j] = i
  BY DEF Bijection, Injection, Surjection
<1>2. Range(t) = Range(s)
  BY <1>1 DEF Range
<1>3. ASSUME IsInjective(s) PROVE IsInjective(t)
  BY <1>1, <1>3 DEF IsInjective
<1> QED
  BY <1>2, <1>3

-----------------------------------------------------------------------------
(* Directories: what is below one is below one of its entries.              *)

LEMMA EntryShape ==
  ASSUME NEW d \in Paths, NEW c \in Entries(d)
  PROVE  c \in Paths /\ IsPrefix(d, c) /\ Len(c) = Len(d) + 1
<1>1. c \in Paths /\ c # <<>> /\ d = SubSeq(c, 1, Len(c) - 1)
  BY DEF Entries, Root, Front
<1>2. c \in Seq(Names) /\ d \in Seq(Names)
  BY <1>1, PathsAssumption
<1>3. Len(c) \in Nat /\ Len(c) > 0
  BY <1>1, <1>2
<1>4. Len(d) = Len(c) - 1 /\ \A i \in 1..Len(d) : d[i] = c[i]
  <2>1. \A i \in 1..(Len(c) - 1) : c[i] \in Names
    BY <1>2, <1>3
  <2>2. /\ Len(d) = IF 1 <= Len(c) - 1 THEN (Len(c) - 1) - 1 + 1 ELSE 0
        /\ \A i \in 1..((Len(c) - 1) - 1 + 1) : d[i] = c[1 + i - 1]
    BY <1>1, <1>3, <2>1, SubSeqProperties
  <2>3. PICK n \in Nat : n = Len(c) /\ n > 0
    BY <1>3
  <2>4. Len(d) = n - 1
    <3>1. CASE n = 1
      BY <2>2, <2>3, <3>1
    <3>2. CASE n # 1
      BY <2>2, <2>3, <3>2
    <3> QED
      BY <3>1, <3>2
  <2> QED
    BY <2>2, <2>3, <2>4
<1>5. Len(c) = Len(d) + 1 /\ Len(d) <= Len(c)
  BY <1>3, <1>4
<1> QED
  BY <1>1, <1>4, <1>5, PrefixPointwise

LEMMA EntryOnTheWay ==
  ASSUME NEW d \in Paths, NEW p \in Paths, IsPrefix(d, p), p # d
  PROVE  \E c \in Entries(d) : IsPrefix(c, p)
<1> DEFINE c == SubSeq(p, 1, Len(d) + 1)
<1>1. d \in Seq(Names) /\ p \in Seq(Names) /\ Len(d) \in Nat /\ Len(p) \in Nat
  BY PathsAssumption
<1>2. Len(d) < Len(p) /\ \A i \in 1..Len(d) : d[i] = p[i]
  BY StrictPrefixShorter, PrefixPointwise
<1>3. Len(d) + 1 \in 0..Len(p)
  BY <1>1, <1>2
<1>4. c \in Paths
  BY <1>3, PathsAssumption DEF Prefixes
<1>5. c \in Seq(Names) /\ Len(c) = Len(d) + 1 /\ \A i \in 1..Len(c) : c[i] = p[i]
  BY <1>1, <1>2, <1>3
<1> HIDE DEF c
<1>6. c # <<>>
  <2>1. Len(c) # 0
    BY <1>1, <1>5
  <2> QED
    BY <2>1, EmptySeq
<1>7. Front(c) = d
  <2>1. Front(c) \in Seq(Names) /\ Len(Front(c)) = Len(d)
        /\ \A i \in 1..Len(d) : Front(c)[i] = c[i]
    BY <1>1, <1>5 DEF Front
  <2>2. \A i \in 1..Len(d) : Front(c)[i] = d[i]
    BY <1>1, <1>2, <1>5, <2>1
  <2> QED
    BY <1>1, <2>1, <2>2
<1>8. IsPrefix(c, p)
  <2>1. Len(c) <= Len(p)
    BY <1>1, <1>2, <1>5
  <2> QED
    BY <1>4, <1>5, <2>1, PrefixPointwise
<1>9. c \in Entries(d)
  BY <1>4, <1>6, <1>7 DEF Entries, Root
<1> QED
  BY <1>8, <1>9

LEMMA AboveEntry ==
  ASSUME NEW d \in Paths, NEW c \in Entries(d), NEW q \in Paths, IsPrefix(q, c), q # c
  PROVE  IsPrefix(q, d)
<1>1. c \in Paths /\ Len(c) = Len(d) + 1 /\ Len(d) \in Nat /\ Len(q) \in Nat
      /\ \A i \in 1..Len(d) : d[i] = c[i]
  BY EntryShape, PrefixPointwise, PathsAssumption
<1>2. Len(q) < Len(c) /\ \A i \in 1..Len(q) : q[i] = c[i]
  BY <1>1, StrictPrefixShorter, PrefixPointwise
<1>3. Len(q) <= Len(d) /\ \A i \in 1..Len(q) : q[i] = d[i]
  BY <1>1, <1>2
<1> QED
  BY <1>3, PrefixPointwise

LEMMA EntriesApart ==
  ASSUME NEW d \in Paths, NEW b \in Entries(d), NEW c \in Entries(d), IsPrefix(b, c)
  PROVE  b = c
BY EntryShape, PrefixUnique, PrefixReflexive

-----------------------------------------------------------------------------
(* Types, and where the search is.                                          *)

\* An error that is reported is a category with one path or two.
Fails ==
  \/ \E tag, p : Fail(<<tag, p>>)
  \/ \E tag, p, q : Fail(<<tag, p, q>>)

LEMMA ErrorIsNotOk ==
  ASSUME NEW tag, NEW p, NEW q
  PROVE  <<tag, p>> # <<"ok">> /\ <<tag, p, q>> # <<"ok">>
<1>1. Len(<<tag, p>>) = 2 /\ Len(<<tag, p, q>>) = 3 /\ Len(<<"ok">>) = 1
  OBVIOUS
<1> QED
  BY <1>1

LEMMA FailsHow ==
  ASSUME Fails
  PROVE  /\ pc' = "returned" /\ ~Loaded' /\ rules' = <<>>
         /\ UNCHANGED <<checking, pending, listing, subdirectories, files>>
<1>1. PICK error : Fail(error) /\ error # <<"ok">>
  <2>1. CASE \E tag, p : Fail(<<tag, p>>)
    BY <2>1, ErrorIsNotOk
  <2>2. CASE \E tag, p, q : Fail(<<tag, p, q>>)
    BY <2>2, ErrorIsNotOk
  <2> QED
    BY <2>1, <2>2 DEF Fails
<1> QED
  BY <1>1 DEF Fail, Loaded

Kinds ==
  /\ fs \in [Paths -> Nodes]
  /\ changes \in 0..MaxChanges /\ changed \subseteq Paths
  /\ planted \in BOOLEAN /\ strayed \in BOOLEAN
  /\ Range(files) \subseteq RuleFiles
  /\ Range(rules) \subseteq RuleFiles \X RuleIds
  /\ seen <= Len(subject)

\* The directory in hand is the last to be read, the entry in hand the next to be visited;
\* rules are loaded when no directory is left, and returned when no file is.
Placed ==
  /\ pc = "root" => files = <<>>
  /\ pc \in {"look", "resolve", "list"} /\ access = "list" => subject = Last(pending)
  /\ pc \in {"look", "resolve", "stat"} /\ access = "stat" => subject = Head(listing)
  /\ Loading \/ Loaded => pending = <<>>
  /\ Loaded => files = <<>>

LEMMA EmptyHolds == Range(<<>>) = {} /\ IsInjective(<<>>)
BY DEF Range, IsInjective

LEMMA KindsInit == Init => Kinds
<1> SUFFICES ASSUME Init PROVE Kinds
  OBVIOUS
<1>1. fs \in [Paths -> Nodes] /\ seen <= Len(subject)
  BY TreesAssumption DEF Init, IsTree, Root
<1>2. planted \in BOOLEAN /\ strayed \in BOOLEAN
  BY DEF Init
<1> QED
  BY <1>1, <1>2, EmptyHolds, BoundAssumption DEF Init, Kinds

\* A step that changes no rule file in hand, no rule and no place in the library.
LEMMA KindsKept ==
  ASSUME Kinds, UNCHANGED <<fs, changes, changed, planted, subject, seen>>, strayed' \in BOOLEAN,
         Range(files') \subseteq Range(files), Range(rules') \subseteq Range(rules)
  PROVE  Kinds'
BY DEF Kinds

LEMMA KindsFail ==
  ASSUME Kinds, UNCHANGED <<fs, changes, changed, planted>>, strayed' \in BOOLEAN, Fails
  PROVE  Kinds'
BY FailsHow, KindsKept, EmptyHolds DEF checking

LEMMA KindsNext == Held /\ Kinds /\ [Next]_vars => Kinds'
<1> SUFFICES ASSUME Held, Kinds, [Next]_vars PROVE Kinds'
  OBVIOUS
<1>1. strayed \in BOOLEAN /\ \A links : LedThrough(links) => strayed' \in BOOLEAN
  BY DEF Kinds, LedThrough
<1>2. files \in Seq(Paths) /\ rules \in Seq(Paths \X RuleIds) /\ subject \in Paths /\ seen \in Nat
  BY DEF Held, SeqTypes, PathTypes
<1>3. CASE StartAtRoot
  <2>1. UNCHANGED <<fs, changes, changed, planted, strayed>>
    BY <1>3 DEF StartAtRoot
  <2>2. CASE Fails
    BY <1>1, <2>1, <2>2, KindsFail
  <2>3. CASE UNCHANGED <<checking, files, rules>>
    BY <1>1, <2>1, <2>3, KindsKept DEF checking
  <2> QED
    BY <1>3, <2>2, <2>3 DEF StartAtRoot, Fails
<1>4. ASSUME NEW p \in Paths, NEW step, CheckPath(p, step) PROVE Kinds'
  <2>1. 0 <= Len(p)
    BY PathsAssumption
  <2> QED
    BY <1>4, <2>1 DEF CheckPath, Kinds, loading
<1>5. CASE LookAtName
  <2>1. PICK q \in Paths :
          /\ IsPrefix(q, subject) /\ Len(q) = seen
          /\ LedThrough(ParentLinks(q))
          /\ \/ Fails
             \/ q # subject /\ seen' = seen + 1 /\ UNCHANGED <<subject, loading>>
             \/ UNCHANGED <<checking, loading>>
    BY <1>5 DEF LookAtName, Fails
  <2>2. UNCHANGED <<fs, changes, changed, planted>> /\ strayed' \in BOOLEAN
    BY <1>1, <1>5, <2>1 DEF LookAtName
  <2>3. CASE Fails
    BY <2>2, <2>3, KindsFail
  <2>4. CASE q # subject /\ seen' = seen + 1 /\ UNCHANGED <<subject, loading>>
    <3>1. seen < Len(subject) /\ Len(subject) \in Nat
      BY <1>2, <2>1, <2>4, StrictPrefixShorter, PathsAssumption
    <3>2. seen' <= Len(subject')
      BY <1>2, <2>4, <3>1
    <3> QED
      BY <2>2, <2>4, <3>2 DEF Kinds, loading
  <2>5. CASE UNCHANGED <<checking, loading>>
    BY <2>2, <2>5, KindsKept DEF checking, loading
  <2> QED
    BY <2>1, <2>3, <2>4, <2>5
<1>6. CASE Resolve
  <2>1. UNCHANGED <<fs, changes, changed, planted>> /\ strayed' \in BOOLEAN
    BY <1>1, <1>6 DEF Resolve
  <2>2. CASE Fails
    BY <2>1, <2>2, KindsFail
  <2>3. CASE UNCHANGED <<subject, seen, loading>>
    BY <2>1, <2>3, KindsKept DEF loading
  <2> QED
    BY <1>6, <2>2, <2>3 DEF Resolve, Fails
<1>7. CASE CheckDirectory
  BY <1>4, <1>7, LastType DEF CheckDirectory, Held, SeqTypes
<1>8. CASE ListDirectory
  <2>1. UNCHANGED <<fs, changes, changed, planted>> /\ strayed' \in BOOLEAN
    BY <1>1, <1>8 DEF ListDirectory
  <2>2. CASE Fails
    BY <2>1, <2>2, KindsFail
  <2>3. CASE UNCHANGED <<checking, files, rules>>
    BY <2>1, <2>3, KindsKept DEF checking
  <2> QED
    BY <1>8, <2>2, <2>3 DEF ListDirectory, Fails
<1>9. CASE CheckEntry
  BY <1>4, <1>9 DEF CheckEntry, Held, SeqTypes
<1>10. CASE StatEntry
  <2>1. UNCHANGED <<fs, changes, changed, planted>> /\ strayed' \in BOOLEAN
    BY <1>1, <1>10 DEF StatEntry
  <2>2. CASE Fails
    BY <2>1, <2>2, KindsFail
  <2>3. CASE files' = files /\ UNCHANGED <<checking, rules>>
    BY <2>1, <2>3, KindsKept DEF checking
  <2>4. CASE subject \in RuleFiles /\ files' = Append(files, subject) /\ UNCHANGED <<checking, rules>>
    <3>1. Range(files') = Range(files) \cup {subject}
      BY <1>2, <2>4, AppendHolds
    <3> QED
      BY <2>1, <2>4, <3>1 DEF Kinds, checking
  <2> QED
    BY <1>10, <2>2, <2>3, <2>4 DEF StatEntry, Fails
<1>11. CASE EndOfDirectory
  BY <1>1, <1>11, KindsKept DEF EndOfDirectory, checking
<1>12. CASE EndOfSearch
  <2>1. Range(files') = Range(files)
    BY <1>2, <1>12, ArrangementHolds DEF EndOfSearch
  <2> QED
    BY <1>1, <1>12, <2>1, KindsKept DEF EndOfSearch, checking
<1>13. CASE CheckFile
  BY <1>4, <1>13 DEF CheckFile, Held, SeqTypes
<1>14. CASE StatFile
  <2>1. UNCHANGED <<fs, changes, changed, planted>> /\ strayed' \in BOOLEAN
    BY <1>1, <1>14 DEF StatFile
  <2>2. CASE Fails
    BY <2>1, <2>2, KindsFail
  <2>3. CASE UNCHANGED <<checking, loading>>
    BY <2>1, <2>3, KindsKept DEF checking, loading
  <2> QED
    BY <1>14, <2>2, <2>3 DEF StatFile, Fails
<1>15. CASE ReadFile
  <2>1. UNCHANGED <<fs, changes, changed, planted>> /\ strayed' \in BOOLEAN
    BY <1>1, <1>15 DEF ReadFile, AddRule
  <2>2. CASE Fails
    BY <2>1, <2>2, KindsFail
  <2>3. ASSUME NEW id \in RuleIds, rules' = Append(rules, <<subject, id>>), files' = Tail(files),
               UNCHANGED checking
        PROVE  Kinds'
    <3>1. files # <<>> /\ subject = Head(files)
      BY <1>15 DEF ReadFile, AddRule, Held, InHand
    <3>2. Range(files') \subseteq Range(files) /\ subject \in Range(files)
      BY <1>2, <2>3, <3>1, TailHolds
    <3>3. Range(rules') = Range(rules) \cup {<<subject, id>>}
      <4>1. PICK rule \in Paths \X RuleIds : rule = <<subject, id>>
        BY <1>2, <2>3
      <4>2. Range(Append(rules, rule)) = Range(rules) \cup {rule}
        BY <1>2, RuleAppended
      <4> QED
        BY <2>3, <4>1, <4>2
    <3>4. \A rule \in Range(rules') : rule \in RuleFiles \X RuleIds
      BY <2>3, <3>2, <3>3 DEF Kinds
    <3>5. planted' \in BOOLEAN
      BY <2>1 DEF Kinds
    <3> QED
      BY <2>1, <2>3, <3>2, <3>4, <3>5 DEF Kinds, checking
  <2> QED
    BY <1>15, <2>2, <2>3 DEF ReadFile, AddRule, Fails
<1>16. CASE ReturnRules
  BY <1>1, <1>16, KindsKept DEF ReturnRules, checking, loading
<1>17. ASSUME NEW p \in Paths, NEW node \in Replacements, Replace(p, node) PROVE Kinds'
  <2>1. fs' \in [Paths -> Nodes]
    <3>1. \A q \in Paths : fs[q] \in Nodes
      BY DEF Kinds
    <3>2. node \in Nodes /\ "gone" \in Nodes
      BY ReplacementsAssumption DEF Nodes
    <3> QED
      BY <1>17, <3>1, <3>2 DEF Replace
  <2>2. changes' \in 0..MaxChanges /\ changed' \subseteq Paths
    BY <1>17, BoundAssumption DEF Replace, Kinds
  <2> QED
    BY <1>17, <2>1, <2>2 DEF Replace, Kinds, checking, loading
<1>18. CASE UNCHANGED vars
  BY <1>1, <1>18, KindsKept DEF vars, checking, loading
<1> QED
  BY <1>3, <1>5, <1>6, <1>7, <1>8, <1>9, <1>10, <1>11, <1>12, <1>13, <1>14, <1>15, <1>16, <1>17, <1>18
     DEF Next, Loader

LEMMA PlacedInit == Init => Placed
BY DEF Init, Placed, Loading, Loaded

LEMMA PlacedNext == Held /\ Ordered /\ Placed /\ [Next]_vars => Placed'
<1> SUFFICES ASSUME Held, Ordered, Placed, [Next]_vars PROVE Placed'
  OBVIOUS
<1>1. CASE Fails
  BY <1>1, FailsHow DEF Placed, Loading
<1> SUFFICES ASSUME ~Fails PROVE Placed'
  BY <1>1
<1> USE DEF Placed, Loading
<1>2. pc # "returned" => ~Loaded
  BY DEF Ordered, Pending, Loaded
<1>3. CASE StartAtRoot
  BY <1>2, <1>3 DEF StartAtRoot, Fails, Continue, Loaded
<1>4. ASSUME NEW p, NEW step, CheckPath(p, step), pc \in {"directory", "entries", "load"},
             \/ pc = "directory" /\ step = "list" /\ p = Last(pending)
             \/ pc = "entries" /\ step = "stat" /\ p = Head(listing)
             \/ pc = "load" /\ step = "regular"
      PROVE  Placed'
  BY <1>2, <1>4 DEF CheckPath, Continue, loading, Loaded
<1>5. CASE LookAtName
  BY <1>2, <1>5 DEF LookAtName, Fails, Continue, checking, loading, Loaded
<1>6. CASE Resolve
  <2>1. access \in {"list", "stat", "regular"}
    BY <1>6 DEF Resolve, Held, InHand
  <2> QED
    BY <1>2, <1>6, <2>1 DEF Resolve, Fails, Continue, loading, Loaded
<1>7. CASE CheckDirectory
  BY <1>4, <1>7 DEF CheckDirectory
<1>8. CASE ListDirectory
  BY <1>2, <1>8 DEF ListDirectory, Fails, Continue, checking, Loaded
<1>9. CASE CheckEntry
  BY <1>4, <1>9 DEF CheckEntry
<1>10. CASE StatEntry
  BY <1>2, <1>10 DEF StatEntry, Fails, Continue, checking, Loaded
<1>11. CASE EndOfDirectory
  BY <1>2, <1>11 DEF EndOfDirectory, Continue, checking, Loaded
<1>12. CASE EndOfSearch
  BY <1>2, <1>12 DEF EndOfSearch, Continue, checking, Loaded
<1>13. CASE CheckFile
  BY <1>4, <1>13 DEF CheckFile
<1>14. CASE StatFile
  BY <1>2, <1>14 DEF StatFile, Fails, Continue, checking, loading, Loaded
<1>15. CASE ReadFile
  <2>1. access = "regular"
    BY <1>15 DEF ReadFile, AddRule, Held, InHand
  <2> QED
    BY <1>2, <1>15, <2>1 DEF ReadFile, AddRule, Fails, Continue, checking, Loaded
<1>16. CASE ReturnRules
  BY <1>2, <1>16 DEF ReturnRules, checking, loading, Loaded
<1>17. CASE \E p \in Paths, node \in Replacements : Replace(p, node)
  BY <1>2, <1>17 DEF Replace, checking, loading, Loaded
<1>18. CASE UNCHANGED vars
  BY <1>18 DEF vars, checking, loading, Loaded
<1> QED
  BY <1>3, <1>5, <1>6, <1>7, <1>8, <1>9, <1>10, <1>11, <1>12, <1>13, <1>14, <1>15, <1>16, <1>17, <1>18
     DEF Next, Loader

-----------------------------------------------------------------------------
(* A library that is left alone.  What is still to be visited is open; a   *)
(* path that is there is settled, or below an open one.                     *)

Visiting ==
  \/ pc \in {"entries", "stat"}
  \/ pc \in {"look", "resolve"} /\ access = "stat"

Open ==
  Range(pending) \cup IF Visiting THEN Range(listing) \cup Range(subdirectories) ELSE {}

Origins == {rule[1] : rule \in Range(rules)}

Direct == pc \in {"list", "stat", "regular", "read"} => checked = subject

AsFound ==
  /\ \A p \in Range(pending) \cup Range(subdirectories) : fs[p] = "directory"
  /\ \A p \in Range(listing) : fs[p] # "gone"
  /\ \A p \in Range(files) : Regular(fs[p])
  /\ \A rule \in Range(rules) : fs[rule[1]] = rule[2]

Once ==
  /\ IsInjective(pending) /\ IsInjective(listing)
  /\ IsInjective(subdirectories) /\ IsInjective(files)

Disjoint ==
  /\ Visiting => Range(listing) \cap Range(subdirectories) = {}
  /\ Visiting => Range(pending) \cap (Range(listing) \cup Range(subdirectories)) = {}
  /\ Range(files) \cap Origins = {}

\* No open path leads to another, or to a file that was found.
Apart(open, found) ==
  /\ \A p, q \in open : IsPrefix(p, q) => p = q
  /\ \A p \in open, f \in found : ~IsPrefix(p, f)

\* The search is done with p, and p is as a whole library demands.
Settled(p, found) ==
  fs[p] # "link" /\ (p \in RuleFiles /\ fs[p] # "directory" => Regular(fs[p]) /\ p \in found)

Covered(open, found) ==
  \A p \in Paths : fs[p] # "gone" => Settled(p, found) \/ \E q \in open : IsPrefix(q, p)

Searching == pc # "root" /\ (pc = "returned" => Loaded)

Intact ==
  /\ Direct /\ AsFound /\ Once /\ Disjoint
  /\ Apart(Open, Range(files))
  /\ Searching => Covered(Open, Range(files) \cup Origins)

LEMMA IntactInit == Init => Intact
<1> SUFFICES ASSUME Init PROVE Intact
  OBVIOUS
<1>1. Open = {} /\ Range(files) = {} /\ Origins = {}
  BY EmptyHolds DEF Init, Open, Visiting, Origins
<1> QED
  BY <1>1, EmptyHolds DEF Init, Intact, Direct, AsFound, Once, Disjoint, Apart, Searching

LEMMA IntactBySets ==
  ASSUME UNCHANGED fs, Direct', AsFound', Once', Disjoint',
         NEW open, NEW found, NEW origins,
         Open' = open, Range(files') = found, Origins' = origins,
         Apart(open, found), Searching' => Covered(open, found \cup origins)
  PROVE  Intact'
BY DEF Intact, Apart, Covered, Settled

\* A step that looks, and moves nothing.
LEMMA IntactLooking ==
  ASSUME Intact, UNCHANGED <<fs, loading>>, Visiting' <=> Visiting, Searching, Direct'
  PROVE  Intact'
<1>1. Open' = Open /\ Range(files') = Range(files) /\ Origins' = Origins
  BY DEF Open, Origins, loading
<1>2. AsFound' /\ Once' /\ Disjoint'
  BY <1>1 DEF Intact, AsFound, Once, Disjoint, loading
<1> QED
  BY <1>1, <1>2, IntactBySets DEF Intact

LEMMA IntactFail ==
  ASSUME Intact, UNCHANGED fs, Fails
  PROVE  Intact'
<1>1. /\ pc' = "returned" /\ ~Loaded' /\ rules' = <<>>
      /\ UNCHANGED <<pending, listing, subdirectories, files>>
  BY FailsHow
<1>2. Open' = Range(pending) /\ Open' \subseteq Open /\ Origins' = {}
  BY <1>1, EmptyHolds DEF Open, Visiting, Origins
<1>3. Direct' /\ AsFound' /\ Once' /\ Disjoint'
  BY <1>1, <1>2, EmptyHolds DEF Intact, Direct, AsFound, Once, Disjoint, Visiting
<1>4. Apart(Range(pending), Range(files))
  BY <1>1, <1>2 DEF Intact, Apart
<1>5. ~Searching'
  BY <1>1 DEF Searching
<1> QED
  BY <1>1, <1>2, <1>3, <1>4, <1>5, IntactBySets

LEMMA IntactStart ==
  ASSUME Placed, Intact, StartAtRoot, ~Fails
  PROVE  Intact'
<1>1. /\ pc = "root" /\ pc' = "directory" /\ fs[Root] = "directory" /\ pending' = <<Root>>
      /\ UNCHANGED <<fs, checking, listing, subdirectories, files, rules>>
  BY DEF StartAtRoot, Fails, Continue
<1>2. Range(pending') = {Root} /\ IsInjective(pending')
  BY <1>1 DEF Range, IsInjective
<1>3. Open' = {Root} /\ Range(files') = {} /\ Origins' = Origins
  BY <1>1, <1>2, EmptyHolds DEF Open, Visiting, Origins, Placed
<1>4. Direct' /\ AsFound' /\ Once' /\ Disjoint'
  BY <1>1, <1>2, <1>3 DEF Intact, Direct, AsFound, Once, Disjoint, Visiting
<1>5. \A p \in Paths : IsPrefix(Root, p)
  <2> SUFFICES ASSUME NEW p \in Paths PROVE IsPrefix(Root, p)
    OBVIOUS
  <2>1. Len(Root) = 0 /\ 1..Len(Root) = {} /\ Len(p) \in Nat
    BY PathsAssumption DEF Root
  <2> QED
    BY <2>1, PrefixPointwise, RootIsPath
<1>6. Apart({Root}, {}) /\ Covered({Root}, {} \cup Origins)
  BY <1>5 DEF Apart, Covered
<1> QED
  BY <1>1, <1>3, <1>4, <1>6, IntactBySets

\* Reading a directory opens its entries in its place.
LEMMA ListedApart ==
  ASSUME NEW d \in Paths, NEW P \in SUBSET Paths, d \notin P, NEW F \in SUBSET Paths,
         Apart(P \cup {d}, F), NEW C \in SUBSET Entries(d)
  PROVE  Apart(P \cup C, F) /\ P \cap C = {}
<1>1. \A c \in C : c \in Paths /\ IsPrefix(d, c)
  BY EntryShape
<1>2. ASSUME NEW c \in C, NEW p \in P PROVE ~IsPrefix(c, p)
  <2>1. IsPrefix(c, p) => IsPrefix(d, p)
    BY <1>1, PrefixTransitive
  <2> QED
    BY <2>1 DEF Apart
<1>3. ASSUME NEW c \in C, NEW p \in P PROVE ~IsPrefix(p, c)
  <2>1. p # c
    BY <1>1, <1>2, PrefixReflexive
  <2>2. IsPrefix(p, c) => IsPrefix(p, d)
    BY <2>1, AboveEntry
  <2> QED
    BY <2>2 DEF Apart
<1>4. \A b, c \in C : IsPrefix(b, c) => b = c
  BY EntriesApart
<1>5. \A c \in C, f \in F : ~IsPrefix(c, f)
  <2> SUFFICES ASSUME NEW c \in C, NEW f \in F, IsPrefix(c, f) PROVE FALSE
    OBVIOUS
  <2>1. IsPrefix(d, f)
    BY <1>1, PrefixTransitive
  <2> QED
    BY <2>1 DEF Apart
<1>6. P \cap C = {}
  BY <1>1, <1>2, PrefixReflexive
<1> QED
  BY <1>2, <1>3, <1>4, <1>5, <1>6 DEF Apart

LEMMA ListedCovered ==
  ASSUME Rooted, NEW d \in Paths, fs[d] = "directory", NEW P, NEW X, Covered(P \cup {d}, X),
         NEW C, C = {c \in Entries(d) : fs[c] # "gone"}
  PROVE  Covered(P \cup C, X)
<1> SUFFICES ASSUME NEW p \in Paths, fs[p] # "gone", ~Settled(p, X)
             PROVE  \E q \in P \cup C : IsPrefix(q, p)
  BY DEF Covered
<1>1. PICK q \in P \cup {d} : IsPrefix(q, p)
  BY DEF Covered
<1>2. CASE q \in P
  BY <1>1, <1>2
<1>3. CASE q = d
  <2>1. p # d
    BY DEF Settled
  <2>2. PICK c \in Entries(d) : IsPrefix(c, p)
    BY <1>1, <1>3, <2>1, EntryOnTheWay
  <2>3. c \in Paths
    BY DEF Entries
  <2>4. fs[c] # "gone"
    <3>1. c = p \/ fs[c] = "directory"
      BY <2>2, <2>3 DEF Rooted, IsStrictPrefix
    <3> QED
      BY <3>1
  <2> QED
    BY <2>2, <2>4
<1> QED
  BY <1>1, <1>2, <1>3

LEMMA IntactList ==
  ASSUME Held, Linked, Placed, Intact, changed = {}, ListDirectory, ~Fails
  PROVE  Intact'
<1> DEFINE d == Last(pending)
           P == Range(pending')
           C == {c \in Entries(d) : fs[c] # "gone"}
<1>1. pc = "list" /\ access = "list" /\ pending # <<>> /\ pending \in Seq(Paths)
  BY DEF ListDirectory, Held, InHand, SeqTypes
<1>2. checked = d /\ d \in Paths /\ LinksOn(d) = {}
  <2>1. checked = d
    BY <1>1 DEF Intact, Direct, Placed
  <2>2. LinksOn(checked) = {}
    BY <1>1 DEF Linked, Resolved
  <2> QED
    BY <1>1, <2>1, <2>2, LastType
<1>3. /\ pc' = "entries" /\ listing' \in ByName(C) /\ pending' = Front(pending)
      /\ subdirectories' = <<>> /\ fs[d] = "directory" /\ UNCHANGED <<fs, checking, files, rules>>
  BY <1>2 DEF ListDirectory, Fails, Finds, Continue
<1>4. /\ Range(pending) = P \cup {d} /\ IsInjective(pending') /\ d \notin P
  BY <1>1, <1>3, FrontHolds DEF Intact, Once
<1>5. C \subseteq Entries(d) /\ C \subseteq Paths
  BY DEF Entries
<1>6. Range(listing') = C /\ IsInjective(listing')
  BY <1>3, <1>5, ByNameHolds
<1>7. Range(subdirectories') = {} /\ IsInjective(subdirectories')
  BY <1>3, EmptyHolds
<1>8. Range(pending) \subseteq Paths /\ Range(files) \subseteq Paths
  BY DEF Held, SeqTypes, Range
<1>9. Open = P \cup {d}
  BY <1>1, <1>4 DEF Open, Visiting
<1>10. Open' = P \cup C
  BY <1>3, <1>6, <1>7 DEF Open, Visiting
<1> HIDE DEF d, P, C
<1>11. Apart(P \cup C, Range(files)) /\ P \cap C = {}
  BY <1>2, <1>4, <1>5, <1>8, <1>9, ListedApart DEF Intact
<1>12. Covered(P \cup C, Range(files) \cup Origins)
  <2>1. Covered(P \cup {d}, Range(files) \cup Origins)
    BY <1>1, <1>9 DEF Intact, Searching
  <2> QED
    BY <1>2, <1>3, <2>1, ListedCovered DEF Linked, C
<1>13. Direct' /\ Origins' = Origins
  BY <1>3 DEF Direct, Origins
<1>14. AsFound'
  <2>1. \A p \in Range(listing') : fs[p] # "gone"
    BY <1>6 DEF C
  <2>2. \A p \in P : fs[p] = "directory"
    BY <1>4 DEF Intact, AsFound
  <2> QED
    BY <1>3, <1>7, <2>1, <2>2 DEF Intact, AsFound, P
<1>15. Once'
  BY <1>3, <1>4, <1>6, <1>7 DEF Intact, Once
<1>16. Disjoint'
  BY <1>3, <1>6, <1>7, <1>11, <1>13 DEF Intact, Disjoint, P
<1> QED
  BY <1>3, <1>10, <1>11, <1>12, <1>13, <1>14, <1>15, <1>16, IntactBySets

\* An entry that is no directory has nothing below it.
LEMMA VisitedCovered ==
  ASSUME Rooted, NEW h \in Paths, fs[h] \notin {"directory", "link"}, NEW O, NEW X, NEW Y,
         Covered(O, X), X \subseteq Y, h \in RuleFiles => Regular(fs[h]) /\ h \in Y
  PROVE  Covered(O \ {h}, Y)
<1> SUFFICES ASSUME NEW p \in Paths, fs[p] # "gone", ~Settled(p, Y)
             PROVE  \E q \in O \ {h} : IsPrefix(q, p)
  BY DEF Covered
<1>1. ~Settled(p, X) /\ p # h
  BY DEF Settled
<1>2. PICK q \in O : IsPrefix(q, p)
  BY <1>1 DEF Covered
<1>3. q # h
  BY <1>1, <1>2 DEF Rooted, IsStrictPrefix
<1> QED
  BY <1>2, <1>3

LEMMA IntactStat ==
  ASSUME Held, Linked, Ordered, Placed, Intact, changed = {}, StatEntry, ~Fails
  PROVE  Intact'
<1> DEFINE h == Head(listing)
           P == Range(pending)
           L == Range(listing')
           S == Range(subdirectories)
           F == Range(files)
<1>1. /\ pc = "stat" /\ access = "stat" /\ listing # <<>> /\ listing \in Seq(Paths)
      /\ files \in Seq(Paths) /\ subdirectories \in Seq(Paths)
  BY DEF StatEntry, Held, InHand, SeqTypes
<1>2. subject = h /\ checked = h /\ h \in Paths /\ LinksOn(h) = {}
  <2>1. checked = h /\ subject = h
    BY <1>1 DEF Intact, Direct, Placed
  <2>2. LinksOn(checked) = {}
    BY <1>1 DEF Linked, Resolved
  <2> QED
    BY <1>1, <2>1, <2>2
<1>3. fs[h] # "link"
  BY <1>2, PrefixReflexive DEF LinksOn
<1>4. ParentLinks(h) = {}
  BY <1>2 DEF ParentLinks
<1>5. /\ pc' = "entries" /\ listing' = Tail(listing)
      /\ UNCHANGED <<fs, checking, pending, rules>>
      /\ subdirectories' =
           IF fs[h] = "directory" THEN Append(subdirectories, h) ELSE subdirectories
      /\ files' =
           IF fs[h] # "directory" /\ h \in RuleFiles THEN Append(files, h) ELSE files
      /\ fs[h] # "directory" /\ h \in RuleFiles => Regular(fs[h])
  BY <1>2, <1>4 DEF StatEntry, Fails, Finds, Continue
<1>6. Range(listing) = {h} \cup L /\ IsInjective(listing') /\ h \notin L
  BY <1>1, <1>5, TailHolds DEF Intact, Once
<1>7. Open = P \cup {h} \cup L \cup S
  BY <1>1, <1>6 DEF Open, Visiting
<1>8. h \notin S /\ h \notin P /\ L \cap S = {} /\ P \cap (L \cup S) = {}
  BY <1>1, <1>6 DEF Intact, Disjoint, Visiting
<1>9. h \notin F
  BY <1>2, <1>7, PrefixReflexive DEF Intact, Apart
<1>10. /\ Range(subdirectories') = IF fs[h] = "directory" THEN S \cup {h} ELSE S
       /\ IsInjective(subdirectories')
  <2>1. IsInjective(subdirectories)
    BY DEF Intact, Once
  <2>2. /\ Range(Append(subdirectories, h)) = S \cup {h}
        /\ IsInjective(Append(subdirectories, h))
    BY <1>1, <1>2, <1>8, <2>1, AppendHolds
  <2> QED
    BY <1>5, <2>1, <2>2
<1>11. /\ Range(files') = IF fs[h] # "directory" /\ h \in RuleFiles THEN F \cup {h} ELSE F
       /\ IsInjective(files')
  <2>1. IsInjective(files)
    BY DEF Intact, Once
  <2>2. Range(Append(files, h)) = F \cup {h} /\ IsInjective(Append(files, h))
    BY <1>1, <1>2, <1>9, <2>1, AppendHolds
  <2> QED
    BY <1>5, <2>1, <2>2
<1>12. Open' = IF fs[h] = "directory" THEN Open ELSE Open \ {h}
  BY <1>5, <1>7, <1>6, <1>8, <1>10 DEF Open, Visiting
<1>13. Direct' /\ Origins' = Origins
  BY <1>5 DEF Direct, Origins
<1>14. Apart(Open, F) /\ Covered(Open, F \cup Origins) /\ F \cap Origins = {}
  BY <1>1 DEF Intact, Searching, Disjoint
<1>15. h \in Open
  BY <1>7
<1> HIDE DEF h, P, L, S, F
<1>16. Once'
  BY <1>5, <1>6, <1>10, <1>11 DEF Intact, Once
<1>17. AsFound'
  <2>1. \A p \in P \cup Range(subdirectories') : fs[p] = "directory"
    BY <1>10 DEF Intact, AsFound, P, S
  <2>2. \A p \in L : fs[p] # "gone"
    BY <1>6 DEF Intact, AsFound
  <2>3. \A p \in Range(files') : Regular(fs[p])
    BY <1>5, <1>11 DEF Intact, AsFound, F
  <2> QED
    BY <1>5, <2>1, <2>2, <2>3 DEF Intact, AsFound, Regular, P, L
<1>18. CASE fs[h] = "directory"
  <2>1. Disjoint'
    BY <1>5, <1>6, <1>8, <1>10, <1>11, <1>13, <1>14, <1>18 DEF Disjoint, P, L
  <2> QED
    BY <1>5, <1>11, <1>12, <1>13, <1>14, <1>16, <1>17, <1>18, <2>1, IntactBySets
<1>19. CASE fs[h] # "directory"
  <2>1. Covered(Open \ {h}, Range(files') \cup Origins)
    BY <1>2, <1>3, <1>5, <1>11, <1>14, <1>19, VisitedCovered DEF Linked
  <2>2. Apart(Open \ {h}, Range(files'))
    BY <1>11, <1>14, <1>15 DEF Apart
  <2>3. Range(files') \cap Origins = {}
    <3>1. rules = <<>>
      BY <1>1 DEF Ordered, Pending, Loading, Loaded
    <3>2. Origins = {}
      BY <3>1, EmptyHolds DEF Origins
    <3> QED
      BY <3>2
  <2>4. Disjoint'
    BY <1>5, <1>6, <1>8, <1>10, <1>13, <1>19, <2>3 DEF Disjoint, P, L
  <2> QED
    BY <1>5, <1>12, <1>13, <1>16, <1>17, <1>19, <2>1, <2>2, <2>4, IntactBySets
<1> QED
  BY <1>18, <1>19

LEMMA IntactEndOfDirectory ==
  ASSUME Held, Intact, EndOfDirectory
  PROVE  Intact'
<1> DEFINE P == Range(pending)
           S == Range(subdirectories)
<1>1. /\ pc = "entries" /\ listing = <<>> /\ pc' = "directory"
      /\ pending' = pending \o Reverse(subdirectories)
      /\ UNCHANGED <<fs, checking, listing, subdirectories, files, rules>>
  BY DEF EndOfDirectory, Continue
<1>2. pending \in Seq(Paths) /\ subdirectories \in Seq(Paths)
  BY DEF Held, SeqTypes
<1>3. IsInjective(pending) /\ IsInjective(subdirectories) /\ P \cap S = {}
  BY <1>1 DEF Intact, Once, Disjoint, Visiting
<1>4. Range(pending') = P \cup S /\ IsInjective(pending')
  BY <1>1, <1>2, <1>3, PushHolds
<1>5. Open = P \cup S
  BY <1>1, EmptyHolds DEF Open, Visiting
<1>6. Open' = Open /\ Range(files') = Range(files) /\ Origins' = Origins
  BY <1>1, <1>4, <1>5 DEF Open, Visiting, Origins
<1>7. Direct' /\ AsFound' /\ Once' /\ Disjoint'
  BY <1>1, <1>4, <1>6 DEF Intact, Direct, AsFound, Once, Disjoint, Visiting
<1> QED
  BY <1>1, <1>6, <1>7, IntactBySets DEF Intact, Searching

LEMMA IntactEndOfSearch ==
  ASSUME Held, Intact, EndOfSearch
  PROVE  Intact'
<1>1. /\ pc = "directory" /\ pc' = "load"
      /\ UNCHANGED <<fs, checking, pending, listing, subdirectories, rules>>
  BY DEF EndOfSearch, Continue
<1>2. files \in Seq(Paths)
  BY DEF Held, SeqTypes
<1>3. Range(files') = Range(files) /\ IsInjective(files')
  BY <1>2, ArrangementHolds DEF EndOfSearch, Intact, Once
<1>4. Open' = Open /\ Origins' = Origins
  BY <1>1 DEF Open, Visiting, Origins
<1>5. Direct' /\ AsFound' /\ Once' /\ Disjoint'
  BY <1>1, <1>3, <1>4 DEF Intact, Direct, AsFound, Once, Disjoint, Visiting
<1> QED
  BY <1>1, <1>3, <1>4, <1>5, IntactBySets DEF Intact, Searching

LEMMA IntactRead ==
  ASSUME Held, Linked, Placed, Intact, changed = {}, ReadFile, ~Fails
  PROVE  Intact'
<1> DEFINE h == Head(files)
           F == Range(files')
<1>1. /\ pc = "read" /\ access = "regular" /\ files # <<>> /\ subject = h /\ h \in Paths
      /\ files \in Seq(Paths) /\ rules \in Seq(Paths \X RuleIds)
  BY DEF ReadFile, AddRule, Held, InHand, SeqTypes
<1>2. checked = h /\ LinksOn(checked) = {}
  BY <1>1 DEF Intact, Direct, Linked, Resolved
<1>3. PICK id \in RuleIds :
        /\ fs[h] = id /\ rules' = Append(rules, <<h, id>>) /\ files' = Tail(files) /\ pc' = "load"
        /\ UNCHANGED <<fs, checking, pending, listing, subdirectories>>
  BY <1>1, <1>2 DEF ReadFile, AddRule, Fails, Finds, Continue
<1>4. PICK rule \in Paths \X RuleIds : rule = <<h, id>>
  BY <1>1
<1>5. Range(rules') = Range(rules) \cup {rule}
  BY <1>1, <1>3, <1>4, RuleAppended
<1>6. rule[1] = h /\ rule[2] = id
  BY <1>4
<1>7. Range(files) = {h} \cup F /\ IsInjective(files') /\ h \notin F
  BY <1>1, <1>3, TailHolds DEF Intact, Once
<1>8. Origins' = Origins \cup {h}
  BY <1>5, <1>6 DEF Origins
<1>9. Open = {} /\ Open' = {}
  BY <1>1, <1>3, EmptyHolds DEF Open, Visiting, Placed, Loading
<1> HIDE DEF h, F
<1>10. Direct'
  BY <1>3 DEF Direct
<1>11. AsFound'
  BY <1>3, <1>5, <1>6, <1>7 DEF Intact, AsFound, F
<1>12. Once'
  BY <1>3, <1>7 DEF Intact, Once
<1>13. Disjoint'
  BY <1>3, <1>7, <1>8 DEF Intact, Disjoint, Visiting, F
<1>14. Apart({}, F)
  BY DEF Apart
<1>15. F \cup (Origins \cup {h}) = Range(files) \cup Origins
  BY <1>7
<1>16. Covered({}, F \cup (Origins \cup {h}))
  BY <1>1, <1>9, <1>15 DEF Intact, Searching
<1>17. Range(files') = F
  BY DEF F
<1> QED
  BY <1>3, <1>8, <1>9, <1>10, <1>11, <1>12, <1>13, <1>14, <1>16, <1>17, IntactBySets

LEMMA IntactCheck ==
  ASSUME Intact, NEW p, NEW step, CheckPath(p, step), pc \in {"directory", "entries", "load"},
         step = "stat" <=> pc = "entries"
  PROVE  Intact'
<1>1. pc' = "look" /\ access' = step /\ UNCHANGED <<fs, loading>>
  BY DEF CheckPath, Continue
<1>2. Direct' /\ (Visiting' <=> Visiting) /\ Searching
  BY <1>1 DEF Direct, Visiting, Searching
<1> QED
  BY <1>1, <1>2, IntactLooking

LEMMA IntactNext ==
  ASSUME Held, Linked, Ordered, Placed, Intact, changed = {}, changed' = {}, [Next]_vars
  PROVE  Intact'
<1>1. ASSUME NEW p \in Paths, NEW node \in Replacements, Replace(p, node) PROVE FALSE
  BY <1>1, PrefixReflexive DEF Replace
<1>2. UNCHANGED fs
  BY <1>1 DEF Next, Loader, vars, StartAtRoot, LookAtName, Resolve, CheckDirectory, ListDirectory,
              CheckEntry, StatEntry, EndOfDirectory, EndOfSearch, CheckFile, StatFile, ReadFile,
              AddRule, ReturnRules, CheckPath
<1>3. CASE Fails
  BY <1>2, <1>3, IntactFail
<1> SUFFICES ASSUME ~Fails PROVE Intact'
  BY <1>3
<1>4. CASE StartAtRoot
  BY <1>4, IntactStart
<1>5. CASE LookAtName
  <2>1. pc = "look" /\ pc' \in {"look", "resolve"} /\ UNCHANGED <<access, loading>>
    BY <1>5 DEF LookAtName, Fails, Continue, checking
  <2>2. Direct' /\ (Visiting' <=> Visiting) /\ Searching
    BY <2>1 DEF Direct, Visiting, Searching
  <2> QED
    BY <1>2, <2>1, <2>2, IntactLooking
<1>6. CASE Resolve
  <2>1. /\ pc = "resolve" /\ pc' = access /\ access \in {"list", "stat", "regular"}
        /\ UNCHANGED <<access, subject, loading>> /\ checked' \in Targets(subject)
    BY <1>6 DEF Resolve, Fails, Continue, Held, InHand
  <2>2. LinksOn(subject) = {}
    BY <2>1 DEF Linked, Resolved
  <2>3. Direct'
    BY <2>1, <2>2 DEF Direct, Targets
  <2>4. (Visiting' <=> Visiting) /\ Searching
    BY <2>1 DEF Visiting, Searching
  <2> QED
    BY <1>2, <2>1, <2>3, <2>4, IntactLooking
<1>7. CASE CheckDirectory
  BY <1>7, IntactCheck DEF CheckDirectory
<1>8. CASE ListDirectory
  BY <1>8, IntactList
<1>9. CASE CheckEntry
  BY <1>9, IntactCheck DEF CheckEntry
<1>10. CASE StatEntry
  BY <1>10, IntactStat
<1>11. CASE EndOfDirectory
  BY <1>11, IntactEndOfDirectory
<1>12. CASE EndOfSearch
  BY <1>12, IntactEndOfSearch
<1>13. CASE CheckFile
  BY <1>13, IntactCheck DEF CheckFile
<1>14. CASE StatFile
  <2>1. pc = "regular" /\ pc' = "read" /\ UNCHANGED <<checking, loading>>
    BY <1>14 DEF StatFile, Fails, Continue
  <2>2. Direct' /\ (Visiting' <=> Visiting) /\ Searching
    BY <2>1 DEF Intact, Direct, Visiting, Searching, checking
  <2> QED
    BY <1>2, <2>1, <2>2, IntactLooking
<1>15. CASE ReadFile
  BY <1>15, IntactRead
<1>16. CASE ReturnRules
  <2>1. pc = "load" /\ pc' = "returned" /\ UNCHANGED <<checking, loading>>
    BY <1>16 DEF ReturnRules
  <2>2. Direct' /\ (Visiting' <=> Visiting) /\ Searching
    BY <2>1 DEF Direct, Visiting, Searching
  <2> QED
    BY <1>2, <2>1, <2>2, IntactLooking
<1>17. CASE UNCHANGED vars
  BY <1>17 DEF vars, checking, loading, Intact, Direct, AsFound, Once, Disjoint, Open, Visiting,
               Origins, Apart, Covered, Settled, Searching, Loaded
<1> QED
  BY <1>1, <1>4, <1>5, <1>6, <1>7, <1>8, <1>9, <1>10, <1>11, <1>12, <1>13, <1>14, <1>15, <1>16,
     <1>17 DEF Next, Loader

-----------------------------------------------------------------------------
(* The errors.                                                              *)

\* What is looked at was found by the search.
LEMMA SubjectIsThere ==
  ASSUME Held, Placed, Intact, pc = "look"
  PROVE  fs[subject] # "gone"
<1>1. access \in {"list", "stat", "regular"}
  BY DEF Held, InHand
<1>2. pending \in Seq(Paths) /\ listing \in Seq(Paths) /\ files \in Seq(Paths)
  BY DEF Held, SeqTypes
<1>3. CASE access = "list"
  <2>1. pending # <<>> /\ subject = Last(pending)
    BY <1>3 DEF Held, InHand, Placed
  <2>2. subject \in Range(pending)
    BY <1>2, <2>1, FrontHolds
  <2> QED
    BY <2>2 DEF Intact, AsFound
<1>4. CASE access = "stat"
  <2>1. listing # <<>> /\ subject = Head(listing)
    BY <1>4 DEF Held, InHand, Placed
  <2>2. subject \in Range(listing)
    BY <1>2, <2>1, TailHolds
  <2> QED
    BY <2>2 DEF Intact, AsFound
<1>5. CASE access = "regular"
  <2>1. files # <<>> /\ subject = Head(files)
    BY <1>5 DEF Held, InHand
  <2>2. subject \in Range(files)
    BY <1>2, <2>1, TailHolds
  <2> QED
    BY <2>2, ContentsAssumption DEF Intact, AsFound, Regular
<1> QED
  BY <1>1, <1>3, <1>4, <1>5

\* A reply that needs no justification.
LEMMA PlainReply ==
  ASSUME reply'[1] \in {"none", "ok", "absolute_root_required", "invalid_root", "path_error",
                        "read_error"}
  PROVE  RefusalsAreJustified'
BY ContentsAssumption DEF RefusalsAreJustified

LEMMA RefusedLook ==
  ASSUME Held, Linked, Linked', Placed, Intact, changed = {}, changed' = {}, LookAtName, Fails
  PROVE  RefusalsAreJustified'
<1>1. PICK q \in Paths :
        /\ IsPrefix(q, subject) /\ LedThrough(ParentLinks(q))
        /\ \/ reply' = <<"path_error", subject>>
           \/ "link" \in Finds(q, ParentLinks(q)) /\ reply' = <<"unsafe_path", subject>>
  BY FailsHow DEF LookAtName, Fail, Continue
<1>2. pc = "look" /\ UNCHANGED fs
  BY DEF LookAtName
<1>3. CASE reply' = <<"path_error", subject>>
  BY <1>3, PlainReply
<1>4. CASE "link" \in Finds(q, ParentLinks(q)) /\ reply' = <<"unsafe_path", subject>>
  <2>1. ParentLinks(q) = {}
    BY <1>1 DEF Linked, LinksArePlanted, OnlyNewLinksLeadAstray, LedThrough
  <2>2. fs[q] = "link"
    BY <1>4, <2>1 DEF Finds
  <2>3. subject \in Paths
    BY DEF Held, PathTypes
  <2>4. q = subject
    BY <1>1, <1>2, <2>2, <2>3, SubjectIsThere DEF Linked, Rooted, IsStrictPrefix
  <2>5. reply'[1] = "unsafe_path" /\ reply'[2] = subject
    BY <1>4
  <2> QED
    BY <1>2, <2>2, <2>4, <2>5, ContentsAssumption DEF RefusalsAreJustified
<1> QED
  BY <1>1, <1>3, <1>4

LEMMA RefusedStat ==
  ASSUME Held, Linked, Kinds, Placed, Intact, changed = {}, StatEntry, Fails
  PROVE  RefusalsAreJustified'
<1>1. pc = "stat" /\ UNCHANGED fs
  BY DEF StatEntry
<1>2. checked = subject /\ LinksOn(subject) = {} /\ subject \in Paths
  BY <1>1 DEF Intact, Direct, Linked, Resolved, Held, PathTypes
<1>3. fs[subject] # "link" /\ ParentLinks(subject) = {}
  BY <1>2, PrefixReflexive DEF LinksOn, ParentLinks
<1>4. \/ reply' = <<"path_error", subject>>
      \/ /\ fs[subject] \notin {"gone", "directory"} /\ subject \in RuleFiles
         /\ ~Regular(fs[subject]) /\ reply' = <<"not_regular_file", subject>>
  BY <1>1, <1>2, <1>3, FailsHow DEF StatEntry, Fail, Continue, Finds
<1>5. CASE reply' = <<"path_error", subject>>
  BY <1>5, PlainReply
<1>6. CASE /\ fs[subject] \notin {"gone", "directory"} /\ subject \in RuleFiles
           /\ ~Regular(fs[subject]) /\ reply' = <<"not_regular_file", subject>>
  <2>1. fs[subject] \in Nodes
    BY <1>2 DEF Kinds
  <2>2. fs[subject] = "special"
    BY <1>3, <1>6, <2>1 DEF Nodes, Regular
  <2>3. reply'[1] = "not_regular_file" /\ reply'[2] = subject
    BY <1>6
  <2> QED
    BY <1>1, <1>6, <2>2, <2>3, ContentsAssumption DEF RefusalsAreJustified
<1> QED
  BY <1>4, <1>5, <1>6

LEMMA RefusedStatFile ==
  ASSUME Held, Linked, Intact, changed = {}, StatFile, Fails
  PROVE  RefusalsAreJustified'
<1>1. pc = "regular"
  BY DEF StatFile
<1>2. /\ checked = subject /\ LinksOn(subject) = {}
      /\ files \in Seq(Paths) /\ files # <<>> /\ subject = Head(files)
  BY <1>1 DEF Intact, Direct, Linked, Resolved, Held, InHand, SeqTypes
<1>3. Regular(fs[subject])
  BY <1>2, TailHolds DEF Intact, AsFound
<1>4. ParentLinks(subject) = {}
  BY <1>2 DEF ParentLinks
<1>5. reply' = <<"read_error", subject>>
  BY <1>1, <1>2, <1>3, <1>4, FailsHow DEF StatFile, Fail, Continue, Finds
<1> QED
  BY <1>5, PlainReply

LEMMA RefusedRead ==
  ASSUME Held, Linked, Ordered, Kinds, Placed, Intact, changed = {}, ReadFile, Fails
  PROVE  RefusalsAreJustified'
<1>1. pc = "read" /\ UNCHANGED fs
  BY DEF ReadFile, AddRule
<1>2. /\ checked = subject /\ LinksOn(subject) = {} /\ subject \in Paths
      /\ files \in Seq(Paths) /\ files # <<>> /\ subject = Head(files)
  BY <1>1 DEF Intact, Direct, Linked, Resolved, Held, InHand, SeqTypes, PathTypes
<1>3. \/ reply' = <<"read_error", subject>>
      \/ \E fault \in Faults : fs[subject] = fault /\ reply' = <<fault, subject>>
      \/ \E i \in DOMAIN rules :
           /\ fs[subject] \in RuleIds /\ rules[i][2] = fs[subject]
           /\ reply' = <<"duplicate_rule_id", rules[i][1], subject>>
  BY <1>1, <1>2, FailsHow DEF ReadFile, AddRule, Fail, Continue, Finds
<1>4. CASE reply' = <<"read_error", subject>>
  BY <1>4, PlainReply
<1>5. CASE \E fault \in Faults : fs[subject] = fault /\ reply' = <<fault, subject>>
  <2>1. reply'[1] \in Faults /\ reply'[1] = fs[subject] /\ reply'[2] = subject
    BY <1>5
  <2> QED
    BY <1>1, <2>1, ContentsAssumption DEF RefusalsAreJustified
<1>6. ASSUME NEW i \in DOMAIN rules, fs[subject] \in RuleIds, rules[i][2] = fs[subject],
             reply' = <<"duplicate_rule_id", rules[i][1], subject>>
      PROVE  RefusalsAreJustified'
  <2>1. PICK p : p = rules[i][1]
    OBVIOUS
  <2>2. p \in RuleFiles /\ p \in Origins /\ fs[p] = fs[subject]
    <3>1. rules[i] \in Range(rules)
      BY <1>6 DEF Range
    <3>2. rules[i] \in RuleFiles \X RuleIds
      BY <3>1 DEF Kinds
    <3> QED
      BY <1>6, <2>1, <3>1, <3>2 DEF Origins, Intact, AsFound
  <2>3. subject \in Range(files)
    BY <1>2, TailHolds
  <2>4. p # subject
    BY <2>2, <2>3 DEF Intact, Disjoint
  <2>5. RulesInOrder /\ RulesBeforeFiles
    BY <1>1 DEF Ordered, Loading
  <2>6. \A f \in Range(files) : ~PathBefore(f, p)
    BY <1>6, <2>1, <2>5 DEF RulesBeforeFiles, Range
  <2>7. p \in Paths
    BY <2>2, PathsAssumption
  <2>8. PathBefore(p, subject)
    BY <1>2, <2>3, <2>4, <2>6, <2>7, OrderAssumption
  <2>9. ASSUME NEW r \in RuleFiles, fs[r] = fs[p] PROVE ~PathBefore(r, p)
    <3>1. r \in Paths
      BY PathsAssumption
    <3>2. Regular(fs[r]) /\ fs[r] \notin {"gone", "directory"}
      BY <1>6, <2>2, <2>9, ContentsAssumption DEF Regular
    <3>3. Open = {}
      BY <1>1, EmptyHolds DEF Open, Visiting, Placed, Loading
    <3>4. r \in Range(files) \cup Origins
      BY <1>1, <3>1, <3>2, <3>3 DEF Intact, Searching, Covered, Settled
    <3>5. CASE r \in Range(files)
      BY <2>6, <3>5
    <3>6. CASE r \in Origins
      <4>1. PICK rule \in Range(rules) : rule[1] = r
        BY <3>6 DEF Origins
      <4>2. PICK j \in DOMAIN rules : rules[j] = rule
        BY DEF Range
      <4>3. rules[j][2] = rules[i][2] /\ rules[j][1] = r
        BY <1>6, <2>2, <2>9, <4>1, <4>2 DEF Intact, AsFound
      <4>4. i \in Int /\ j \in Int
        BY <1>6, <4>2 DEF Held, SeqTypes
      <4>5. i = j
        BY <1>6, <2>5, <4>2, <4>3, <4>4 DEF RulesInOrder
      <4>6. r = p
        BY <2>1, <4>3, <4>5
      <4> QED
        BY <2>7, <4>6, OrderAssumption
    <3> QED
      BY <3>4, <3>5, <3>6
  <2>10. reply'[1] = "duplicate_rule_id" /\ reply'[2] = p /\ reply'[3] = subject
    BY <1>6, <2>1
  <2> QED
    BY <1>1, <1>6, <2>2, <2>8, <2>9, <2>10, ContentsAssumption DEF RefusalsAreJustified
<1> QED
  BY <1>3, <1>4, <1>5, <1>6

LEMMA RefusalsNext ==
  ASSUME Held, Linked, Linked', Ordered, Kinds, Placed, changed = {} => Intact,
         RefusalsAreJustified, [Next]_vars
  PROVE  RefusalsAreJustified'
<1> SUFFICES ASSUME changed' = {} PROVE RefusalsAreJustified'
  BY DEF RefusalsAreJustified
<1>1. ASSUME NEW p \in Paths, NEW node \in Replacements, Replace(p, node) PROVE FALSE
  BY <1>1, PrefixReflexive DEF Replace
<1>2. UNCHANGED <<fs, changed>>
  BY <1>1 DEF Next, Loader, vars, StartAtRoot, LookAtName, Resolve, CheckDirectory, ListDirectory,
              CheckEntry, StatEntry, EndOfDirectory, EndOfSearch, CheckFile, StatFile, ReadFile,
              AddRule, ReturnRules, CheckPath
<1>3. changed = {} /\ Intact
  BY <1>2
<1>4. CASE UNCHANGED reply
  BY <1>2, <1>4 DEF RefusalsAreJustified
<1>5. CASE StartAtRoot /\ Fails
  <2>1. PICK error \in {"absolute_root_required", "invalid_root"} : reply' = <<error, Root>>
    BY <1>5, FailsHow DEF StartAtRoot, Fail, Continue
  <2> QED
    BY <2>1, PlainReply
<1>6. CASE LookAtName /\ Fails
  BY <1>3, <1>6, RefusedLook
<1>7. CASE Resolve /\ Fails
  <2>1. LinksOn(subject) = {}
    BY <1>3, <1>7 DEF Resolve, Linked, Resolved
  <2>2. access # "returned"
    BY <1>7 DEF Resolve, Held, InHand
  <2>3. reply' = <<"path_error", subject>>
    BY <1>7, <2>1, <2>2, FailsHow DEF Resolve, Fail, Continue
  <2> QED
    BY <2>3, PlainReply
<1>8. CASE ListDirectory /\ Fails
  <2>1. reply' = <<"read_error", subject>>
    BY <1>8, FailsHow DEF ListDirectory, Fail, Continue
  <2> QED
    BY <2>1, PlainReply
<1>9. CASE StatEntry /\ Fails
  BY <1>3, <1>9, RefusedStat
<1>10. CASE StatFile /\ Fails
  BY <1>3, <1>10, RefusedStatFile
<1>11. CASE ReadFile /\ Fails
  BY <1>3, <1>11, RefusedRead
<1>12. CASE ReturnRules
  <2>1. reply'[1] = "ok"
    BY <1>12 DEF ReturnRules
  <2> QED
    BY <2>1, PlainReply
<1>13. CASE Loader /\ ~Fails /\ ~ReturnRules
  <2>1. UNCHANGED reply
    BY <1>13 DEF Loader, Fails, StartAtRoot, LookAtName, Resolve, CheckDirectory, ListDirectory,
                 CheckEntry, StatEntry, EndOfDirectory, EndOfSearch, CheckFile, StatFile, ReadFile,
              AddRule,
                 CheckPath, Continue
  <2> QED
    BY <1>4, <2>1
<1>14. CASE CheckDirectory \/ CheckEntry \/ CheckFile \/ EndOfDirectory \/ EndOfSearch
  BY <1>4, <1>14 DEF CheckDirectory, CheckEntry, CheckFile, EndOfDirectory, EndOfSearch, CheckPath,
                     Continue
<1>15. CASE UNCHANGED vars
  BY <1>4, <1>15 DEF vars
<1> QED
  BY <1>1, <1>5, <1>6, <1>7, <1>8, <1>9, <1>10, <1>11, <1>12, <1>13, <1>14, <1>15 DEF Next, Loader

-----------------------------------------------------------------------------

LoaderInv ==
  /\ Held /\ Linked /\ Ordered /\ Kinds /\ Placed
  /\ changed = {} => Intact
  /\ RefusalsAreJustified

LEMMA LoaderInvariant == Spec => []LoaderInv
<1>1. Init => LoaderInv
  <2>1. Init => RefusalsAreJustified
    BY ContentsAssumption DEF Init, RefusalsAreJustified
  <2> QED
    BY <2>1, HeldInit, LinkedInit, OrderedInit, KindsInit, PlacedInit, IntactInit DEF LoaderInv
<1>2. LoaderInv /\ [Next]_vars => LoaderInv'
  <2> SUFFICES ASSUME LoaderInv, [Next]_vars PROVE LoaderInv'
    OBVIOUS
  <2>1. /\ Held' /\ Linked' /\ Ordered' /\ Kinds' /\ Placed'
    BY HeldNext, LinkedNext, OrderedNext, KindsNext, PlacedNext DEF LoaderInv
  <2>2. changed' = {} => changed = {}
    BY DEF Next, Loader, vars, StartAtRoot, LookAtName, Resolve, CheckDirectory, ListDirectory,
           CheckEntry, StatEntry, EndOfDirectory, EndOfSearch, CheckFile, StatFile, ReadFile,
              AddRule,
           ReturnRules, CheckPath, Replace
  <2>3. changed' = {} => Intact'
    BY <2>2, IntactNext DEF LoaderInv
  <2>4. RefusalsAreJustified'
    BY <2>1, RefusalsNext DEF LoaderInv
  <2> QED
    BY <2>1, <2>3, <2>4 DEF LoaderInv
<1> QED
  BY <1>1, <1>2, PTL DEF Spec

\* What the search holds are paths, and in a library left alone each of them once.
THEOREM SearchWellTyped == Spec => []TypeOK
<1>1. ASSUME LoaderInv PROVE TypeOK
  <2>1. files \in Seq(RuleFiles)
    BY <1>1, RangeType DEF LoaderInv, Held, SeqTypes, Kinds
  <2>2. rules \in Seq(RuleFiles \X RuleIds)
    <3> DEFINE S == Paths \X RuleIds
               T == RuleFiles \X RuleIds
    <3>1. rules \in Seq(S) /\ Range(rules) \subseteq T
      BY <1>1 DEF LoaderInv, Held, SeqTypes, Kinds
    <3> HIDE DEF S, T
    <3>2. rules \in Seq(T)
      BY <3>1, RangeType
    <3> QED
      BY <3>2 DEF T
  <2>3. IsTree(fs)
    BY <1>1 DEF LoaderInv, Kinds, Linked, Rooted, IsTree
  <2>4. seen \in 0..Len(subject)
    <3>1. seen \in Nat /\ Len(subject) \in Nat /\ seen <= Len(subject)
      BY <1>1, PathsAssumption DEF LoaderInv, Held, PathTypes, Kinds
    <3> QED
      BY <3>1
  <2>5. changed = {} => \A queue \in {pending, listing, subdirectories, files} :
                           \A i, j \in DOMAIN queue : queue[i] = queue[j] => i = j
    BY <1>1 DEF LoaderInv, Intact, Once, IsInjective
  <2> QED
    BY <1>1, <2>1, <2>2, <2>3, <2>4, <2>5 DEF LoaderInv, Held, SeqTypes, PathTypes, Kinds, TypeOK
<1> QED
  BY <1>1, LoaderInvariant, PTL

\* If no one changes the library, load_detection_rules returns the rule of every rule file
\* in it and nothing else, whatever the shape of the tree, or it returns an error.
THEOREM LibrariesAreWhole == Spec => []WholeLibraryLoaded
<1>1. ASSUME LoaderInv PROVE WholeLibraryLoaded
  <2> SUFFICES ASSUME Loaded, changed = {}
               PROVE  /\ \A p \in Paths : fs[p] # "link"
                      /\ \A p \in RuleFiles : fs[p] \in {"gone", "directory"} \cup RuleIds
                      /\ Range(rules) = {<<p, fs[p]>> : p \in {q \in RuleFiles : fs[q] \in RuleIds}}
    BY DEF WholeLibraryLoaded
  <2>1. Intact /\ Kinds /\ Placed /\ pc = "returned"
    BY <1>1 DEF LoaderInv, Ordered, Pending, Loaded
  <2>2. Open = {} /\ Range(files) = {}
    BY <2>1, EmptyHolds DEF Open, Visiting, Placed
  <2>3. \A p \in Paths : fs[p] # "gone" => Settled(p, Origins)
    BY <2>1, <2>2 DEF Intact, Searching, Covered
  <2>4. \A p \in Paths : fs[p] # "link"
    BY <2>3 DEF Settled
  <2>5. \A p \in RuleFiles : fs[p] \notin {"gone", "directory"} => p \in Origins
    BY <2>3, PathsAssumption DEF Settled
  <2>6. \A rule \in Range(rules) : rule = <<rule[1], fs[rule[1]]>> /\ rule[1] \in RuleFiles
                                   /\ fs[rule[1]] \in RuleIds
    BY <2>1 DEF Intact, AsFound, Kinds
  <2>7. \A p \in Origins : fs[p] \in RuleIds /\ <<p, fs[p]>> \in Range(rules)
    BY <2>6 DEF Origins
  <2>8. \A p \in RuleFiles : fs[p] \in {"gone", "directory"} \cup RuleIds
    BY <2>5, <2>7
  <2>9. \A p \in RuleFiles : fs[p] \in RuleIds => <<p, fs[p]>> \in Range(rules)
    BY <2>5, <2>7, ContentsAssumption
  <2> QED
    BY <2>4, <2>6, <2>8, <2>9
<1> QED
  BY <1>1, LoaderInvariant, PTL

\* In a library left alone an error names what is wrong with it: the link, the special
\* file, the faulty content, or the first of the files that hold the same ID.
THEOREM LoadRefusalsJustified == Spec => []RefusalsAreJustified
<1>1. LoaderInv => RefusalsAreJustified
  BY DEF LoaderInv
<1> QED
  BY <1>1, LoaderInvariant, PTL

=============================================================================
