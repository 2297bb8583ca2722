-------------------------- MODULE AlertEvidenceProofs --------------------------
(***************************************************************************)
(* Proofs about AlertEvidence, for every set of values, every validation   *)
(* and heaps of any size: what an alert owns the caller does not reach.    *)
(***************************************************************************)
EXTENDS AlertEvidence, TLAPS

Objects == Cells \cup Matches

\* The matches anyone refers to.
Refs == held \cup {alerts[a] : a \in DOMAIN alerts}

\* What the caller may change.
Reachable ==
  {Event, RuleList} \cup held \cup {heap[m].event : m \in held} \cup {heap[m].list : m \in held}

Typed ==
  /\ heap \in Seq(Objects)
  /\ IsCell(Event) /\ IsCell(RuleList)
  /\ \A m \in Refs : IsMatch(m)
  /\ DOMAIN alerts \subseteq AlertNames /\ forged \subseteq DOMAIN alerts

\* No part of the match is within the caller's reach.
Apart(m) == m \notin Reachable /\ heap[m].event \notin Reachable /\ heap[m].list \notin Reachable

\* Alerts the library made are apart.
Isolated == \A a \in Owners : Apart(alerts[a])

\* No match refers to the rule's own list.
RuleApart == \A m \in Refs : heap[m].event # RuleList /\ heap[m].list # RuleList

Agrees(m) ==
  /\ heap[m].quotes = heap[heap[m].event].value
  /\ heap[heap[m].list].value = heap[m].asked

Inv == Typed /\ Isolated /\ RuleApart /\ (~touched => \A m \in Refs : Agrees(m))

-----------------------------------------------------------------------------
(* Sequences and objects.                                                    *)

LEMMA AppendTwo ==
  ASSUME NEW S, NEW h \in Seq(S), NEW x \in S, NEW y \in S, NEW g, g = h \o <<x, y>>
  PROVE  /\ g \in Seq(S) /\ Len(g) = Len(h) + 2
         /\ \A i \in 1..Len(h) : g[i] = h[i]
         /\ g[Len(h) + 1] = x /\ g[Len(h) + 2] = y
OBVIOUS

LEMMA AppendThree ==
  ASSUME NEW S, NEW h \in Seq(S), NEW x \in S, NEW y \in S, NEW z \in S, NEW g,
         g = h \o <<x, y, z>>
  PROVE  /\ g \in Seq(S) /\ Len(g) = Len(h) + 3
         /\ \A i \in 1..Len(h) : g[i] = h[i]
         /\ g[Len(h) + 1] = x /\ g[Len(h) + 2] = y /\ g[Len(h) + 3] = z
OBVIOUS

LEMMA CellsAreNoMatches ==
  ASSUME NEW o \in Cells, o \in Matches
  PROVE  FALSE
<1>1. DOMAIN o = {"value"}
  BY DEF Cells
<1>2. DOMAIN o = {"event", "list", "quotes", "asked"}
  BY DEF Matches
<1> QED  BY <1>1, <1>2

LEMMA CellValue ==
  ASSUME NEW v \in Values
  PROVE  Cell(v) \in Cells /\ Cell(v).value = v
BY DEF Cell, Cells

LEMMA CellHolds ==
  ASSUME NEW o \in Cells
  PROVE  o.value \in Values
BY DEF Cells

LEMMA MatchFields ==
  ASSUME NEW e \in Nat, NEW l \in Nat, NEW q \in Values, NEW k \in Valid
  PROVE  /\ Match(e, l, q, k) \in Matches
         /\ Match(e, l, q, k).event = e /\ Match(e, l, q, k).list = l
         /\ Match(e, l, q, k).quotes = q /\ Match(e, l, q, k).asked = k
BY DEF Match, Matches

LEMMA MatchTypes ==
  ASSUME NEW o \in Matches
  PROVE  o.event \in Nat /\ o.list \in Nat /\ o.quotes \in Values /\ o.asked \in Valid
BY DEF Matches

-----------------------------------------------------------------------------
(* Objects added to the heap.                                                *)

Grown ==
  /\ heap' \in Seq(Objects) /\ Len(heap') >= Len(heap)
  /\ \A i \in 1..Len(heap) : heap'[i] = heap[i]

\* Nothing changes of a match that is already there.
Kept(m) ==
  /\ heap'[m] = heap[m]
  /\ heap'[heap[m].event] = heap[heap[m].event]
  /\ heap'[heap[m].list] = heap[heap[m].list]

LEMMA LengthIsNat ==
  ASSUME Typed
  PROVE  Len(heap) \in Nat /\ Len(heap) >= 2
BY DEF Typed, IsCell, RuleList

LEMMA MatchIsThere ==
  ASSUME NEW m, IsMatch(m)
  PROVE  /\ m \in 1..Len(heap) /\ heap[m] \in Matches
         /\ heap[m].event \in 1..Len(heap) /\ heap[heap[m].event] \in Cells
         /\ heap[m].list \in 1..Len(heap) /\ heap[heap[m].list] \in Cells
BY DEF IsMatch, IsCell

LEMMA KeptMatch ==
  ASSUME NEW m, IsMatch(m), Kept(m), heap' \in Seq(Objects), Len(heap') >= Len(heap), heap \in Seq(Objects)
  PROVE  IsMatch(m)' /\ Agrees(m)' = Agrees(m) /\ Evidence(m)' = Evidence(m)
<1>1. Len(heap) \in Nat /\ Len(heap') \in Nat
  OBVIOUS
<1>2. IsMatch(m)'
  BY <1>1 DEF IsMatch, IsCell, Kept
<1>3. Agrees(m)' = Agrees(m)
  BY DEF Agrees, Kept
<1>4. Evidence(m)' = Evidence(m)
  BY DEF Evidence, Kept
<1> QED  BY <1>2, <1>3, <1>4

LEMMA GrownKeeps ==
  ASSUME Typed, Grown, NEW m \in Refs
  PROVE  /\ IsMatch(m) /\ Kept(m) /\ IsMatch(m)'
         /\ Agrees(m)' = Agrees(m) /\ Evidence(m)' = Evidence(m)
<1>1. IsMatch(m)
  BY DEF Typed
<1>2. Kept(m)
  BY <1>1, MatchIsThere DEF Kept, Grown
<1> QED  BY <1>1, <1>2, KeptMatch DEF Typed, Grown

LEMMA GrownCells ==
  ASSUME Typed, Grown
  PROVE  heap' \in Seq(Objects) /\ IsCell(Event)' /\ IsCell(RuleList)'
<1>1. Len(heap) \in Nat /\ Len(heap') \in Nat
  BY DEF Typed, Grown
<1> QED  BY <1>1 DEF Typed, Grown, IsCell

\* The caller reaches places that are there.
LEMMA ReachableIsThere ==
  ASSUME Typed, NEW p \in Reachable
  PROVE  p \in 1..Len(heap)
<1>1. Event \in 1..Len(heap) /\ RuleList \in 1..Len(heap)
  BY DEF Typed, IsCell
<1>2. \A m \in held : m \in 1..Len(heap) /\ heap[m].event \in 1..Len(heap) /\ heap[m].list \in 1..Len(heap)
  BY MatchIsThere DEF Typed, Refs
<1> QED  BY <1>1, <1>2 DEF Reachable

\* A new match q, with objects of its own except, perhaps, for an event of the caller's.
NewMatch(q) ==
  /\ Grown /\ IsMatch(q)' /\ q > Len(heap) /\ heap'[q].list > Len(heap)

LEMMA HoldNewMatch ==
  ASSUME Inv, NEW q \in Nat, NewMatch(q),
         heap'[q].event \in EventsHeld \/ heap'[q].event > Len(heap),
         heap'[q].event # RuleList,
         ~touched => Agrees(q)',
         held' = held \cup {q}, UNCHANGED <<alerts, forged, touched>>
  PROVE  Inv'
<1>0. Typed
  BY DEF Inv
<1>1. Refs' = Refs \cup {q}
  BY DEF Refs
<1>2. \A m \in Refs : IsMatch(m) /\ Kept(m) /\ IsMatch(m)' /\ Agrees(m)' = Agrees(m)
  BY <1>0, GrownKeeps DEF NewMatch
<1>3. Typed'
  <2>1. \A m \in Refs' : IsMatch(m)'
    BY <1>1, <1>2 DEF NewMatch
  <2>2. heap' \in Seq(Objects) /\ IsCell(Event)' /\ IsCell(RuleList)'
    BY <1>0, GrownCells DEF NewMatch
  <2>3. DOMAIN alerts' \subseteq AlertNames /\ forged' \subseteq DOMAIN alerts'
    BY <1>0 DEF Typed
  <2> QED  BY <2>1, <2>2, <2>3 DEF Typed
<1>4. \A p \in Reachable' : p \in Reachable \/ p > Len(heap)
  <2>1. \A m \in held : heap'[m].event = heap[m].event /\ heap'[m].list = heap[m].list
    BY <1>2 DEF Kept, Refs
  <2>2. EventsHeld \subseteq Reachable
    BY DEF EventsHeld, Reachable
  <2> QED  BY <2>1, <2>2 DEF Reachable, NewMatch
<1>5. Isolated'
  <2> SUFFICES ASSUME NEW a \in Owners PROVE Apart(alerts[a])'
    BY DEF Isolated, Owners
  <2>1. alerts[a] \in Refs /\ Apart(alerts[a])
    BY DEF Inv, Isolated, Refs, Owners
  <2>2. alerts[a] \in 1..Len(heap) /\ heap[alerts[a]].event \in 1..Len(heap) /\ heap[alerts[a]].list \in 1..Len(heap)
    BY <1>2, <2>1, MatchIsThere
  <2>3. heap'[alerts[a]] = heap[alerts[a]] /\ alerts' = alerts
    BY <1>2, <2>1 DEF Kept
  <2>4. Len(heap) \in Nat
    BY <1>0, LengthIsNat
  <2> QED  BY <1>4, <2>1, <2>2, <2>3, <2>4 DEF Apart
<1>6. RuleApart'
  <2>1. Len(heap) \in Nat /\ Len(heap) >= 2
    BY <1>0, LengthIsNat
  <2>2. \A m \in Refs : heap'[m].event # RuleList /\ heap'[m].list # RuleList
    BY <1>2 DEF Kept, Inv, RuleApart
  <2>3. heap'[q].event # RuleList /\ heap'[q].list # RuleList
    BY <2>1 DEF NewMatch, RuleList
  <2> QED  BY <1>1, <2>2, <2>3 DEF RuleApart
<1>7. ~touched' => \A m \in Refs' : Agrees(m)'
  BY <1>1, <1>2 DEF Inv
<1> QED  BY <1>3, <1>5, <1>6, <1>7 DEF Inv

\* A new alert of an isolated match, or of any match if it counts as the caller's.
LEMMA StoreIsolated ==
  ASSUME Inv, NEW b \in AlertNames, NEW q, NEW isForged \in BOOLEAN, Store(b, q, isForged),
         Grown, IsMatch(q)', ~isForged => Apart(q)',
         heap'[q].event # RuleList /\ heap'[q].list # RuleList,
         ~touched => Agrees(q)',
         UNCHANGED <<held, touched>>
  PROVE  Inv'
<1>0. Typed
  BY DEF Inv
<1>s. /\ b \notin DOMAIN alerts /\ DOMAIN alerts' = DOMAIN alerts \cup {b}
      /\ alerts'[b] = q /\ \A a \in DOMAIN alerts : alerts'[a] = alerts[a]
      /\ forged' = IF isForged THEN forged \cup {b} ELSE forged
  BY DEF Store
<1>1. Refs' = Refs \cup {q}
  BY <1>s DEF Refs
<1>2. \A m \in Refs : IsMatch(m) /\ Kept(m) /\ IsMatch(m)' /\ Agrees(m)' = Agrees(m)
  BY <1>0, GrownKeeps
<1>3. Typed'
  <2>1. \A m \in Refs' : IsMatch(m)'
    BY <1>1, <1>2
  <2>2. heap' \in Seq(Objects) /\ IsCell(Event)' /\ IsCell(RuleList)'
    BY <1>0, GrownCells
  <2>3. DOMAIN alerts' \subseteq AlertNames /\ forged' \subseteq DOMAIN alerts'
    BY <1>0, <1>s DEF Typed
  <2> QED  BY <2>1, <2>2, <2>3 DEF Typed
<1>4. Reachable' = Reachable
  <2>1. \A m \in held : heap'[m].event = heap[m].event /\ heap'[m].list = heap[m].list
    BY <1>2 DEF Kept, Refs
  <2> QED  BY <2>1 DEF Reachable
<1>5. Isolated'
  <2>1. SUFFICES ASSUME NEW a \in DOMAIN alerts', a \notin forged' PROVE Apart(alerts[a])'
    BY DEF Isolated, Owners
  <2>2. CASE a = b
    BY <1>s, <2>1, <2>2 DEF Apart
  <2>3. CASE a # b
    <3>1. a \in Owners
      BY <1>s, <2>1, <2>3 DEF Owners
    <3>2. alerts[a] \in Refs /\ Apart(alerts[a]) /\ alerts'[a] = alerts[a]
      BY <1>s, <3>1 DEF Inv, Isolated, Refs, Owners
    <3>3. heap'[alerts[a]] = heap[alerts[a]]
      BY <1>2, <3>2 DEF Kept
    <3> QED  BY <1>4, <3>2, <3>3 DEF Apart
  <2> QED  BY <2>2, <2>3
<1>6. RuleApart'
  <2>2. \A m \in Refs : heap'[m].event # RuleList /\ heap'[m].list # RuleList
    BY <1>2 DEF Kept, Inv, RuleApart
  <2> QED  BY <1>1, <2>2 DEF RuleApart
<1>7. ~touched' => \A m \in Refs' : Agrees(m)'
  BY <1>1, <1>2 DEF Inv
<1> QED  BY <1>3, <1>5, <1>6, <1>7 DEF Inv

LEMMA NewIsApart ==
  ASSUME Inv, NEW q \in Nat, NewMatch(q), heap'[q].event > Len(heap), UNCHANGED held
  PROVE  Apart(q)' /\ heap'[q].event # RuleList /\ heap'[q].list # RuleList
<1>0. Typed
  BY DEF Inv
<1>1. Reachable' = Reachable
  <2>1. \A m \in held : heap'[m].event = heap[m].event /\ heap'[m].list = heap[m].list
    BY <1>0, GrownKeeps DEF NewMatch, Kept, Refs
  <2> QED  BY <2>1 DEF Reachable
<1>2. \A p \in Reachable : p \in 1..Len(heap)
  BY <1>0, ReachableIsThere
<1>3. Len(heap) \in Nat /\ Len(heap) >= 2
  BY <1>0, LengthIsNat
<1>4. heap'[q].event \in Nat /\ heap'[q].list \in Nat
  BY DEF NewMatch, IsMatch, IsCell
<1> QED  BY <1>1, <1>2, <1>3, <1>4 DEF Apart, NewMatch, RuleList

-----------------------------------------------------------------------------
(* The copies the library makes.                                             *)

LEMMA CopyIsNew ==
  ASSUME Typed, NEW m \in Refs, heap' = Copied(m), NEW q, q = New + 3
  PROVE  /\ NewMatch(q) /\ heap'[q].event > Len(heap)
         /\ Evidence(q)' = Evidence(m) /\ (Agrees(m) => Agrees(q)')
<1> DEFINE e == heap[heap[m].event]  l == heap[heap[m].list]
<1>1. IsMatch(m) /\ heap \in Seq(Objects) /\ New \in Nat
  BY LengthIsNat DEF Typed, New
<1>2. e \in Cells /\ l \in Cells /\ heap[m] \in Matches
  BY <1>1, MatchIsThere
<1>a. PICK r, n1, n2, o : /\ r = heap[m] /\ n1 = New + 1 /\ n2 = New + 2
                          /\ o = [r EXCEPT !.event = n1, !.list = n2]
  OBVIOUS
<1>b. r \in Matches /\ n1 \in Nat /\ n2 \in Nat
  BY <1>a, <1>1, <1>2
<1>c. o \in Matches /\ o.event = n1 /\ o.list = n2 /\ o.quotes = r.quotes /\ o.asked = r.asked
  BY <1>a, <1>b DEF Matches
<1>3. /\ o \in Matches /\ o.event = New + 1 /\ o.list = New + 2
      /\ o.quotes = heap[m].quotes /\ o.asked = heap[m].asked
  BY <1>a, <1>c
<1> HIDE DEF e, l
<1>4. heap' = heap \o <<e, l, o>>
  BY <1>a DEF Copied, e, l
<1>5. e \in Objects /\ l \in Objects /\ o \in Objects
  BY <1>2, <1>3 DEF Objects
<1>6. /\ heap' \in Seq(Objects) /\ Len(heap') = New + 3
      /\ \A i \in 1..New : heap'[i] = heap[i]
      /\ heap'[New + 1] = e /\ heap'[New + 2] = l /\ heap'[New + 3] = o
  BY <1>1, <1>4, <1>5, AppendThree DEF New
<1>7. Grown
  BY <1>1, <1>6 DEF Grown, New
<1>8. IsMatch(q)'
  BY <1>1, <1>2, <1>3, <1>6 DEF IsMatch, IsCell, New
<1>9. Evidence(q)' = Evidence(m)
  BY <1>3, <1>6 DEF Evidence, New, e, l
<1>10. Agrees(m) => Agrees(q)'
  BY <1>3, <1>6 DEF Agrees, New, e, l
<1> QED  BY <1>1, <1>3, <1>6, <1>7, <1>8, <1>9, <1>10 DEF NewMatch, New

LEMMA SnapshotIsNew ==
  ASSUME Typed, NEW m \in Refs, IsOwnable(m), heap' = Snapshot(m),
         NEW q, q = New + 3
  PROVE  /\ NewMatch(q) /\ heap'[q].event > Len(heap)
         /\ Evidence(q)' = Evidence(m) /\ (Agrees(m) => Agrees(q)')
<1> DEFINE e == Cell(Normal[heap[heap[m].event].value])
           l == Cell(Normal[heap[heap[m].list].value])
<1>1. IsMatch(m) /\ heap \in Seq(Objects) /\ New \in Nat
  BY LengthIsNat DEF Typed, New
<1>2. heap[heap[m].event] \in Cells /\ heap[heap[m].list] \in Cells /\ heap[m] \in Matches
  BY <1>1, MatchIsThere
<1>3. /\ heap[heap[m].event].value \in Values /\ heap[heap[m].list].value \in Values
  BY <1>2, CellHolds
<1>4. /\ Normal[heap[heap[m].event].value] = heap[heap[m].event].value
      /\ Normal[heap[heap[m].list].value] = heap[heap[m].list].value
      /\ Normal[heap[m].quotes] = heap[m].quotes
  BY DEF IsOwnable, Evidence
<1>5. /\ e \in Cells /\ e.value = heap[heap[m].event].value
      /\ l \in Cells /\ l.value = heap[heap[m].list].value
  BY <1>3, <1>4, CellValue
<1>a. PICK r, n1, n2, o : /\ r = heap[m] /\ n1 = New + 1 /\ n2 = New + 2
                          /\ o = [r EXCEPT !.event = n1, !.list = n2, !.quotes = Normal[@]]
  OBVIOUS
<1>b. r \in Matches /\ n1 \in Nat /\ n2 \in Nat /\ Normal[r.quotes] = r.quotes
  BY <1>a, <1>1, <1>2, <1>4
<1>c. o \in Matches /\ o.event = n1 /\ o.list = n2 /\ o.quotes = r.quotes /\ o.asked = r.asked
  BY <1>a, <1>b DEF Matches
<1>6. /\ o \in Matches /\ o.event = New + 1 /\ o.list = New + 2
      /\ o.quotes = heap[m].quotes /\ o.asked = heap[m].asked
  BY <1>a, <1>c
<1>7. heap' = heap \o <<e, l, o>>
  BY <1>a DEF Snapshot
<1> HIDE DEF e, l
<1>8. e \in Objects /\ l \in Objects /\ o \in Objects
  BY <1>5, <1>6 DEF Objects
<1>9. /\ heap' \in Seq(Objects) /\ Len(heap') = New + 3
      /\ \A i \in 1..New : heap'[i] = heap[i]
      /\ heap'[New + 1] = e /\ heap'[New + 2] = l /\ heap'[New + 3] = o
  BY <1>1, <1>7, <1>8, AppendThree DEF New
<1>10. Grown
  BY <1>1, <1>9 DEF Grown, New
<1>11. IsMatch(q)'
  BY <1>1, <1>5, <1>6, <1>9 DEF IsMatch, IsCell, New
<1>12. Evidence(q)' = Evidence(m)
  BY <1>5, <1>6, <1>9 DEF Evidence, New
<1>13. Agrees(m) => Agrees(q)'
  BY <1>5, <1>6, <1>9 DEF Agrees, New
<1> QED  BY <1>1, <1>6, <1>9, <1>10, <1>11, <1>12, <1>13 DEF NewMatch, New

-----------------------------------------------------------------------------
(* The actions.                                                              *)

LEMMA EvaluateSafe ==
  ASSUME Inv, NEW p \in EventsHeld, Evaluate(p)
  PROVE  Inv' /\ Grown
<1> DEFINE l == Cell(heap[RuleList].value)
           o == Match(p, New + 1, heap[p].value, heap[RuleList].value)
<1>0. Typed /\ heap \in Seq(Objects) /\ New \in Nat /\ New >= 2
  BY LengthIsNat DEF Inv, Typed, New
<1>q. PICK q : q = New + 2
  OBVIOUS
<1>1. p \in 1..New /\ heap[p] \in Cells /\ p # RuleList
  <2>1. CASE p = Event
    BY <1>0, <2>1 DEF Typed, IsCell, Event, RuleList, New
  <2>2. CASE p # Event
    <3>1. PICK m \in held : p = heap[m].event
      BY <2>2 DEF EventsHeld
    <3>2. m \in Refs /\ IsMatch(m)
      BY <1>0 DEF Refs, Typed
    <3> QED  BY <3>1, <3>2, MatchIsThere DEF Inv, RuleApart, New
  <2> QED  BY <2>1, <2>2
<1>2. heap[RuleList].value \in Valid /\ heap[RuleList].value \in Values /\ heap[p].value \in Values
  BY <1>1, CellHolds, ValuesAssumption DEF Evaluate
<1>3. l \in Cells /\ l.value = heap[RuleList].value
  BY <1>2, CellValue
<1>4. /\ o \in Matches /\ o.event = p /\ o.list = New + 1
      /\ o.quotes = heap[p].value /\ o.asked = heap[RuleList].value
  BY <1>0, <1>1, <1>2, MatchFields
<1>5. heap' = heap \o <<l, o>>
  BY DEF Evaluate
<1>6. held' = held \cup {New + 2} /\ UNCHANGED <<alerts, forged, touched>>
  BY DEF Evaluate
<1> HIDE DEF l, o
<1>7. l \in Objects /\ o \in Objects
  BY <1>3, <1>4 DEF Objects
<1>8. /\ heap' \in Seq(Objects) /\ Len(heap') = New + 2
      /\ \A i \in 1..New : heap'[i] = heap[i]
      /\ heap'[New + 1] = l /\ heap'[New + 2] = o
  BY <1>0, <1>5, <1>7, AppendTwo DEF New
<1>9. Grown
  BY <1>0, <1>8 DEF Grown, New
<1>10. IsMatch(q)'
  BY <1>0, <1>1, <1>3, <1>4, <1>8, <1>q DEF IsMatch, IsCell, New
<1>11. NewMatch(q)
  BY <1>q, <1>0, <1>4, <1>8, <1>9, <1>10 DEF NewMatch, New
<1>12. Agrees(q)'
  BY <1>q, <1>0, <1>1, <1>3, <1>4, <1>8 DEF Agrees, New
<1>13. heap'[q].event \in EventsHeld /\ heap'[q].event # RuleList
  BY <1>q, <1>1, <1>4, <1>8 DEF New
<1>14. q \in Nat /\ held' = held \cup {q}
  BY <1>q, <1>0, <1>6
<1> QED  BY <1>6, <1>9, <1>11, <1>12, <1>13, <1>14, HoldNewMatch

LEMMA ReadMatchSafe ==
  ASSUME Inv, NEW a \in DOMAIN alerts, ReadMatch(a)
  PROVE  Inv' /\ Grown
<1>1. Typed /\ alerts[a] \in Refs /\ New \in Nat /\ New >= 2
  BY LengthIsNat DEF Inv, Refs, New
<1>q. PICK q : q = New + 3
  OBVIOUS
<1>2. heap' = Copied(alerts[a]) /\ held' = held \cup {q} /\ UNCHANGED <<alerts, forged, touched>>
  BY <1>q DEF ReadMatch
<1>3. /\ NewMatch(q) /\ heap'[q].event > Len(heap)
      /\ Agrees(alerts[a]) => Agrees(q)'
  BY <1>q, <1>1, <1>2, CopyIsNew
<1>4. ~touched => Agrees(q)'
  BY <1>1, <1>3 DEF Inv
<1>5. heap'[q].event # RuleList /\ q \in Nat
  BY <1>q, <1>1, <1>3 DEF New, RuleList, NewMatch, IsMatch, IsCell
<1>6. Grown
  BY <1>3 DEF NewMatch
<1> QED  BY <1>2, <1>3, <1>4, <1>5, <1>6, HoldNewMatch

LEMMA SnapshotSafe ==
  ASSUME Inv, NEW m \in Refs, IsOwnable(m), heap' = Snapshot(m),
         NEW q, q = New + 3, NEW b \in AlertNames, Store(b, q, FALSE), UNCHANGED <<held, touched>>
  PROVE  Inv' /\ Grown /\ Evidence(q)' = Evidence(m)
<1>1. Typed /\ New \in Nat
  BY LengthIsNat DEF Inv, New
<1>2. /\ NewMatch(q) /\ heap'[q].event > Len(heap)
      /\ Agrees(m) => Agrees(q)'
      /\ Evidence(q)' = Evidence(m)
  BY <1>1, SnapshotIsNew
<1>3. ~touched => Agrees(q)'
  BY <1>2 DEF Inv
<1>4. q \in Nat /\ UNCHANGED held
  BY <1>1
<1>5. Apart(q)' /\ heap'[q].event # RuleList /\ heap'[q].list # RuleList
  BY <1>2, <1>4, NewIsApart
<1>6. Grown /\ IsMatch(q)'
  BY <1>2 DEF NewMatch
<1> QED  BY <1>2, <1>3, <1>5, <1>6, StoreIsolated

LEMMA SameHeapGrown ==
  ASSUME Typed, UNCHANGED heap
  PROVE  Grown
BY DEF Typed, Grown

LEMMA CopyAlertSafe ==
  ASSUME Inv, NEW a \in DOMAIN alerts, NEW b \in AlertNames, CopyAlert(a, b)
  PROVE  Inv'
<1> DEFINE forges == a \in forged
<1>1. Typed /\ alerts[a] \in Refs
  BY DEF Inv, Refs
<1>2. Store(b, alerts[a], forges) /\ UNCHANGED <<heap, held, touched>>
  BY DEF CopyAlert
<1>3. Grown /\ IsMatch(alerts[a])
  BY <1>1, <1>2, SameHeapGrown DEF Typed
<1>4. ~forges => Apart(alerts[a])
  BY DEF Inv, Isolated, Owners
<1>5. heap[alerts[a]].event # RuleList /\ heap[alerts[a]].list # RuleList
  BY <1>1 DEF Inv, RuleApart
<1>6. ~touched => Agrees(alerts[a])
  BY <1>1 DEF Inv
<1>7. PICK q : q = alerts[a]
  OBVIOUS
<1>8. IsMatch(q)' /\ (~forges => Apart(q)') /\ (~touched => Agrees(q)')
  <2>1. IsMatch(q)' = IsMatch(q)
    BY <1>2 DEF IsMatch, IsCell
  <2>2. Apart(q)' = Apart(q)
    BY <1>2 DEF Apart, Reachable
  <2>3. Agrees(q)' = Agrees(q)
    BY <1>2 DEF Agrees
  <2> QED  BY <1>3, <1>4, <1>6, <1>7, <2>1, <2>2, <2>3
<1>9. heap'[q].event # RuleList /\ heap'[q].list # RuleList
  BY <1>2, <1>5, <1>7
<1>10. Store(b, q, forges) /\ forges \in BOOLEAN
  BY <1>2, <1>7
<1> HIDE DEF forges
<1> QED  BY <1>2, <1>3, <1>8, <1>9, <1>10, StoreIsolated

LEMMA ForgeAlertSafe ==
  ASSUME Inv, NEW m \in held, NEW b \in AlertNames, ForgeAlert(m, b)
  PROVE  Inv'
<1>1. Typed /\ m \in Refs
  BY DEF Inv, Refs
<1>2. Store(b, m, TRUE) /\ UNCHANGED <<heap, held, touched>>
  BY DEF ForgeAlert
<1>3. Grown /\ IsMatch(m)
  BY <1>1, <1>2, SameHeapGrown DEF Typed
<1>4. heap'[m].event # RuleList /\ heap'[m].list # RuleList
  BY <1>1, <1>2 DEF Inv, RuleApart
<1>5. ~touched => Agrees(m)
  BY <1>1 DEF Inv
<1>6. IsMatch(m)' /\ (~touched => Agrees(m)')
  <2>1. IsMatch(m)' = IsMatch(m)
    BY <1>2 DEF IsMatch, IsCell
  <2>2. Agrees(m)' = Agrees(m)
    BY <1>2 DEF Agrees
  <2> QED  BY <1>3, <1>5, <2>1, <2>2
<1> QED  BY <1>2, <1>3, <1>4, <1>6, StoreIsolated

-----------------------------------------------------------------------------
(* The caller's changes.                                                     *)

\* A cell stays a cell, and a match the caller holds still refers to its own list and to an
\* event the caller holds.
KeepsKind(p, o) ==
  \/ heap[p] \in Cells /\ o \in Cells
  \/ p \in held /\ o \in Matches /\ o.event \in EventsHeld /\ o.list = heap[p].list

LEMMA EventsHeldAreCells ==
  ASSUME Inv, NEW p \in EventsHeld
  PROVE  p \in 1..Len(heap) /\ heap[p] \in Cells /\ p # RuleList /\ p \in Reachable
<1>0. Typed
  BY DEF Inv
<1>1. CASE p = Event
  BY <1>0, <1>1 DEF Typed, IsCell, Event, RuleList, Reachable
<1>2. CASE p # Event
  <2>1. PICK m \in held : p = heap[m].event
    BY <1>2 DEF EventsHeld
  <2>2. m \in Refs /\ IsMatch(m)
    BY <1>0 DEF Refs, Typed
  <2> QED  BY <2>1, <2>2, MatchIsThere DEF Inv, RuleApart, Reachable
<1> QED  BY <1>1, <1>2

\* What a change of place p does to a match.
LEMMA EditOfMatch ==
  ASSUME Inv, NEW p \in Reachable, NEW o, KeepsKind(p, o), heap' = [heap EXCEPT ![p] = o],
         NEW m \in Refs
  PROVE  /\ IsMatch(m)'
         /\ m # p => heap'[m] = heap[m]
         /\ m = p => heap'[m] = o /\ m \in held /\ o.event \in EventsHeld /\ o.list = heap[p].list
<1>0. Typed
  BY DEF Inv
<1>1. heap \in Seq(Objects) /\ p \in 1..Len(heap) /\ o \in Objects
  BY <1>0, ReachableIsThere DEF Typed, KeepsKind, Objects
<1>2. /\ heap' \in Seq(Objects) /\ Len(heap') = Len(heap)
      /\ heap'[p] = o /\ \A i \in 1..Len(heap) : i # p => heap'[i] = heap[i]
  BY <1>1
<1>3. IsMatch(m)
  BY <1>0 DEF Typed
<1>4. /\ m \in 1..Len(heap) /\ heap[m] \in Matches
      /\ heap[m].event \in 1..Len(heap) /\ heap[heap[m].event] \in Cells
      /\ heap[m].list \in 1..Len(heap) /\ heap[heap[m].list] \in Cells
  BY <1>3, MatchIsThere
<1>5. \A c \in 1..Len(heap) : heap[c] \in Cells => heap'[c] \in Cells
  <2>1. p \in held => heap[p] \in Matches
    BY <1>0, MatchIsThere DEF Typed, Refs
  <2> QED  BY <1>2, <2>1, CellsAreNoMatches DEF KeepsKind
<1>6. m = p => m \in held /\ o \in Matches /\ o.event \in EventsHeld /\ o.list = heap[p].list
  BY <1>4, CellsAreNoMatches DEF KeepsKind
<1>7. \A e \in EventsHeld : e \in 1..Len(heap) /\ heap[e] \in Cells
  BY EventsHeldAreCells
<1>8. IsMatch(m)'
  <2>1. heap'[m] \in Matches
    BY <1>2, <1>4, <1>6
  <2>2. heap'[m].event \in 1..Len(heap) /\ heap[heap'[m].event] \in Cells
    BY <1>2, <1>4, <1>6, <1>7
  <2>3. heap'[m].list \in 1..Len(heap) /\ heap[heap'[m].list] \in Cells
    BY <1>2, <1>4, <1>6
  <2> QED  BY <1>2, <1>4, <1>5, <2>1, <2>2, <2>3 DEF IsMatch, IsCell
<1> QED  BY <1>2, <1>4, <1>6, <1>8

LEMMA EditKeepsTheRest ==
  ASSUME Typed, NEW p \in Reachable, NEW o, heap' = [heap EXCEPT ![p] = o],
         NEW m \in Refs, p \notin {m, heap[m].event, heap[m].list}
  PROVE  Kept(m)
<1>1. heap \in Seq(Objects) /\ p \in 1..Len(heap)
  BY ReachableIsThere DEF Typed
<1>2. \A i \in 1..Len(heap) : i # p => heap'[i] = heap[i]
  BY <1>1
<1> QED  BY <1>2, MatchIsThere DEF Kept, Typed

\* An edit that is not of evidence is one of the rule's list.
LEMMA EditSafe ==
  ASSUME Inv, NEW p \in Reachable, NEW o, NEW evidence \in BOOLEAN, Edit(p, o, evidence),
         KeepsKind(p, o), ~evidence => p = RuleList
  PROVE  Inv'
<1>0. Typed /\ heap \in Seq(Objects) /\ p \in 1..Len(heap) /\ o \in Objects
  BY ReachableIsThere DEF Inv, Typed, KeepsKind, Objects
<1>1. /\ heap' = [heap EXCEPT ![p] = o] /\ held' = held /\ alerts' = alerts /\ forged' = forged
  BY DEF Edit
<1>2. Refs' = Refs
  BY <1>1 DEF Refs
<1>3. \A m \in Refs :
         /\ IsMatch(m)'
         /\ m # p => heap'[m] = heap[m]
         /\ m = p => heap'[m] = o /\ m \in held /\ o.event \in EventsHeld /\ o.list = heap[p].list
  BY <1>1, EditOfMatch
<1>4. Typed'
  <2>1. heap' \in Seq(Objects) /\ Len(heap') = Len(heap)
    BY <1>0, <1>1
  <2>2. \A c \in {Event, RuleList} : heap'[c] \in Cells
    <3>1. SUFFICES ASSUME NEW c \in {Event, RuleList} PROVE heap'[c] \in Cells
      OBVIOUS
    <3>2. c \in 1..Len(heap) /\ heap[c] \in Cells
      BY <1>0 DEF Typed, IsCell
    <3>3. p \in held => heap[p] \in Matches
      BY <1>0, MatchIsThere DEF Typed, Refs
    <3> QED  BY <1>0, <1>1, <3>2, <3>3, CellsAreNoMatches DEF KeepsKind
  <2>3. IsCell(Event)' /\ IsCell(RuleList)'
    BY <1>0, <2>1, <2>2 DEF Typed, IsCell
  <2> QED  BY <1>0, <1>1, <1>2, <1>3, <2>1, <2>3 DEF Typed
<1>5. \A m \in held : heap'[m].event \in EventsHeld /\ heap'[m].list = heap[m].list
  BY <1>3 DEF Refs, EventsHeld
<1>6. \A r \in Reachable' : r \in Reachable
  BY <1>1, <1>5, EventsHeldAreCells DEF Reachable
<1>7. Isolated'
  <2>1. SUFFICES ASSUME NEW a \in Owners PROVE Apart(alerts[a])'
    BY <1>1 DEF Isolated, Owners
  <2>2. alerts[a] \in Refs /\ Apart(alerts[a])
    BY DEF Inv, Isolated, Refs, Owners
  <2>3. heap'[alerts[a]] = heap[alerts[a]]
    BY <1>3, <2>2 DEF Apart
  <2> QED  BY <1>1, <1>6, <2>2, <2>3 DEF Apart
<1>8. RuleApart'
  <2>1. \A m \in Refs : heap'[m].event # RuleList /\ heap'[m].list # RuleList
    BY <1>3, EventsHeldAreCells DEF Inv, RuleApart
  <2> QED  BY <1>2, <2>1 DEF RuleApart
<1>9. ~touched' => \A m \in Refs' : Agrees(m)'
  <2>1. SUFFICES ASSUME ~touched', NEW m \in Refs PROVE Agrees(m)'
    BY <1>2
  <2>2. ~touched /\ ~evidence
    BY <2>1, ZenonT(30) DEF Edit
  <2>3. p = RuleList /\ Agrees(m) /\ IsMatch(m)
    BY <1>0, <2>2 DEF Inv, Typed
  <2>4. heap[m] \in Matches /\ heap[RuleList] \in Cells
    BY <1>0, <2>3, MatchIsThere DEF Typed, IsCell
  <2>5. m # RuleList
    BY <2>4, CellsAreNoMatches
  <2>6. Kept(m)
    BY <1>0, <1>1, <2>3, <2>5, EditKeepsTheRest DEF Inv, RuleApart
  <2> QED  BY <2>3, <2>6 DEF Agrees, Kept
<1> QED  BY <1>4, <1>7, <1>8, <1>9 DEF Inv

\* Every edit is of a reachable place, and keeps its kind.
LEMMA EditsAreEdits ==
  ASSUME Inv, EditRule \/ EditEvent \/ EditMatch
  PROVE  \E p \in Reachable : \E o : \E evidence \in BOOLEAN :
           Edit(p, o, evidence) /\ KeepsKind(p, o) /\ (~evidence => p = RuleList)
<1>0. Typed
  BY DEF Inv
<1>1. CASE EditRule
  <2>1. PICK v \in Values : Edit(RuleList, Cell(v), FALSE)
    BY <1>1 DEF EditRule
  <2>2. KeepsKind(RuleList, Cell(v)) /\ RuleList \in Reachable
    BY <1>0, CellValue DEF KeepsKind, Typed, IsCell, Reachable
  <2> QED  BY <2>1, <2>2
<1>2. CASE EditEvent
  <2>1. PICK p \in EventsHeld, v \in Values : Edit(p, Cell(v), TRUE)
    BY <1>2 DEF EditEvent
  <2>2. KeepsKind(p, Cell(v)) /\ p \in Reachable
    BY EventsHeldAreCells, CellValue DEF KeepsKind
  <2> QED  BY <2>1, <2>2
<1>3. CASE EditMatch
  <2>1. PICK m \in held :
          \/ \E v \in Values : Edit(m, [heap[m] EXCEPT !.quotes = v], TRUE)
          \/ \E v \in Values : Edit(heap[m].list, Cell(v), TRUE)
          \/ \E p \in EventsHeld : Edit(m, [heap[m] EXCEPT !.event = p], TRUE)
    BY <1>3 DEF EditMatch
  <2>2. /\ m \in Reachable /\ heap[m].list \in Reachable /\ heap[m].event \in EventsHeld
        /\ heap[m] \in Matches /\ heap[heap[m].list] \in Cells
    BY <1>0, MatchIsThere DEF Reachable, EventsHeld, Typed, Refs
  <2>3. CASE \E v \in Values : Edit(m, [heap[m] EXCEPT !.quotes = v], TRUE)
    <3>1. PICK o : \E v \in Values : o = [heap[m] EXCEPT !.quotes = v] /\ Edit(m, o, TRUE)
      BY <2>3
    <3>2. PICK r : r = heap[m]
      OBVIOUS
    <3>3. o \in Matches /\ o.event = r.event /\ o.list = r.list
      BY <2>2, <3>1, <3>2 DEF Matches
    <3>4. KeepsKind(m, o)
      BY <2>2, <3>2, <3>3 DEF KeepsKind
    <3> QED  BY <2>2, <3>1, <3>4
  <2>4. CASE \E v \in Values : Edit(heap[m].list, Cell(v), TRUE)
    <3>1. PICK v \in Values : Edit(heap[m].list, Cell(v), TRUE)
      BY <2>4
    <3>2. KeepsKind(heap[m].list, Cell(v))
      BY <2>2, CellValue DEF KeepsKind
    <3> QED  BY <2>2, <3>1, <3>2
  <2>5. CASE \E p \in EventsHeld : Edit(m, [heap[m] EXCEPT !.event = p], TRUE)
    <3>0. PICK p \in EventsHeld : Edit(m, [heap[m] EXCEPT !.event = p], TRUE)
      BY <2>5
    <3>1. PICK o : o = [heap[m] EXCEPT !.event = p] /\ Edit(m, o, TRUE)
      BY <3>0
    <3>2. PICK r : r = heap[m]
      OBVIOUS
    <3>3. p \in Nat
      BY EventsHeldAreCells
    <3>4. o \in Matches /\ o.event = p /\ o.list = r.list
      BY <2>2, <3>1, <3>2, <3>3 DEF Matches
    <3>5. KeepsKind(m, o)
      BY <2>2, <3>2, <3>4 DEF KeepsKind
    <3> QED  BY <2>2, <3>1, <3>5
  <2> QED  BY <2>1, <2>3, <2>4, <2>5
<1> QED  BY <1>1, <1>2, <1>3

LEMMA EditsSafe ==
  ASSUME Inv, EditRule \/ EditEvent \/ EditMatch
  PROVE  Inv'
BY EditsAreEdits, EditSafe

-----------------------------------------------------------------------------
(* Theorems.                                                                 *)

LEMMA InitInv ==
  ASSUME Init
  PROVE  Inv
<1>1. PICK e \in Values, l \in Valid : heap = <<Cell(e), Cell(l)>>
  BY DEF Init
<1>2. l \in Values
  BY ValuesAssumption
<1>3. Cell(e) \in Cells /\ Cell(l) \in Cells
  BY <1>2, CellValue
<1>4. heap \in Seq(Objects) /\ Len(heap) = 2 /\ heap[1] \in Cells /\ heap[2] \in Cells
  BY <1>1, <1>3 DEF Objects
<1>5. held = {} /\ DOMAIN alerts = {} /\ forged = {}
  BY DEF Init
<1>6. Refs = {}
  BY <1>5 DEF Refs
<1>7. Typed
  BY <1>4, <1>5, <1>6 DEF Typed, IsCell, Event, RuleList
<1> QED  BY <1>5, <1>6, <1>7 DEF Inv, Isolated, Owners, RuleApart

LEMMA StepInv ==
  ASSUME Inv, [Next]_vars
  PROVE  Inv'
<1>1. CASE Next
  <2>1. ASSUME NEW p \in EventsHeld, Evaluate(p) PROVE Inv'
    BY <2>1, EvaluateSafe
  <2>2. ASSUME NEW m \in held, NEW b \in AlertNames, CreateAlert(m, b) PROVE Inv'
    <3>1. PICK q : q = New + 3
      OBVIOUS
    <3>2. m \in Refs
      BY DEF Refs
    <3> QED  BY <2>2, <3>1, <3>2, SnapshotSafe DEF CreateAlert
  <2>3. ASSUME NEW m \in held, NEW b \in AlertNames, ForgeAlert(m, b) PROVE Inv'
    BY <2>3, ForgeAlertSafe
  <2>4. ASSUME NEW a \in DOMAIN alerts, ReadMatch(a) PROVE Inv'
    BY <2>4, ReadMatchSafe
  <2>5. ASSUME NEW a \in DOMAIN alerts, NEW b \in AlertNames, UpdateAlert(a, b) PROVE Inv'
    <3>1. PICK q, m : q = New + 3 /\ m = alerts[a]
      OBVIOUS
    <3>2. m \in Refs
      BY <3>1 DEF Refs
    <3> QED  BY <2>5, <3>1, <3>2, SnapshotSafe DEF UpdateAlert
  <2>6. ASSUME NEW a \in DOMAIN alerts, NEW b \in AlertNames, CopyAlert(a, b) PROVE Inv'
    BY <2>6, CopyAlertSafe
  <2>7. EditRule \/ EditEvent \/ EditMatch => Inv'
    BY EditsSafe
  <2> QED  BY <1>1, <2>1, <2>2, <2>3, <2>4, <2>5, <2>6, <2>7 DEF Next
<1>2. CASE UNCHANGED vars
  BY <1>2 DEF vars, Inv, Typed, Isolated, Owners, Apart, Reachable, RuleApart, Refs, Agrees,
          IsMatch, IsCell
<1> QED  BY <1>1, <1>2

\* References and objects are in order along every behaviour, what an alert of the library's
\* owns is out of the caller's reach, no trace refers to the rule's list, and only changes
\* of events and matches make a trace disagree.
THEOREM Invariant == Spec => []Inv
<1>1. Init => Inv
  BY InitInv
<1>2. Inv /\ [Next]_vars => Inv'
  BY StepInv
<1> QED  BY <1>1, <1>2, PTL DEF Spec

\* A trace disagrees with its event, or with the operand evaluated, only if the caller
\* changed an event or a match.
THEOREM DisagreementExplained == Spec => []DisagreementIsTheCallers
<1>1. Inv => DisagreementIsTheCallers
  BY DEF Inv, DisagreementIsTheCallers, Refs, Agrees
<1> QED  BY <1>1, Invariant, PTL

\* An alert of the library's keeps its match, and the match its evidence.
LEMMA GrownKeepsEvidence ==
  ASSUME Inv, Grown, NEW a \in Owners, alerts'[a] = alerts[a]
  PROVE  Evidence(alerts[a])' = Evidence(alerts[a])
<1>1. PICK m : m = alerts[a]
  OBVIOUS
<1>2. m \in Refs /\ Typed
  BY <1>1 DEF Inv, Refs, Owners
<1>3. Evidence(m)' = Evidence(m)
  BY <1>2, GrownKeeps
<1> QED  BY <1>1, <1>3 DEF Evidence

LEMMA EditKeepsEvidence ==
  ASSUME Inv, NEW p \in Reachable, NEW o, NEW evidence, Edit(p, o, evidence), NEW a \in Owners
  PROVE  Evidence(alerts[a])' = Evidence(alerts[a])
<1>1. PICK m : m = alerts[a]
  OBVIOUS
<1>2. m \in Refs /\ Typed /\ Apart(m)
  BY <1>1 DEF Inv, Isolated, Refs, Owners
<1>3. heap' = [heap EXCEPT ![p] = o] /\ alerts' = alerts
  BY DEF Edit
<1>4. Kept(m)
  BY <1>2, <1>3, EditKeepsTheRest DEF Apart
<1> QED  BY <1>1, <1>3, <1>4 DEF Evidence, Kept

LEMMA OwnersKeepEvidence ==
  ASSUME Inv, [Next]_vars, NEW a \in Owners
  PROVE  Evidence(alerts[a])' = Evidence(alerts[a])
<1>1. a \in DOMAIN alerts
  BY DEF Owners
<1>2. ASSUME NEW p \in EventsHeld, Evaluate(p) PROVE Evidence(alerts[a])' = Evidence(alerts[a])
  <2>1. Grown
    BY <1>2, EvaluateSafe
  <2>2. alerts'[a] = alerts[a]
    BY <1>2 DEF Evaluate
  <2> QED  BY <2>1, <2>2, GrownKeepsEvidence
<1>3. ASSUME NEW b \in DOMAIN alerts, ReadMatch(b) PROVE Evidence(alerts[a])' = Evidence(alerts[a])
  <2>1. Grown
    BY <1>3, ReadMatchSafe
  <2>2. alerts'[a] = alerts[a]
    BY <1>3 DEF ReadMatch
  <2> QED  BY <2>1, <2>2, GrownKeepsEvidence
<1>4. ASSUME NEW m \in Refs, IsOwnable(m), heap' = Snapshot(m), NEW b \in AlertNames,
             Store(b, New + 3, FALSE), UNCHANGED <<held, touched>>
      PROVE  Evidence(alerts[a])' = Evidence(alerts[a])
  <2>1. PICK q : q = New + 3
    OBVIOUS
  <2>2. Grown
    BY <1>4, <2>1, SnapshotSafe
  <2>3. alerts'[a] = alerts[a]
    BY <1>1, <1>4 DEF Store
  <2> QED  BY <2>2, <2>3, GrownKeepsEvidence
<1>5. ASSUME UNCHANGED heap, NEW b, NEW q, NEW isForged, Store(b, q, isForged)
      PROVE  Evidence(alerts[a])' = Evidence(alerts[a])
  <2>1. Grown
    BY <1>5, SameHeapGrown DEF Inv
  <2>2. alerts'[a] = alerts[a]
    BY <1>1, <1>5 DEF Store
  <2> QED  BY <2>1, <2>2, GrownKeepsEvidence
<1>6. ASSUME EditRule \/ EditEvent \/ EditMatch PROVE Evidence(alerts[a])' = Evidence(alerts[a])
  BY <1>6, EditsAreEdits, EditKeepsEvidence
<1>7. CASE UNCHANGED vars
  BY <1>7 DEF vars, Evidence
<1>8. CASE Next
  <2>1. ASSUME NEW m \in held, NEW b \in AlertNames, CreateAlert(m, b)
        PROVE  Evidence(alerts[a])' = Evidence(alerts[a])
    <3>1. m \in Refs
      BY DEF Refs
    <3> QED  BY <1>4, <2>1, <3>1 DEF CreateAlert
  <2>2. ASSUME NEW c \in DOMAIN alerts, NEW b \in AlertNames, UpdateAlert(c, b)
        PROVE  Evidence(alerts[a])' = Evidence(alerts[a])
    <3>1. alerts[c] \in Refs
      BY DEF Refs
    <3> QED  BY <1>4, <2>2, <3>1 DEF UpdateAlert
  <2>3. ASSUME NEW m \in held, NEW b \in AlertNames, ForgeAlert(m, b)
        PROVE  Evidence(alerts[a])' = Evidence(alerts[a])
    BY <1>5, <2>3 DEF ForgeAlert
  <2>4. ASSUME NEW c \in DOMAIN alerts, NEW b \in AlertNames, CopyAlert(c, b)
        PROVE  Evidence(alerts[a])' = Evidence(alerts[a])
    BY <1>5, <2>4 DEF CopyAlert
  <2> QED  BY <1>2, <1>3, <1>6, <1>8, <2>1, <2>2, <2>3, <2>4 DEF Next
<1> QED  BY <1>7, <1>8

\* No change the caller makes is seen in the evidence of an alert.
THEOREM EvidenceIsForGood == Spec => EvidenceNeverChanges
<1>1. Inv /\ [Next]_vars => [\A a \in Owners : Evidence(alerts[a])' = Evidence(alerts[a])]_vars
  BY OwnersKeepEvidence
<1> QED  BY <1>1, Invariant, PTL DEF Spec, EvidenceNeverChanges

\* What a new alert takes over was fit to be owned, or another alert owned it.
Taken(a) ==
  \E m \in Refs :
    /\ Evidence(alerts[a])' = Evidence(m)
    /\ IsOwnable(m) \/ \E c \in Owners : alerts[c] = m

LEMMA OwnersTakeEvidence ==
  ASSUME Inv, [Next]_vars, NEW a \in Owners', a \notin Owners
  PROVE  Taken(a)
<1>1. ASSUME UNCHANGED <<alerts, forged>> PROVE FALSE
  BY <1>1 DEF Owners
<1>2. ASSUME NEW b, NEW q, NEW isForged \in BOOLEAN, Store(b, q, isForged)
      PROVE  a = b /\ ~isForged /\ alerts'[a] = q
  BY <1>2 DEF Store, Owners
<1>3. ASSUME NEW m \in Refs, IsOwnable(m), heap' = Snapshot(m), NEW b \in AlertNames,
             Store(b, New + 3, FALSE), UNCHANGED <<held, touched>>
      PROVE  Taken(a)
  <2>1. PICK q : q = New + 3
    OBVIOUS
  <2>2. Evidence(q)' = Evidence(m)
    BY <1>3, <2>1, SnapshotSafe
  <2>3. alerts'[a] = q
    BY <1>2, <1>3, <2>1
  <2>4. Evidence(alerts[a])' = Evidence(m)
    BY <2>2, <2>3 DEF Evidence
  <2> QED  BY <1>3, <2>4 DEF Taken
<1>4. ASSUME NEW c \in DOMAIN alerts, NEW b \in AlertNames, CopyAlert(c, b) PROVE Taken(a)
  <2>1. Store(b, alerts[c], c \in forged) /\ heap' = heap /\ (c \in forged) \in BOOLEAN
    BY <1>4 DEF CopyAlert
  <2>2. alerts'[a] = alerts[c] /\ c \in Owners
    BY <2>1 DEF Store, Owners
  <2>3. Evidence(alerts[a])' = Evidence(alerts[c])
    BY <2>1, <2>2 DEF Evidence
  <2> QED  BY <2>2, <2>3 DEF Taken, Refs
<1>5. ASSUME NEW m \in held, NEW b \in AlertNames, ForgeAlert(m, b) PROVE FALSE
  BY <1>2, <1>5 DEF ForgeAlert
<1>6. CASE UNCHANGED vars
  BY <1>1, <1>6 DEF vars
<1>7. CASE Next
  <2>1. ASSUME NEW m \in held, NEW b \in AlertNames, CreateAlert(m, b) PROVE Taken(a)
    <3>1. m \in Refs
      BY DEF Refs
    <3> QED  BY <1>3, <2>1, <3>1 DEF CreateAlert
  <2>2. ASSUME NEW c \in DOMAIN alerts, NEW b \in AlertNames, UpdateAlert(c, b) PROVE Taken(a)
    <3>1. alerts[c] \in Refs
      BY DEF Refs
    <3> QED  BY <1>3, <2>2, <3>1 DEF UpdateAlert
  <2>3. ASSUME NEW p \in EventsHeld, Evaluate(p) PROVE FALSE
    BY <1>1, <2>3 DEF Evaluate
  <2>4. ASSUME NEW c \in DOMAIN alerts, ReadMatch(c) PROVE FALSE
    BY <1>1, <2>4 DEF ReadMatch
  <2>5. ASSUME EditRule \/ EditEvent \/ EditMatch PROVE FALSE
    BY <1>1, <2>5 DEF EditRule, EditEvent, EditMatch, Edit
  <2> QED  BY <1>4, <1>5, <1>7, <2>1, <2>2, <2>3, <2>4, <2>5 DEF Next
<1> QED  BY <1>6, <1>7

\* An alert is made of the evidence of a match or an alert, as it was given.
THEOREM EvidenceIsTaken == Spec => EvidenceIsAsGiven
<1>1. Inv /\ [Next]_vars =>
        [\A a \in Owners' \ Owners :
           \E m \in held \cup {alerts[b] : b \in DOMAIN alerts} :
             Evidence(alerts[a])' = Evidence(m)]_vars
  BY OwnersTakeEvidence DEF Taken, Refs
<1> QED  BY <1>1, Invariant, PTL DEF Spec, EvidenceIsAsGiven

-----------------------------------------------------------------------------
(* Types.                                                                    *)

Counted == Len(heap) \in 0..MaxObjects /\ edits \in 0..MaxEdits /\ touched \in BOOLEAN

LEMMA StepCounted ==
  ASSUME Inv, Counted, [Next]_vars
  PROVE  Counted'
<1>0. heap \in Seq(Objects) /\ Len(heap) \in Nat /\ MaxObjects \in Nat /\ MaxEdits \in Nat
  BY BoundsAssumption DEF Inv, Typed
<1>1. ASSUME UNCHANGED <<heap, edits, touched>> PROVE Counted'
  BY <1>1 DEF Counted
<1>2. ASSUME NEW x, NEW y, heap' = heap \o <<x, y>>, HasRoom, UNCHANGED <<edits, touched>>
      PROVE  Counted'
  <2>1. Len(heap') = Len(heap) + 2
    BY <1>0, <1>2
  <2> QED  BY <1>0, <1>2, <2>1 DEF Counted, HasRoom, New
<1>3. ASSUME NEW x, NEW y, NEW z, heap' = heap \o <<x, y, z>>, HasRoom, UNCHANGED <<edits, touched>>
      PROVE  Counted'
  <2>1. Len(heap') = Len(heap) + 3
    BY <1>0, <1>3
  <2> QED  BY <1>0, <1>3, <2>1 DEF Counted, HasRoom, New
<1>4. ASSUME NEW p, NEW o, NEW evidence \in BOOLEAN, Edit(p, o, evidence) PROVE Counted'
  <2>1. Len(heap') = Len(heap)
    BY <1>0, <1>4 DEF Edit
  <2>2. touched' \in BOOLEAN
    BY <1>4, ZenonT(30) DEF Edit, Counted
  <2>3. edits' \in 0..MaxEdits
    BY <1>0, <1>4 DEF Edit, Counted
  <2> QED  BY <2>1, <2>2, <2>3 DEF Counted
<1>5. CASE UNCHANGED vars
  BY <1>1, <1>5 DEF vars
<1>6. CASE Next
  <2>1. ASSUME NEW p \in EventsHeld, Evaluate(p) PROVE Counted'
    BY <1>2, <2>1 DEF Evaluate
  <2>2. ASSUME NEW m \in held, NEW b \in AlertNames, CreateAlert(m, b) PROVE Counted'
    BY <1>3, <2>2 DEF CreateAlert, Snapshot
  <2>3. ASSUME NEW m \in held, NEW b \in AlertNames, ForgeAlert(m, b) PROVE Counted'
    BY <1>1, <2>3 DEF ForgeAlert
  <2>4. ASSUME NEW a \in DOMAIN alerts, ReadMatch(a) PROVE Counted'
    BY <1>3, <2>4 DEF ReadMatch, Copied
  <2>5. ASSUME NEW a \in DOMAIN alerts, NEW b \in AlertNames, UpdateAlert(a, b) PROVE Counted'
    BY <1>3, <2>5 DEF UpdateAlert, Snapshot
  <2>6. ASSUME NEW a \in DOMAIN alerts, NEW b \in AlertNames, CopyAlert(a, b) PROVE Counted'
    BY <1>1, <2>6 DEF CopyAlert
  <2>7. ASSUME EditRule \/ EditEvent \/ EditMatch PROVE Counted'
    BY <1>0, <1>4, <2>7, EditsAreEdits
  <2> QED  BY <1>6, <2>1, <2>2, <2>3, <2>4, <2>5, <2>6, <2>7 DEF Next
<1> QED  BY <1>5, <1>6

\* What an alert of the library's owns stays fit to be owned.
Owned == \A a \in Owners : IsOwnable(alerts[a])

LEMMA StepOwned ==
  ASSUME Inv, Owned, [Next]_vars
  PROVE  Owned'
<1>1. ASSUME NEW p, NEW q, Evidence(p)' = Evidence(q), IsOwnable(q) PROVE IsOwnable(p)'
  BY <1>1 DEF IsOwnable
<1> SUFFICES ASSUME NEW a \in Owners' PROVE IsOwnable(alerts[a])'
  BY DEF Owned
<1>2. CASE a \in Owners
  <2>1. Evidence(alerts[a])' = Evidence(alerts[a]) /\ IsOwnable(alerts[a])
    BY <1>2, OwnersKeepEvidence DEF Owned
  <2> QED  BY <2>1 DEF IsOwnable, Evidence
<1>3. CASE a \notin Owners
  <2>1. PICK m \in Refs : Evidence(alerts[a])' = Evidence(m) /\ IsOwnable(m)
    BY <1>3, OwnersTakeEvidence DEF Taken, Owned
  <2> QED  BY <2>1 DEF IsOwnable, Evidence
<1> QED  BY <1>2, <1>3

\* References lead to objects of their kind; and whatever the caller changes or forges, and
\* however often alerts are made of alerts, what an alert of the library's stores is valid
\* and what validation makes of it.
THEOREM ReferencesInOrder == Spec => []TypeOK
<1>1. ASSUME Init PROVE Counted
  <2>1. Len(heap) = 2 /\ edits = 0
    BY <1>1 DEF Init
  <2>2. touched \in BOOLEAN
    BY <1>1, ZenonT(30) DEF Init
  <2> QED  BY <2>1, <2>2, BoundsAssumption DEF Counted
<1>2. Inv /\ Counted /\ [Next]_vars => Counted'
  BY StepCounted
<1>3. Init => Owned
  BY DEF Init, Owned, Owners
<1>4. Inv /\ Owned /\ [Next]_vars => Owned'
  BY StepOwned
<1>5. Inv /\ Counted /\ Owned => TypeOK
  BY DEF Inv, Typed, Counted, Owned, TypeOK, Refs, Objects
<1> QED  BY <1>1, <1>2, <1>3, <1>4, <1>5, Invariant, PTL DEF Spec

================================================================================
