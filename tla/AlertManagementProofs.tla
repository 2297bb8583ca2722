------------------------ MODULE AlertManagementProofs ------------------------
(* Proofs about AlertManagement, for every set of slots, identities,        *)
(* matches, instants, arguments and edits.                                   *)
EXTENDS AlertManagement, TLAPS

(* What an accepted request says of its arguments and its result.           *)

\* A successful create_alert yields a readable new Alert.
LEMMA CreateResult ==
  ASSUME NEW match, NEW id, NEW t \in TimeArgs, NEW severity, NEW priority,
         CreateReply(match, id, t, severity, priority) = "ok"
  PROVE  /\ id \in AlertIds /\ match \in TrueMatches /\ UtcInstant(t) \in Instants
         /\ severity \in AlertSeverity /\ priority \in AlertPriority
         /\ Readable(NewAlert(match, id, UtcInstant(t), severity, priority))
  <1>1. /\ id \in AlertIds /\ match \in TrueMatches /\ UtcInstant(t) \in Instants
        /\ severity \in AlertSeverity /\ priority \in AlertPriority
    BY DEF CreateReply, HasUtcInstant
  <1>2. NewAlert(match, id, UtcInstant(t), severity, priority) \in AlertFields
    BY <1>1 DEF NewAlert, AlertFields, AlertState
  <1>3. ValidTimestampOrder(NewAlert(match, id, UtcInstant(t), severity, priority))
    BY <1>1 DEF NewAlert, ValidTimestampOrder, Instants
  <1> QED BY <1>1, <1>2, <1>3 DEF Readable

\* A successful transition was asked in time, from one of its two states, and
\* its result is readable.
LEMMA TransitionResult ==
  ASSUME NEW v, NEW t, NEW source, NEW target,
         TransitionReply(v, t, source, target) = "ok"
  PROVE  /\ Readable(v)
         /\ UtcInstant(t) \in Instants
         /\ ~(UtcInstant(t) < v.updated_at)
         /\ v.state = target \/ v.state = source
         /\ Readable(Transitioned(v, UtcInstant(t), target))
  BY DEF TransitionReply, HasUtcInstant

\* A successful policy change was asked in time, for an Alert that is not
\* closed, with a value of the field's enum, and its result is readable.
LEMMA PolicyResult ==
  ASSUME NEW v, NEW t, NEW field, NEW members, NEW value,
         PolicyReply(v, t, field, members, value) = "ok"
  PROVE  /\ Readable(v)
         /\ UtcInstant(t) \in Instants
         /\ ~(UtcInstant(t) < v.updated_at)
         /\ v.state # "AlertState.CLOSED"
         /\ value \in members
         /\ Readable(Reassessed(v, UtcInstant(t), field, value))
  BY DEF PolicyReply, HasUtcInstant

\* A readable Alert is a value the caller can hold.
LEMMA ReadableIsHeld ==
  ASSUME NEW v, Readable(v)
  PROVE  v \in EditedFields
  BY DEF Readable, AlertFields, EditedFields

-----------------------------------------------------------------------------
(* Type correctness together with the readability of every output: whether  *)
(* a step keeps the types depends on what the operations return.            *)

Sound == TypeOK /\ OutputsStayReadable

\* The caller starts with no Alert.
LEMMA SoundInit == Init => Sound
  BY DEF Init, Sound, TypeOK, OutputsStayReadable, Lineages, Replies

\* A readable result stored under a mark that is not Edited keeps Sound.
LEMMA StoreSound ==
  ASSUME Sound, NEW d \in Slots, NEW value, NEW mark \in Lineages,
         Store(d, value, mark), Readable(value)
  PROVE  Sound'
  <1>1. value \in EditedFields BY ReadableIsHeld
  <1>2. TypeOK' BY <1>1 DEF Sound, TypeOK, Store, Replies
  <1>3. OutputsStayReadable'
    BY DEF Sound, TypeOK, OutputsStayReadable, Store
  <1> QED BY <1>2, <1>3 DEF Sound

\* An error leaves every slot as it is.
LEMMA RefuseSound ==
  ASSUME Sound, NEW reason \in Replies, Refuse(reason)
  PROVE  Sound'
  BY DEF Sound, TypeOK, OutputsStayReadable, Refuse

\* Whatever the arguments, an operation answers with one of the replies.
LEMMA ReplyTypes ==
  ASSUME NEW v, NEW t, NEW source, NEW target, NEW field, NEW members, NEW value,
         NEW match, NEW id, NEW severity, NEW priority
  PROVE  /\ TransitionReply(v, t, source, target) \in Replies
         /\ PolicyReply(v, t, field, members, value) \in Replies
         /\ CreateReply(match, id, t, severity, priority) \in Replies
  <1>1. TransitionReply(v, t, source, target) \in Replies
    BY DEF TransitionReply, Replies
  <1>2. PolicyReply(v, t, field, members, value) \in Replies
    BY DEF PolicyReply, Replies
  <1>3. CreateReply(match, id, t, severity, priority) \in Replies
    BY DEF CreateReply, Replies
  <1> QED BY <1>1, <1>2, <1>3

\* Every step keeps the types and the readability of the outputs.
LEMMA SoundNext == Sound /\ [Next]_vars => Sound'
  <1> SUFFICES ASSUME Sound, [Next]_vars PROVE Sound'
    OBVIOUS
  <1> USE DEF Inherited, Genuine, Lineages
  <1>0. \A s \in Slots : lineage[s] \in Lineages
    BY DEF Sound, TypeOK
  <1>1. CASE UNCHANGED vars
    BY <1>1 DEF vars, Sound, TypeOK, OutputsStayReadable
  <1>2. ASSUME NEW d \in Slots, NEW match, NEW id, NEW t \in TimeArgs,
               NEW severity, NEW priority, Create(d, match, id, t, severity, priority)
        PROVE  Sound'
    BY <1>2, CreateResult, StoreSound, RefuseSound, ReplyTypes DEF Create
  <1>3. ASSUME NEW s \in Slots, NEW d \in Slots, NEW t \in TimeArgs, AcknowledgeAlert(s, d, t)
        PROVE  Sound'
    BY <1>0, <1>3, TransitionResult, StoreSound, RefuseSound, ReplyTypes DEF AcknowledgeAlert
  <1>4. ASSUME NEW s \in Slots, NEW d \in Slots, NEW t \in TimeArgs, CloseAlert(s, d, t)
        PROVE  Sound'
    BY <1>0, <1>4, TransitionResult, StoreSound, RefuseSound, ReplyTypes DEF CloseAlert
  <1>5. ASSUME NEW s \in Slots, NEW d \in Slots, NEW t \in TimeArgs, NEW value,
               SetSeverity(s, d, value, t)
        PROVE  Sound'
    BY <1>0, <1>5, PolicyResult, StoreSound, RefuseSound, ReplyTypes DEF SetSeverity
  <1>6. ASSUME NEW s \in Slots, NEW d \in Slots, NEW t \in TimeArgs, NEW value,
               SetPriority(s, d, value, t)
        PROVE  Sound'
    BY <1>0, <1>6, PolicyResult, StoreSound, RefuseSound, ReplyTypes DEF SetPriority
  <1>7. ASSUME NEW s \in Slots, NEW d \in Slots, NEW edit \in EditArgs, Edit(s, d, edit)
        PROVE  Sound'
    <2>1. held[s] \in AlertFields
      BY <1>7 DEF Edit, Sound, OutputsStayReadable, Readable
    <2>2. [held[s] EXCEPT ![edit[1]] = edit[2]] \in EditedFields
      BY <2>1, ArgumentAssumption
    <2>3. TypeOK'
      BY <1>7, <2>2 DEF Edit, Store, Sound, TypeOK, Replies
    <2>4. OutputsStayReadable'
      BY <1>7 DEF Edit, Store, Sound, TypeOK, OutputsStayReadable
    <2> QED BY <2>3, <2>4 DEF Sound
  <1>8. ASSUME NEW s \in Slots, NEW d \in Slots, Assign(s, d)
        PROVE  Sound'
    BY <1>8 DEF Assign, Store, Sound, TypeOK, OutputsStayReadable, Replies
  <1> QED BY <1>1, <1>2, <1>3, <1>4, <1>5, <1>6, <1>7, <1>8 DEF Next

\* Every reachable state is well typed.
THEOREM TypeCorrect == Spec => []TypeOK
  <1>1. Sound => TypeOK BY DEF Sound
  <1> QED BY SoundInit, SoundNext, <1>1, PTL DEF Spec

\* Whatever the library returned, it will read again: alerts/_validation.py never
\* rejects a value that another operation produced.
THEOREM OutputsReadable == Spec => []OutputsStayReadable
  <1>1. Sound => OutputsStayReadable BY DEF Sound
  <1> QED BY SoundInit, SoundNext, <1>1, PTL DEF Spec

-----------------------------------------------------------------------------
(* The history told by the timestamps of a genuine Alert.  TimestampsTellHistory *)
(* is inductive relative to Sound: that an acknowledged Alert's instant lies      *)
(* before its closing needs the order check of every operation in between.       *)

\* What TimestampsTellHistory says of one value with the acknowledgement instant k.
Tells(a, k) ==
  /\ Readable(a)
  /\ a.state = "AlertState.NEW" => k = NoTime /\ a.state_changed_at = a.created_at
  /\ a.state = "AlertState.ACKNOWLEDGED" => k \in Instants /\ k = a.state_changed_at
  /\ a.state = "AlertState.CLOSED" =>
       /\ k \in Instants
       /\ a.created_at <= k
       /\ k <= a.state_changed_at
       /\ a.state_changed_at = a.updated_at

\* The history property, slot by slot.
LEMMA TellsEverySlot ==
  TimestampsTellHistory <=> \A s \in Slots : Genuine(s) => Tells(held[s], lineage[s])
  BY DEF TimestampsTellHistory, Tells

\* The acknowledgement instant after an acknowledge call at the instant at.
Acknowledged(k, at) == IF k = NoTime THEN at ELSE k

\* A new Alert tells its history.
LEMMA CreateTells ==
  ASSUME NEW match, NEW id, NEW t \in TimeArgs, NEW severity, NEW priority,
         CreateReply(match, id, t, severity, priority) = "ok"
  PROVE  Tells(NewAlert(match, id, UtcInstant(t), severity, priority), NoTime)
  BY CreateResult DEF Tells, NewAlert

\* So does an acknowledged one, whether it was new or already acknowledged.
LEMMA AcknowledgeTells ==
  ASSUME NEW a, NEW k \in Instants \cup {NoTime}, Tells(a, k), NEW t,
         TransitionReply(a, t, "AlertState.NEW", "AlertState.ACKNOWLEDGED") = "ok"
  PROVE  Tells(Transitioned(a, UtcInstant(t), "AlertState.ACKNOWLEDGED"),
               Acknowledged(k, UtcInstant(t)))
  <1> DEFINE b == Transitioned(a, UtcInstant(t), "AlertState.ACKNOWLEDGED")
  <1>1. /\ UtcInstant(t) \in Instants
        /\ a.state = "AlertState.ACKNOWLEDGED" \/ a.state = "AlertState.NEW"
        /\ Readable(b)
    BY TransitionResult
  <1>2. a \in AlertFields BY DEF Tells, Readable
  <1>3. NoTime \notin Instants BY LineageAssumption DEF Instants
  <1>4. CASE a.state = "AlertState.ACKNOWLEDGED"
    BY <1>1, <1>3, <1>4 DEF Tells, Transitioned, Acknowledged
  <1>5. CASE a.state = "AlertState.NEW"
    <2>1. b.state = "AlertState.ACKNOWLEDGED" /\ b.state_changed_at = UtcInstant(t)
      BY <1>2, <1>5 DEF Transitioned, AlertFields
    <2>2. Acknowledged(k, UtcInstant(t)) = UtcInstant(t)
      BY <1>5 DEF Tells, Acknowledged
    <2> QED BY <1>1, <2>1, <2>2 DEF Tells
  <1> QED BY <1>1, <1>4, <1>5

\* So does a closed one: only an acknowledged or a closed Alert can be closed.
LEMMA CloseTells ==
  ASSUME NEW a, NEW k \in Instants \cup {NoTime}, Tells(a, k), NEW t,
         TransitionReply(a, t, "AlertState.ACKNOWLEDGED", "AlertState.CLOSED") = "ok"
  PROVE  Tells(Transitioned(a, UtcInstant(t), "AlertState.CLOSED"), k)
  <1> DEFINE b == Transitioned(a, UtcInstant(t), "AlertState.CLOSED")
  <1>1. /\ UtcInstant(t) \in Instants
        /\ ~(UtcInstant(t) < a.updated_at)
        /\ a.state = "AlertState.CLOSED" \/ a.state = "AlertState.ACKNOWLEDGED"
        /\ Readable(b)
    BY TransitionResult
  <1>2. a \in AlertFields /\ ValidTimestampOrder(a) BY DEF Tells, Readable
  <1>3. CASE a.state = "AlertState.CLOSED"
    BY <1>3 DEF Tells, Transitioned
  <1>4. CASE a.state = "AlertState.ACKNOWLEDGED"
    <2>1. /\ b.state = "AlertState.CLOSED" /\ b.state_changed_at = UtcInstant(t)
          /\ b.updated_at = UtcInstant(t) /\ b.created_at = a.created_at
      BY <1>2, <1>4 DEF Transitioned, AlertFields
    <2>2. k \in Instants /\ k = a.state_changed_at
      BY <1>4 DEF Tells
    <2>3. a.created_at <= k /\ k <= UtcInstant(t)
      BY <1>1, <1>2, <2>2 DEF ValidTimestampOrder, AlertFields, Instants
    <2> QED BY <1>1, <2>1, <2>2, <2>3 DEF Tells
  <1> QED BY <1>1, <1>3, <1>4

\* What a policy change leaves alone.
LEMMA ReassessedFields ==
  ASSUME NEW a \in AlertFields, NEW at, NEW value,
         NEW field \in {"severity", "priority"}
  PROVE  LET b == Reassessed(a, at, field, value) IN
         /\ b.alert_id = a.alert_id /\ b.source_match = a.source_match
         /\ b.created_at = a.created_at /\ b.state = a.state
         /\ b.state_changed_at = a.state_changed_at
  BY DEF Reassessed, AlertFields

\* So does a reassessed one, which is never closed and keeps its state.
LEMMA PolicyTells ==
  ASSUME NEW a, NEW k, Tells(a, k), NEW t, NEW members, NEW value,
         NEW field \in {"severity", "priority"},
         PolicyReply(a, t, field, members, value) = "ok"
  PROVE  Tells(Reassessed(a, UtcInstant(t), field, value), k)
  <1>1. Readable(Reassessed(a, UtcInstant(t), field, value)) /\ a.state # "AlertState.CLOSED"
    BY PolicyResult
  <1>2. a \in AlertFields BY DEF Tells, Readable
  <1> QED BY <1>1, <1>2, ReassessedFields DEF Tells

\* Storing a value that tells its history keeps every other slot as it is.
LEMMA StoreTells ==
  ASSUME Sound, TimestampsTellHistory, NEW d \in Slots, NEW value, NEW mark \in Lineages,
         Store(d, value, mark), mark \in Instants \cup {NoTime} => Tells(value, mark)
  PROVE  TimestampsTellHistory'
  <1> SUFFICES ASSUME NEW s \in Slots, Genuine(s)'
               PROVE  Tells(held[s], lineage[s])'
    BY TellsEverySlot DEF TimestampsTellHistory, Tells
  <1>1. CASE s = d
    BY <1>1 DEF Store, Sound, TypeOK, Genuine, Tells, Readable, Instants
  <1>2. CASE s # d
    <2>1. held'[s] = held[s] /\ lineage'[s] = lineage[s]
      BY <1>2 DEF Store, Sound, TypeOK
    <2>2. Tells(held[s], lineage[s])
      BY <2>1, TellsEverySlot DEF Genuine
    <2> QED BY <2>1, <2>2 DEF Tells, Readable, ValidTimestampOrder
  <1> QED BY <1>1, <1>2

History == Sound /\ TimestampsTellHistory

\* There is no history to tell at first.
LEMMA HistoryInit == Init => History
  <1>1. Init => \A s \in Slots : ~Genuine(s)
    BY LineageAssumption DEF Init, Genuine, Instants
  <1> QED BY <1>1, SoundInit DEF History, TimestampsTellHistory

\* Every step keeps the history true.
LEMMA HistoryNext == History /\ [Next]_vars => History'
  <1> SUFFICES ASSUME Sound, TimestampsTellHistory, [Next]_vars
               PROVE  TimestampsTellHistory'
    BY SoundNext DEF History
  <1>0. \A s \in Slots : lineage[s] \in Lineages
    BY DEF Sound, TypeOK
  <1>a. \A s \in Slots : Genuine(s) => Tells(held[s], lineage[s])
    BY TellsEverySlot
  <1>b. {NoTime, Edited, Derived} \cap Instants = {}
    BY LineageAssumption DEF Instants
  <1>c. ASSUME NEW reason, Refuse(reason) PROVE TimestampsTellHistory'
    BY <1>c DEF Refuse, TimestampsTellHistory, Genuine, Readable, ValidTimestampOrder
  <1>1. CASE UNCHANGED vars
    BY <1>1 DEF vars, TimestampsTellHistory, Genuine, Readable, ValidTimestampOrder
  <1>2. ASSUME NEW d \in Slots, NEW match, NEW id, NEW t \in TimeArgs,
               NEW severity, NEW priority, Create(d, match, id, t, severity, priority)
        PROVE  TimestampsTellHistory'
    BY <1>2, <1>c, CreateTells, StoreTells DEF Create, Lineages
  <1>3. ASSUME NEW s \in Slots, NEW d \in Slots, NEW t \in TimeArgs, AcknowledgeAlert(s, d, t)
        PROVE  TimestampsTellHistory'
    <2> DEFINE b == Transitioned(held[s], UtcInstant(t), "AlertState.ACKNOWLEDGED")
               mark == IF lineage[s] = NoTime THEN UtcInstant(t) ELSE Inherited(s)
    <2>1. CASE TransitionReply(held[s], t, "AlertState.NEW", "AlertState.ACKNOWLEDGED") # "ok"
      BY <1>3, <1>c, <2>1 DEF AcknowledgeAlert
    <2>2. CASE TransitionReply(held[s], t, "AlertState.NEW", "AlertState.ACKNOWLEDGED") = "ok"
      <3>1. Store(d, b, mark)
        BY <1>3, <2>2 DEF AcknowledgeAlert, Refuse
      <3>2. mark \in Lineages
        BY <1>0, <2>2, TransitionResult DEF Lineages, Inherited, Genuine
      <3>3. CASE Genuine(s)
        <4>1. mark = Acknowledged(lineage[s], UtcInstant(t))
          BY <3>3 DEF Inherited, Acknowledged
        <4>2. Tells(b, mark)
          BY <1>a, <2>2, <3>3, <4>1, AcknowledgeTells DEF Genuine
        <4> QED BY <3>1, <3>2, <4>2, StoreTells
      <3>4. CASE ~Genuine(s)
        <4>1. mark = Derived
          BY <3>4 DEF Inherited, Genuine
        <4>2. ~(mark \in Instants \cup {NoTime})
          BY <4>1, <1>b, LineageAssumption
        <4> QED BY <3>1, <3>2, <4>2, StoreTells
      <3> QED BY <3>3, <3>4
    <2> QED BY <2>1, <2>2
  <1>d. ASSUME NEW s \in Slots, NEW d \in Slots, NEW b, Store(d, b, Inherited(s)),
               Genuine(s) => Tells(b, lineage[s])
        PROVE  TimestampsTellHistory'
    <2>1. Inherited(s) \in Lineages
      BY <1>0 DEF Inherited, Lineages
    <2>2. Inherited(s) \in Instants \cup {NoTime} => Tells(b, Inherited(s))
      BY <1>b, <1>d, LineageAssumption DEF Inherited, Genuine
    <2> QED BY <1>d, <2>1, <2>2, StoreTells
  <1>4. ASSUME NEW s \in Slots, NEW d \in Slots, NEW t \in TimeArgs, CloseAlert(s, d, t)
        PROVE  TimestampsTellHistory'
    BY <1>4, <1>a, <1>c, <1>d, CloseTells DEF CloseAlert, Genuine
  <1>5. ASSUME NEW s \in Slots, NEW d \in Slots, NEW t \in TimeArgs, NEW value,
               SetSeverity(s, d, value, t)
        PROVE  TimestampsTellHistory'
    BY <1>5, <1>a, <1>c, <1>d, PolicyTells DEF SetSeverity
  <1>6. ASSUME NEW s \in Slots, NEW d \in Slots, NEW t \in TimeArgs, NEW value,
               SetPriority(s, d, value, t)
        PROVE  TimestampsTellHistory'
    BY <1>6, <1>a, <1>c, <1>d, PolicyTells DEF SetPriority
  <1>7. ASSUME NEW s \in Slots, NEW d \in Slots, NEW edit \in EditArgs, Edit(s, d, edit)
        PROVE  TimestampsTellHistory'
    <2>1. Edited \in Lineages /\ ~(Edited \in Instants \cup {NoTime})
      BY <1>b, LineageAssumption DEF Lineages
    <2> QED BY <1>7, <2>1, StoreTells DEF Edit
  <1>8. ASSUME NEW s \in Slots, NEW d \in Slots, Assign(s, d)
        PROVE  TimestampsTellHistory'
    BY <1>8, <1>0, <1>a, StoreTells DEF Assign, Genuine
  <1> QED BY <1>1, <1>2, <1>3, <1>4, <1>5, <1>6, <1>7, <1>8 DEF Next

\* The timestamps of every Alert only the library touched tell its history.
THEOREM TimestampsTruthful == Spec => []TimestampsTellHistory
  <1>1. History => TimestampsTellHistory BY DEF History
  <1> QED BY HistoryInit, HistoryNext, <1>1, PTL DEF Spec

-----------------------------------------------------------------------------
(* The code refuses exactly what the recorded history forbids: the final    *)
(* validation of an update never fails once its own checks have passed.     *)

\* A transition at or after the last change yields a readable Alert, so the
\* revalidation of the result never refuses one.
LEMMA TransitionedReadable ==
  ASSUME NEW a, Readable(a), NEW at \in Instants, ~(at < a.updated_at),
         NEW target \in AlertState
  PROVE  Readable(Transitioned(a, at, target))
  <1>1. a \in AlertFields /\ ValidTimestampOrder(a) BY DEF Readable
  <1>2. CASE a.state = target BY <1>2 DEF Transitioned
  <1>3. CASE a.state # target
    <2> DEFINE b == [a EXCEPT !.state = target, !.state_changed_at = at, !.updated_at = at]
    <2>1. b \in AlertFields BY <1>1 DEF AlertFields
    <2>2. b.created_at = a.created_at /\ b.state_changed_at = at /\ b.updated_at = at
      BY <1>1 DEF AlertFields
    <2>3. ValidTimestampOrder(b)
      BY <1>1, <2>2 DEF ValidTimestampOrder, AlertFields, Instants
    <2> QED BY <1>3, <2>1, <2>3 DEF Transitioned, Readable
  <1> QED BY <1>2, <1>3

\* So does a reassessment with a value of the enum.
LEMMA ReassessedReadable ==
  ASSUME NEW a, Readable(a), NEW at \in Instants, ~(at < a.updated_at), NEW field, NEW value,
         \/ field = "severity" /\ value \in AlertSeverity
         \/ field = "priority" /\ value \in AlertPriority
  PROVE  Readable(Reassessed(a, at, field, value))
  <1>1. a \in AlertFields /\ ValidTimestampOrder(a) BY DEF Readable
  <1>2. CASE a[field] = value BY <1>2 DEF Reassessed
  <1>3. CASE a[field] # value
    <2> DEFINE b == [a EXCEPT ![field] = value, !.updated_at = at]
    <2>1. b \in AlertFields BY <1>1 DEF AlertFields
    <2>2. /\ b.created_at = a.created_at /\ b.state_changed_at = a.state_changed_at
          /\ b.updated_at = at
      BY <1>1 DEF AlertFields
    <2>3. ValidTimestampOrder(b)
      BY <1>1, <2>2 DEF ValidTimestampOrder, AlertFields, Instants
    <2> QED BY <1>3, <2>1, <2>3 DEF Reassessed, Readable
  <1> QED BY <1>2, <1>3

\* The guards of the code are those of the ledger, read from the timestamps.
LEMMA HistoryDecidesReplies == History => AcceptsExactlyThePermitted
  <1> SUFFICES ASSUME History, NEW s \in Slots, NEW t \in TimeArgs, Genuine(s), HasUtcInstant(t)
               PROVE  LET at == UtcInstant(t) IN
    /\ TransitionReply(held[s], t, "AlertState.NEW", "AlertState.ACKNOWLEDGED") = "ok"
         <=> Ledger!MayAcknowledge(EntryOf(s), at)
    /\ TransitionReply(held[s], t, "AlertState.ACKNOWLEDGED", "AlertState.CLOSED") = "ok"
         <=> Ledger!MayClose(EntryOf(s), at)
    /\ \A value \in AlertSeverity :
         PolicyReply(held[s], t, "severity", AlertSeverity, value) = "ok"
           <=> Ledger!MayAssess(EntryOf(s), at)
    /\ \A value \in AlertPriority :
         PolicyReply(held[s], t, "priority", AlertPriority, value) = "ok"
           <=> Ledger!MayAssess(EntryOf(s), at)
    BY DEF AcceptsExactlyThePermitted
  <1> DEFINE a == held[s]
             k == lineage[s]
             at == UtcInstant(t)
             e == EntryOf(s)
  <1>1. Tells(a, k) BY TellsEverySlot DEF History
  <1>2. a \in AlertFields /\ at \in Instants /\ Readable(a)
    BY <1>1 DEF Tells, Readable, HasUtcInstant
  <1>3. NoTime \notin Instants BY LineageAssumption DEF Instants
  <1>4. /\ e.acknowledged = k /\ e.touched = a.updated_at
        /\ e.closed = IF a.state = "AlertState.CLOSED" THEN a.state_changed_at ELSE NoTime
    BY DEF EntryOf
  <1>5. e.closed = NoTime <=> a.state # "AlertState.CLOSED"
    BY <1>2, <1>3, <1>4 DEF AlertFields
  <1>6. e.acknowledged # NoTime <=> a.state # "AlertState.NEW"
    BY <1>1, <1>2, <1>3, <1>4 DEF Tells, AlertFields, AlertState
  <1>7. at >= e.touched <=> ~(at < a.updated_at)
    BY <1>2, <1>4 DEF AlertFields, Instants
  <1>8. a.state \in AlertState BY <1>2 DEF AlertFields
  <1>9. TransitionReply(a, t, "AlertState.NEW", "AlertState.ACKNOWLEDGED") = "ok"
          <=> Ledger!MayAcknowledge(e, at)
    BY <1>2, <1>5, <1>7, <1>8, TransitionedReadable
    DEF TransitionReply, Ledger!MayAcknowledge, AlertState
  <1>10. TransitionReply(a, t, "AlertState.ACKNOWLEDGED", "AlertState.CLOSED") = "ok"
          <=> Ledger!MayClose(e, at)
    BY <1>2, <1>6, <1>7, <1>8, TransitionedReadable
    DEF TransitionReply, Ledger!MayClose, AlertState
  <1>11. ASSUME NEW field, NEW members, NEW value \in members,
                \/ field = "severity" /\ members = AlertSeverity
                \/ field = "priority" /\ members = AlertPriority
         PROVE  PolicyReply(a, t, field, members, value) = "ok" <=> Ledger!MayAssess(e, at)
    BY <1>2, <1>5, <1>7, <1>11, ReassessedReadable DEF PolicyReply, Ledger!MayAssess
  <1> QED BY <1>9, <1>10, <1>11

\* In every reachable state the four update operations accept a request on an Alert
\* only the library touched if and only if its recorded history permits it.
THEOREM RepliesDecidedByHistory == Spec => []AcceptsExactlyThePermitted
  BY HistoryInit, HistoryNext, HistoryDecidesReplies, PTL DEF Spec

-----------------------------------------------------------------------------
(* Refinement of AlertLedger.                                               *)

\* The ledger line of a value with lineage k; EntryOf(s) is that of slot s.
Line(a, k) ==
  IF ~(k \in Instants \cup {NoTime}) THEN Edited
  ELSE [id |-> a.alert_id, match |-> a.source_match, opened |-> a.created_at,
        acknowledged |-> k,
        closed |-> IF a.state = "AlertState.CLOSED" THEN a.state_changed_at ELSE NoTime,
        touched |-> a.updated_at, severity |-> a.severity, priority |-> a.priority]

lines == [s \in Slots |-> EntryOf(s)]

\* The ledger's lines are those of the values and their lineage.
LEMMA LineOfSlot ==
  /\ \A s \in Slots : EntryOf(s) = Line(held[s], lineage[s])
  /\ \A s \in Slots : EntryOf(s)' = Line(held'[s], lineage'[s])
  BY DEF EntryOf, Line, Genuine

\* A stored value replaces one line.
LEMMA StoreEnters ==
  ASSUME TypeOK, NEW d \in Slots, NEW value, NEW mark, Store(d, value, mark)
  PROVE  Ledger!Enter(d, Line(value, mark))
  <1>1. held'[d] = value /\ lineage'[d] = mark
    BY DEF Store, TypeOK
  <1>2. \A s \in Slots : s # d => held'[s] = held[s] /\ lineage'[s] = lineage[s]
    BY DEF Store, TypeOK
  <1>3. \A s \in Slots : EntryOf(s)' = IF s = d THEN Line(value, mark) ELSE EntryOf(s)
    BY <1>1, <1>2, LineOfSlot
  <1>4. lines' = [lines EXCEPT ![d] = Line(value, mark)]
    BY <1>3 DEF lines
  <1> QED BY <1>4 DEF Ledger!Enter, lines

\* The marks are no instants, and a value that is not genuine has no line.
LEMMA MarksApart ==
  /\ {NoTime, Edited, Derived} \cap Instants = {}
  /\ Line(NotAnAlert, Edited) = Edited
  /\ \A a : Line(a, Derived) = Edited /\ Line(a, Edited) = Edited
  <1>1. {NoTime, Edited, Derived} \cap Instants = {} BY LineageAssumption DEF Instants
  <1> QED BY <1>1, LineageAssumption DEF Line

\* The line of a genuine readable Alert is an entry, and so not NoEntry.
LEMMA LineIsEntry ==
  ASSUME NEW a, Readable(a), NEW k \in Instants \cup {NoTime}
  PROVE  Line(a, k) \in Ledger!Entries /\ Line(a, k) # Edited
  <1>1. Line(a, k) \in Ledger!Entries
    BY DEF Line, Readable, AlertFields, Ledger!Entries
  <1> QED BY <1>1, EntryAssumption

\* The ledger starts empty.
LEMMA LedgerInit == Init => Ledger!Init
  <1> SUFFICES ASSUME Init PROVE lines = [s \in Slots |-> Edited]
    BY DEF Ledger!Init, lines
  <1>1. \A s \in Slots : EntryOf(s) = Line(NotAnAlert, Edited)
    BY LineOfSlot DEF Init
  <1> QED BY <1>1, MarksApart DEF lines

\* Storing what an operation returned for a value that vouches for nothing, or
\* storing it unchanged, is a step of the ledger.
LEMMA StoreLoses ==
  ASSUME TypeOK, NEW d \in Slots, NEW value, NEW mark \in {Edited, Derived},
         Store(d, value, mark)
  PROVE  Ledger!Next
  <1>1. Line(value, mark) = Edited BY MarksApart
  <1>2. Ledger!Enter(d, Edited) BY <1>1, StoreEnters
  <1> QED BY <1>2 DEF Ledger!Next, Ledger!Lose

\* An assignment between slots copies a line.
LEMMA StoreKeeps ==
  ASSUME TypeOK, NEW s \in Slots, NEW d \in Slots, Store(d, held[s], lineage[s])
  PROVE  Ledger!Next
  <1>1. Ledger!Enter(d, EntryOf(s))
    BY StoreEnters, LineOfSlot
  <1>2. Ledger!Keep(s, d)
    BY <1>1 DEF Ledger!Keep, lines
  <1> QED BY <1>2 DEF Ledger!Next

\* create_alert opens a line.
LEMMA CreateOpens ==
  ASSUME TypeOK, NEW d \in Slots, NEW match, NEW id, NEW t \in TimeArgs,
         NEW severity, NEW priority,
         CreateReply(match, id, t, severity, priority) = "ok",
         Store(d, NewAlert(match, id, UtcInstant(t), severity, priority), NoTime)
  PROVE  Ledger!Next
  <1> DEFINE b == NewAlert(match, id, UtcInstant(t), severity, priority)
  <1>1. /\ id \in AlertIds /\ match \in TrueMatches /\ UtcInstant(t) \in Instants
        /\ severity \in AlertSeverity /\ priority \in AlertPriority
    BY CreateResult
  <1>2. Line(b, NoTime) =
          [id |-> id, match |-> match, opened |-> UtcInstant(t), acknowledged |-> NoTime,
           closed |-> NoTime, touched |-> UtcInstant(t),
           severity |-> severity, priority |-> priority]
    BY DEF Line, NewAlert
  <1>3. Ledger!Open(d, id, match, UtcInstant(t), severity, priority)
    BY <1>2, StoreEnters DEF Ledger!Open
  <1> QED BY <1>1, <1>3 DEF Ledger!Next

\* A readable Alert and its result have lines that agree as their fields do.
LEMMA LineFields ==
  ASSUME NEW a, NEW k \in Instants \cup {NoTime}
  PROVE  /\ Line(a, k).id = a.alert_id /\ Line(a, k).match = a.source_match
         /\ Line(a, k).opened = a.created_at /\ Line(a, k).acknowledged = k
         /\ Line(a, k).touched = a.updated_at
         /\ Line(a, k).severity = a.severity /\ Line(a, k).priority = a.priority
         /\ a.state = "AlertState.CLOSED" => Line(a, k).closed = a.state_changed_at
         /\ a.state # "AlertState.CLOSED" => Line(a, k).closed = NoTime
  BY DEF Line

\* The line of an Alert that an acknowledge call moved.
LEMMA LineAcknowledged ==
  ASSUME NEW a, Readable(a), NEW k \in Instants \cup {NoTime},
         NEW b, Readable(b), NEW at \in Instants,
         b.alert_id = a.alert_id, b.source_match = a.source_match,
         b.created_at = a.created_at, b.updated_at = at,
         a.state # "AlertState.CLOSED", b.state # "AlertState.CLOSED",
         b.severity = a.severity, b.priority = a.priority
  PROVE  Line(b, at) = Ledger!WithAcknowledgement(Line(a, k), at)
  <1> DEFINE e == Line(a, k)
             f == Line(b, at)
  <1>1. e \in Ledger!Entries /\ f \in Ledger!Entries BY LineIsEntry
  <1>2. f.id = e.id /\ f.match = e.match /\ f.opened = e.opened /\ f.touched = at
    BY LineFields
  <1>3. /\ f.acknowledged = at /\ f.closed = e.closed
        /\ f.severity = e.severity /\ f.priority = e.priority
    BY LineFields
  <1> HIDE DEF e, f
  <1>4. f = Ledger!WithAcknowledgement(e, at)
    BY <1>1, <1>2, <1>3 DEF Ledger!Entries, Ledger!WithAcknowledgement
  <1> QED BY <1>4 DEF e, f

\* The line of an Alert that a close call moved.
LEMMA LineClosed ==
  ASSUME NEW a, Readable(a), NEW k \in Instants \cup {NoTime},
         NEW b, Readable(b), NEW at \in Instants,
         b.alert_id = a.alert_id, b.source_match = a.source_match,
         b.created_at = a.created_at, b.updated_at = at,
         b.state = "AlertState.CLOSED", b.state_changed_at = at,
         b.severity = a.severity, b.priority = a.priority
  PROVE  Line(b, k) = Ledger!WithClosing(Line(a, k), at)
  <1> DEFINE e == Line(a, k)
             f == Line(b, k)
  <1>1. e \in Ledger!Entries /\ f \in Ledger!Entries BY LineIsEntry
  <1>2. f.id = e.id /\ f.match = e.match /\ f.opened = e.opened /\ f.touched = at
    BY LineFields
  <1>3. /\ f.acknowledged = e.acknowledged /\ f.closed = at
        /\ f.severity = e.severity /\ f.priority = e.priority
    BY LineFields
  <1> HIDE DEF e, f
  <1>4. f = Ledger!WithClosing(e, at)
    BY <1>1, <1>2, <1>3 DEF Ledger!Entries, Ledger!WithClosing
  <1> QED BY <1>4 DEF e, f

\* The line of an Alert whose severity changed.
LEMMA LineSeverity ==
  ASSUME NEW a, Readable(a), NEW k \in Instants \cup {NoTime},
         NEW b, Readable(b), NEW at \in Instants,
         b.alert_id = a.alert_id, b.source_match = a.source_match,
         b.created_at = a.created_at, b.updated_at = at,
         a.state # "AlertState.CLOSED", b.state = a.state,
         NEW value, b.severity = value, b.priority = a.priority
  PROVE  Line(b, k) = Ledger!WithSeverity(Line(a, k), value, at)
  <1> DEFINE e == Line(a, k)
             f == Line(b, k)
  <1>1. e \in Ledger!Entries /\ f \in Ledger!Entries BY LineIsEntry
  <1>2. f.id = e.id /\ f.match = e.match /\ f.opened = e.opened /\ f.touched = at
    BY LineFields
  <1>3. /\ f.acknowledged = e.acknowledged /\ f.closed = e.closed
        /\ f.severity = value /\ f.priority = e.priority
    BY LineFields
  <1> HIDE DEF e, f
  <1>4. f = Ledger!WithSeverity(e, value, at)
    BY <1>1, <1>2, <1>3 DEF Ledger!Entries, Ledger!WithSeverity
  <1> QED BY <1>4 DEF e, f

\* The line of an Alert whose priority changed.
LEMMA LinePriority ==
  ASSUME NEW a, Readable(a), NEW k \in Instants \cup {NoTime},
         NEW b, Readable(b), NEW at \in Instants,
         b.alert_id = a.alert_id, b.source_match = a.source_match,
         b.created_at = a.created_at, b.updated_at = at,
         a.state # "AlertState.CLOSED", b.state = a.state,
         NEW value, b.priority = value, b.severity = a.severity
  PROVE  Line(b, k) = Ledger!WithPriority(Line(a, k), value, at)
  <1> DEFINE e == Line(a, k)
             f == Line(b, k)
  <1>1. e \in Ledger!Entries /\ f \in Ledger!Entries BY LineIsEntry
  <1>2. f.id = e.id /\ f.match = e.match /\ f.opened = e.opened /\ f.touched = at
    BY LineFields
  <1>3. /\ f.acknowledged = e.acknowledged /\ f.closed = e.closed
        /\ f.severity = e.severity /\ f.priority = value
    BY LineFields
  <1> HIDE DEF e, f
  <1>4. f = Ledger!WithPriority(e, value, at)
    BY <1>1, <1>2, <1>3 DEF Ledger!Entries, Ledger!WithPriority
  <1> QED BY <1>4 DEF e, f

\* acknowledge_alert enters the acknowledgement, or keeps the line.
LEMMA AcknowledgeEnters ==
  ASSUME History, NEW s \in Slots, NEW d \in Slots, NEW t \in TimeArgs, Genuine(s),
         TransitionReply(held[s], t, "AlertState.NEW", "AlertState.ACKNOWLEDGED") = "ok",
         Store(d, Transitioned(held[s], UtcInstant(t), "AlertState.ACKNOWLEDGED"),
               Acknowledged(lineage[s], UtcInstant(t)))
  PROVE  Ledger!Next
  <1> DEFINE a == held[s]
             k == lineage[s]
             at == UtcInstant(t)
             b == Transitioned(a, at, "AlertState.ACKNOWLEDGED")
  <1>1. TypeOK /\ Tells(a, k) /\ k \in Instants \cup {NoTime}
    BY TellsEverySlot DEF History, Sound, Genuine
  <1>2. a \in AlertFields /\ Readable(a) BY <1>1 DEF Tells, Readable
  <1>3. /\ at \in Instants /\ ~(at < a.updated_at)
        /\ a.state = "AlertState.ACKNOWLEDGED" \/ a.state = "AlertState.NEW"
    BY TransitionResult
  <1>4. NoTime \notin Instants BY MarksApart
  <1>5. EntryOf(s) = Line(a, k) BY LineOfSlot
  <1>6. CASE a.state = "AlertState.ACKNOWLEDGED"
    <2>1. b = a BY <1>6 DEF Transitioned
    <2>2. Acknowledged(k, at) = k BY <1>1, <1>4, <1>6 DEF Tells, Acknowledged
    <2> QED BY <1>1, <2>1, <2>2, StoreKeeps
  <1>7. CASE a.state = "AlertState.NEW"
    <2>1. k = NoTime /\ Acknowledged(k, at) = at
      BY <1>1, <1>7 DEF Tells, Acknowledged
    <2>2. Line(a, k).closed = NoTime BY <1>1, <1>7 DEF Line
    <2>3. Line(b, at) = Ledger!WithAcknowledgement(Line(a, k), at)
      <3>1. /\ b.alert_id = a.alert_id /\ b.source_match = a.source_match
            /\ b.created_at = a.created_at /\ b.state = "AlertState.ACKNOWLEDGED"
            /\ b.updated_at = at /\ b.severity = a.severity /\ b.priority = a.priority
        BY <1>2, <1>7 DEF Transitioned, AlertFields
      <3>2. a.state # "AlertState.CLOSED" /\ b.state # "AlertState.CLOSED"
        BY <1>7, <3>1
      <3>3. Readable(b) BY TransitionResult
      <3> QED BY <1>1, <1>2, <1>3, <3>1, <3>2, <3>3, LineAcknowledged
    <2>4. at >= Line(a, k).touched
      <3>1. Line(a, k).touched = a.updated_at BY <1>1, LineFields
      <3> QED BY <1>2, <1>3, <3>1 DEF AlertFields, Instants
    <2>5. Line(a, k) # Edited BY <1>1, <1>2, LineIsEntry
    <2>6. Line(a, k).acknowledged = NoTime BY <1>1, <2>1, LineFields
    <2>7. Ledger!Enter(d, Ledger!WithAcknowledgement(Line(a, k), at))
      BY <1>1, <2>1, <2>3, StoreEnters
    <2>8. Ledger!Acknowledge(s, d, at)
      BY <1>5, <2>2, <2>4, <2>5, <2>6, <2>7
      DEF Ledger!Acknowledge, Ledger!MayAcknowledge, lines
    <2> QED BY <1>3, <2>8 DEF Ledger!Next
  <1> QED BY <1>3, <1>6, <1>7

\* close_alert enters the closing, or keeps the line.
LEMMA CloseEnters ==
  ASSUME History, NEW s \in Slots, NEW d \in Slots, NEW t \in TimeArgs, Genuine(s),
         TransitionReply(held[s], t, "AlertState.ACKNOWLEDGED", "AlertState.CLOSED") = "ok",
         Store(d, Transitioned(held[s], UtcInstant(t), "AlertState.CLOSED"), lineage[s])
  PROVE  Ledger!Next
  <1> DEFINE a == held[s]
             k == lineage[s]
             at == UtcInstant(t)
             b == Transitioned(a, at, "AlertState.CLOSED")
  <1>1. TypeOK /\ Tells(a, k) /\ k \in Instants \cup {NoTime}
    BY TellsEverySlot DEF History, Sound, Genuine
  <1>2. a \in AlertFields /\ Readable(a) BY <1>1 DEF Tells, Readable
  <1>3. /\ at \in Instants /\ ~(at < a.updated_at)
        /\ a.state = "AlertState.CLOSED" \/ a.state = "AlertState.ACKNOWLEDGED"
    BY TransitionResult
  <1>4. NoTime \notin Instants BY MarksApart
  <1>5. EntryOf(s) = Line(a, k) BY LineOfSlot
  <1>6. CASE a.state = "AlertState.CLOSED"
    BY <1>1, <1>6, StoreKeeps DEF Transitioned
  <1>7. CASE a.state = "AlertState.ACKNOWLEDGED"
    <2>1. k # NoTime BY <1>1, <1>4, <1>7 DEF Tells
    <2>2. Line(a, k).closed = NoTime BY <1>1, <1>7, LineFields
    <2>3. Line(b, k) = Ledger!WithClosing(Line(a, k), at)
      <3>1. /\ b.alert_id = a.alert_id /\ b.source_match = a.source_match
            /\ b.created_at = a.created_at /\ b.state = "AlertState.CLOSED"
            /\ b.state_changed_at = at /\ b.updated_at = at
            /\ b.severity = a.severity /\ b.priority = a.priority
        BY <1>2, <1>7 DEF Transitioned, AlertFields
      <3>2. Readable(b) BY TransitionResult
      <3> QED BY <1>1, <1>2, <1>3, <3>1, <3>2, LineClosed
    <2>4. at >= Line(a, k).touched
      <3>1. Line(a, k).touched = a.updated_at BY <1>1, LineFields
      <3> QED BY <1>2, <1>3, <3>1 DEF AlertFields, Instants
    <2>5. Line(a, k) # Edited BY <1>1, <1>2, LineIsEntry
    <2>6. Line(a, k).acknowledged # NoTime BY <1>1, <2>1, LineFields
    <2>7. Ledger!Enter(d, Ledger!WithClosing(Line(a, k), at))
      BY <1>1, <2>3, StoreEnters
    <2>8. Ledger!Close(s, d, at)
      BY <1>5, <2>2, <2>4, <2>5, <2>6, <2>7 DEF Ledger!Close, Ledger!MayClose, lines
    <2> QED BY <1>3, <2>8 DEF Ledger!Next
  <1> QED BY <1>3, <1>6, <1>7

\* set_severity enters the severity, or keeps the line.
LEMMA SeverityEnters ==
  ASSUME History, NEW s \in Slots, NEW d \in Slots, NEW t \in TimeArgs, NEW value, Genuine(s),
         PolicyReply(held[s], t, "severity", AlertSeverity, value) = "ok",
         Store(d, Reassessed(held[s], UtcInstant(t), "severity", value), lineage[s])
  PROVE  Ledger!Next
  <1> DEFINE a == held[s]
             k == lineage[s]
             at == UtcInstant(t)
             b == Reassessed(a, at, "severity", value)
  <1>1. TypeOK /\ Tells(a, k) /\ k \in Instants \cup {NoTime}
    BY TellsEverySlot DEF History, Sound, Genuine
  <1>2. a \in AlertFields /\ Readable(a) BY <1>1 DEF Tells, Readable
  <1>3. /\ at \in Instants /\ ~(at < a.updated_at) /\ a.state # "AlertState.CLOSED"
        /\ value \in AlertSeverity /\ Readable(b)
    BY PolicyResult
  <1>4. EntryOf(s) = Line(a, k) BY LineOfSlot
  <1>5. CASE a.severity = value
    BY <1>1, <1>5, StoreKeeps DEF Reassessed
  <1>6. CASE a.severity # value
    <2>1. /\ b.alert_id = a.alert_id /\ b.source_match = a.source_match
          /\ b.created_at = a.created_at /\ b.state = a.state
          /\ b.updated_at = at /\ b.severity = value /\ b.priority = a.priority
      BY <1>2, <1>6 DEF Reassessed, AlertFields
    <2>2. Line(b, k) = Ledger!WithSeverity(Line(a, k), value, at)
      BY <1>1, <1>2, <1>3, <2>1, LineSeverity
    <2>3. at >= Line(a, k).touched
      <3>1. Line(a, k).touched = a.updated_at BY <1>1, LineFields
      <3> QED BY <1>2, <1>3, <3>1 DEF AlertFields, Instants
    <2>4. Line(a, k) # Edited /\ Line(a, k).closed = NoTime
      BY <1>1, <1>2, <1>3, LineIsEntry, LineFields
    <2>5. Ledger!Enter(d, Ledger!WithSeverity(Line(a, k), value, at))
      BY <1>1, <2>2, StoreEnters
    <2>6. Ledger!AssessSeverity(s, d, value, at)
      BY <1>4, <2>3, <2>4, <2>5 DEF Ledger!AssessSeverity, Ledger!MayAssess, lines
    <2> QED BY <1>3, <2>6 DEF Ledger!Next
  <1> QED BY <1>5, <1>6

\* set_priority enters the priority, or keeps the line.
LEMMA PriorityEnters ==
  ASSUME History, NEW s \in Slots, NEW d \in Slots, NEW t \in TimeArgs, NEW value, Genuine(s),
         PolicyReply(held[s], t, "priority", AlertPriority, value) = "ok",
         Store(d, Reassessed(held[s], UtcInstant(t), "priority", value), lineage[s])
  PROVE  Ledger!Next
  <1> DEFINE a == held[s]
             k == lineage[s]
             at == UtcInstant(t)
             b == Reassessed(a, at, "priority", value)
  <1>1. TypeOK /\ Tells(a, k) /\ k \in Instants \cup {NoTime}
    BY TellsEverySlot DEF History, Sound, Genuine
  <1>2. a \in AlertFields /\ Readable(a) BY <1>1 DEF Tells, Readable
  <1>3. /\ at \in Instants /\ ~(at < a.updated_at) /\ a.state # "AlertState.CLOSED"
        /\ value \in AlertPriority /\ Readable(b)
    BY PolicyResult
  <1>4. EntryOf(s) = Line(a, k) BY LineOfSlot
  <1>5. CASE a.priority = value
    BY <1>1, <1>5, StoreKeeps DEF Reassessed
  <1>6. CASE a.priority # value
    <2>1. /\ b.alert_id = a.alert_id /\ b.source_match = a.source_match
          /\ b.created_at = a.created_at /\ b.state = a.state
          /\ b.updated_at = at /\ b.severity = a.severity /\ b.priority = value
      BY <1>2, <1>6 DEF Reassessed, AlertFields
    <2>2. Line(b, k) = Ledger!WithPriority(Line(a, k), value, at)
      BY <1>1, <1>2, <1>3, <2>1, LinePriority
    <2>3. at >= Line(a, k).touched
      <3>1. Line(a, k).touched = a.updated_at BY <1>1, LineFields
      <3> QED BY <1>2, <1>3, <3>1 DEF AlertFields, Instants
    <2>4. Line(a, k) # Edited /\ Line(a, k).closed = NoTime
      BY <1>1, <1>2, <1>3, LineIsEntry, LineFields
    <2>5. Ledger!Enter(d, Ledger!WithPriority(Line(a, k), value, at))
      BY <1>1, <2>2, StoreEnters
    <2>6. Ledger!AssessPriority(s, d, value, at)
      BY <1>4, <2>3, <2>4, <2>5 DEF Ledger!AssessPriority, Ledger!MayAssess, lines
    <2> QED BY <1>3, <2>6 DEF Ledger!Next
  <1> QED BY <1>5, <1>6

\* Every step of the code is a step of the ledger or none.
LEMMA LedgerNext == History /\ [Next]_vars => [Ledger!Next]_lines
  <1> SUFFICES ASSUME History, [Next]_vars PROVE Ledger!Next \/ UNCHANGED lines
    OBVIOUS
  <1>0. TypeOK BY DEF History, Sound
  <1>a. ASSUME UNCHANGED <<held, lineage>> PROVE UNCHANGED lines
    BY <1>a, LineOfSlot DEF lines
  <1>b. ASSUME NEW reason, Refuse(reason) PROVE UNCHANGED lines
    BY <1>a, <1>b DEF Refuse
  <1>1. CASE UNCHANGED vars
    BY <1>1, <1>a DEF vars
  <1>2. ASSUME NEW d \in Slots, NEW match, NEW id, NEW t \in TimeArgs,
               NEW severity, NEW priority, Create(d, match, id, t, severity, priority)
        PROVE  Ledger!Next \/ UNCHANGED lines
    BY <1>0, <1>2, <1>b, CreateOpens DEF Create
  <1>c. ASSUME NEW s \in Slots, NEW d \in Slots, NEW b, Store(d, b, Derived)
        PROVE  Ledger!Next
    BY <1>0, <1>c, StoreLoses
  <1>3. ASSUME NEW s \in Slots, NEW d \in Slots, NEW t \in TimeArgs, AcknowledgeAlert(s, d, t)
        PROVE  Ledger!Next \/ UNCHANGED lines
    <2> DEFINE answer == TransitionReply(held[s], t, "AlertState.NEW", "AlertState.ACKNOWLEDGED")
               b == Transitioned(held[s], UtcInstant(t), "AlertState.ACKNOWLEDGED")
    <2>1. CASE Refuse(answer) BY <2>1, <1>b
    <2>2. CASE answer = "ok" /\ Genuine(s)
      <3>1. Store(d, b, Acknowledged(lineage[s], UtcInstant(t)))
        BY <1>3, <2>2 DEF AcknowledgeAlert, Refuse, Inherited, Acknowledged
      <3> QED BY <2>2, <3>1, AcknowledgeEnters
    <2>3. CASE answer = "ok" /\ ~Genuine(s)
      <3>1. Store(d, b, Derived)
        BY <1>3, <2>3 DEF AcknowledgeAlert, Refuse, Inherited, Genuine
      <3> QED BY <3>1, <1>c
    <2> QED BY <1>3, <2>1, <2>2, <2>3 DEF AcknowledgeAlert
  <1>4. ASSUME NEW s \in Slots, NEW d \in Slots, NEW t \in TimeArgs, CloseAlert(s, d, t)
        PROVE  Ledger!Next \/ UNCHANGED lines
    BY <1>4, <1>b, <1>c, CloseEnters DEF CloseAlert, Inherited
  <1>5. ASSUME NEW s \in Slots, NEW d \in Slots, NEW t \in TimeArgs, NEW value,
               SetSeverity(s, d, value, t)
        PROVE  Ledger!Next \/ UNCHANGED lines
    BY <1>5, <1>b, <1>c, SeverityEnters DEF SetSeverity, Inherited
  <1>6. ASSUME NEW s \in Slots, NEW d \in Slots, NEW t \in TimeArgs, NEW value,
               SetPriority(s, d, value, t)
        PROVE  Ledger!Next \/ UNCHANGED lines
    BY <1>6, <1>b, <1>c, PriorityEnters DEF SetPriority, Inherited
  <1>7. ASSUME NEW s \in Slots, NEW d \in Slots, NEW edit \in EditArgs, Edit(s, d, edit)
        PROVE  Ledger!Next
    BY <1>0, <1>7, StoreLoses DEF Edit
  <1>8. ASSUME NEW s \in Slots, NEW d \in Slots, Assign(s, d)
        PROVE  Ledger!Next
    BY <1>0, <1>8, StoreKeeps DEF Assign
  <1> QED BY <1>1, <1>2, <1>3, <1>4, <1>5, <1>6, <1>7, <1>8 DEF Next

\* Alert Management implements the ledger of handling events: entries are made
\* once, in order, never after the closing, and identity is never rewritten.
THEOREM LedgerImplemented == Spec => ImplementsLedger
  <1>1. Spec => Ledger!Init /\ [][Ledger!Next]_lines
    BY HistoryInit, HistoryNext, LedgerInit, LedgerNext, PTL DEF Spec
  <1> QED BY <1>1, PTL DEF ImplementsLedger, Ledger!Spec, lines

=============================================================================
