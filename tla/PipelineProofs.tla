---------------------------- MODULE PipelineProofs ----------------------------
(***************************************************************************)
(* Proofs about the ingestion of a record, about the pipeline that takes   *)
(* it to alerts, and about what the repository's rules find in it, for     *)
(* every record, every library of rules and whatever the conversions make  *)
(* of a text.  What is proved of the engine and of the rule checks is      *)
(* taken from their own modules: a part of its own shows that the          *)
(* pipeline's engine and checks are the ones meant.                        *)
(***************************************************************************)
EXTENDS RuleLibrary, FiniteSetTheorems, TLAPS

Semantics == INSTANCE RuleSemanticsProofs WITH
  Rules <- {}, EditedRules <- {}, Events <- {},
  pc <- stage, rule <- library, constructed <- stage, node <- stage, verdict <- stage,
  outcome <- stage

EngineProofs == INSTANCE DetectionEngineProofs WITH
  DetectionRules <- {EngineRule(r) : r \in Rules},
  Events <- {Seen(e) : e \in NormalizedEvents},
  LeafConditions <- Leaves,
  LeafTests <- {Meets(leaf, e) : leaf \in Leaves, e \in NormalizedEvents},
  pc <- call, event <- seen

(***************************************************************************)
(*                                INGESTION                                *)
(***************************************************************************)

-----------------------------------------------------------------------------
(* The tables.                                                             *)

\* What a supported raw event is.
LEMMA SupportedIsRegistered ==
  ASSUME NEW r, NEW n \in Normalizers, IsSupported(r, n)
  PROVE  IsRegistered(r, n)
BY DEF IsSupported, IsRegistered, Normalizers,
       EVENT_NORMALIZER_REGISTRY, WINDOWS_SECURITY_PROVIDER,
       SYSMON_PROVIDER

\* The registry names a normalizer that would take the event but for the channel.
LEMMA RegisteredIsSupported ==
  ASSUME NEW r, NEW n \in Normalizers,
         IsRegistered(r, n), r.channel = Channel(n)
  PROVE  IsSupported(r, n)
BY DEF IsSupported, IsRegistered, Normalizers,
       EVENT_NORMALIZER_REGISTRY, WINDOWS_SECURITY_PROVIDER,
       SYSMON_PROVIDER

\* Two normalizers have no provider in common.
LEMMA OneNormalizer ==
  ASSUME NEW r, NEW n \in Normalizers, NEW m \in Normalizers,
         IsRegistered(r, m),
         r.provider = (IF n = "sysmon" THEN SYSMON_PROVIDER
                       ELSE WINDOWS_SECURITY_PROVIDER)
  PROVE  m = n
BY DEF IsRegistered, Normalizers, EVENT_NORMALIZER_REGISTRY,
       WINDOWS_SECURITY_PROVIDER, SYSMON_PROVIDER

-----------------------------------------------------------------------------
(* Errors.                                                                 *)

LEMMA IngestionOutcomes ==
  ASSUME NEW x
  PROVE  /\ IngestionError(x) \in
               IngestionErrors \cup {"OverflowError", "none"}
         /\ IngestionError(x) = "none" =>
              IsRaw(RawWindowsEvent(x))
BY DEF IngestionError, IngestionErrors, Validates

LEMMA NormalizationOutcomes ==
  ASSUME NEW r, NEW n
  PROVE  /\ NormalizationError(r, n) \in NormalizationErrors \cup {"none"}
         /\ NormalizationError(r, n) = "UnsupportedEventError" =>
              ~IsSupported(r, n)
         /\ NormalizationError(r, n) = "none" =>
              /\ IsSupported(r, n)
              /\ IsValidEvent(NormalizedEventOf(r, n))
              /\ \A f \in DOMAIN Route(n, r.event_id).reads :
                   IsReadable(Route(n, r.event_id).reads[f], r.event_data)
BY DEF NormalizationError, NormalizationErrors

-----------------------------------------------------------------------------
(* The invariant.                                                          *)

\* Where the record is, and what that says of what has been made of it.
IngestionStages ==
  /\ pc \in {"ingest", "dispatch", "normalize", "end"}
  /\ record \in Records
  /\ pc = "ingest" =>
       raw = NoRaw /\ normalizer = "none" /\ event = NoEvent /\ failure = "none"
  /\ pc = "dispatch" =>
       raw \in RawEvents /\ normalizer = "none" /\ event = NoEvent /\ failure = "none"
  /\ pc = "normalize" =>
       /\ raw \in RawEvents /\ normalizer \in Normalizers
       /\ event = NoEvent /\ failure = "none"

\* How a record ends.
IngestionEnds ==
  pc = "end" =>
    \/ /\ failure \in IngestionErrors \cup {"OverflowError"}
       /\ raw = NoRaw /\ normalizer = "none" /\ event = NoEvent
    \/ /\ failure = "UnsupportedEventError"
       /\ raw \in RawEvents /\ normalizer = "none" /\ event = NoEvent
       /\ \A n \in Normalizers : ~IsRegistered(raw, n)
    \/ /\ failure \in NormalizationErrors
       /\ raw \in RawEvents /\ normalizer \in Normalizers /\ event = NoEvent
       /\ failure = NormalizationError(raw, normalizer)
    \/ /\ failure = "none"
       /\ raw \in RawEvents /\ normalizer \in Normalizers
       /\ NormalizationError(raw, normalizer) = "none"
       /\ event = NormalizedEventOf(raw, normalizer) /\ event # NoEvent

IngestionInv == IngestionStages /\ IngestionEnds

LEMMA IngestionStarts ==
  ASSUME IngestionInit
  PROVE  IngestionInv
BY DEF IngestionInit, IngestionInv, IngestionStages, IngestionEnds

LEMMA IngestionStartsNext == IngestionInit' => IngestionInv'
<1>1. IngestionInit => IngestionInv
  BY IngestionStarts
<1> QED  BY <1>1, PTL

LEMMA IngestionSteps ==
  ASSUME IngestionInv, [IngestionNext]_ingestion
  PROVE  IngestionInv'
<1>1. CASE RefuseRecord
  <2>1. failure' \in IngestionErrors \cup {"OverflowError"}
    BY <1>1, IngestionOutcomes DEF RefuseRecord, Fail
  <2> QED  BY <1>1, <2>1 DEF RefuseRecord, Fail, IngestionInv,
                             IngestionStages, IngestionEnds
<1>2. CASE IngestRecord
  <2>1. raw' \in RawEvents
    BY <1>2 DEF IngestRecord, IngestionInv, IngestionStages, RawEvents
  <2> QED  BY <1>2, <2>1 DEF IngestRecord, IngestionInv, IngestionStages, IngestionEnds
<1>3. CASE Dispatch
  BY <1>3 DEF Dispatch, IngestionInv, IngestionStages, IngestionEnds
<1>4. CASE NotRegistered
  BY <1>4 DEF NotRegistered, Fail, IngestionInv, IngestionStages,
              IngestionEnds, IsRegistered
<1>5. CASE CallDirectly
  BY <1>5 DEF CallDirectly, IngestionInv, IngestionStages, IngestionEnds
<1>6. CASE RefuseRaw
  <2> DEFINE error == NormalizationError(raw, normalizer)
  <2>1. error \in NormalizationErrors
    BY <1>6, NormalizationOutcomes DEF RefuseRaw
  <2>2. failure' = error /\ pc' = "end" /\ UNCHANGED <<record, raw, normalizer, event>>
    BY <1>6 DEF RefuseRaw, Fail
  <2>3. /\ pc = "normalize" /\ event = NoEvent
        /\ raw \in RawEvents /\ normalizer \in Normalizers
    BY <1>6 DEF RefuseRaw, IngestionInv, IngestionStages
  <2>4. record' \in Records
    BY <2>2 DEF IngestionInv, IngestionStages
  <2>5. PICK r, n : r = raw /\ n = normalizer
    OBVIOUS
  <2>6. NormalizationError(raw, normalizer)' = error
    BY <2>2 DEF NormalizationError
  <2> HIDE DEF error
  <2> QED  BY <2>1, <2>2, <2>3, <2>4, <2>6 DEF IngestionInv, IngestionStages, IngestionEnds
<1>7. CASE Normalize
  <2>1. /\ NormalizationError(raw, normalizer) = "none"
        /\ raw \in RawEvents /\ normalizer \in Normalizers
    BY <1>7 DEF Normalize, IngestionInv, IngestionStages
  <2>2. NormalizedEventOf(raw, normalizer) # NoEvent
    BY <2>1, NoEventAssumption DEF NormalizedEvents
  <2>3. /\ pc' = "end" /\ event' = NormalizedEventOf(raw, normalizer)
        /\ UNCHANGED <<record, raw, normalizer, failure>>
    BY <1>7 DEF Normalize
  <2>4. failure' = "none" /\ record' \in Records
    BY <1>7, <2>3 DEF Normalize, IngestionInv, IngestionStages
  <2> QED  BY <2>1, <2>2, <2>3, <2>4 DEF IngestionInv, IngestionStages, IngestionEnds
<1>8. CASE UNCHANGED ingestion
  BY <1>8 DEF ingestion, IngestionInv, IngestionStages, IngestionEnds,
              IsRegistered
<1> QED  BY <1>1, <1>2, <1>3, <1>4, <1>5, <1>6, <1>7, <1>8 DEF IngestionNext

LEMMA IngestionInvariant == IngestionSpec => []IngestionInv
BY IngestionStarts, IngestionSteps, PTL DEF IngestionSpec

\* Nothing half-built is kept, and an error leaves nothing of its stage behind.
THEOREM NothingHalfBuilt == IngestionSpec => []TypeOK
<1>1. ASSUME IngestionInv PROVE TypeOK
  <2>1. \A r \in RawEvents : IsRaw(r)
    BY IngestionOutcomes DEF RawEvents
  <2>2. /\ pc \in {"ingest", "dispatch", "normalize", "end"}
        /\ normalizer \in Normalizers \cup {"none"}
    BY <1>1 DEF IngestionInv, IngestionStages, IngestionEnds
  <2>3. failure \in IngestionErrors \cup NormalizationErrors
                      \cup {"OverflowError", "none"}
    BY <1>1 DEF IngestionInv, IngestionStages, IngestionEnds, NormalizationErrors
  <2>4. raw # NoRaw => IsRaw(raw)
    BY <1>1, <2>1 DEF IngestionInv, IngestionStages, IngestionEnds
  <2>5. event # NoEvent => IsValidEvent(event)
    <3>1. CASE pc = "end"
      BY <1>1, <3>1, NormalizationOutcomes DEF IngestionInv, IngestionEnds
    <3>2. CASE pc # "end"
      BY <1>1, <3>2 DEF IngestionInv, IngestionStages
    <3> QED  BY <3>1, <3>2
  <2>6. failure \in IngestionErrors => raw = NoRaw
    BY <1>1 DEF IngestionInv, IngestionStages, IngestionEnds, IngestionErrors,
                NormalizationErrors
  <2>7. failure # "none" => event = NoEvent
    BY <1>1 DEF IngestionInv, IngestionStages, IngestionEnds
  <2>8. pc = "end" /\ failure = "none" => event # NoEvent
    BY <1>1 DEF IngestionInv, IngestionEnds, IngestionErrors,
                NormalizationErrors
  <2> QED  BY <2>2, <2>3, <2>4, <2>5, <2>6, <2>7, <2>8 DEF TypeOK
<1> QED  BY <1>1, IngestionInvariant, PTL

\* An event is normalized by the normalizer the registry names for it, and by no other, and
\* what the registry names is turned away only for its channel.
THEOREM DispatchConsistent == IngestionSpec => []DispatchAgrees
<1>1. ASSUME IngestionInv, event # NoEvent PROVE IsRegistered(raw, normalizer)
  <2>1. /\ raw \in RawEvents /\ normalizer \in Normalizers
        /\ NormalizationError(raw, normalizer) = "none"
    BY <1>1 DEF IngestionInv, IngestionStages, IngestionEnds
  <2> QED  BY <2>1, NormalizationOutcomes, SupportedIsRegistered
<1>2. ASSUME IngestionInv, failure = "UnsupportedEventError", NEW n \in Normalizers,
             raw.provider = (IF n = "sysmon" THEN SYSMON_PROVIDER
                             ELSE WINDOWS_SECURITY_PROVIDER),
             normalizer \in {n, "none"}, raw.channel = Channel(n),
             NEW m \in Normalizers
      PROVE  ~IsRegistered(raw, m)
  <2>1. \/ \A k \in Normalizers : ~IsRegistered(raw, k)
        \/ /\ normalizer \in Normalizers
           /\ NormalizationError(raw, normalizer) = "UnsupportedEventError"
    BY <1>2 DEF IngestionInv, IngestionStages, IngestionEnds, IngestionErrors
  <2>2. CASE /\ normalizer \in Normalizers
             /\ NormalizationError(raw, normalizer) = "UnsupportedEventError"
    <3>1. ~IsSupported(raw, normalizer) /\ normalizer = n
      BY <1>2, <2>2, NormalizationOutcomes DEF Normalizers
    <3>2. ~IsRegistered(raw, n)
      BY <1>2, <3>1, RegisteredIsSupported
    <3> QED  BY <1>2, <3>2, OneNormalizer
  <2> QED  BY <2>1, <2>2
<1>3. IngestionInv => DispatchAgrees
  BY <1>1, <1>2 DEF DispatchAgrees
<1> QED  BY <1>3, IngestionInvariant, PTL

-----------------------------------------------------------------------------
(* Evidence.                                                               *)

ContextFields(category) ==
  DOMAIN ModelFields[CONTEXT_TYPE_BY_CATEGORY[category]] \ {"outcome"}

Conversions == {"text", "decimal", "windows"}

\* The entries a route reads are the entries it takes out of source_data, each is read into
\* one field, and every field of the context is read from one.
IsConsistent(route) ==
  /\ DOMAIN route.reads = ContextFields(route.category)
  /\ \A f \in DOMAIN route.reads : route.reads[f].as \in Conversions
  /\ route.consumed = {route.reads[f].name : f \in DOMAIN route.reads}
  /\ \A f, g \in DOMAIN route.reads : route.reads[f].name = route.reads[g].name => f = g

LEMMA AuthenticationConsistent ==
  IsConsistent([category |-> "authentication", reads |-> SecurityAuthentication,
                consumed |-> AUTHENTICATION_FIELDS])
BY DEF IsConsistent, ContextFields, Conversions, ModelFields,
       CONTEXT_TYPE_BY_CATEGORY, AuthenticationContext,
       SecurityAuthentication, AUTHENTICATION_FIELDS, Must,
       May

LEMMA SecurityProcessConsistent ==
  IsConsistent([category |-> "process", reads |-> SecurityProcess,
                consumed |-> SECURITY_PROCESS_FIELDS])
BY DEF IsConsistent, ContextFields, Conversions, ModelFields,
       CONTEXT_TYPE_BY_CATEGORY, ProcessContext, SecurityProcess,
       SECURITY_PROCESS_FIELDS, Must, May

LEMMA SysmonProcessConsistent ==
  IsConsistent([category |-> "process", reads |-> SysmonProcess,
                consumed |-> PROCESS_FIELDS])
BY DEF IsConsistent, ContextFields, Conversions, ModelFields,
       CONTEXT_TYPE_BY_CATEGORY, ProcessContext, SysmonProcess,
       PROCESS_FIELDS, Must, May

LEMMA NetworkConsistent ==
  IsConsistent([category |-> "network", reads |-> SysmonNetwork,
                consumed |-> NETWORK_FIELDS])
BY DEF IsConsistent, ContextFields, Conversions, ModelFields,
       CONTEXT_TYPE_BY_CATEGORY, NetworkContext, SysmonNetwork,
       NETWORK_FIELDS, Must, May

LEMMA FileConsistent ==
  IsConsistent([category |-> "file", reads |-> SysmonFile,
                consumed |-> FILE_FIELDS])
BY DEF IsConsistent, ContextFields, Conversions, ModelFields,
       CONTEXT_TYPE_BY_CATEGORY, FileContext, SysmonFile,
       FILE_FIELDS, Must, May

LEMMA DnsConsistent ==
  IsConsistent([category |-> "dns", reads |-> SysmonDns,
                consumed |-> DNS_FIELDS])
BY DEF IsConsistent, ContextFields, Conversions, ModelFields,
       CONTEXT_TYPE_BY_CATEGORY, DnsContext, SysmonDns,
       DNS_FIELDS, Must, May

LEMMA RouteConsistent ==
  ASSUME NEW n \in Normalizers, NEW id
  PROVE  IsConsistent(Route(n, id))
BY AuthenticationConsistent, SecurityProcessConsistent, SysmonProcessConsistent,
   NetworkConsistent, FileConsistent, DnsConsistent DEF Route, Normalizers

LEMMA SevenAreFinite ==
  ASSUME NEW a, NEW b, NEW c, NEW d, NEW e, NEW f, NEW g
  PROVE  IsFiniteSet({a, b, c, d, e, f, g})
<1>1. IsFiniteSet({} \cup {a})
  BY FS_EmptySet, FS_AddElement
<1>2. IsFiniteSet({} \cup {a} \cup {b})
  BY <1>1, FS_AddElement
<1>3. IsFiniteSet({} \cup {a} \cup {b} \cup {c})
  BY <1>2, FS_AddElement
<1>4. IsFiniteSet({} \cup {a} \cup {b} \cup {c} \cup {d})
  BY <1>3, FS_AddElement
<1>5. IsFiniteSet({} \cup {a} \cup {b} \cup {c} \cup {d} \cup {e})
  BY <1>4, FS_AddElement
<1>6. IsFiniteSet({} \cup {a} \cup {b} \cup {c} \cup {d} \cup {e} \cup {f})
  BY <1>5, FS_AddElement
<1>7. IsFiniteSet({} \cup {a} \cup {b} \cup {c} \cup {d} \cup {e} \cup {f} \cup {g})
  BY <1>6, FS_AddElement
<1>8. {} \cup {a} \cup {b} \cup {c} \cup {d} \cup {e} \cup {f} \cup {g} = {a, b, c, d, e, f, g}
  OBVIOUS
<1> QED  BY <1>7, <1>8

LEMMA ContextFieldsFinite ==
  ASSUME NEW category \in EventCategory
  PROVE  IsFiniteSet(ContextFields(category))
<1>1. \E a, b, c, d, e, f, g : ContextFields(category) \subseteq {a, b, c, d, e, f, g}
  <2>1. CASE category = "authentication"
    <3>1. ContextFields(category) \subseteq
            {"user", "domain", "logon_type", "source_ip", "source_port", "workstation",
             "outcome"}
      BY <2>1 DEF ContextFields, ModelFields, CONTEXT_TYPE_BY_CATEGORY,
                  AuthenticationContext
    <3> QED  BY <3>1
  <2>2. CASE category = "process"
    <3>1. ContextFields(category) \subseteq
            {"image", "process_id", "command_line", "parent_process_id", "parent_image", "user",
             "user"}
      BY <2>2 DEF ContextFields, ModelFields, CONTEXT_TYPE_BY_CATEGORY,
                  ProcessContext
    <3> QED  BY <3>1
  <2>3. CASE category = "network"
    <3>1. ContextFields(category) \subseteq
            {"source_ip", "source_port", "destination_ip", "destination_port", "protocol",
             "process_id", "process_image"}
      BY <2>3 DEF ContextFields, ModelFields, CONTEXT_TYPE_BY_CATEGORY,
                  NetworkContext
    <3> QED  BY <3>1
  <2>4. CASE category = "file"
    <3>1. ContextFields(category) \subseteq
            {"target_path", "process_id", "process_image", "process_image", "process_image",
             "process_image", "process_image"}
      BY <2>4 DEF ContextFields, ModelFields, CONTEXT_TYPE_BY_CATEGORY,
                  FileContext
    <3> QED  BY <3>1
  <2>5. CASE category = "dns"
    <3>1. ContextFields(category) \subseteq
            {"query_name", "query_status", "query_results", "process_id", "process_image",
             "process_image", "process_image"}
      BY <2>5 DEF ContextFields, ModelFields, CONTEXT_TYPE_BY_CATEGORY,
                  DnsContext
    <3> QED  BY <3>1
  <2> QED  BY <2>1, <2>2, <2>3, <2>4, <2>5 DEF EventCategory
<1> QED  BY <1>1, SevenAreFinite, FS_Subset

LEMMA NothingIsNone ==
  ASSUME NEW x
  PROVE  /\ Text(x) # None /\ Address(x) # None
         /\ Integer(x) # None
<1>1. None.type = "NoneType"
  BY DEF None
<1>2. /\ Text(x).type = "str" /\ Address(x).type = "ip"
      /\ Integer(x).type = "int"
  BY DEF Text, Address, Integer
<1> QED  BY <1>1, <1>2

\* A conversion tells what the text says, and only if it says something.
LEMMA ReadTells ==
  ASSUME NEW read, read.as \in Conversions, NEW as, NEW data, IsReadable(read, data)
  PROVE  /\ Read(read, as, data) # None <=> Says(data, read.name)
         /\ Says(data, read.name) =>
              Tells(Read(read, as, data), data[read.name])
<1>1. CASE ~Says(data, read.name)
  BY <1>1 DEF Read
<1>2. CASE Says(data, read.name) /\ read.as = "text"
  <2>1. Read(read, as, data) \in
          {Text(Stripped[data[read.name]]),
           Address(Stripped[data[read.name]])}
    BY <1>2 DEF Read
  <2>2. Read(read, as, data) # None
    BY <2>1, NothingIsNone
  <2> QED  BY <1>2, <2>1, <2>2 DEF Tells
<1>3. CASE Says(data, read.name) /\ read.as # "text"
  <2> DEFINE numbers == Number(read.as, Stripped[data[read.name]])
  <2>1. \E n \in numbers : n >= 0
    BY <1>3 DEF IsReadable
  <2>2. PICK n \in numbers : n = CHOOSE k \in numbers : TRUE
    BY <2>1
  <2>3. Read(read, as, data) = Integer(n)
    BY <1>3, <2>2 DEF Read
  <2>4. n \in Number("windows", Stripped[data[read.name]])
    BY <2>2 DEF Number
  <2>5. Integer(n) # None
    BY NothingIsNone
  <2> QED  BY <1>3, <2>3, <2>4, <2>5 DEF Tells
<1> QED  BY <1>1, <1>2, <1>3

\* Each field is read from its entry.
LEMMA ContextReads ==
  ASSUME NEW r, NEW n \in Normalizers,
         NEW f \in ContextFields(Route(n, r.event_id).category)
  PROVE  /\ f \in DOMAIN Context(r, n) \ {"outcome"}
         /\ \E as : Context(r, n)[f] =
                      Read(Route(n, r.event_id).reads[f], as, r.event_data)
BY DEF ContextFields, Context

LEMMA ContextDomain ==
  ASSUME NEW r, NEW n
  PROVE  DOMAIN Context(r, n) \ {"outcome"} =
           ContextFields(Route(n, r.event_id).category)
BY DEF ContextFields, Context

LEMMA RouteCategory ==
  ASSUME NEW n \in Normalizers, NEW id
  PROVE  Route(n, id).category \in EventCategory
BY DEF Route, Normalizers, EventCategory

LEMMA EventParts ==
  ASSUME NEW r, NEW n
  PROVE  /\ NormalizedEventOf(r, n).context = Context(r, n)
         /\ DOMAIN NormalizedEventOf(r, n).source_data =
              DOMAIN r.event_data \ Route(n, r.event_id).consumed
         /\ \A name \in DOMAIN r.event_data \ Route(n, r.event_id).consumed :
              NormalizedEventOf(r, n).source_data[name] =
                Text(r.event_data[name])
BY DEF NormalizedEventOf, SourceData

IsKept(r, n, e) ==
  LET data == r.event_data
      reads == Route(n, r.event_id).reads
      kept == DOMAIN e.source_data
      told == {f \in DOMAIN e.context \ {"outcome"} : e.context[f] # None}
      said == {name \in DOMAIN data \ kept : Says(data, name)}
  IN /\ kept \subseteq DOMAIN data
     /\ \A name \in kept : e.source_data[name] = Text(data[name])
     /\ \A name \in DOMAIN data \ kept : \E f \in DOMAIN reads : reads[f].name = name
     /\ \A name \in said : \E f \in told : Tells(e.context[f], data[name])
     /\ \A f \in told : \E name \in said : Tells(e.context[f], data[name])
     /\ Cardinality(told) = Cardinality(said)

LEMMA EvidencePreserved ==
  ASSUME NEW r, NEW n \in Normalizers, NormalizationError(r, n) = "none",
         NEW e, e = NormalizedEventOf(r, n)
  PROVE  IsKept(r, n, e)
<1> DEFINE route == Route(n, r.event_id)
           data == r.event_data
           reads == route.reads
           kept == DOMAIN e.source_data
           told == {f \in DOMAIN e.context \ {"outcome"} : e.context[f] # None}
           said == {name \in DOMAIN data \ kept : Says(data, name)}
<1>1. IsConsistent(route) /\ route.category \in EventCategory
  BY RouteConsistent, RouteCategory
<1>2. /\ DOMAIN reads = ContextFields(route.category)
      /\ \A f \in DOMAIN reads : reads[f].as \in Conversions
      /\ route.consumed = {reads[f].name : f \in DOMAIN reads}
      /\ \A f, g \in DOMAIN reads : reads[f].name = reads[g].name => f = g
  BY <1>1 DEF IsConsistent
<1>3. \A f \in DOMAIN reads : IsReadable(reads[f], data)
  BY NormalizationOutcomes
<1>4. /\ e.context = Context(r, n)
      /\ kept = DOMAIN data \ route.consumed
      /\ \A name \in kept : e.source_data[name] = Text(data[name])
  BY EventParts
<1>5. \A f \in DOMAIN reads : \E as : e.context[f] = Read(reads[f], as, data)
  <2>1. SUFFICES ASSUME NEW f \in DOMAIN reads
                 PROVE  \E as : e.context[f] = Read(reads[f], as, data)
    OBVIOUS
  <2>2. \E as : Context(r, n)[f] =
                   Read(Route(n, r.event_id).reads[f], as, r.event_data)
    BY <1>2, <2>1, ContextReads
  <2> QED  BY <1>4, <2>2
<1>6. DOMAIN e.context \ {"outcome"} = DOMAIN reads
  BY <1>2, <1>4, ContextDomain
<1> HIDE DEF route, data, reads, kept
<1>7. \A f \in DOMAIN reads :
         /\ e.context[f] # None <=> Says(data, reads[f].name)
         /\ Says(data, reads[f].name) =>
              Tells(e.context[f], data[reads[f].name])
  BY <1>2, <1>3, <1>5, ReadTells
<1>8. told = {f \in DOMAIN reads : Says(data, reads[f].name)}
  BY <1>6, <1>7
<1>9. said = {name \in DOMAIN data \cap route.consumed : Says(data, name)}
  BY <1>4
<1>10. \A f \in told :
         reads[f].name \in said /\ Tells(e.context[f], data[reads[f].name])
  BY <1>2, <1>7, <1>8, <1>9 DEF Says
<1>11. \A name \in said : \E f \in told : reads[f].name = name
  BY <1>2, <1>8, <1>9
<1>12. Cardinality(told) = Cardinality(said)
  <2> DEFINE entry == [f \in told |-> reads[f].name]
  <2>1. IsFiniteSet(told)
    <3>1. IsFiniteSet(DOMAIN reads)
      BY <1>1, <1>2, ContextFieldsFinite
    <3>2. told \in SUBSET DOMAIN reads
      BY <1>8
    <3> HIDE DEF told
    <3> QED  BY <3>1, <3>2, FS_Subset
  <2>2. \A f, g \in told : reads[f].name = reads[g].name => f = g
    BY <1>2, <1>8
  <2> HIDE DEF told, said
  <2>3. entry \in [told -> said]
    BY <1>10
  <2>4. IsInjective(entry)
    BY <2>2 DEF IsInjective
  <2>5. \A name \in said : \E f \in told : entry[f] = name
    BY <1>11
  <2>6. entry \in Bijection(told, said)
    BY <2>3, <2>4, <2>5 DEF Bijection, Injection, Surjection
  <2>7. ExistsBijection(told, said)
    BY <2>6 DEF ExistsBijection
  <2> QED  BY <2>1, <2>7, FS_Bijection
<1>13. kept \subseteq DOMAIN data
  BY <1>4
<1>14. \A name \in DOMAIN data \ kept : \E f \in DOMAIN reads : reads[f].name = name
  BY <1>2, <1>4
<1>15. \A name \in said : \E f \in told : Tells(e.context[f], data[name])
  <2> HIDE DEF told, said
  <2> QED  BY <1>10, <1>11
<1>16. \A f \in told : \E name \in said : Tells(e.context[f], data[name])
  <2> HIDE DEF told, said
  <2> QED  BY <1>10
<1> QED  BY <1>4, <1>12, <1>13, <1>14, <1>15, <1>16 DEF IsKept, route, data, reads, kept

\* No entry of EventData is lost, told twice or altered, and the context makes nothing up.
THEOREM EvidenceWhole == IngestionSpec => []EvidenceIsKept
<1>1. ASSUME IngestionInv, event # NoEvent
      PROVE  /\ normalizer \in Normalizers
             /\ NormalizationError(raw, normalizer) = "none"
             /\ event = NormalizedEventOf(raw, normalizer)
  BY <1>1 DEF IngestionInv, IngestionStages, IngestionEnds
<1>2. ASSUME IngestionInv, event # NoEvent PROVE IsKept(raw, normalizer, event)
  BY <1>1, <1>2, EvidencePreserved
<1>3. IngestionInv => EvidenceIsKept
  BY <1>2 DEF EvidenceIsKept, IsKept
<1> QED  BY <1>3, IngestionInvariant, PTL

(***************************************************************************)
(*                               THE ENGINE                                *)
(***************************************************************************)

-----------------------------------------------------------------------------
(* The pipeline's engine is the one proved of.                             *)

LEMMA SameEvaluation == Engine!Evaluator!Next => EngineProofs!Evaluator!Next
BY DEF Engine!Evaluator!Next, Engine!Evaluator!EvaluateLeaf, Engine!Evaluator!RaiseAtLeaf,
       Engine!Evaluator!EvaluateNot, Engine!Evaluator!EvaluateAll, Engine!Evaluator!EvaluateAny,
       Engine!Evaluator!Reaches, Engine!Evaluator!Record, Engine!Evaluator!Node,
       Engine!Evaluator!ChildOutcomes, Engine!Evaluator!LeafOutcome, Engine!Evaluator!Negated,
       Engine!Evaluator!Aggregated, Engine!Evaluator!Outcome,
       Engine!Evaluator!EXISTENCE_OPERATORS,
       EngineProofs!Evaluator!Next, EngineProofs!Evaluator!EvaluateLeaf,
       EngineProofs!Evaluator!RaiseAtLeaf, EngineProofs!Evaluator!EvaluateNot,
       EngineProofs!Evaluator!EvaluateAll, EngineProofs!Evaluator!EvaluateAny,
       EngineProofs!Evaluator!Reaches, EngineProofs!Evaluator!Record,
       EngineProofs!Evaluator!Node, EngineProofs!Evaluator!ChildOutcomes,
       EngineProofs!Evaluator!LeafOutcome, EngineProofs!Evaluator!Negated,
       EngineProofs!Evaluator!Aggregated, EngineProofs!Evaluator!Outcome,
       EngineProofs!Evaluator!EXISTENCE_OPERATORS

LEMMA SameNext == Engine!Next => EngineProofs!Next
<1>1. /\ \A s : Engine!Range(s) = EngineProofs!Range(s)
      /\ \A i : Engine!SharesId(given, i) <=> EngineProofs!SharesId(given, i)
      /\ \A r, s : Engine!IdBefore(r, s) <=> EngineProofs!IdBefore(r, s)
  BY DEF Engine!Range, EngineProofs!Range, Engine!SharesId, EngineProofs!SharesId,
         Engine!IdBefore, EngineProofs!IdBefore
<1>2. /\ Engine!RejectArguments => EngineProofs!RejectArguments
      /\ Engine!IterationRaises => EngineProofs!IterationRaises
      /\ Engine!RejectItems => EngineProofs!RejectItems
  BY <1>1 DEF Engine!RejectArguments, EngineProofs!RejectArguments, Engine!IterationRaises,
              EngineProofs!IterationRaises, Engine!RejectItems, EngineProofs!RejectItems,
              Engine!Fail, EngineProofs!Fail, Engine!FailFor, EngineProofs!FailFor,
              Engine!Return, EngineProofs!Return, Engine!call, EngineProofs!call
<1>0. /\ Engine!BeginSnapshot => EngineProofs!BeginSnapshot
      /\ Engine!TakeItem => EngineProofs!TakeItem
      /\ Engine!EndOfItems => EngineProofs!EndOfItems
  BY DEF Engine!BeginSnapshot, EngineProofs!BeginSnapshot, Engine!TakeItem,
         EngineProofs!TakeItem, Engine!EndOfItems, EngineProofs!EndOfItems, Engine!StepTo,
         EngineProofs!StepTo, Engine!evaluation, EngineProofs!evaluation
<1>3. Engine!OrderRules => EngineProofs!OrderRules
  BY <1>1 DEF Engine!OrderRules, EngineProofs!OrderRules, Engine!call, EngineProofs!call,
              Engine!evaluation, EngineProofs!evaluation
<1>4. Engine!SkipRule => EngineProofs!SkipRule
  BY DEF Engine!SkipRule, EngineProofs!SkipRule, Engine!Applicable, EngineProofs!Applicable,
         Engine!Rule, EngineProofs!Rule, Engine!call, EngineProofs!call,
         Engine!evaluation, EngineProofs!evaluation
<1>5. Engine!BeginEvaluation => EngineProofs!BeginEvaluation
  BY DEF Engine!BeginEvaluation, EngineProofs!BeginEvaluation, Engine!Applicable,
         EngineProofs!Applicable, Engine!Rule, EngineProofs!Rule, Engine!call,
         EngineProofs!call, Engine!Evidence, EngineProofs!Evidence
<1>6. Engine!Evaluate => EngineProofs!Evaluate
  BY SameEvaluation DEF Engine!Evaluate, EngineProofs!Evaluate, Engine!call, EngineProofs!call
<1>7. Engine!PropagateError => EngineProofs!PropagateError
  BY DEF Engine!PropagateError, EngineProofs!PropagateError, Engine!Fail,
         EngineProofs!Fail, Engine!Return, EngineProofs!Return, Engine!call,
         EngineProofs!call, Engine!Rule, EngineProofs!Rule
<1>8. Engine!RejectMatch => EngineProofs!RejectMatch
  BY DEF Engine!RejectMatch, EngineProofs!RejectMatch, Engine!RootOutcome,
         EngineProofs!RootOutcome, Engine!FailFor, EngineProofs!FailFor, Engine!Return,
         EngineProofs!Return, Engine!call, EngineProofs!call, Engine!Rule, EngineProofs!Rule
<1>9. Engine!ConcludeRule => EngineProofs!ConcludeRule
  BY DEF Engine!ConcludeRule, EngineProofs!ConcludeRule, Engine!RootOutcome,
         EngineProofs!RootOutcome, Engine!call, EngineProofs!call, Engine!evaluation,
         EngineProofs!evaluation, Engine!Rule, EngineProofs!Rule
<1>10. Engine!ReturnMatches => EngineProofs!ReturnMatches
  BY DEF Engine!ReturnMatches, EngineProofs!ReturnMatches, Engine!Return,
         EngineProofs!Return, Engine!call, EngineProofs!call
<1> QED  BY <1>0, <1>2, <1>3, <1>4, <1>5, <1>6, <1>7, <1>8, <1>9, <1>10
            DEF Engine!Next, EngineProofs!Next

\* What the engine's model assumes of its constants is so of the pipeline's: a leaf that
\* meets an event meets it in one of the ways the evaluator tells apart.
LEMMA EngineAssumptions ==
  /\ \A r \in {EngineRule(r) : r \in Rules} : EngineProofs!IsRule(r)
  /\ \A e \in {Seen(e) : e \in NormalizedEvents} : EngineProofs!IsEvent(e)
  /\ \A t \in {Meets(leaf, e) : leaf \in Leaves, e \in NormalizedEvents} :
       EngineProofs!Evaluator!IsLeafTest(t)
  /\ Junk \notin {EngineRule(r) : r \in Rules}
<1>1. \A r \in {EngineRule(r) : r \in Rules} : EngineProofs!IsRule(r)
  BY RulesAssumption DEF Engine!IsRule, EngineProofs!IsRule, Engine!Evaluator!IsTree,
                         EngineProofs!Evaluator!IsTree
<1>2. \A e \in {Seen(e) : e \in NormalizedEvents} : EngineProofs!IsEvent(e)
  BY DEF Seen, EngineProofs!IsEvent
<1>3. \A leaf, e : EngineProofs!Evaluator!IsLeafTest(Meets(leaf, e))
  BY DEF Meets, EngineProofs!Evaluator!IsLeafTest, EXISTENCE_OPERATORS,
         EngineProofs!Evaluator!EXISTENCE_OPERATORS, EngineProofs!Evaluator!FieldPresence
<1> QED  BY <1>1, <1>2, <1>3, JunkAssumption

\* So the invariants of the engine are at hand.
EngineSound == EngineProofs!EngineInv /\ EngineProofs!CompleteInv

LEMMA EngineStarts == EngineProofs!Entered => EngineSound
BY EngineAssumptions, IdRankAssumption, MaxRulesAssumption, EngineProofs!EngineInit, EngineProofs!CompleteInit
   DEF EngineSound

LEMMA EngineStartsNext == EngineProofs!Entered' => EngineSound'
BY EngineStarts, PTL

LEMMA EngineSteps == EngineSound /\ [EngineProofs!Next]_(EngineProofs!vars) => EngineSound'
BY EngineAssumptions, IdRankAssumption, MaxRulesAssumption, EngineProofs!EngineNext, EngineProofs!CompleteNext
   DEF EngineSound

-----------------------------------------------------------------------------
(* The pipeline's rule checks are those proved of.                         *)

LEMMA SemanticsAssumptions ==
  /\ MaxDepth \in Nat /\ MaxLeaves \in Nat
  /\ \A c \in Semantics!EventCategory : DOMAIN Semantics!CONTEXT_FIELDS[c] \subseteq Segments
  /\ {} \subseteq {} /\ \A r \in {} : Semantics!IsRule(r)
  /\ NoEvent \notin {}
  /\ \A e \in {} : e.category \in Semantics!EventCategory /\ AnySource # {e.source}
BY SegmentsAssumption, LimitsAssumption
   DEF Semantics!EventCategory, Semantics!CONTEXT_FIELDS, EventCategory, CONTEXT_FIELDS

LEMMA SameModels ==
  /\ Semantics!ModelFields = ModelFields
  /\ Semantics!CONTEXT_TYPE_BY_CATEGORY = CONTEXT_TYPE_BY_CATEGORY
  /\ Semantics!EventCategory = EventCategory /\ Semantics!EventSource = EventSource
  /\ Semantics!None = None
<1>1. Semantics!ModelFields = ModelFields
  BY DEF Semantics!ModelFields, ModelFields, Semantics!NormalizedEvent, NormalizedEvent,
         Semantics!AuthenticationContext, AuthenticationContext, Semantics!ProcessContext,
         ProcessContext, Semantics!NetworkContext, NetworkContext, Semantics!FileContext,
         FileContext, Semantics!DnsContext, DnsContext, Semantics!Required, Required,
         Semantics!Optional, Optional
<1>2. /\ Semantics!CONTEXT_TYPE_BY_CATEGORY = CONTEXT_TYPE_BY_CATEGORY
      /\ Semantics!EventCategory = EventCategory /\ Semantics!EventSource = EventSource
      /\ Semantics!None = None
  BY DEF Semantics!CONTEXT_TYPE_BY_CATEGORY, CONTEXT_TYPE_BY_CATEGORY, Semantics!EventCategory,
         EventCategory, Semantics!EventSource, EventSource, Semantics!None, None
<1> QED  BY <1>1, <1>2

LEMMA SameTables ==
  /\ Semantics!COMMON_FIELDS = COMMON_FIELDS /\ Semantics!CONTEXT_FIELDS = CONTEXT_FIELDS
  /\ Semantics!CONTEXT_TYPES = CONTEXT_TYPES
  /\ Semantics!Omitted = Omitted /\ Semantics!NoType = NoType
  /\ Semantics!EXISTENCE_OPERATORS = EXISTENCE_OPERATORS
  /\ Semantics!ORDER_OPERATORS = ORDER_OPERATORS
  /\ Semantics!TEXT_OPERATORS = TEXT_OPERATORS
  /\ Semantics!LIST_OPERATORS = LIST_OPERATORS
  /\ Semantics!DetectionOperator = DetectionOperator
<1>1. /\ Semantics!COMMON_FIELDS = COMMON_FIELDS /\ Semantics!CONTEXT_FIELDS = CONTEXT_FIELDS
      /\ Semantics!CONTEXT_TYPES = CONTEXT_TYPES
      /\ Semantics!Omitted = Omitted /\ Semantics!NoType = NoType
  BY DEF Semantics!COMMON_FIELDS, COMMON_FIELDS, Semantics!CONTEXT_FIELDS, CONTEXT_FIELDS,
         Semantics!CONTEXT_TYPES, CONTEXT_TYPES, Semantics!Omitted, Omitted, Semantics!NoType,
         NoType
<1>2. /\ Semantics!EXISTENCE_OPERATORS = EXISTENCE_OPERATORS
      /\ Semantics!ORDER_OPERATORS = ORDER_OPERATORS
      /\ Semantics!TEXT_OPERATORS = TEXT_OPERATORS
      /\ Semantics!LIST_OPERATORS = LIST_OPERATORS
  BY DEF Semantics!EXISTENCE_OPERATORS, EXISTENCE_OPERATORS, Semantics!ORDER_OPERATORS,
         ORDER_OPERATORS, Semantics!TEXT_OPERATORS, TEXT_OPERATORS, Semantics!LIST_OPERATORS,
         LIST_OPERATORS
<1>3. Semantics!DetectionOperator = DetectionOperator
  BY <1>2 DEF Semantics!DetectionOperator, DetectionOperator
<1> QED  BY <1>1, <1>2, <1>3

LEMMA SameInstances ==
  \A values, model : Semantics!IsInstanceOf(values, model) <=> IsInstanceOf(values, model)
<1>1. \A as, v : Semantics!Accepts(as, v) <=> Accepts(as, v)
  BY DEF Semantics!Accepts, Accepts, Semantics!Port, Port
<1> QED  BY <1>1, SameModels DEF Semantics!IsInstanceOf, IsInstanceOf

\* An event the normalizers find valid is valid for the checks.
LEMMA ValidForSemantics ==
  ASSUME NEW e, IsValidEvent(e)
  PROVE  Semantics!IsValidEvent(e)
<1>1. /\ e.source \in Semantics!EventSource /\ e.category \in Semantics!EventCategory
      /\ e.context_type = Semantics!CONTEXT_TYPE_BY_CATEGORY[e.category]
  BY SameModels DEF IsValidEvent
<1>2. /\ Semantics!IsInstanceOf(e.own, "NormalizedEvent")
      /\ Semantics!IsInstanceOf(e.context, e.context_type)
  BY SameInstances DEF IsValidEvent
<1>3. \A name \in DOMAIN e.source_data : e.source_data[name].type = "str"
  BY DEF IsValidEvent
<1> QED  BY <1>1, <1>2, <1>3 DEF Semantics!IsValidEvent

LEMMA SameOperandError ==
  /\ \A path, c : Semantics!FieldType(path, c) = FieldType(path, c)
  /\ \A kind, leaf : Semantics!OperandError(kind, leaf) = OperandError(kind, leaf)
<1>1. \A path, c : Semantics!FieldType(path, c) = FieldType(path, c)
  BY SameTables DEF Semantics!FieldType, FieldType
<1>2. /\ \A kind, v : Semantics!IsLiteral(kind, v) <=> IsLiteral(kind, v)
      /\ \A v : Semantics!Items(v) = Items(v)
  BY DEF Semantics!IsLiteral, IsLiteral, Semantics!Items, Items
<1>3. \A kind, leaf : Semantics!ListError(kind, leaf) = ListError(kind, leaf)
  BY <1>2 DEF Semantics!ListError, ListError
<1>4. \A kind, leaf : Semantics!OperandError(kind, leaf) = OperandError(kind, leaf)
  BY <1>2, <1>3, SameTables DEF Semantics!OperandError, OperandError
<1> QED  BY <1>1, <1>4

LEMMA SameLeafError ==
  \A leaf, categories, sources :
     Semantics!LeafError(leaf, categories, sources) = LeafError(leaf, categories, sources)
<1>1. \A reason, leaf : Semantics!TargetError(reason, leaf) = TargetError(reason, leaf)
  BY SameTables DEF Semantics!TargetError, TargetError
<1> TAKE leaf, categories, sources
<1>2. PICK kinds : kinds = {FieldType(leaf.field, c) : c \in categories}
  OBVIOUS
<1>3. kinds = {Semantics!FieldType(leaf.field, c) : c \in categories}
  BY <1>2, SameOperandError
<1>4. LeafError(leaf, categories, sources) =
        IF leaf.field.space = "source_data" /\ sources = AnySource
        THEN TargetError("sources_required", leaf)
        ELSE IF NoType \in kinds THEN "invalid_field"
        ELSE IF \A kind \in kinds : kinds # {kind}
        THEN TargetError("incompatible_category_types", leaf)
        ELSE OperandError(CHOOSE kind \in kinds : TRUE, leaf)
  BY <1>2 DEF LeafError
<1>5. Semantics!LeafError(leaf, categories, sources) =
        IF leaf.field.space = "source_data" /\ sources = AnySource
        THEN Semantics!TargetError("sources_required", leaf)
        ELSE IF Semantics!NoType \in kinds THEN "invalid_field"
        ELSE IF \A kind \in kinds : kinds # {kind}
        THEN Semantics!TargetError("incompatible_category_types", leaf)
        ELSE Semantics!OperandError(CHOOSE kind \in kinds : TRUE, leaf)
  BY <1>3 DEF Semantics!LeafError
<1> QED  BY <1>1, <1>4, <1>5, SameTables, SameOperandError

LEMMA SameEvaluationError ==
  \A leaf, e : Semantics!EvaluationError(leaf, e) = EvaluationError(leaf, e)
<1>1. \A path, e : Semantics!Value(path, e) = Value(path, e)
  BY DEF Semantics!Value, Value
<1>2. \A path, e : Semantics!IsPresent(path, e) <=> IsPresent(path, e)
  BY <1>1, SameModels DEF Semantics!IsPresent, IsPresent
<1>3. \A kind, v : Semantics!HasKind(kind, v) <=> HasKind(kind, v)
  BY DEF Semantics!HasKind, HasKind
<1>3a. \A e, path : Semantics!Lacks(e, path) <=> Lacks(e, path)
  BY DEF Semantics!Lacks, Lacks
<1>4. \A path, e : Semantics!ResolveError(path, e) = ResolveError(path, e)
  BY <1>1, <1>2, <1>3, <1>3a, SameOperandError, SameTables
     DEF Semantics!ResolveError, ResolveError
<1>5. \A path : Semantics!ValidPath(path) <=> ValidPath(path)
  BY SameTables DEF Semantics!ValidPath, ValidPath
<1>6. \A v : Semantics!Items(v) = Items(v)
  BY DEF Semantics!Items, Items
<1>7. \A op, v : Semantics!ValidOperand(op, v) <=> ValidOperand(op, v)
  BY <1>6, SameTables DEF Semantics!ValidOperand, ValidOperand
<1>8. \A leaf, e : Semantics!IsValidTrace(leaf, e) <=> IsValidTrace(leaf, e)
  BY <1>1, <1>2, <1>5, <1>7, SameTables DEF Semantics!IsValidTrace, IsValidTrace
<1>9. \A leaf, e : Semantics!Overflows(leaf, e) <=> Overflows(leaf, e)
  BY <1>1, <1>2, SameTables DEF Semantics!Overflows, Overflows
<1> QED  BY <1>4, <1>8, <1>9, SameOperandError, SameTables
            DEF Semantics!EvaluationError, EvaluationError

\* A leaf the static checks accept can be evaluated on every valid event of a target.
LEMMA AcceptedEvaluates ==
  ASSUME NEW leaf, NEW categories, NEW sources, NEW e,
         LeafError(leaf, categories, sources) = "none",
         IsValidEvent(e), e.own["timestamp"].in_range, e.category \in categories
  PROVE  EvaluationError(leaf, e) = "none"
<1>1. Semantics!LeafError(leaf, categories, sources) = "none"
  BY SameLeafError
<1>2. Semantics!IsValidEvent(e) /\ Semantics!HasUtcTime(e)
  BY ValidForSemantics DEF Semantics!HasUtcTime
<1>3. Semantics!EvaluationError(leaf, e) = "none"
  BY <1>1, <1>2, SemanticsAssumptions, Semantics!AcceptedLeafEvaluates
<1> QED  BY <1>3, SameEvaluationError

\* And every event the normalizers make is valid, its time one that has a UTC form.
LEMMA EventsAreSound ==
  ASSUME NEW e \in NormalizedEvents
  PROVE  IsValidEvent(e) /\ e.own["timestamp"].in_range
<1>1. PICK r \in RawEvents, n \in Normalizers :
        NormalizationError(r, n) = "none" /\ e = NormalizedEventOf(r, n)
  BY DEF NormalizedEvents
<1>2. IsValidEvent(e)
  BY <1>1, NormalizationOutcomes
<1>3. PICK x : r = RawWindowsEvent(x)
  BY DEF RawEvents
<1>4. r.timestamp.in_range
  BY <1>3 DEF RawWindowsEvent, Instant
<1>5. e.own["timestamp"] = r.timestamp
  BY <1>1 DEF NormalizedEventOf
<1> QED  BY <1>2, <1>4, <1>5

(***************************************************************************)
(*                               THE PIPELINE                              *)
(***************************************************************************)

-----------------------------------------------------------------------------
(* The inductive invariant.                                                *)

Given == [i \in DOMAIN library |-> EngineRule(library[i])]

Loaded == library \in Libraries /\ IsAccepted(library)

\* Nothing is known of a call of the engine before there is one.
Idle ==
  /\ call = "idle" /\ seen = NoEvent /\ given = <<>>
  /\ ordered = <<>> /\ position = 1 /\ matches = <<>> /\ answer = <<>> /\ reply = <<"none">>
  /\ tree = NoCondition /\ test = <<>> /\ trace = <<>> /\ status = "none"
  /\ alerts = <<>>

\* The engine works on the event made of the record and on the rules loaded, and has not
\* failed.
Called ==
  /\ Loaded
  /\ event \in NormalizedEvents
  /\ seen = Seen(event) /\ given = Given
  /\ call \in {"check", "next", "evaluate", "returned"}
  /\ EngineSound
  /\ reply[1] \in {"none", "ok"}
  /\ call = "returned" => reply = <<"ok">>

\* The first n matches have become alerts.
Alerted(n) ==
  /\ n \in Nat /\ n <= Len(answer)
  /\ alerts \in [1..n -> Range(answer)]
  /\ \A i \in 1..n : alerts[i] = answer[i]

PipelineInv ==
  /\ stage \in {"load", "refused", "ingest", "detect", "alert", "done"}
  /\ IngestionInv
  /\ stage \in {"load", "refused"} => Idle
  /\ stage = "ingest" => Loaded /\ Idle
  /\ stage = "detect" => Called /\ alerts = <<>>
  /\ stage = "alert" => Called /\ call = "returned" /\ \E n \in Nat : Alerted(n)
  /\ stage = "done" =>
       /\ Loaded /\ alerts = answer
       /\ \/ Idle /\ failure # "none"
          \/ Called /\ call = "returned"

LEMMA PipelineInit == Init => PipelineInv
BY IngestionStarts DEF Init, PipelineInv, Idle

-----------------------------------------------------------------------------
(* Nothing fails.                                                          *)

\* The rules of a library are a collection the engine takes.
LEMMA LoadedRules ==
  ASSUME Loaded
  PROVE  /\ Given \in EngineProofs!SeqOf({EngineRule(r) : r \in Rules} \cup {Junk}, MaxRules)
         /\ Junk \notin EngineProofs!Range(Given)
         /\ \A i, j \in DOMAIN Given : Given[i].id = Given[j].id => i = j
<1>1. library \in Seq(Rules) /\ Len(library) <= MaxRules
  BY LibrariesAssumption DEF Loaded
<1>2. PICK n \in Nat : n = Len(library)
  BY <1>1
<1>3. /\ DOMAIN library = 1..n /\ n \in 0..MaxRules
      /\ \A i \in 1..n : library[i] \in Rules
  BY <1>1, <1>2, MaxRulesAssumption
<1>4. Given \in [1..n -> {EngineRule(r) : r \in Rules}]
  BY <1>3 DEF Given
<1>5. Given \in EngineProofs!SeqOf({EngineRule(r) : r \in Rules} \cup {Junk}, MaxRules)
  <2>1. Given \in [1..n -> {EngineRule(r) : r \in Rules} \cup {Junk}]
    BY <1>4
  <2> HIDE DEF Given
  <2> QED  BY <2>1, <1>3 DEF EngineProofs!SeqOf
<1>7. Junk \notin EngineProofs!Range(Given)
  BY <1>4, JunkAssumption DEF EngineProofs!Range
<1>8. ASSUME NEW i \in 1..n, NEW j \in 1..n, Given[i].id = Given[j].id
      PROVE  i = j
  <2>1. Given[i].id = library[i].id /\ Given[j].id = library[j].id
    BY <1>3 DEF Given, EngineRule
  <2> QED  BY <1>3, <1>8, <2>1 DEF Loaded, IsAccepted
<1> QED  BY <1>4, <1>5, <1>7, <1>8

\* Every leaf of an applicable rule of the library can be evaluated on the event.
LEMMA RulesEvaluate ==
  ASSUME Loaded, NEW e \in NormalizedEvents, NEW i \in DOMAIN library,
         EngineProofs!Applicable(EngineRule(library[i]), Seen(e)),
         NEW n \in DOMAIN library[i].leaf
  PROVE  EvaluationError(library[i].leaf[n], e) = "none"
<1>1. e.category \in library[i].categories
  BY DEF EngineProofs!Applicable, EngineRule, Seen
<1>2. LeafError(library[i].leaf[n], library[i].categories, library[i].sources) = "none"
  BY DEF Loaded, IsAccepted
<1> QED  BY <1>1, <1>2, EventsAreSound, AcceptedEvaluates

\* What the engine finds at a leaf of a rule.
LEMMA EvidenceIsMet ==
  ASSUME Loaded, NEW e \in NormalizedEvents, NEW i \in DOMAIN library,
         NEW n \in LeavesOf(library[i].condition)
  PROVE  /\ n \in DOMAIN library[i].leaf
         /\ EngineProofs!Evidence(EngineRule(library[i]), Seen(e))[n] =
              Meets(library[i].leaf[n], e)
<1>1. library[i] \in Rules
  BY LibrariesAssumption DEF Loaded, Rules, Range
<1>2. n \in DOMAIN library[i].leaf
  BY <1>1, RulesAssumption DEF IsRule
<1>3. library[i].leaf[n] \in Leaves
  BY <1>1, <1>2 DEF Leaves, Range
<1>4. Seen(e).meets[library[i].leaf[n]] = Meets(library[i].leaf[n], e)
  BY <1>3 DEF Seen
<1>5. EngineProofs!Evidence(EngineRule(library[i]), Seen(e))[n] =
        Seen(e).meets[library[i].leaf[n]]
  BY DEF EngineProofs!Evidence, EngineRule, LeavesOf
<1> QED  BY <1>2, <1>4, <1>5

LEMMA NoRuleFails ==
  ASSUME Loaded, NEW e \in NormalizedEvents, NEW r \in EngineProofs!Range(Given)
  PROVE  ~EngineProofs!Fails(r, Seen(e))
<1>1. PICK i \in DOMAIN library : r = EngineRule(library[i])
  BY DEF Given, EngineProofs!Range
<1>2. r.valid_match
  BY <1>1 DEF Loaded, IsAccepted, Constructs, EngineRule
<1>3. ASSUME EngineProofs!Applicable(r, Seen(e)), EngineProofs!EvaluationFails(r, Seen(e))
      PROVE  FALSE
  <2>1. PICK n \in DOMAIN EngineProofs!Evidence(r, Seen(e)) :
          ~EngineProofs!Evidence(r, Seen(e))[n].valid
    BY <1>3 DEF EngineProofs!EvaluationFails
  <2>2. n \in LeavesOf(library[i].condition)
    BY <1>1, <2>1 DEF EngineProofs!Evidence, LeavesOf, EngineRule
  <2>3. EvaluationError(library[i].leaf[n], e) = "none"
    BY <1>1, <1>3, <2>2, EvidenceIsMet, RulesEvaluate
  <2>4. Meets(library[i].leaf[n], e).valid
    BY <2>3 DEF Meets
  <2> QED  BY <1>1, <2>1, <2>2, <2>4, EvidenceIsMet
<1> QED  BY <1>2, <1>3 DEF EngineProofs!Fails

\* And an alert can be made of every match.
LEMMA MatchesAreOwnable ==
  ASSUME Called, NEW m \in Range(answer)
  PROVE  IsOwnable(m)
<1>1. /\ m.rule \in EngineProofs!Range(Given)
      /\ EngineProofs!Applicable(m.rule, Seen(event))
  BY DEF Called, EngineSound, EngineProofs!EngineInv, EngineProofs!MatchInv,
         EngineProofs!IsCertainMatch, EngineProofs!Range, Range
<1>2. PICK i \in DOMAIN library : m.rule = EngineRule(library[i])
  BY <1>1 DEF Given, EngineProofs!Range
<1>3. m.rule.leaf = library[i].leaf
  BY <1>2 DEF EngineRule
<1>4. \A n \in DOMAIN library[i].leaf : EvaluationError(library[i].leaf[n], event) = "none"
  BY <1>1, <1>2, RulesEvaluate DEF Called
<1>5. \A n \in DOMAIN library[i].leaf : IsValidTrace(library[i].leaf[n], event)
  BY <1>4 DEF EvaluationError
<1>6. IsValidEvent(event)
  BY EventsAreSound DEF Called
<1> QED  BY <1>3, <1>5, <1>6 DEF IsOwnable

-----------------------------------------------------------------------------
(* What stays as it is.                                                    *)

LEMMA IngestionStands == ASSUME IngestionInv, UNCHANGED ingestion PROVE IngestionInv'
<1>1. UNCHANGED ingestion
  BY DEF ingestion, ingestion
<1> QED  BY <1>1, IngestionSteps

LEMMA IdleStands == ASSUME Idle, UNCHANGED <<detection, alerts>> PROVE Idle'
BY DEF Idle, detection

LEMMA CalledStands ==
  ASSUME Called, UNCHANGED <<library, event, detection>>
  PROVE  Called'
<1>1. UNCHANGED <<call, seen, given, reply, Given>>
  BY DEF detection, Given
<1>2. EngineSound'
  <2>1. UNCHANGED EngineProofs!vars
    BY DEF detection, EngineProofs!vars, EngineProofs!call, EngineProofs!evaluation
  <2> QED  BY <2>1, EngineSteps DEF Called
<1>3. Loaded'
  BY DEF Called, Loaded
<1>4. Seen(event)' = Seen(event) /\ event' = event
  OBVIOUS
<1> QED  BY <1>1, <1>2, <1>3, <1>4 DEF Called

LEMMA StutterKeeps ==
  ASSUME PipelineInv, UNCHANGED vars
  PROVE  PipelineInv'
<1>1. /\ UNCHANGED <<stage, library, alerts, answer, event, failure, call>>
      /\ UNCHANGED detection /\ UNCHANGED ingestion
  BY DEF vars, detection, ingestion
<1>2. IngestionInv'
  BY <1>1, IngestionStands DEF PipelineInv
<1>3. Idle => Idle'
  BY <1>1, IdleStands
<1>4. Called => Called'
  BY <1>1, CalledStands
<1>5. Loaded => Loaded'
  BY <1>1 DEF Loaded
<1>6. \A n \in Nat : Alerted(n) => Alerted(n)'
  BY <1>1 DEF Alerted
<1> QED  BY <1>1, <1>2, <1>3, <1>4, <1>5, <1>6 DEF PipelineInv

-----------------------------------------------------------------------------
(* The steps, one by one.                                                  *)

LEMMA LoadKeeps ==
  ASSUME PipelineInv, LoadRules
  PROVE  PipelineInv'
<1>1. IngestionInv'
  BY IngestionStands DEF LoadRules, PipelineInv
<1>2. Idle'
  BY IdleStands DEF LoadRules, PipelineInv
<1>3. stage' = "refused" \/ (stage' = "ingest" /\ Loaded')
  <2>1. PICK rules \in Libraries :
          IF IsAccepted(rules) THEN stage' = "ingest" /\ library' = rules
          ELSE stage' = "refused" /\ library' = <<>>
    BY DEF LoadRules
  <2>2. CASE IsAccepted(rules)
    <3>1. IsAccepted(library')
      BY <2>1, <2>2
    <3>2. IsAccepted(library)'
      BY <3>1 DEF IsAccepted
    <3> QED  BY <2>1, <2>2, <3>2 DEF Loaded
  <2> QED  BY <2>1, <2>2
<1> QED  BY <1>1, <1>2, <1>3 DEF PipelineInv

LEMMA IngestKeeps ==
  ASSUME PipelineInv, Ingest
  PROVE  PipelineInv'
<1>1. IngestionInv'
  BY IngestionSteps DEF Ingest, IngestionNext, PipelineInv
<1>2. Idle'
  BY IdleStands DEF Ingest, PipelineInv
<1>3. Loaded' /\ stage' = "ingest"
  BY DEF Ingest, Loaded, PipelineInv
<1> QED  BY <1>1, <1>2, <1>3 DEF PipelineInv

LEMMA DropKeeps ==
  ASSUME PipelineInv, DropRecord
  PROVE  PipelineInv'
<1>1. IngestionInv'
  BY IngestionStands DEF DropRecord, PipelineInv
<1>2. Idle'
  BY IdleStands DEF DropRecord, PipelineInv
<1>3. Loaded' /\ stage' = "done" /\ failure' # "none"
  BY DEF DropRecord, Loaded, PipelineInv, ingestion
<1>4. alerts' = answer'
  BY <1>2 DEF Idle
<1> QED  BY <1>1, <1>2, <1>3, <1>4 DEF PipelineInv

LEMMA MadeEvents ==
  ASSUME IngestionInv, event # NoEvent
  PROVE  event \in NormalizedEvents
<1>1. /\ raw \in RawEvents /\ normalizer \in Normalizers
      /\ NormalizationError(raw, normalizer) = "none"
      /\ event = NormalizedEventOf(raw, normalizer)
  BY DEF IngestionInv, IngestionStages, IngestionEnds
<1> QED  BY <1>1 DEF NormalizedEvents

LEMMA BeginKeeps ==
  ASSUME PipelineInv, BeginDetection
  PROVE  PipelineInv'
<1>1. IngestionInv'
  BY IngestionStands DEF BeginDetection, PipelineInv
<1>2. event \in NormalizedEvents /\ event' = event
  BY MadeEvents DEF BeginDetection, PipelineInv, ingestion
<1>3. Loaded' /\ Loaded /\ Given' = Given
  BY DEF BeginDetection, Loaded, PipelineInv, Given
<1>4. seen' = Seen(event) /\ given' = Given /\ call' = "check"
  BY DEF BeginDetection, Given
<1>5. EngineProofs!Entered'
  <2>1. /\ ordered' = <<>> /\ position' = 1 /\ matches' = <<>> /\ answer' = <<>>
        /\ reply' = <<"none">> /\ tree' = NoCondition /\ test' = <<>> /\ trace' = <<>>
        /\ status' = "none"
    BY DEF BeginDetection, PipelineInv, Idle
  <2>2. seen' \in {Seen(e) : e \in NormalizedEvents} /\ seen' # Junk
    BY <1>2, <1>4, JunkAssumption
  <2>3. /\ given' \in EngineProofs!SeqOf({EngineRule(r) : r \in Rules} \cup {Junk}, MaxRules)
        /\ EngineProofs!Collections' = EngineProofs!Collections
    BY <1>3, <1>4, LoadedRules
  <2>4. given' \in EngineProofs!Collections'
    BY <2>3 DEF EngineProofs!Collections
  <2> QED  BY <1>4, <2>1, <2>2, <2>3, <2>4 DEF EngineProofs!Entered
<1>6. EngineSound'
  BY <1>5, EngineStartsNext
<1>7. Called'
  <2>1. reply'[1] = "none"
    BY DEF BeginDetection, PipelineInv, Idle
  <2>2. Seen(event)' = Seen(event)
    BY <1>2
  <2> QED  BY <1>2, <1>3, <1>4, <1>6, <2>1, <2>2 DEF Called
<1>8. stage' = "detect" /\ alerts' = <<>>
  BY DEF BeginDetection, PipelineInv, Idle
<1> QED  BY <1>1, <1>7, <1>8 DEF PipelineInv

\* The engine neither refuses its arguments nor fails for a rule.
LEMMA EngineKeeps ==
  ASSUME Called, Engine!Next, UNCHANGED <<library, event>>
  PROVE  Called'
<1>1. EngineProofs!Next
  BY SameNext
<1>2. EngineSound'
  BY <1>1, EngineSteps DEF Called
<1>3. /\ seen' = seen /\ given' = given
      /\ call' \in {"check", "next", "evaluate", "returned"}
  BY <1>1 DEF Called, EngineProofs!Next, EngineProofs!RejectArguments,
              EngineProofs!BeginSnapshot, EngineProofs!TakeItem, EngineProofs!EndOfItems,
              EngineProofs!IterationRaises, EngineProofs!RejectItems, EngineProofs!OrderRules,
              EngineProofs!SkipRule, EngineProofs!BeginEvaluation, EngineProofs!Evaluate,
              EngineProofs!PropagateError, EngineProofs!RejectMatch, EngineProofs!ConcludeRule,
              EngineProofs!ReturnMatches, EngineProofs!Fail, EngineProofs!FailFor,
              EngineProofs!Return, EngineProofs!call
<1>4. Loaded' /\ Given' = Given /\ Seen(event)' = Seen(event) /\ event' = event
  BY DEF Called, Loaded, Given
<1>5. /\ ~EngineProofs!RejectArguments /\ ~EngineProofs!RejectItems
      /\ ~EngineProofs!BeginSnapshot /\ ~EngineProofs!TakeItem
      /\ ~EngineProofs!EndOfItems /\ ~EngineProofs!IterationRaises
  <2>1. /\ Junk \notin EngineProofs!Range(given)
        /\ \A i, j \in DOMAIN given : given[i].id = given[j].id => i = j
    BY LoadedRules DEF Called
  <2> QED  BY <2>1 DEF Called, EngineProofs!RejectArguments, EngineProofs!RejectItems,
                       EngineProofs!BeginSnapshot, EngineProofs!TakeItem,
                       EngineProofs!EndOfItems, EngineProofs!IterationRaises,
                       EngineProofs!SharesId
<1>6. \/ reply' = reply /\ (call' = "returned" => call = "returned")
      \/ reply' = <<"ok">> /\ reply'[1] = "ok"
      \/ reply'[1] \in {"evaluation_error", "invalid_match"}
  <2>1. CASE EngineProofs!PropagateError
    BY <2>1 DEF EngineProofs!PropagateError, EngineProofs!Fail, EngineProofs!Return
  <2>2. CASE EngineProofs!RejectMatch
    BY <2>2 DEF EngineProofs!RejectMatch, EngineProofs!FailFor, EngineProofs!Return
  <2>3. CASE EngineProofs!ReturnMatches
    BY <2>3 DEF EngineProofs!ReturnMatches, EngineProofs!Return
  <2> QED  BY <1>1, <1>5, <2>1, <2>2, <2>3
              DEF EngineProofs!Next, EngineProofs!OrderRules, EngineProofs!SkipRule,
                  EngineProofs!BeginEvaluation, EngineProofs!Evaluate, EngineProofs!ConcludeRule
<1>7. reply'[1] \notin {"evaluation_error", "invalid_match"}
  <2> DEFINE Failing == \E r \in EngineProofs!Range(given) : EngineProofs!Fails(r, seen)
  <2>1. (reply[1] \in {"evaluation_error", "invalid_match"} => Failing)'
    BY <1>2 DEF EngineSound, EngineProofs!CompleteInv, EngineProofs!Settled,
                EngineProofs!Justified, EngineProofs!IsFirstToFail
  <2>2. ~Failing
    BY NoRuleFails DEF Called
  <2>3. Failing' = Failing
    BY <1>3
  <2> QED  BY <2>1, <2>2, <2>3
<1> QED  BY <1>2, <1>3, <1>4, <1>6, <1>7 DEF Called

LEMMA DetectKeeps ==
  ASSUME PipelineInv, Detect
  PROVE  PipelineInv'
<1>1. IngestionInv'
  BY IngestionStands DEF Detect, PipelineInv
<1>2. event' = event
  BY DEF Detect, ingestion
<1>3. Called'
  BY <1>2, EngineKeeps DEF Detect, PipelineInv
<1>4. stage' = "detect" /\ alerts' = <<>>
  BY DEF Detect, PipelineInv
<1> QED  BY <1>1, <1>3, <1>4 DEF PipelineInv

LEMMA AnswerIsSequence ==
  ASSUME Called
  PROVE  Len(answer) \in Nat /\ answer \in [1..Len(answer) -> Range(answer)]
<1>1. answer \in Seq(EngineProofs!Matches)
  BY DEF Called, EngineSound, EngineProofs!CompleteInv, EngineProofs!Typed
<1>2. Len(answer) \in Nat /\ answer \in [1..Len(answer) -> EngineProofs!Matches]
  BY <1>1
<1> QED  BY <1>2 DEF Range

LEMMA EndDetectionKeeps ==
  ASSUME PipelineInv, EndDetection
  PROVE  PipelineInv'
<1>1. IngestionInv'
  BY IngestionStands DEF EndDetection, PipelineInv
<1>2. event' = event
  BY DEF EndDetection, ingestion
<1>3. Called' /\ call' = "returned"
  BY <1>2, CalledStands DEF EndDetection, PipelineInv, detection
<1>4. stage' = "alert" /\ alerts' = <<>>
  BY DEF EndDetection, PipelineInv
<1>5. Alerted(0)'
  <2>1. Len(answer) \in Nat
    BY AnswerIsSequence DEF EndDetection, PipelineInv
  <2>2. answer' = answer
    BY DEF EndDetection, detection
  <2> QED  BY <1>4, <2>1, <2>2 DEF Alerted
<1> QED  BY <1>1, <1>3, <1>4, <1>5 DEF PipelineInv

LEMMA CreateKeeps ==
  ASSUME PipelineInv, CreateAlert
  PROVE  PipelineInv'
<1>1. IngestionInv'
  BY IngestionStands DEF CreateAlert, PipelineInv
<1>2. event' = event /\ answer' = answer /\ call' = call
  BY DEF CreateAlert, ingestion, detection
<1>3. Called /\ Called' /\ call = "returned"
  BY <1>2, CalledStands DEF CreateAlert, PipelineInv
<1>4. PICK n \in Nat : Alerted(n)
  BY DEF CreateAlert, PipelineInv
<1>5. Len(alerts) = n /\ n + 1 \in 1..Len(answer)
  BY <1>3, <1>4, AnswerIsSequence DEF Alerted, CreateAlert
<1>6. PICK m : m = answer[n + 1]
  OBVIOUS
<1>7. m \in Range(answer)
  BY <1>3, <1>5, <1>6, AnswerIsSequence
<1>8. IsOwnable(m)
  BY <1>3, <1>7, MatchesAreOwnable
<1>9. alerts' = Append(alerts, m) /\ stage' = "alert"
  BY <1>5, <1>6, <1>8 DEF CreateAlert
<1>10. Alerted(n + 1)'
  <2>1. PICK S : S = Range(answer)
    OBVIOUS
  <2>2. alerts \in [1..n -> S] /\ n \in Nat /\ m \in S
    BY <1>4, <1>7, <2>1 DEF Alerted
  <2>3. alerts \in Seq(S)
    BY <2>2
  <2>4. PICK s : s = Append(alerts, m)
    OBVIOUS
  <2>5. s \in Seq(S) /\ Len(s) = n + 1
    BY <1>5, <2>2, <2>3, <2>4
  <2>6. s \in [1..Len(s) -> S]
    BY <2>5
  <2>7. \A i \in 1..(n + 1) : s[i] = answer[i]
    BY <1>4, <1>5, <1>6, <2>3, <2>4 DEF Alerted
  <2>8. S = Range(answer')
    BY <1>2, <2>1 DEF Range
  <2> QED  BY <1>2, <1>5, <1>9, <2>4, <2>5, <2>6, <2>7, <2>8 DEF Alerted
<1> QED  BY <1>1, <1>2, <1>3, <1>9, <1>10 DEF PipelineInv

LEMMA EndKeeps ==
  ASSUME PipelineInv, EndAlerts
  PROVE  PipelineInv'
<1>1. IngestionInv'
  BY IngestionStands DEF EndAlerts, PipelineInv
<1>2. event' = event /\ answer' = answer /\ alerts' = alerts /\ call' = call
  BY DEF EndAlerts, ingestion, detection
<1>3. Called /\ Called' /\ call = "returned"
  BY <1>2, CalledStands DEF EndAlerts, PipelineInv
<1>4. PICK n \in Nat : Alerted(n)
  BY DEF EndAlerts, PipelineInv
<1>5. n = Len(answer)
  BY <1>4 DEF Alerted, EndAlerts
<1>6. alerts = answer
  BY <1>3, <1>4, <1>5, AnswerIsSequence DEF Alerted
<1>7. stage' = "done" /\ Loaded'
  BY <1>3 DEF EndAlerts, Called
<1> QED  BY <1>1, <1>2, <1>3, <1>6, <1>7 DEF PipelineInv

LEMMA ReceiveKeeps ==
  ASSUME PipelineInv, ReceiveRecord
  PROVE  PipelineInv'
<1>1. IngestionInit'
  BY DEF ReceiveRecord, IngestionInit
<1>2. IngestionInv'
  BY <1>1, IngestionStartsNext
<1>3. Idle' /\ stage' = "ingest"
  BY DEF ReceiveRecord, Idle
<1>4. Loaded'
  BY DEF ReceiveRecord, PipelineInv, Loaded
<1> QED  BY <1>2, <1>3, <1>4 DEF PipelineInv

LEMMA PipelineNext == PipelineInv /\ [Next]_vars => PipelineInv'
BY LoadKeeps, IngestKeeps, DropKeeps, BeginKeeps, DetectKeeps, EndDetectionKeeps, CreateKeeps,
   EndKeeps, ReceiveKeeps, StutterKeeps DEF Next

LEMMA PipelineInvariant == Spec => []PipelineInv
BY PipelineInit, PipelineNext, PTL DEF Spec

\* Once a library has been loaded, nothing fails behind a record that became an event: the
\* engine raises for no rule, and every match becomes an alert, in the answer's order.
THEOREM EverythingGetsThrough == Spec => []EventsAlwaysGetThrough
<1>1. PipelineInv => EventsAlwaysGetThrough
  BY DEF PipelineInv, Idle, Called, EventsAlwaysGetThrough
<1> QED  BY <1>1, PipelineInvariant, PTL

(***************************************************************************)
(*                         THE REPOSITORY'S RULES                          *)
(***************************************************************************)

-----------------------------------------------------------------------------
(* What an event tells of the record it was made of.                       *)

\* An event made of the record x by the normalizer n.
IsMadeOf(e, x, n) ==
  /\ IngestionError(x) = "none" /\ n \in Normalizers
  /\ NormalizationError(RawWindowsEvent(x), n) = "none"
  /\ e = NormalizedEventOf(RawWindowsEvent(x), n)

\* The entries of a raw event are those of the record, each under a name of its own.
LEMMA EntriesAreWritten ==
  ASSUME NEW x, IngestionError(x) = "none", NEW name, NEW data,
         data = RawWindowsEvent(x).event_data
  PROVE  /\ name \in DOMAIN data => Written(x, name) = {Stripped[data[name]]}
         /\ name \notin DOMAIN data => Written(x, name) = {}
<1>1. PICK d : d = Data(x)
  OBVIOUS
<1>2. \A i, j \in DOMAIN d : d[i].name = d[j].name => i = j
  BY <1>1 DEF IngestionError, HasNamedData, Data
<1>3. data = [m \in {d[i].name : i \in DOMAIN d} |->
                d[CHOOSE i \in DOMAIN d : d[i].name = m].text]
  BY <1>1 DEF RawWindowsEvent
<1>4. Written(x, name) = {Stripped[d[i].text] : i \in {j \in DOMAIN d : d[j].name = name}}
  BY <1>1 DEF Written
<1>5. ASSUME name \in DOMAIN data
      PROVE  Written(x, name) = {Stripped[data[name]]}
  <2>1. PICK i \in DOMAIN d : d[i].name = name
    BY <1>3, <1>5
  <2>2. (CHOOSE k \in DOMAIN d : d[k].name = name) = i
    BY <1>2, <2>1
  <2>3. data[name] = d[i].text
    BY <1>3, <1>5, <2>2
  <2>4. {j \in DOMAIN d : d[j].name = name} = {i}
    BY <1>2, <2>1
  <2> QED  BY <1>4, <2>3, <2>4
<1>6. ASSUME name \notin DOMAIN data
      PROVE  Written(x, name) = {}
  BY <1>3, <1>4, <1>6
<1> QED  BY <1>5, <1>6

\* A field of the context is the text of the entry of that name.
IsTextOf(f, name, e, x, n) ==
  LET type == CONTEXT_TYPE_BY_CATEGORY[e.category]
      reads == Route(n, RawWindowsEvent(x).event_id).reads
  IN /\ f # "outcome" /\ f \in DOMAIN ModelFields[type]
     /\ ModelFields[type][f].as # "IPvAnyAddress"
     /\ reads[f].name = name /\ reads[f].as = "text"

\* A value is the only one of some texts, or those say nothing.
IsSaidIn(texts, v) ==
  \/ v = None /\ \A t \in texts : t \in {"", "-"}
  \/ \E t : v = Text(t) /\ v # None /\ texts = {t}

\* Such a text is what the record says under that name.
LEMMA TextsAreWritten ==
  ASSUME NEW x, NEW n, NEW e, IsMadeOf(e, x, n), NEW f, NEW name, IsTextOf(f, name, e, x, n)
  PROVE  IsSaidIn(Written(x, name), e.context[f])
<1>1. PICK r : r = RawWindowsEvent(x)
  OBVIOUS
<1>2. PICK read : read = Route(n, r.event_id).reads[f]
  OBVIOUS
<1>3. e.category = Route(n, r.event_id).category /\ e.context = Context(r, n)
  BY <1>1 DEF IsMadeOf, NormalizedEventOf
<1>4. PICK as : as # "IPvAnyAddress" /\ e.context[f] = Read(read, as, r.event_data)
  BY <1>2, <1>3 DEF Context, IsTextOf
<1>5. read.name = name /\ read.as = "text"
  BY <1>1, <1>2 DEF IsTextOf
<1>6. CASE Says(r.event_data, name)
  <2>1. e.context[f] = Text(Stripped[r.event_data[name]])
    BY <1>4, <1>5, <1>6 DEF Read
  <2>2. Written(x, name) = {Stripped[r.event_data[name]]}
    BY <1>1, <1>6, EntriesAreWritten DEF IsMadeOf, Says
  <2> QED  BY <2>1, <2>2, NothingIsNone DEF IsSaidIn
<1>7. CASE ~Says(r.event_data, name)
  <2>1. e.context[f] = None
    BY <1>4, <1>5, <1>7 DEF Read
  <2>2. \A t \in Written(x, name) : t \in {"", "-"}
    <3>1. CASE name \in DOMAIN r.event_data
      <4>1. Written(x, name) = {Stripped[r.event_data[name]]}
        BY <1>1, <3>1, EntriesAreWritten DEF IsMadeOf
      <4> QED  BY <1>7, <3>1, <4>1 DEF Says
    <3>2. CASE name \notin DOMAIN r.event_data
      BY <1>1, <3>2, EntriesAreWritten DEF IsMadeOf
    <3> QED  BY <3>1, <3>2
  <2> QED  BY <2>1, <2>2 DEF IsSaidIn
<1> QED  BY <1>6, <1>7

\* What the identity of a record makes of it.
LEMMA IdentitiesDecide ==
  ASSUME NEW x, NEW n, NEW e, IsMadeOf(e, x, n), NEW id,
         id = RawWindowsEvent(x).event_id
  PROVE  /\ \/ n = "windows_security" /\ id \in {4624, 4625, 4688}
            \/ n = "sysmon" /\ id \in {1, 3, 11, 22}
         /\ \A k : Security(x, k) <=> n = "windows_security" /\ id = k
         /\ \A k : Sysmon(x, k) <=> n = "sysmon" /\ id = k
         /\ e.category = Route(n, id).category
         /\ e.context = Context(RawWindowsEvent(x), n)
<1>1. PICK r : r = RawWindowsEvent(x)
  OBVIOUS
<1>2. r.provider = Stripped[x.provider] /\ r.event_id = Decimal[Stripped[x.event_id]]
  BY <1>1 DEF RawWindowsEvent
<1>3. IsSupported(r, n) /\ n \in Normalizers
  BY <1>1, NormalizationOutcomes DEF IsMadeOf
<1>4. e.category = Route(n, id).category /\ e.context = Context(r, n)
  BY <1>1 DEF IsMadeOf, NormalizedEventOf
<1> QED  BY <1>1, <1>2, <1>3, <1>4
            DEF IsSupported, Normalizers, SYSMON_PROVIDER, WINDOWS_SECURITY_PROVIDER, Security,
                Sysmon, Is

LEMMA TextFields ==
  ASSUME NEW x, NEW n, NEW e, IsMadeOf(e, x, n)
  PROVE  /\ e.category = "process" =>
              /\ \/ Security(x, 4688) /\ IsTextOf("image", "NewProcessName", e, x, n)
                 \/ ~Security(x, 4688) /\ IsTextOf("image", "Image", e, x, n)
              /\ IsTextOf("command_line", "CommandLine", e, x, n)
         /\ e.category = "network" => IsTextOf("process_image", "Image", e, x, n)
         /\ e.category = "file" => IsTextOf("target_path", "TargetFilename", e, x, n)
         /\ e.category = "dns" => IsTextOf("query_name", "QueryName", e, x, n)
<1>1. PICK id : id = RawWindowsEvent(x).event_id
  OBVIOUS
<1>2. /\ \/ n = "windows_security" /\ id \in {4624, 4625, 4688}
         \/ n = "sysmon" /\ id \in {1, 3, 11, 22}
      /\ Security(x, 4688) <=> n = "windows_security" /\ id = 4688
      /\ e.category = Route(n, id).category
  BY <1>1, IdentitiesDecide
<1>3. PICK route : route = Route(n, id)
  OBVIOUS
<1>4. CASE e.category = "process"
  <2>1. CASE n = "windows_security"
    <3>1. route.reads = SecurityProcess /\ id = 4688
      BY <1>2, <1>3, <1>4, <2>1 DEF Route
    <3>2. Security(x, 4688)
      BY <1>2, <2>1, <3>1
    <3>3. /\ IsTextOf("image", "NewProcessName", e, x, n)
          /\ IsTextOf("command_line", "CommandLine", e, x, n)
      BY <1>1, <1>3, <1>4, <3>1
         DEF IsTextOf, SecurityProcess, Must, May, ModelFields, CONTEXT_TYPE_BY_CATEGORY,
             ProcessContext, Required, Optional
    <3> QED  BY <1>4, <3>2, <3>3
  <2>2. CASE n = "sysmon"
    <3>1. route.reads = SysmonProcess
      BY <1>2, <1>3, <1>4, <2>2 DEF Route
    <3>2. ~Security(x, 4688)
      BY <1>2, <2>2
    <3>3. /\ IsTextOf("image", "Image", e, x, n)
          /\ IsTextOf("command_line", "CommandLine", e, x, n)
      BY <1>1, <1>3, <1>4, <3>1
         DEF IsTextOf, SysmonProcess, Must, May, ModelFields, CONTEXT_TYPE_BY_CATEGORY,
             ProcessContext, Required, Optional
    <3> QED  BY <1>4, <3>2, <3>3
  <2> QED  BY <1>2, <2>1, <2>2
<1>5. CASE e.category = "network"
  <2>1. route.reads = SysmonNetwork
    BY <1>2, <1>3, <1>5 DEF Route
  <2> QED  BY <1>1, <1>3, <1>5, <2>1
              DEF IsTextOf, SysmonNetwork, Must, May, ModelFields, CONTEXT_TYPE_BY_CATEGORY,
                  NetworkContext, Required, Optional
<1>6. CASE e.category = "file"
  <2>1. route.reads = SysmonFile
    BY <1>2, <1>3, <1>6 DEF Route
  <2> QED  BY <1>1, <1>3, <1>6, <2>1
              DEF IsTextOf, SysmonFile, Must, May, ModelFields, CONTEXT_TYPE_BY_CATEGORY,
                  FileContext, Required, Optional
<1>7. CASE e.category = "dns"
  <2>1. route.reads = SysmonDns
    BY <1>2, <1>3, <1>7 DEF Route
  <2> QED  BY <1>1, <1>3, <1>7, <2>1
              DEF IsTextOf, SysmonDns, Must, May, ModelFields, CONTEXT_TYPE_BY_CATEGORY,
                  DnsContext, Required, Optional
<1> QED  BY <1>4, <1>5, <1>6, <1>7

LEMMA CategoriesDecide ==
  ASSUME NEW x, NEW n, NEW e, IsMadeOf(e, x, n)
  PROVE  /\ e.category = "authentication" <=> Security(x, 4624) \/ Security(x, 4625)
         /\ e.category = "process" <=> Security(x, 4688) \/ Sysmon(x, 1)
         /\ e.category = "network" <=> Sysmon(x, 3)
         /\ e.category = "file" <=> Sysmon(x, 11)
         /\ e.category = "dns" <=> Sysmon(x, 22)
<1>1. PICK id : id = RawWindowsEvent(x).event_id
  OBVIOUS
<1>2. /\ \/ n = "windows_security" /\ id \in {4624, 4625, 4688}
         \/ n = "sysmon" /\ id \in {1, 3, 11, 22}
      /\ \A k : Security(x, k) <=> n = "windows_security" /\ id = k
      /\ \A k : Sysmon(x, k) <=> n = "sysmon" /\ id = k
      /\ e.category = Route(n, id).category
  BY <1>1, IdentitiesDecide
<1>3. /\ n = "windows_security" =>
           e.category = IF id = 4688 THEN "process" ELSE "authentication"
      /\ n = "sysmon" => e.category = IF id = 1 THEN "process" ELSE IF id = 3 THEN "network"
                                      ELSE IF id = 11 THEN "file" ELSE "dns"
  BY <1>2 DEF Route
<1> QED  BY <1>2, <1>3

\* A value is the number that the only one of some texts is, or none of them is a number.
IsNumberIn(texts, v) ==
  \/ v = None /\ \A t \in texts : t \notin DOMAIN Decimal
  \/ \E t \in DOMAIN Decimal : v = Integer(Decimal[t]) /\ texts = {t}

\* The authentication context: the outcome goes by the event ID, the logon type is the number
\* the entry of that name says.
LEMMA AuthenticationReads ==
  ASSUME NEW x, NEW n, NEW e, IsMadeOf(e, x, n), e.category = "authentication",
         NEW texts, texts = Written(x, "LogonType")
  PROVE  /\ e.context["outcome"] = Member(IF Security(x, 4625) THEN "failure" ELSE "success")
         /\ IsNumberIn(texts, e.context["logon_type"])
<1>1. PICK r : r = RawWindowsEvent(x)
  OBVIOUS
<1>2. PICK id : id = r.event_id
  OBVIOUS
<1>3. /\ n = "windows_security" /\ id \in {4624, 4625}
      /\ Security(x, 4625) <=> id = 4625
      /\ e.context = Context(r, n)
  <2>1. /\ \/ n = "windows_security" /\ id \in {4624, 4625, 4688}
           \/ n = "sysmon" /\ id \in {1, 3, 11, 22}
        /\ Security(x, 4625) <=> n = "windows_security" /\ id = 4625
        /\ e.category = Route(n, id).category
        /\ e.context = Context(r, n)
    BY <1>1, <1>2, IdentitiesDecide
  <2> QED  BY <2>1 DEF Route
<1>4. PICK route : route = Route(n, id)
  OBVIOUS
<1>5. route.category = "authentication" /\ route.reads = SecurityAuthentication
  BY <1>3, <1>4 DEF Route
<1>6. PICK read : read = route.reads["logon_type"]
  OBVIOUS
<1>7. read.name = "LogonType" /\ read.as = "decimal" /\ "logon_type" \in DOMAIN route.reads
  BY <1>5, <1>6 DEF SecurityAuthentication, May
<1>8. \E as : e.context["logon_type"] = Read(read, as, r.event_data)
  <2>1. "logon_type" \in DOMAIN ModelFields[CONTEXT_TYPE_BY_CATEGORY["authentication"]]
    BY DEF ModelFields, CONTEXT_TYPE_BY_CATEGORY, AuthenticationContext
  <2> QED  BY <1>2, <1>3, <1>4, <1>5, <1>6, <2>1 DEF Context
<1>9. e.context["outcome"] = Member(IF Security(x, 4625) THEN "failure" ELSE "success")
  <2>1. "outcome" \in DOMAIN ModelFields[CONTEXT_TYPE_BY_CATEGORY["authentication"]]
    BY DEF ModelFields, CONTEXT_TYPE_BY_CATEGORY, AuthenticationContext
  <2>2. e.context["outcome"] = Member(IF id = 4624 THEN "success" ELSE "failure")
    BY <1>2, <1>3, <1>4, <1>5, <2>1 DEF Context
  <2> QED  BY <1>3, <2>2
<1>10. IsReadable(read, r.event_data)
  <2>1. \A f \in DOMAIN Route(n, r.event_id).reads :
          IsReadable(Route(n, r.event_id).reads[f], r.event_data)
    BY <1>1, NormalizationOutcomes DEF IsMadeOf
  <2> QED  BY <1>2, <1>4, <1>6, <1>7, <2>1
<1>11. CASE Says(r.event_data, "LogonType")
  <2>1. PICK t : t = Stripped[r.event_data["LogonType"]]
    OBVIOUS
  <2>2. texts = {t}
    BY <1>1, <1>11, <2>1, EntriesAreWritten DEF IsMadeOf, Says
  <2>3. \E k \in Number("decimal", t) : k >= 0
    BY <1>7, <1>10, <1>11, <2>1 DEF IsReadable
  <2>4. t \in DOMAIN Decimal /\ Number("decimal", t) = {Decimal[t]}
    BY <2>3 DEF Number
  <2>5. (CHOOSE k \in Number("decimal", t) : TRUE) = Decimal[t]
    BY <2>4
  <2>6. e.context["logon_type"] = Integer(Decimal[t])
    BY <1>7, <1>8, <1>11, <2>1, <2>5 DEF Read
  <2> QED  BY <1>9, <2>2, <2>4, <2>6 DEF IsNumberIn
<1>12. CASE ~Says(r.event_data, "LogonType")
  <2>1. e.context["logon_type"] = None
    BY <1>7, <1>8, <1>12 DEF Read
  <2>2. \A t \in texts : t \in {"", "-"}
    <3>1. CASE "LogonType" \in DOMAIN r.event_data
      <4>1. texts = {Stripped[r.event_data["LogonType"]]}
        BY <1>1, <3>1, EntriesAreWritten DEF IsMadeOf
      <4> QED  BY <1>12, <3>1, <4>1 DEF Says
    <3>2. CASE "LogonType" \notin DOMAIN r.event_data
      <4>1. texts = {}
        BY <1>1, <3>2, EntriesAreWritten DEF IsMadeOf
      <4> QED  BY <4>1
    <3> QED  BY <3>1, <3>2
  <2>3. \A t \in {"", "-"} : t \notin DOMAIN Decimal
    BY ConversionsAssumption
  <2>4. \A t \in texts : t \notin DOMAIN Decimal
    BY <2>2, <2>3
  <2> QED  BY <1>9, <2>1, <2>4 DEF IsNumberIn
<1> QED  BY <1>11, <1>12

-----------------------------------------------------------------------------
(* When a condition is certain.                                            *)

\* A leaf is found in an event if it comes out true there.
Found(r, e, n) == EngineProofs!Evaluator!LeafOutcome(EngineProofs!Evidence(r, e)[n]) = "true"

Reads(r, e, v) ==
  /\ v \in [1..r.condition.size -> BOOLEAN]
  /\ EngineProofs!Evaluator!IsReadingOf(r.condition, EngineProofs!Evidence(r, e), v)

LEMMA CertainReads ==
  ASSUME NEW r, NEW e
  PROVE  EngineProofs!Certain(r, e) <=> \A v : Reads(r, e, v) => v[r.condition.size]
BY DEF EngineProofs!Certain, Reads

\* The reading in which no leaf holds that was not found.
LEMMA LeastReads ==
  ASSUME NEW r, NEW e, NEW v, v \in [1..r.condition.size -> BOOLEAN],
         \A n \in 1..r.condition.size :
           \/ r.condition.kind[n] = "leaf" /\ (v[n] <=> Found(r, e, n))
           \/ r.condition.kind[n] = "all" /\ (v[n] <=> \A c \in r.condition.children[n] : v[c])
           \/ r.condition.kind[n] = "any" /\ (v[n] <=> \E c \in r.condition.children[n] : v[c])
  PROVE  Reads(r, e, v)
<1>1. PICK t, ev : t = r.condition /\ ev = EngineProofs!Evidence(r, e)
  OBVIOUS
<1>2. ASSUME NEW n \in 1..t.size
      PROVE  EngineProofs!Evaluator!ReadsAs(t, ev, v, n)
  <2>1. CASE t.kind[n] = "leaf" /\ (v[n] <=> Found(r, e, n))
    <3>1. v[n] <=> EngineProofs!Evaluator!LeafOutcome(ev[n]) = "true"
      BY <1>1, <2>1 DEF Found
    <3> QED  BY <1>1, <2>1, <3>1 DEF EngineProofs!Evaluator!ReadsAs
  <2>2. CASE t.kind[n] = "all" /\ (v[n] <=> \A c \in t.children[n] : v[c])
    BY <1>1, <2>2 DEF EngineProofs!Evaluator!ReadsAs
  <2>3. CASE t.kind[n] = "any" /\ (v[n] <=> \E c \in t.children[n] : v[c])
    BY <1>1, <2>3 DEF EngineProofs!Evaluator!ReadsAs
  <2> QED  BY <1>1, <1>2, <2>1, <2>2, <2>3
<1>3. EngineProofs!Evaluator!IsReadingOf(t, ev, v)
  BY <1>1, <1>2 DEF EngineProofs!Evaluator!IsReadingOf
<1> QED  BY <1>1, <1>3 DEF Reads

\* In every reading, what was found holds.
LEMMA FoundHolds ==
  ASSUME NEW r, NEW e, NEW v, Reads(r, e, v), NEW n \in 1..r.condition.size
  PROVE  /\ r.condition.kind[n] = "leaf" /\ Found(r, e, n) => v[n]
         /\ r.condition.kind[n] = "all" => (v[n] <=> \A c \in r.condition.children[n] : v[c])
         /\ r.condition.kind[n] = "any" => (v[n] <=> \E c \in r.condition.children[n] : v[c])
<1>1. PICK t, ev : t = r.condition /\ ev = EngineProofs!Evidence(r, e)
  OBVIOUS
<1>2. EngineProofs!Evaluator!ReadsAs(t, ev, v, n) /\ v[n] \in BOOLEAN
  BY <1>1 DEF Reads, EngineProofs!Evaluator!IsReadingOf
<1>3. ASSUME t.kind[n] = "leaf", EngineProofs!Evaluator!LeafOutcome(ev[n]) = "true" PROVE v[n]
  BY <1>2, <1>3 DEF EngineProofs!Evaluator!ReadsAs
<1>4. ASSUME t.kind[n] = "all" PROVE v[n] <=> \A c \in t.children[n] : v[c]
  BY <1>2, <1>4 DEF EngineProofs!Evaluator!ReadsAs
<1>5. ASSUME t.kind[n] = "any" PROVE v[n] <=> \E c \in t.children[n] : v[c]
  BY <1>2, <1>5 DEF EngineProofs!Evaluator!ReadsAs
<1> QED  BY <1>1, <1>3, <1>4, <1>5 DEF Found

\* A condition is certain if what was found makes it hold.
LEMMA CertainLeaf ==
  ASSUME NEW r, NEW e, r.condition = [size |-> 1, kind |-> <<"leaf">>, children |-> <<{}>>]
  PROVE  EngineProofs!Certain(r, e) <=> Found(r, e, 1)
<1>1. r.condition.size = 1 /\ r.condition.kind[1] = "leaf" /\ 1 \in 1..1
  OBVIOUS
<1>2. ASSUME EngineProofs!Certain(r, e) PROVE Found(r, e, 1)
  <2>1. PICK b \in BOOLEAN : b <=> Found(r, e, 1)
    BY DEF Found
  <2>2. PICK v : v = [n \in 1..1 |-> b]
    OBVIOUS
  <2>3. v \in [1..1 -> BOOLEAN] /\ v[1] = b /\ \A n \in 1..1 : n = 1
    BY <2>2
  <2>4. Reads(r, e, v)
    BY <1>1, <2>1, <2>3, LeastReads
  <2> QED  BY <1>1, <1>2, <2>1, <2>3, <2>4, CertainReads
<1>3. ASSUME Found(r, e, 1) PROVE EngineProofs!Certain(r, e)
  BY <1>1, <1>3, FoundHolds, CertainReads
<1> QED  BY <1>2, <1>3 DEF Found

LEMMA CertainPair ==
  ASSUME NEW r, NEW e, NEW junction \in {"all", "any"},
         r.condition = [size |-> 3, kind |-> <<"leaf", "leaf", junction>>,
                        children |-> <<{}, {}, {1, 2}>>]
  PROVE  /\ junction = "all" =>
              (EngineProofs!Certain(r, e) <=> Found(r, e, 1) /\ Found(r, e, 2))
         /\ junction = "any" =>
              (EngineProofs!Certain(r, e) <=> Found(r, e, 1) \/ Found(r, e, 2))
<1>1. /\ r.condition.size = 3
      /\ r.condition.kind[1] = "leaf" /\ r.condition.kind[2] = "leaf"
      /\ r.condition.kind[3] = junction /\ r.condition.children[3] = {1, 2}
      /\ 1 \in 1..3 /\ 2 \in 1..3 /\ 3 \in 1..3 /\ \A n \in 1..3 : n \in {1, 2, 3}
  OBVIOUS
<1>2. PICK a \in BOOLEAN, b \in BOOLEAN : (a <=> Found(r, e, 1)) /\ (b <=> Found(r, e, 2))
  <2>1. /\ \E a \in BOOLEAN : a <=> Found(r, e, 1)
        /\ \E b \in BOOLEAN : b <=> Found(r, e, 2)
    BY DEF Found
  <2> QED  BY <2>1
<1>3. PICK c \in BOOLEAN : /\ junction = "all" => (c <=> a /\ b)
                           /\ junction = "any" => (c <=> a \/ b)
  OBVIOUS
<1>4. ASSUME EngineProofs!Certain(r, e) PROVE c
  <2>1. PICK v : v = [n \in 1..3 |-> IF n = 1 THEN a ELSE IF n = 2 THEN b ELSE c]
    OBVIOUS
  <2>2. v \in [1..3 -> BOOLEAN] /\ v[1] = a /\ v[2] = b /\ v[3] = c
    BY <2>1
  <2>3. \A n \in 1..3 :
          \/ r.condition.kind[n] = "leaf" /\ (v[n] <=> Found(r, e, n))
          \/ r.condition.kind[n] = "all" /\ (v[n] <=> \A k \in r.condition.children[n] : v[k])
          \/ r.condition.kind[n] = "any" /\ (v[n] <=> \E k \in r.condition.children[n] : v[k])
    <3>1. (v[1] <=> Found(r, e, 1)) /\ (v[2] <=> Found(r, e, 2))
      BY <1>2, <2>2
    <3>2. \/ r.condition.kind[3] = "all" /\ (v[3] <=> \A k \in {1, 2} : v[k])
          \/ r.condition.kind[3] = "any" /\ (v[3] <=> \E k \in {1, 2} : v[k])
      BY <1>1, <1>3, <2>2
    <3> QED  BY <1>1, <3>1, <3>2
  <2>4. Reads(r, e, v)
    BY <1>1, <2>2, <2>3, LeastReads
  <2> QED  BY <1>1, <1>4, <2>2, <2>4, CertainReads
<1>5. ASSUME c PROVE EngineProofs!Certain(r, e)
  <2>1. SUFFICES ASSUME NEW v, Reads(r, e, v) PROVE v[3]
    BY <1>1, CertainReads
  <2>2. (Found(r, e, 1) => v[1]) /\ (Found(r, e, 2) => v[2])
    BY <1>1, <2>1, FoundHolds
  <2>3. /\ junction = "all" => (v[3] <=> \A n \in {1, 2} : v[n])
        /\ junction = "any" => (v[3] <=> \E n \in {1, 2} : v[n])
    BY <1>1, <2>1, FoundHolds
  <2>4. (a => v[1]) /\ (b => v[2])
    BY <1>2, <2>2
  <2> QED  BY <1>3, <1>5, <2>3, <2>4
<1>6. EngineProofs!Certain(r, e) <=> c
  BY <1>4, <1>5 DEF EngineProofs!Certain
<1> QED  BY <1>2, <1>3, <1>6

LEMMA CertainTree ==
  ASSUME NEW r, NEW e,
         r.condition = [size |-> 5, kind |-> <<"leaf", "leaf", "any", "leaf", "all">>,
                        children |-> <<{}, {}, {1, 2}, {}, {3, 4}>>]
  PROVE  EngineProofs!Certain(r, e) <=>
           (Found(r, e, 1) \/ Found(r, e, 2)) /\ Found(r, e, 4)
<1>1. /\ r.condition.size = 5
      /\ \A n \in {1, 2, 4} : r.condition.kind[n] = "leaf"
      /\ r.condition.kind[3] = "any" /\ r.condition.children[3] = {1, 2}
      /\ r.condition.kind[5] = "all" /\ r.condition.children[5] = {3, 4}
      /\ \A n \in 1..5 : n \in {1, 2, 3, 4, 5}
      /\ {1, 2, 3, 4, 5} \subseteq 1..5
  OBVIOUS
<1>2. PICK a \in BOOLEAN, b \in BOOLEAN, c \in BOOLEAN :
        (a <=> Found(r, e, 1)) /\ (b <=> Found(r, e, 2)) /\ (c <=> Found(r, e, 4))
  <2>1. /\ \E a \in BOOLEAN : a <=> Found(r, e, 1)
        /\ \E b \in BOOLEAN : b <=> Found(r, e, 2)
        /\ \E c \in BOOLEAN : c <=> Found(r, e, 4)
    BY DEF Found
  <2> QED  BY <2>1
<1>3. PICK d \in BOOLEAN, f \in BOOLEAN : (d <=> a \/ b) /\ (f <=> d /\ c)
  OBVIOUS
<1>4. ASSUME EngineProofs!Certain(r, e) PROVE f
  <2>1. PICK v : v = [n \in 1..5 |-> CASE n = 1 -> a [] n = 2 -> b [] n = 3 -> d
                                       [] n = 4 -> c [] n = 5 -> f]
    OBVIOUS
  <2>2. v[1] = a /\ v[2] = b /\ v[3] = d /\ v[4] = c /\ v[5] = f
    BY <1>1, <2>1
  <2>3. v \in [1..5 -> BOOLEAN]
    <3>1. \A n \in 1..5 : v[n] \in BOOLEAN
      BY <1>1, <2>2
    <3> QED  BY <2>1, <3>1
  <2>4. \A n \in 1..5 :
          \/ r.condition.kind[n] = "leaf" /\ (v[n] <=> Found(r, e, n))
          \/ r.condition.kind[n] = "all" /\ (v[n] <=> \A k \in r.condition.children[n] : v[k])
          \/ r.condition.kind[n] = "any" /\ (v[n] <=> \E k \in r.condition.children[n] : v[k])
    <3>1. \A n \in {1, 2, 4} : v[n] <=> Found(r, e, n)
      BY <1>2, <2>2
    <3>2. v[3] <=> \E k \in {1, 2} : v[k]
      BY <1>3, <2>2
    <3>3. v[5] <=> \A k \in {3, 4} : v[k]
      BY <1>3, <2>2
    <3> QED  BY <1>1, <3>1, <3>2, <3>3
  <2>5. Reads(r, e, v)
    BY <1>1, <2>3, <2>4, LeastReads
  <2> QED  BY <1>1, <1>4, <2>2, <2>5, CertainReads
<1>5. ASSUME f PROVE EngineProofs!Certain(r, e)
  <2>1. SUFFICES ASSUME NEW v, Reads(r, e, v) PROVE v[5]
    BY <1>1, CertainReads
  <2>2. /\ Found(r, e, 1) => v[1]
        /\ Found(r, e, 2) => v[2]
        /\ Found(r, e, 4) => v[4]
    BY <1>1, <2>1, FoundHolds
  <2>3. v[3] <=> \E n \in {1, 2} : v[n]
    BY <1>1, <2>1, FoundHolds
  <2>4. v[5] <=> \A n \in {3, 4} : v[n]
    BY <1>1, <2>1, FoundHolds
  <2>5. (a => v[1]) /\ (b => v[2]) /\ (c => v[4])
    BY <1>2, <2>2
  <2> QED  BY <1>3, <1>5, <2>3, <2>4, <2>5
<1>6. EngineProofs!Certain(r, e) <=> f
  BY <1>4, <1>5 DEF EngineProofs!Certain
<1> QED  BY <1>2, <1>3, <1>6

-----------------------------------------------------------------------------
(* When a leaf is found.                                                   *)

\* What a comparison of a context field comes to.
LEMMA ComparisonMeets ==
  ASSUME NEW leaf, NEW e, EvaluationError(leaf, e) = "none",
         leaf.op \notin EXISTENCE_OPERATORS, leaf.field.space = "context",
         NEW v, v = e.context[leaf.field.name],
         NEW kind, kind = FieldType(leaf.field, e.category)
  PROVE  EngineProofs!Evaluator!LeafOutcome(Meets(leaf, e)) = "true" <=>
           v # None /\ Holds(leaf, kind, Actual(v))
<1>1. PICK t : t = Meets(leaf, e)
  OBVIOUS
<1>2. ResolveError(leaf.field, e) = "none"
  BY DEF EvaluationError
<1>3. Value(leaf.field, e) = v
  BY DEF Value
<1>4. IsPresent(leaf.field, e) <=> v # None
  BY <1>3 DEF IsPresent
<1>5. PICK h \in BOOLEAN : h <=> Holds(leaf, kind, Actual(v))
  OBVIOUS
<1>6. t.op = "comparison" /\ (t.presence = "present" <=> v # None)
  BY <1>1, <1>2, <1>4 DEF Meets
<1>7. t.holds <=> v # None /\ h
  BY <1>1, <1>2, <1>3, <1>4, <1>5 DEF Meets
<1>8. EngineProofs!Evaluator!LeafOutcome(t) = "true" <=> t.presence = "present" /\ t.holds
  BY <1>6 DEF EngineProofs!Evaluator!LeafOutcome, EngineProofs!Evaluator!Outcome,
              EngineProofs!Evaluator!EXISTENCE_OPERATORS
<1> QED  BY <1>1, <1>5, <1>6, <1>7, <1>8

\* What a comparison of such a field finds is in the record, and only there.
LEMMA TextMeets ==
  ASSUME NEW x, NEW n, NEW e, IsMadeOf(e, x, n), NEW f, NEW name, IsTextOf(f, name, e, x, n),
         NEW leaf, EvaluationError(leaf, e) = "none",
         leaf.field.space = "context", leaf.field.name = f,
         NEW parts \in SUBSET Markers
  PROVE  LET found == EngineProofs!Evaluator!LeafOutcome(Meets(leaf, e)) = "true"
         IN /\ leaf.op = "ends_with" /\ parts = {leaf.value.text} =>
                 (found <=> EndWith(Written(x, name), parts))
            /\ leaf.op = "contains" /\ parts = {leaf.value.text} =>
                 (found <=> Contain(Written(x, name), parts))
            /\ leaf.op = "contains_any" /\ parts = {item.text : item \in Items(leaf.value)} =>
                 (found <=> Contain(Written(x, name), parts))
<1>1. PICK v, kind : v = e.context[f] /\ kind = FieldType(leaf.field, e.category)
  OBVIOUS
<1>2. PICK found \in BOOLEAN :
        found <=> EngineProofs!Evaluator!LeafOutcome(Meets(leaf, e)) = "true"
  OBVIOUS
<1>3. PICK texts : texts = Written(x, name)
  OBVIOUS
<1>4. leaf.op \notin EXISTENCE_OPERATORS => (found <=> v # None /\ Holds(leaf, kind, Actual(v)))
  BY <1>1, <1>2, ComparisonMeets
<1>5. IsSaidIn(texts, v)
  BY <1>1, <1>3, TextsAreWritten
<1>6. \A part \in parts : \A t \in {"", "-"} : <<part, t>> \notin Occurs \cup Ends
  BY MarkersAssumption
<1>7. CASE v = None /\ \A t \in texts : t \in {"", "-"}
  <2>1. ~EndWith(texts, parts) /\ ~Contain(texts, parts)
    BY <1>6, <1>7 DEF EndWith, Contain
  <2> QED  BY <1>2, <1>3, <1>4, <1>7, <2>1 DEF EXISTENCE_OPERATORS
<1>8. ASSUME NEW t, v = Text(t), v # None, texts = {t}
      PROVE  /\ leaf.op = "ends_with" /\ parts = {leaf.value.text} =>
                  (found <=> EndWith(texts, parts))
             /\ leaf.op = "contains" /\ parts = {leaf.value.text} =>
                  (found <=> Contain(texts, parts))
             /\ leaf.op = "contains_any" /\ parts = {item.text : item \in Items(leaf.value)} =>
                  (found <=> Contain(texts, parts))
  <2>1. Actual(v) = t
    BY <1>8 DEF Actual, Text
  <2>2. /\ EndWith(texts, parts) <=> \E p \in parts : <<p, t>> \in Ends
        /\ Contain(texts, parts) <=> \E p \in parts : <<p, t>> \in Occurs
    BY <1>8 DEF EndWith, Contain
  <2>3. PICK h \in BOOLEAN : h <=> Holds(leaf, kind, t)
    BY DEF Holds
  <2>4. /\ leaf.op = "ends_with" => (h <=> <<leaf.value.text, t>> \in Ends)
        /\ leaf.op = "contains" => (h <=> <<leaf.value.text, t>> \in Occurs)
        /\ leaf.op = "contains_any" =>
             (h <=> \E item \in Items(leaf.value) : <<item.text, t>> \in Occurs)
    BY <2>3 DEF Holds
  <2>5. leaf.op \notin EXISTENCE_OPERATORS => (found <=> h)
    BY <1>4, <1>8, <2>1, <2>3
  <2> QED  BY <2>2, <2>4, <2>5 DEF EXISTENCE_OPERATORS
<1> QED  BY <1>2, <1>3, <1>5, <1>7, <1>8 DEF IsSaidIn

\* A rule is chosen for an event if the engine has to match it.
Chosen(r, e) ==
  /\ EngineProofs!Applicable(EngineRule(r), Seen(e))
  /\ EngineProofs!Certain(EngineRule(r), Seen(e))

\* Where the rule applies, a leaf is found if its comparison comes out true.
LEMMA FoundIsMet ==
  ASSUME Loaded, NEW e \in NormalizedEvents, NEW r \in Range(library),
         EngineProofs!Applicable(EngineRule(r), Seen(e)),
         NEW k \in LeavesOf(r.condition), NEW leaf, leaf = r.leaf[k]
  PROVE  /\ EvaluationError(leaf, e) = "none"
         /\ Found(EngineRule(r), Seen(e), k) <=>
              EngineProofs!Evaluator!LeafOutcome(Meets(leaf, e)) = "true"
<1>1. PICK i \in DOMAIN library : r = library[i]
  BY DEF Range
<1>2. /\ k \in DOMAIN r.leaf
      /\ EngineProofs!Evidence(EngineRule(r), Seen(e))[k] = Meets(leaf, e)
  BY <1>1, EvidenceIsMet
<1>3. EvaluationError(leaf, e) = "none"
  BY <1>1, <1>2, RulesEvaluate
<1> QED  BY <1>2, <1>3 DEF Found

LEMMA CategoryApplies ==
  ASSUME NEW r, NEW category, r.categories = {category}, r.sources = AnySource, NEW e
  PROVE  EngineProofs!Applicable(EngineRule(r), Seen(e)) <=> e.category = category
BY DEF EngineProofs!Applicable, EngineRule, Seen

\* The items of an operand.
LEMMA ItemsOfTwo ==
  ASSUME NEW a, NEW b
  PROVE  Items(List(<<a, b>>)) = {a, b}
<1>1. PICK s : s = <<a, b>>
  OBVIOUS
<1>2. DOMAIN s = {1, 2} /\ s[1] = a /\ s[2] = b
  BY <1>1
<1>3. {s[i] : i \in DOMAIN s} = {a, b}
  BY <1>2
<1>4. List(s).items = s
  BY DEF List
<1> QED  BY <1>1, <1>3, <1>4 DEF Items

LEMMA TextsOfTwo ==
  ASSUME NEW a, NEW b, NEW value, value = List(<<Text(a), Text(b)>>)
  PROVE  {item.text : item \in Items(value)} = {a, b}
<1>1. Items(value) = {Text(a), Text(b)}
  BY ItemsOfTwo
<1>2. Text(a).text = a /\ Text(b).text = b
  BY DEF Text
<1> QED  BY <1>1, <1>2

LEMMA TextsOfThree ==
  ASSUME NEW a, NEW b, NEW c, NEW value, value = List(<<Text(a), Text(b), Text(c)>>)
  PROVE  {item.text : item \in Items(value)} = {a, b, c}
<1>1. PICK s : s = <<Text(a), Text(b), Text(c)>>
  OBVIOUS
<1>2. DOMAIN s = {1, 2, 3} /\ s[1] = Text(a) /\ s[2] = Text(b) /\ s[3] = Text(c)
  BY <1>1
<1>3. {s[i] : i \in DOMAIN s} = {Text(a), Text(b), Text(c)}
  BY <1>2
<1>4. value.items = s
  BY <1>1 DEF List
<1>5. Items(value) = {Text(a), Text(b), Text(c)}
  BY <1>3, <1>4 DEF Items
<1>6. Text(a).text = a /\ Text(b).text = b /\ Text(c).text = c
  BY DEF Text
<1> QED  BY <1>5, <1>6

\* A rule applies to one category, whatever the source, under a condition.
IsRuleOf(r, id, category, condition) ==
  /\ r.id = id /\ r.categories = {category} /\ r.sources = AnySource
  /\ EngineRule(r).condition = condition /\ r.condition = condition

\* A leaf looks for one of some texts in a field of the context.
LooksFor(leaf, f, op, parts) ==
  /\ leaf.field.space = "context" /\ leaf.field.name = f /\ leaf.op = op
  /\ parts = IF op = "contains_any" THEN {item.text : item \in Items(leaf.value)}
             ELSE {leaf.value.text}

LEMMA TextFound ==
  ASSUME Loaded, NEW e \in NormalizedEvents, NEW r \in Range(library),
         EngineProofs!Applicable(EngineRule(r), Seen(e)), NEW k \in LeavesOf(r.condition),
         NEW x, NEW n, IsMadeOf(e, x, n), NEW f, NEW name, IsTextOf(f, name, e, x, n),
         NEW op \in {"ends_with", "contains", "contains_any"}, NEW parts \in SUBSET Markers,
         LooksFor(r.leaf[k], f, op, parts)
  PROVE  Found(EngineRule(r), Seen(e), k) <=>
           IF op = "ends_with" THEN EndWith(Written(x, name), parts)
           ELSE Contain(Written(x, name), parts)
<1>1. PICK leaf : leaf = r.leaf[k]
  OBVIOUS
<1>2. /\ EvaluationError(leaf, e) = "none"
      /\ Found(EngineRule(r), Seen(e), k) <=>
           EngineProofs!Evaluator!LeafOutcome(Meets(leaf, e)) = "true"
  BY <1>1, FoundIsMet
<1>3. /\ leaf.field.space = "context" /\ leaf.field.name = f /\ leaf.op = op
      /\ op # "contains_any" => parts = {leaf.value.text}
      /\ op = "contains_any" => parts = {item.text : item \in Items(leaf.value)}
  BY <1>1 DEF LooksFor
<1>4. /\ op = "ends_with" => (EngineProofs!Evaluator!LeafOutcome(Meets(leaf, e)) = "true" <=>
                                EndWith(Written(x, name), parts))
      /\ op \in {"contains", "contains_any"} =>
           (EngineProofs!Evaluator!LeafOutcome(Meets(leaf, e)) = "true" <=>
              Contain(Written(x, name), parts))
  BY <1>2, <1>3, TextMeets
<1> QED  BY <1>2, <1>4

-----------------------------------------------------------------------------
(* The rules, one by one.                                                  *)

Both == [size |-> 3, kind |-> <<"leaf", "leaf", "all">>, children |-> <<{}, {}, {1, 2}>>]
Either == [size |-> 3, kind |-> <<"leaf", "leaf", "any">>, children |-> <<{}, {}, {1, 2}>>]
Only == [size |-> 1, kind |-> <<"leaf">>, children |-> <<{}>>]
EitherAndOne ==
  [size |-> 5, kind |-> <<"leaf", "leaf", "any", "leaf", "all">>,
   children |-> <<{}, {}, {1, 2}, {}, {3, 4}>>]

LEMMA LeavesOfShapes ==
  /\ LeavesOf(Both) = {1, 2} /\ LeavesOf(Either) = {1, 2}
  /\ LeavesOf(Only) = {1} /\ LeavesOf(EitherAndOne) = {1, 2, 4}
<1>1. /\ \A n \in 1..1 : n \in {1}
      /\ \A n \in 1..3 : n \in {1, 2, 3}
      /\ \A n \in 1..5 : n \in {1, 2, 3, 4, 5}
  OBVIOUS
<1>2. LeavesOf(Both) = {1, 2} /\ LeavesOf(Either) = {1, 2}
  BY <1>1 DEF LeavesOf, Both, Either
<1>3. LeavesOf(Only) = {1}
  BY <1>1 DEF LeavesOf, Only
<1>4. LeavesOf(EitherAndOne) = {1, 2, 4}
  BY <1>1 DEF LeavesOf, EitherAndOne
<1> QED  BY <1>2, <1>3, <1>4

LEMMA CertutilShape ==
  ASSUME NEW r, r = certutil_suspicious_arguments
  PROVE  /\ IsRuleOf(r, "certutil-suspicious-arguments", "process", Both)
         /\ LooksFor(r.leaf[1], "image", "ends_with", Certutil)
         /\ LooksFor(r.leaf[2], "command_line", "contains_any", Downloads)
<1>1. r.condition = Both
  BY DEF certutil_suspicious_arguments, Rule, Both
<1>2. IsRuleOf(r, "certutil-suspicious-arguments", "process", Both)
  BY <1>1 DEF certutil_suspicious_arguments, Rule, EngineRule, IsRuleOf
<1>3. LooksFor(r.leaf[1], "image", "ends_with", Certutil)
  BY DEF certutil_suspicious_arguments, Rule, Leaf, Text, Certutil, LooksFor
<1>4. r.leaf[2].value = List(<<Text(" -urlcache "), Text(" -decode ")>>)
  BY DEF certutil_suspicious_arguments, Rule, Leaf
<1>5. {item.text : item \in Items(r.leaf[2].value)} = Downloads
  BY <1>4, TextsOfTwo DEF Downloads
<1>6. LooksFor(r.leaf[2], "command_line", "contains_any", Downloads)
  BY <1>5 DEF certutil_suspicious_arguments, Rule, Leaf, LooksFor
<1> QED  BY <1>2, <1>3, <1>6

LEMMA CertutilSelects ==
  ASSUME Loaded, NEW r \in Range(library), r = certutil_suspicious_arguments,
         NEW e \in NormalizedEvents, NEW x, NEW n, IsMadeOf(e, x, n)
  PROVE  Chosen(r, e) <=> Selects(x, r.id)
<1>1. Selects(x, r.id) <=> /\ Security(x, 4688) \/ Sysmon(x, 1)
                           /\ EndWith(Image(x), Certutil)
                           /\ Contain(Written(x, "CommandLine"), Downloads)
  <2>1. r.id = "certutil-suspicious-arguments"
    BY CertutilShape DEF IsRuleOf
  <2> QED  BY <2>1 DEF Selects
<1>2. /\ r.categories = {"process"} /\ r.sources = AnySource
      /\ EngineRule(r).condition = Both /\ LeavesOf(r.condition) = {1, 2}
  BY CertutilShape, LeavesOfShapes DEF IsRuleOf
<1>3. /\ EngineProofs!Applicable(EngineRule(r), Seen(e)) <=> e.category = "process"
      /\ e.category = "process" <=> Security(x, 4688) \/ Sysmon(x, 1)
  BY <1>2, CategoryApplies, CategoriesDecide
<1>4. ASSUME EngineProofs!Applicable(EngineRule(r), Seen(e))
      PROVE  /\ Found(EngineRule(r), Seen(e), 1) <=> EndWith(Image(x), Certutil)
             /\ Found(EngineRule(r), Seen(e), 2) <=>
                  Contain(Written(x, "CommandLine"), Downloads)
  <2>1. PICK name : IsTextOf("image", name, e, x, n) /\ Image(x) = Written(x, name)
    BY <1>3, <1>4, TextFields DEF Image
  <2>2. IsTextOf("command_line", "CommandLine", e, x, n)
    BY <1>3, <1>4, TextFields
  <2>3. Certutil \in SUBSET Markers /\ Downloads \in SUBSET Markers
    BY DEF Markers
  <2>4. Found(EngineRule(r), Seen(e), 1) <=> EndWith(Image(x), Certutil)
    BY <1>2, <1>4, <2>1, <2>3, CertutilShape, TextFound
  <2>5. Found(EngineRule(r), Seen(e), 2) <=> Contain(Written(x, "CommandLine"), Downloads)
    BY <1>2, <1>4, <2>2, <2>3, CertutilShape, TextFound
  <2> QED  BY <2>4, <2>5
<1>5. EngineProofs!Certain(EngineRule(r), Seen(e)) <=>
        Found(EngineRule(r), Seen(e), 1) /\ Found(EngineRule(r), Seen(e), 2)
  BY <1>2, CertainPair DEF Both
<1> QED  BY <1>1, <1>3, <1>4, <1>5 DEF Chosen

LEMMA DnsShape ==
  ASSUME NEW r, r = dns_suspicious_query_marker
  PROVE  /\ IsRuleOf(r, "dns-suspicious-query-marker", "dns", Only)
         /\ LooksFor(r.leaf[1], "query_name", "contains", Tunnel)
<1>1. r.condition = Only
  BY DEF dns_suspicious_query_marker, Rule, Only
<1>2. IsRuleOf(r, "dns-suspicious-query-marker", "dns", Only)
  BY <1>1 DEF dns_suspicious_query_marker, Rule, EngineRule, IsRuleOf
<1>3. LooksFor(r.leaf[1], "query_name", "contains", Tunnel)
  BY DEF dns_suspicious_query_marker, Rule, Leaf, Text, Tunnel, LooksFor
<1> QED  BY <1>2, <1>3

LEMMA DnsSelects ==
  ASSUME Loaded, NEW r \in Range(library), r = dns_suspicious_query_marker,
         NEW e \in NormalizedEvents, NEW x, NEW n, IsMadeOf(e, x, n)
  PROVE  Chosen(r, e) <=> Selects(x, r.id)
<1>1. Selects(x, r.id) <=> Sysmon(x, 22) /\ Contain(Written(x, "QueryName"), Tunnel)
  <2>1. r.id = "dns-suspicious-query-marker"
    BY DnsShape DEF IsRuleOf
  <2> QED  BY <2>1 DEF Selects
<1>2. /\ r.categories = {"dns"} /\ r.sources = AnySource
      /\ EngineRule(r).condition = Only /\ LeavesOf(r.condition) = {1}
  BY DnsShape, LeavesOfShapes DEF IsRuleOf
<1>3. /\ EngineProofs!Applicable(EngineRule(r), Seen(e)) <=> e.category = "dns"
      /\ e.category = "dns" <=> Sysmon(x, 22)
  BY <1>2, CategoryApplies, CategoriesDecide
<1>4. ASSUME EngineProofs!Applicable(EngineRule(r), Seen(e))
      PROVE  Found(EngineRule(r), Seen(e), 1) <=> Contain(Written(x, "QueryName"), Tunnel)
  <2>1. IsTextOf("query_name", "QueryName", e, x, n)
    BY <1>3, <1>4, TextFields
  <2>2. Tunnel \in SUBSET Markers
    BY DEF Markers
  <2> QED  BY <1>2, <1>4, <2>1, <2>2, DnsShape, TextFound
<1>5. EngineProofs!Certain(EngineRule(r), Seen(e)) <=> Found(EngineRule(r), Seen(e), 1)
  BY <1>2, CertainLeaf DEF Only
<1> QED  BY <1>1, <1>3, <1>4, <1>5 DEF Chosen

LEMMA StartupShape ==
  ASSUME NEW r, r = startup_folder_file_activity
  PROVE  /\ IsRuleOf(r, "startup-folder-file-activity", "file", Only)
         /\ LooksFor(r.leaf[1], "target_path", "contains", Startup)
<1>1. r.condition = Only
  BY DEF startup_folder_file_activity, Rule, Only
<1>2. IsRuleOf(r, "startup-folder-file-activity", "file", Only)
  BY <1>1 DEF startup_folder_file_activity, Rule, EngineRule, IsRuleOf
<1>3. LooksFor(r.leaf[1], "target_path", "contains", Startup)
  BY DEF startup_folder_file_activity, Rule, Leaf, Text, Startup, LooksFor
<1> QED  BY <1>2, <1>3

LEMMA StartupSelects ==
  ASSUME Loaded, NEW r \in Range(library), r = startup_folder_file_activity,
         NEW e \in NormalizedEvents, NEW x, NEW n, IsMadeOf(e, x, n)
  PROVE  Chosen(r, e) <=> Selects(x, r.id)
<1>1. Selects(x, r.id) <=> Sysmon(x, 11) /\ Contain(Written(x, "TargetFilename"), Startup)
  <2>1. r.id = "startup-folder-file-activity"
    BY StartupShape DEF IsRuleOf
  <2> QED  BY <2>1 DEF Selects
<1>2. /\ r.categories = {"file"} /\ r.sources = AnySource
      /\ EngineRule(r).condition = Only /\ LeavesOf(r.condition) = {1}
  BY StartupShape, LeavesOfShapes DEF IsRuleOf
<1>3. /\ EngineProofs!Applicable(EngineRule(r), Seen(e)) <=> e.category = "file"
      /\ e.category = "file" <=> Sysmon(x, 11)
  BY <1>2, CategoryApplies, CategoriesDecide
<1>4. ASSUME EngineProofs!Applicable(EngineRule(r), Seen(e))
      PROVE  Found(EngineRule(r), Seen(e), 1) <=> Contain(Written(x, "TargetFilename"), Startup)
  <2>1. IsTextOf("target_path", "TargetFilename", e, x, n)
    BY <1>3, <1>4, TextFields
  <2>2. Startup \in SUBSET Markers
    BY DEF Markers
  <2> QED  BY <1>2, <1>4, <2>1, <2>2, StartupShape, TextFound
<1>5. EngineProofs!Certain(EngineRule(r), Seen(e)) <=> Found(EngineRule(r), Seen(e), 1)
  BY <1>2, CertainLeaf DEF Only
<1> QED  BY <1>1, <1>3, <1>4, <1>5 DEF Chosen

\* Two leaves look for one of two texts each.
LEMMA EndsInEither ==
  ASSUME NEW texts, NEW a, NEW b, NEW parts, parts = {a, b}
  PROVE  EndWith(texts, parts) <=> EndWith(texts, {a}) \/ EndWith(texts, {b})
BY DEF EndWith

LEMMA NetworkShape ==
  ASSUME NEW r, r = powershell_network_connection
  PROVE  /\ IsRuleOf(r, "powershell-network-connection", "network", Either)
         /\ LooksFor(r.leaf[1], "process_image", "ends_with", {"\\powershell.exe"})
         /\ LooksFor(r.leaf[2], "process_image", "ends_with", {"\\pwsh.exe"})
<1>1. r.condition = Either
  BY DEF powershell_network_connection, Rule, Either
<1>2. IsRuleOf(r, "powershell-network-connection", "network", Either)
  BY <1>1 DEF powershell_network_connection, Rule, EngineRule, IsRuleOf
<1>3. LooksFor(r.leaf[1], "process_image", "ends_with", {"\\powershell.exe"})
  BY DEF powershell_network_connection, Rule, Leaf, Text, LooksFor
<1>4. LooksFor(r.leaf[2], "process_image", "ends_with", {"\\pwsh.exe"})
  BY DEF powershell_network_connection, Rule, Leaf, Text, LooksFor
<1> QED  BY <1>2, <1>3, <1>4

LEMMA NetworkSelects ==
  ASSUME Loaded, NEW r \in Range(library), r = powershell_network_connection,
         NEW e \in NormalizedEvents, NEW x, NEW n, IsMadeOf(e, x, n)
  PROVE  Chosen(r, e) <=> Selects(x, r.id)
<1>1. Selects(x, r.id) <=> Sysmon(x, 3) /\ EndWith(Image(x), PowerShell)
  <2>1. r.id = "powershell-network-connection"
    BY NetworkShape DEF IsRuleOf
  <2> QED  BY <2>1 DEF Selects
<1>2. /\ r.categories = {"network"} /\ r.sources = AnySource
      /\ EngineRule(r).condition = Either /\ LeavesOf(r.condition) = {1, 2}
  BY NetworkShape, LeavesOfShapes DEF IsRuleOf
<1>3. /\ EngineProofs!Applicable(EngineRule(r), Seen(e)) <=> e.category = "network"
      /\ e.category = "network" <=> Sysmon(x, 3)
  BY <1>2, CategoryApplies, CategoriesDecide
<1>4. ASSUME EngineProofs!Applicable(EngineRule(r), Seen(e))
      PROVE  /\ Found(EngineRule(r), Seen(e), 1) <=> EndWith(Image(x), {"\\powershell.exe"})
             /\ Found(EngineRule(r), Seen(e), 2) <=> EndWith(Image(x), {"\\pwsh.exe"})
  <2>1. IsTextOf("process_image", "Image", e, x, n)
    BY <1>3, <1>4, TextFields
  <2>2. Image(x) = Written(x, "Image")
    <3>1. ~Security(x, 4688)
      BY <1>3, <1>4 DEF Security, Sysmon, Is
    <3> QED  BY <3>1 DEF Image
  <2>3. {"\\powershell.exe"} \in SUBSET Markers /\ {"\\pwsh.exe"} \in SUBSET Markers
    BY DEF Markers, PowerShell
  <2>4. Found(EngineRule(r), Seen(e), 1) <=> EndWith(Image(x), {"\\powershell.exe"})
    BY <1>2, <1>4, <2>1, <2>2, <2>3, NetworkShape, TextFound
  <2>5. Found(EngineRule(r), Seen(e), 2) <=> EndWith(Image(x), {"\\pwsh.exe"})
    BY <1>2, <1>4, <2>1, <2>2, <2>3, NetworkShape, TextFound
  <2> QED  BY <2>4, <2>5
<1>5. EngineProofs!Certain(EngineRule(r), Seen(e)) <=>
        Found(EngineRule(r), Seen(e), 1) \/ Found(EngineRule(r), Seen(e), 2)
  BY <1>2, CertainPair DEF Either
<1>6. EndWith(Image(x), PowerShell) <=>
        EndWith(Image(x), {"\\powershell.exe"}) \/ EndWith(Image(x), {"\\pwsh.exe"})
  BY EndsInEither DEF PowerShell
<1> QED  BY <1>1, <1>3, <1>4, <1>5, <1>6 DEF Chosen

LEMMA EncodedShape ==
  ASSUME NEW r, r = powershell_encoded_command
  PROVE  /\ IsRuleOf(r, "powershell-encoded-command", "process", EitherAndOne)
         /\ LooksFor(r.leaf[1], "image", "ends_with", {"\\powershell.exe"})
         /\ LooksFor(r.leaf[2], "image", "ends_with", {"\\pwsh.exe"})
         /\ LooksFor(r.leaf[4], "command_line", "contains_any", Encoded)
<1> DEFINE a == Leaf("image", "ends_with", Text("\\powershell.exe"))
           b == Leaf("image", "ends_with", Text("\\pwsh.exe"))
           c == Leaf("command_line", "contains_any",
                     List(<<Text(" -EncodedCommand "), Text(" -encodedcommand "),
                            Text(" -enc ")>>))
<1>1. r.condition = EitherAndOne
  BY DEF powershell_encoded_command, Rule, EitherAndOne
<1>2. IsRuleOf(r, "powershell-encoded-command", "process", EitherAndOne)
  BY <1>1 DEF powershell_encoded_command, Rule, EngineRule, IsRuleOf
<1>3. r = Rule("powershell-encoded-command", "process",
               <<"leaf", "leaf", "any", "leaf", "all">>, <<{}, {}, {1, 2}, {}, {3, 4}>>,
               [n \in {1, 2, 4} |-> CASE n = 1 -> a [] n = 2 -> b [] n = 4 -> c])
  BY DEF powershell_encoded_command
<1> HIDE DEF a, b, c
<1>4. r.leaf[1] = a /\ r.leaf[2] = b /\ r.leaf[4] = c
  BY <1>3 DEF Rule
<1>5. LooksFor(r.leaf[1], "image", "ends_with", {"\\powershell.exe"})
  BY <1>4 DEF a, Leaf, Text, LooksFor
<1>6. LooksFor(r.leaf[2], "image", "ends_with", {"\\pwsh.exe"})
  BY <1>4 DEF b, Leaf, Text, LooksFor
<1>7. c.value = List(<<Text(" -EncodedCommand "), Text(" -encodedcommand "), Text(" -enc ")>>)
  BY DEF c, Leaf
<1>8. {item.text : item \in Items(c.value)} = Encoded
  BY <1>7, TextsOfThree DEF Encoded
<1>9. c.field.space = "context" /\ c.field.name = "command_line" /\ c.op = "contains_any"
  BY DEF c, Leaf
<1>10. LooksFor(r.leaf[4], "command_line", "contains_any", Encoded)
  BY <1>4, <1>8, <1>9 DEF LooksFor
<1> QED  BY <1>2, <1>5, <1>6, <1>10

LEMMA EncodedSelects ==
  ASSUME Loaded, NEW r \in Range(library), r = powershell_encoded_command,
         NEW e \in NormalizedEvents, NEW x, NEW n, IsMadeOf(e, x, n)
  PROVE  Chosen(r, e) <=> Selects(x, r.id)
<1>1. Selects(x, r.id) <=> /\ Security(x, 4688) \/ Sysmon(x, 1)
                           /\ EndWith(Image(x), PowerShell)
                           /\ Contain(Written(x, "CommandLine"), Encoded)
  <2>1. r.id = "powershell-encoded-command"
    BY EncodedShape DEF IsRuleOf
  <2> QED  BY <2>1 DEF Selects
<1>2. /\ r.categories = {"process"} /\ r.sources = AnySource
      /\ EngineRule(r).condition = EitherAndOne /\ LeavesOf(r.condition) = {1, 2, 4}
  BY EncodedShape, LeavesOfShapes DEF IsRuleOf
<1>3. /\ EngineProofs!Applicable(EngineRule(r), Seen(e)) <=> e.category = "process"
      /\ e.category = "process" <=> Security(x, 4688) \/ Sysmon(x, 1)
  BY <1>2, CategoryApplies, CategoriesDecide
<1>4. ASSUME EngineProofs!Applicable(EngineRule(r), Seen(e))
      PROVE  /\ Found(EngineRule(r), Seen(e), 1) <=> EndWith(Image(x), {"\\powershell.exe"})
             /\ Found(EngineRule(r), Seen(e), 2) <=> EndWith(Image(x), {"\\pwsh.exe"})
             /\ Found(EngineRule(r), Seen(e), 4) <=>
                  Contain(Written(x, "CommandLine"), Encoded)
  <2>1. PICK name : IsTextOf("image", name, e, x, n) /\ Image(x) = Written(x, name)
    BY <1>3, <1>4, TextFields DEF Image
  <2>2. IsTextOf("command_line", "CommandLine", e, x, n)
    BY <1>3, <1>4, TextFields
  <2>3. /\ {"\\powershell.exe"} \in SUBSET Markers /\ {"\\pwsh.exe"} \in SUBSET Markers
        /\ Encoded \in SUBSET Markers
    BY DEF Markers, PowerShell
  <2>4. Found(EngineRule(r), Seen(e), 1) <=> EndWith(Image(x), {"\\powershell.exe"})
    BY <1>2, <1>4, <2>1, <2>3, EncodedShape, TextFound
  <2>5. Found(EngineRule(r), Seen(e), 2) <=> EndWith(Image(x), {"\\pwsh.exe"})
    BY <1>2, <1>4, <2>1, <2>3, EncodedShape, TextFound
  <2>6. Found(EngineRule(r), Seen(e), 4) <=> Contain(Written(x, "CommandLine"), Encoded)
    BY <1>2, <1>4, <2>2, <2>3, EncodedShape, TextFound
  <2> QED  BY <2>4, <2>5, <2>6
<1>5. EngineProofs!Certain(EngineRule(r), Seen(e)) <=>
        /\ Found(EngineRule(r), Seen(e), 1) \/ Found(EngineRule(r), Seen(e), 2)
        /\ Found(EngineRule(r), Seen(e), 4)
  BY <1>2, CertainTree DEF EitherAndOne
<1>6. EndWith(Image(x), PowerShell) <=>
        EndWith(Image(x), {"\\powershell.exe"}) \/ EndWith(Image(x), {"\\pwsh.exe"})
  BY EndsInEither DEF PowerShell
<1> QED  BY <1>1, <1>3, <1>4, <1>5, <1>6 DEF Chosen

LEMMA AuthenticationShape ==
  ASSUME NEW r, r = failed_remote_authentication
  PROVE  /\ IsRuleOf(r, "failed-remote-authentication", "authentication", Both)
         /\ r.leaf[1] = Leaf("outcome", "equals", Text("failure"))
         /\ r.leaf[2] = Leaf("logon_type", "in", List(<<Integer(3), Integer(10)>>))
<1>1. r.condition = Both
  BY DEF failed_remote_authentication, Rule, Both
<1>2. IsRuleOf(r, "failed-remote-authentication", "authentication", Both)
  BY <1>1 DEF failed_remote_authentication, Rule, EngineRule, IsRuleOf
<1>3. /\ r.leaf[1] = Leaf("outcome", "equals", Text("failure"))
      /\ r.leaf[2] = Leaf("logon_type", "in", List(<<Integer(3), Integer(10)>>))
  BY DEF failed_remote_authentication, Rule
<1> QED  BY <1>2, <1>3

\* The outcome is compared as the text of its member.
LEMMA OutcomeMeets ==
  ASSUME NEW x, NEW n, NEW e, IsMadeOf(e, x, n), e.category = "authentication",
         NEW leaf, leaf = Leaf("outcome", "equals", Text("failure")),
         EvaluationError(leaf, e) = "none"
  PROVE  EngineProofs!Evaluator!LeafOutcome(Meets(leaf, e)) = "true" <=> Security(x, 4625)
<1>1. PICK v, kind : v = e.context["outcome"] /\ kind = FieldType(leaf.field, e.category)
  OBVIOUS
<1>2. /\ leaf.op = "equals" /\ leaf.field.space = "context" /\ leaf.field.name = "outcome"
      /\ leaf.value = Text("failure")
  BY DEF Leaf
<1>3. kind = "string"
  BY <1>1, <1>2 DEF FieldType, CONTEXT_FIELDS
<1>4. PICK outcome : outcome = IF Security(x, 4625) THEN "failure" ELSE "success"
  OBVIOUS
<1>5. v = Member(outcome)
  BY <1>1, <1>4, AuthenticationReads
<1>6. v # None /\ Actual(v) = outcome
  BY <1>5 DEF Member, None, Actual
<1>7. EngineProofs!Evaluator!LeafOutcome(Meets(leaf, e)) = "true" <=>
        v # None /\ Holds(leaf, kind, Actual(v))
  BY <1>1, <1>2, ComparisonMeets DEF EXISTENCE_OPERATORS
<1>8. Literal(kind, leaf.value) = "failure"
  BY <1>2, <1>3 DEF Literal, Text
<1>9. Holds(leaf, kind, outcome) <=> outcome = "failure"
  BY <1>2, <1>8 DEF Holds
<1> QED  BY <1>4, <1>6, <1>7, <1>9

LEMMA LogonTypeMeets ==
  ASSUME NEW x, NEW n, NEW e, IsMadeOf(e, x, n), e.category = "authentication",
         NEW leaf, leaf = Leaf("logon_type", "in", List(<<Integer(3), Integer(10)>>)),
         EvaluationError(leaf, e) = "none"
  PROVE  EngineProofs!Evaluator!LeafOutcome(Meets(leaf, e)) = "true" <=>
           \E t \in Written(x, "LogonType") : t \in DOMAIN Decimal /\ Decimal[t] \in {3, 10}
<1>1. PICK v, kind : v = e.context["logon_type"] /\ kind = FieldType(leaf.field, e.category)
  OBVIOUS
<1>2. /\ leaf.op = "in" /\ leaf.field.space = "context" /\ leaf.field.name = "logon_type"
      /\ leaf.value = List(<<Integer(3), Integer(10)>>)
  BY DEF Leaf
<1>3. kind = "integer"
  BY <1>1, <1>2 DEF FieldType, CONTEXT_FIELDS
<1>4. PICK texts : texts = Written(x, "LogonType")
  OBVIOUS
<1>5. IsNumberIn(texts, v)
  BY <1>1, <1>4, AuthenticationReads
<1>6. EngineProofs!Evaluator!LeafOutcome(Meets(leaf, e)) = "true" <=>
        v # None /\ Holds(leaf, kind, Actual(v))
  BY <1>1, <1>2, ComparisonMeets DEF EXISTENCE_OPERATORS
<1>7. Items(leaf.value) = {Integer(3), Integer(10)}
  BY <1>2, ItemsOfTwo
<1>8. Literal(kind, Integer(3)) = 3 /\ Literal(kind, Integer(10)) = 10
  BY <1>3 DEF Literal, Integer
<1>9. \A actual : Holds(leaf, kind, actual) <=> actual \in {3, 10}
  BY <1>2, <1>7, <1>8 DEF Holds
<1>10. CASE v = None /\ \A t \in texts : t \notin DOMAIN Decimal
  BY <1>4, <1>6, <1>10
<1>11. ASSUME NEW t \in DOMAIN Decimal, v = Integer(Decimal[t]), texts = {t}
       PROVE  EngineProofs!Evaluator!LeafOutcome(Meets(leaf, e)) = "true" <=>
                \E k \in texts : k \in DOMAIN Decimal /\ Decimal[k] \in {3, 10}
  <2>1. v # None
    BY <1>11, NothingIsNone
  <2>2. Actual(v) = Decimal[t]
    BY <1>11 DEF Actual, Integer
  <2> QED  BY <1>6, <1>9, <1>11, <2>1, <2>2
<1> QED  BY <1>4, <1>5, <1>10, <1>11 DEF IsNumberIn

LEMMA AuthenticationSelects ==
  ASSUME Loaded, NEW r \in Range(library), r = failed_remote_authentication,
         NEW e \in NormalizedEvents, NEW x, NEW n, IsMadeOf(e, x, n)
  PROVE  Chosen(r, e) <=> Selects(x, r.id)
<1>1. Selects(x, r.id) <=>
        /\ Security(x, 4625)
        /\ \E t \in Written(x, "LogonType") : t \in DOMAIN Decimal /\ Decimal[t] \in {3, 10}
  <2>1. r.id = "failed-remote-authentication"
    BY AuthenticationShape DEF IsRuleOf
  <2> QED  BY <2>1 DEF Selects
<1>2. /\ r.categories = {"authentication"} /\ r.sources = AnySource
      /\ EngineRule(r).condition = Both /\ LeavesOf(r.condition) = {1, 2}
  BY AuthenticationShape, LeavesOfShapes DEF IsRuleOf
<1>3. /\ EngineProofs!Applicable(EngineRule(r), Seen(e)) <=> e.category = "authentication"
      /\ Security(x, 4625) => e.category = "authentication"
  BY <1>2, CategoryApplies, CategoriesDecide
<1>4. ASSUME EngineProofs!Applicable(EngineRule(r), Seen(e))
      PROVE  /\ Found(EngineRule(r), Seen(e), 1) <=> Security(x, 4625)
             /\ Found(EngineRule(r), Seen(e), 2) <=>
                  \E t \in Written(x, "LogonType") :
                    t \in DOMAIN Decimal /\ Decimal[t] \in {3, 10}
  <2>1. PICK a, b : a = r.leaf[1] /\ b = r.leaf[2]
    OBVIOUS
  <2>2. /\ EvaluationError(a, e) = "none"
        /\ Found(EngineRule(r), Seen(e), 1) <=>
             EngineProofs!Evaluator!LeafOutcome(Meets(a, e)) = "true"
    BY <1>2, <1>4, <2>1, FoundIsMet
  <2>3. /\ EvaluationError(b, e) = "none"
        /\ Found(EngineRule(r), Seen(e), 2) <=>
             EngineProofs!Evaluator!LeafOutcome(Meets(b, e)) = "true"
    BY <1>2, <1>4, <2>1, FoundIsMet
  <2>4. /\ a = Leaf("outcome", "equals", Text("failure"))
        /\ b = Leaf("logon_type", "in", List(<<Integer(3), Integer(10)>>))
        /\ e.category = "authentication"
    BY <1>3, <1>4, <2>1, AuthenticationShape
  <2>5. Found(EngineRule(r), Seen(e), 1) <=> Security(x, 4625)
    BY <2>2, <2>4, OutcomeMeets
  <2>6. Found(EngineRule(r), Seen(e), 2) <=>
          \E t \in Written(x, "LogonType") : t \in DOMAIN Decimal /\ Decimal[t] \in {3, 10}
    BY <2>3, <2>4, LogonTypeMeets
  <2> QED  BY <2>5, <2>6
<1>5. EngineProofs!Certain(EngineRule(r), Seen(e)) <=>
        Found(EngineRule(r), Seen(e), 1) /\ Found(EngineRule(r), Seen(e), 2)
  BY <1>2, CertainPair DEF Both
<1> QED  BY <1>1, <1>3, <1>4, <1>5 DEF Chosen

\* So every rule of the repository is chosen for what it is meant to select.
LEMMA RulesSelect ==
  ASSUME Loaded, library = RepositoryRules, NEW r \in Range(library),
         NEW e \in NormalizedEvents, NEW x, NEW n, IsMadeOf(e, x, n)
  PROVE  Chosen(r, e) <=> Selects(x, r.id)
<1>1. r \in {failed_remote_authentication, certutil_suspicious_arguments,
             powershell_encoded_command, dns_suspicious_query_marker,
             powershell_network_connection, startup_folder_file_activity}
  BY DEF RepositoryRules, Range
<1> QED  BY <1>1, AuthenticationSelects, CertutilSelects, EncodedSelects, DnsSelects,
            NetworkSelects, StartupSelects

-----------------------------------------------------------------------------
(* The alerts.                                                             *)

\* A raw event is the one made of the record.
Origin == raw # NoRaw => IngestionError(record) = "none" /\ raw = RawWindowsEvent(record)

LEMMA OriginInit == Init => Origin
BY DEF Init, IngestionInit, Origin

LEMMA OriginNext == Origin /\ [Next]_vars => Origin'
<1> SUFFICES ASSUME Origin, [Next]_vars PROVE Origin'
  OBVIOUS
<1>1. PICK x, error, made : x = record /\ error = IngestionError(x) /\ made = RawWindowsEvent(x)
  OBVIOUS
<1>2. CASE UNCHANGED <<record, raw>>
  BY <1>2 DEF Origin
<1>3. CASE Ingest
  <2>1. CASE IngestRecord
    <3>1. record' = x /\ raw' = made /\ error = "none"
      BY <1>1, <2>1 DEF IngestRecord
    <3> QED  BY <1>1, <3>1 DEF Origin
  <2> QED  BY <1>2, <1>3, <2>1
              DEF Ingest, RefuseRecord, Dispatch, NotRegistered, RefuseRaw, Normalize, Fail
<1>4. CASE ReceiveRecord
  BY <1>4 DEF ReceiveRecord, Origin
<1>5. CASE ~Ingest /\ ~ReceiveRecord
  BY <1>2, <1>5
     DEF Next, vars, ingestion, LoadRules, DropRecord, BeginDetection, Detect, EndDetection,
         CreateAlert, EndAlerts
<1> QED  BY <1>3, <1>4, <1>5

\* What the engine works on was made of the record.
LEMMA CalledIsMade ==
  ASSUME IngestionInv, Origin, Called
  PROVE  failure = "none" /\ IsMadeOf(event, record, normalizer)
<1>1. event # NoEvent
  BY NoEventAssumption DEF Called
<1>2. /\ failure = "none" /\ raw \in RawEvents /\ normalizer \in Normalizers
      /\ NormalizationError(raw, normalizer) = "none"
      /\ event = NormalizedEventOf(raw, normalizer)
  BY <1>1 DEF IngestionInv, IngestionStages, IngestionEnds
<1>3. IngestionError(record) = "none" /\ raw = RawWindowsEvent(record)
  BY <1>2, NoEventAssumption DEF Origin
<1> QED  BY <1>2, <1>3 DEF IsMadeOf

\* The answer has a match for every rule of the library that is chosen, and for no other.
LEMMA AnswerIsChosen ==
  ASSUME Called, call = "returned", NEW ids, ids = [i \in DOMAIN answer |-> answer[i].rule.id]
  PROVE  /\ Range(ids) = {r.id : r \in {s \in Range(library) : Chosen(s, event)}}
         /\ IsInjective(ids)
<1>1. reply = <<"ok">> /\ seen = Seen(event) /\ given = Given
  BY DEF Called
<1>2. /\ {m.rule : m \in EngineProofs!Range(answer)} =
           {r \in EngineProofs!Range(Given) :
              EngineProofs!Applicable(r, Seen(event)) /\ EngineProofs!Certain(r, Seen(event))}
      /\ \A i, j \in DOMAIN answer :
           i < j => EngineProofs!IdBefore(answer[i].rule, answer[j].rule)
  BY <1>1 DEF Called, EngineSound, EngineProofs!CompleteInv, EngineProofs!Settled,
              EngineProofs!AnswerIsDetermined
<1>3. \A i \in DOMAIN answer :
        \E r \in Range(library) : answer[i].rule = EngineRule(r) /\ Chosen(r, event)
  <2>1. SUFFICES ASSUME NEW i \in DOMAIN answer
                 PROVE  \E r \in Range(library) :
                          answer[i].rule = EngineRule(r) /\ Chosen(r, event)
    OBVIOUS
  <2>2. answer[i].rule \in {m.rule : m \in EngineProofs!Range(answer)}
    BY DEF EngineProofs!Range
  <2>3. /\ answer[i].rule \in EngineProofs!Range(Given)
        /\ EngineProofs!Applicable(answer[i].rule, Seen(event))
        /\ EngineProofs!Certain(answer[i].rule, Seen(event))
    BY <1>2, <2>2
  <2>4. PICK k \in DOMAIN library : answer[i].rule = EngineRule(library[k])
    BY <2>3 DEF EngineProofs!Range, Given
  <2> QED  BY <2>3, <2>4 DEF Chosen, Range
<1>4. \A r \in Range(library) :
        Chosen(r, event) => \E i \in DOMAIN answer : answer[i].rule = EngineRule(r)
  <2>1. SUFFICES ASSUME NEW r \in Range(library), Chosen(r, event)
                 PROVE  \E i \in DOMAIN answer : answer[i].rule = EngineRule(r)
    OBVIOUS
  <2>2. EngineRule(r) \in EngineProofs!Range(Given)
    BY DEF EngineProofs!Range, Given, Range
  <2>3. EngineRule(r) \in {m.rule : m \in EngineProofs!Range(answer)}
    BY <1>2, <2>1, <2>2 DEF Chosen
  <2> QED  BY <2>3 DEF EngineProofs!Range
<1>5. \A r : EngineRule(r).id = r.id
  BY DEF EngineRule
<1>6. Range(ids) = {ids[i] : i \in DOMAIN ids} /\ DOMAIN ids = DOMAIN answer
      /\ \A i \in DOMAIN ids : ids[i] = answer[i].rule.id
  BY DEF Range
<1>7. Range(ids) = {r.id : r \in {s \in Range(library) : Chosen(s, event)}}
  BY <1>3, <1>4, <1>5, <1>6
<1>8. ASSUME NEW i \in DOMAIN ids, NEW j \in DOMAIN ids, ids[i] = ids[j]
      PROVE  i = j
  <2>1. PICK r \in Range(library) : answer[i].rule = EngineRule(r)
    BY <1>3, <1>6
  <2>2. r \in Rules
    BY LibrariesAssumption DEF Called, Loaded, Rules, Range
  <2>3. IdRank[ids[i]] \in Nat
    BY <1>5, <1>6, <2>1, <2>2, RulesAssumption, IdRankAssumption DEF Engine!IsRule
  <2>4. ~(i < j) /\ ~(j < i)
    BY <1>2, <1>6, <1>8, <2>3 DEF EngineProofs!IdBefore
  <2>5. i \in Nat /\ j \in Nat
    BY <1>6, AnswerIsSequence
  <2> QED  BY <2>4, <2>5
<1> QED  BY <1>7, <1>8 DEF IsInjective

\* With the repository's rules, a record that becomes an event raises one alert for each rule
\* its own text calls for, and no other.
THEOREM AlertsAreRight == Spec => []AlertsAreWhatTheRulesSelect
<1>1. ASSUME PipelineInv, Origin, stage = "done", library = RepositoryRules,
             NEW ids, ids = [i \in DOMAIN alerts |-> alerts[i].rule.id]
      PROVE  /\ Range(ids) =
                  IF failure # "none" THEN {}
                  ELSE {id \in {r.id : r \in Range(RepositoryRules)} : Selects(record, id)}
             /\ IsInjective(ids)
  <2>1. /\ IngestionInv /\ Loaded /\ alerts = answer
        /\ \/ Idle /\ failure # "none"
           \/ Called /\ call = "returned"
    BY <1>1 DEF PipelineInv
  <2>2. CASE Idle /\ failure # "none"
    <3>1. DOMAIN ids = {}
      BY <1>1, <2>2 DEF Idle
    <3> QED  BY <2>2, <3>1 DEF Range, IsInjective
  <2>3. CASE Called /\ call = "returned"
    <3>1. failure = "none" /\ IsMadeOf(event, record, normalizer)
      BY <1>1, <2>1, <2>3, CalledIsMade
    <3>2. /\ Range(ids) = {r.id : r \in {s \in Range(library) : Chosen(s, event)}}
          /\ IsInjective(ids)
      BY <1>1, <2>1, <2>3, AnswerIsChosen
    <3>3. \A r \in Range(library) : Chosen(r, event) <=> Selects(record, r.id)
      BY <1>1, <2>1, <2>3, <3>1, RulesSelect DEF Called
    <3> QED  BY <1>1, <3>1, <3>2, <3>3
  <2> QED  BY <2>1, <2>2, <2>3
<1>2. PipelineInv /\ Origin => AlertsAreWhatTheRulesSelect
  BY <1>1 DEF AlertsAreWhatTheRulesSelect
<1>3. Spec => [](PipelineInv /\ Origin)
  BY PipelineInit, PipelineNext, OriginInit, OriginNext, PTL DEF Spec
<1> QED  BY <1>2, <1>3, PTL

================================================================================
