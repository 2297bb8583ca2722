-------------------------- MODULE EventNormalization --------------------------
(***************************************************************************)
(* From one Windows Event XML record to a NormalizedEvent or an error: the *)
(* ingestion of parsers/windows_event.py, the registry and the normalizers *)
(* parsers/windows_security.py and parsers/sysmon.py.  A text is what the  *)
(* record says, and five constants are the library's verdict on texts.     *)
(***************************************************************************)
EXTENDS EventModels, FiniteSets, Sequences

CONSTANTS
  Records,      \* XML records; see IsRecord
  Stripped,     \* str.strip, as a function on the texts of the records
  Decimal,      \* int(text, 10), on the stripped texts it accepts
  Hexadecimal,  \* int(text, 16), on the stripped texts with the prefix 0x it accepts
  AddressTexts, \* the stripped texts IPvAnyAddress accepts
  Times,        \* fromisoformat, on the stripped texts it accepts: [aware, utc, in_range]
  Missing,      \* in place of an attribute's text
  NoRaw, NoEvent

\* copies: how often an element occurs where one is expected; a text of an element that
\* does not occur is not looked at.  data: the children of EventData, in order.
Elements ==
  {"Event", "System", "Provider", "EventID", "TimeCreated", "Channel", "Computer",
   "EventRecordID", "EventData"}

IsRecord(x) ==
  /\ x.well_formed \in BOOLEAN
  /\ x.copies \in [Elements -> Nat]
  /\ x.provider \in DOMAIN Stripped \cup {Missing}
  /\ x.system_time \in DOMAIN Stripped \cup {Missing}
  /\ \A f \in {"event_id", "channel", "computer", "record_id"} : x[f] \in DOMAIN Stripped
  /\ \A i \in DOMAIN x.data :
       /\ x.data[i].is_data \in BOOLEAN /\ x.data[i].nested \in BOOLEAN
       /\ x.data[i].name \in DOMAIN Stripped \cup {Missing}
       /\ x.data[i].text \in DOMAIN Stripped

ASSUME RecordsAssumption == \A x \in Records : IsRecord(x)
ASSUME ConversionsAssumption ==
  /\ \A s \in DOMAIN Stripped :
       Stripped[s] \in DOMAIN Stripped /\ Stripped[Stripped[s]] = Stripped[s]
  /\ \A s \in DOMAIN Decimal : Decimal[s] \in Int
  /\ \A s \in DOMAIN Hexadecimal : Hexadecimal[s] \in Int
  /\ DOMAIN Decimal \cap DOMAIN Hexadecimal = {}
  /\ {"", "-"} \cap (DOMAIN Decimal \cup DOMAIN Hexadecimal) = {}

-----------------------------------------------------------------------------
(* Ingestion.  Everything wrong with a record is an InvalidRawEventError,  *)
(* but for XML that cannot be parsed and an instant that has no UTC form.  *)

HasText(text) == text # Missing /\ Stripped[text] # ""

\* Of the children named, an EventRecordID or an EventData may be absent.
HasEnvelope(x) ==
  /\ \A element \in {"Event", "System", "Provider", "EventID", "TimeCreated", "Channel"} :
       x.copies[element] = 1
  /\ HasText(x.provider) /\ HasText(x.system_time) /\ HasText(x.channel)
  /\ Stripped[x.event_id] \in DOMAIN Decimal

HasTime(x) ==
  /\ Stripped[x.system_time] \in DOMAIN Times
  /\ Times[Stripped[x.system_time]].aware

HasRecordId(x) ==
  x.copies["EventRecordID"] = 0
    \/ /\ x.copies["EventRecordID"] = 1
       /\ Stripped[x.record_id] \in DOMAIN Decimal

Data(x) == IF x.copies["EventData"] = 0 THEN <<>> ELSE x.data

HasNamedData(x) ==
  /\ x.copies["EventData"] <= 1
  /\ \A i \in DOMAIN Data(x) :
       /\ x.data[i].is_data /\ ~x.data[i].nested /\ HasText(x.data[i].name)
       /\ \A j \in DOMAIN Data(x) : x.data[i].name = x.data[j].name => i = j

RecordId(x) ==
  IF x.copies["EventRecordID"] = 0 THEN None ELSE Integer(Decimal[Stripped[x.record_id]])

\* RawWindowsEvent; its event_data keeps names and texts as they are.
RawWindowsEvent(x) ==
  [provider |-> Stripped[x.provider], event_id |-> Decimal[Stripped[x.event_id]],
   channel |-> Stripped[x.channel], computer |-> Stripped[x.computer],
   timestamp |-> Instant(Times[Stripped[x.system_time]].utc, TRUE), record_id |-> RecordId(x),
   event_data |->
     [name \in {Data(x)[i].name : i \in DOMAIN Data(x)} |->
        Data(x)[CHOOSE i \in DOMAIN Data(x) : Data(x)[i].name = name].text]]

IsRaw(raw) ==
  /\ Accepts("PositiveInteger", Integer(raw.event_id))
  /\ raw.record_id = None \/ Accepts("NonNegativeInteger", raw.record_id)

\* Mutant: the raw event is built without validation.
ValidatesAnything(x) == TRUE

Validates(x) == IsRaw(RawWindowsEvent(x))

IngestionError(x) ==
  IF ~x.well_formed THEN "MalformedEventXmlError"
  ELSE IF ~HasEnvelope(x) \/ ~HasTime(x) THEN "InvalidRawEventError"
  ELSE IF ~Times[Stripped[x.system_time]].in_range THEN "OverflowError"
  ELSE IF \/ x.copies["Computer"] # 1 \/ ~HasText(x.computer)
          \/ ~HasRecordId(x) \/ ~HasNamedData(x)
          \/ ~Validates(x)
  THEN "InvalidRawEventError"
  ELSE "none"

-----------------------------------------------------------------------------
(* Dispatch.                                                               *)

WINDOWS_SECURITY_PROVIDER == "Microsoft-Windows-Security-Auditing"
SYSMON_PROVIDER == "Microsoft-Windows-Sysmon"

Normalizers == {"windows_security", "sysmon"}

\* Mutant: an identity the Sysmon normalizer knows is not registered.
RegistryWithoutDns ==
  [windows_security |-> {<<WINDOWS_SECURITY_PROVIDER, id>> : id \in {4624, 4625, 4688}},
   sysmon |-> {<<SYSMON_PROVIDER, id>> : id \in {1, 3, 11}}]

EVENT_NORMALIZER_REGISTRY ==
  [windows_security |-> {<<WINDOWS_SECURITY_PROVIDER, id>> : id \in {4624, 4625, 4688}},
   sysmon |-> {<<SYSMON_PROVIDER, id>> : id \in {1, 3, 11, 22}}]

IsRegistered(raw, n) == <<raw.provider, raw.event_id>> \in EVENT_NORMALIZER_REGISTRY[n]

\* The check each normalizer makes for itself.
Channel(n) ==
  IF n = "sysmon" THEN "Microsoft-Windows-Sysmon/Operational" ELSE "Security"

IsSupported(raw, n) ==
  /\ raw.provider = (IF n = "sysmon" THEN SYSMON_PROVIDER ELSE WINDOWS_SECURITY_PROVIDER)
  /\ raw.channel = Channel(n)
  /\ raw.event_id \in (IF n = "sysmon" THEN {1, 3, 11, 22} ELSE {4624, 4625, 4688})

-----------------------------------------------------------------------------
(* Normalization: the entry each context field is read from, and how; and, *)
(* as a table of their own, the entries that are not kept in source_data.  *)

Must(name, as) == [name |-> name, as |-> as, required |-> TRUE]
May(name, as) == [name |-> name, as |-> as, required |-> FALSE]

SecurityAuthentication ==
  [user |-> May("TargetUserName", "text"), domain |-> May("TargetDomainName", "text"),
   logon_type |-> May("LogonType", "decimal"), source_ip |-> May("IpAddress", "text"),
   source_port |-> May("IpPort", "decimal"), workstation |-> May("WorkstationName", "text")]

\* Mutant: the parent's image is taken for the process's own.
SecurityProcessSwapped ==
  [image |-> Must("ParentProcessName", "text"), process_id |-> Must("NewProcessId", "windows"),
   command_line |-> May("CommandLine", "text"), parent_process_id |-> May("ProcessId", "windows"),
   parent_image |-> May("NewProcessName", "text"), user |-> May("SubjectUserName", "text")]

SecurityProcess ==
  [image |-> Must("NewProcessName", "text"), process_id |-> Must("NewProcessId", "windows"),
   command_line |-> May("CommandLine", "text"), parent_process_id |-> May("ProcessId", "windows"),
   parent_image |-> May("ParentProcessName", "text"), user |-> May("SubjectUserName", "text")]

SysmonProcess ==
  [image |-> Must("Image", "text"), process_id |-> Must("ProcessId", "decimal"),
   command_line |-> May("CommandLine", "text"),
   parent_process_id |-> May("ParentProcessId", "decimal"),
   parent_image |-> May("ParentImage", "text"), user |-> May("User", "text")]

SysmonNetwork ==
  [source_ip |-> Must("SourceIp", "text"), source_port |-> Must("SourcePort", "decimal"),
   destination_ip |-> Must("DestinationIp", "text"),
   destination_port |-> Must("DestinationPort", "decimal"), protocol |-> May("Protocol", "text"),
   process_id |-> May("ProcessId", "decimal"), process_image |-> May("Image", "text")]

SysmonFile ==
  [target_path |-> Must("TargetFilename", "text"), process_id |-> May("ProcessId", "decimal"),
   process_image |-> May("Image", "text")]

SysmonDns ==
  [query_name |-> Must("QueryName", "text"), query_status |-> May("QueryStatus", "text"),
   query_results |-> May("QueryResults", "text"), process_id |-> May("ProcessId", "decimal"),
   process_image |-> May("Image", "text")]

AUTHENTICATION_FIELDS ==
  {"TargetUserName", "TargetDomainName", "LogonType", "IpAddress", "IpPort", "WorkstationName"}

SECURITY_PROCESS_FIELDS ==
  {"NewProcessName", "NewProcessId", "CommandLine", "ProcessId", "ParentProcessName",
   "SubjectUserName"}

PROCESS_FIELDS ==
  {"Image", "ProcessId", "CommandLine", "ParentProcessId", "ParentImage", "User"}

\* Mutant: Initiated is taken out of source_data although nothing reads it.
NETWORK_FIELDS_AND_INITIATED ==
  {"SourceIp", "SourcePort", "DestinationIp", "DestinationPort", "Protocol", "ProcessId", "Image",
   "Initiated"}

NETWORK_FIELDS ==
  {"SourceIp", "SourcePort", "DestinationIp", "DestinationPort", "Protocol", "ProcessId", "Image"}

FILE_FIELDS == {"TargetFilename", "ProcessId", "Image"}

DNS_FIELDS == {"QueryName", "QueryStatus", "QueryResults", "ProcessId", "Image"}

\* What a normalizer does with an event ID it supports.
Route(n, id) ==
  CASE n = "windows_security" /\ id = 4688 ->
         [category |-> "process", reads |-> SecurityProcess, consumed |-> SECURITY_PROCESS_FIELDS]
    [] n = "windows_security" /\ id # 4688 ->
         [category |-> "authentication", reads |-> SecurityAuthentication,
          consumed |-> AUTHENTICATION_FIELDS]
    [] n = "sysmon" /\ id = 1 ->
         [category |-> "process", reads |-> SysmonProcess, consumed |-> PROCESS_FIELDS]
    [] n = "sysmon" /\ id = 3 ->
         [category |-> "network", reads |-> SysmonNetwork, consumed |-> NETWORK_FIELDS]
    [] n = "sysmon" /\ id = 11 ->
         [category |-> "file", reads |-> SysmonFile, consumed |-> FILE_FIELDS]
    [] n = "sysmon" /\ id \notin {1, 3, 11} ->
         [category |-> "dns", reads |-> SysmonDns, consumed |-> DNS_FIELDS]

\* _optional_text: an entry that is absent, blank or "-" says nothing.
Says(data, name) == name \in DOMAIN data /\ Stripped[data[name]] \notin {"", "-"}

\* The numbers a conversion accepts; a text it does not accept has none.
Number(as, text) ==
  IF text \in DOMAIN Decimal THEN {Decimal[text]}
  ELSE IF as = "windows" /\ text \in DOMAIN Hexadecimal THEN {Hexadecimal[text]}
  ELSE {}

IsReadable(read, data) ==
  IF Says(data, read.name)
  THEN read.as = "text" \/ \E n \in Number(read.as, Stripped[data[read.name]]) : n >= 0
  ELSE ~read.required

\* Pydantic turns a text into an address where a field asks for one.
Read(read, as, data) ==
  LET text == Stripped[data[read.name]]
  IN IF ~Says(data, read.name) THEN None
     ELSE IF read.as # "text" THEN Integer(CHOOSE n \in Number(read.as, text) : TRUE)
     ELSE IF as = "IPvAnyAddress" /\ text \in AddressTexts THEN Address(text)
     ELSE Text(text)

Context(raw, n) ==
  LET route == Route(n, raw.event_id)
      model == ModelFields[CONTEXT_TYPE_BY_CATEGORY[route.category]]
  IN [f \in DOMAIN model |->
        IF f = "outcome" THEN Member(IF raw.event_id = 4624 THEN "success" ELSE "failure")
        ELSE Read(route.reads[f], model[f].as, raw.event_data)]

\* Mutant: blank and "-" entries are dropped from source_data too.
SourceDataSaid(raw, n) ==
  [name \in {m \in DOMAIN raw.event_data \ Route(n, raw.event_id).consumed :
              Says(raw.event_data, m)} |-> raw.event_data[name]]

SourceData(raw, n) ==
  [name \in DOMAIN raw.event_data \ Route(n, raw.event_id).consumed |-> raw.event_data[name]]

NormalizedEventOf(raw, n) ==
  LET category == Route(n, raw.event_id).category
      data == SourceData(raw, n)
  IN [source |-> n, category |-> category,
      context_type |-> CONTEXT_TYPE_BY_CATEGORY[category],
      own |->
        [source |-> Member(n), provider |-> Text(raw.provider),
         event_id |-> Integer(raw.event_id), channel |-> Text(raw.channel),
         timestamp |-> raw.timestamp, computer |-> Text(raw.computer),
         record_id |-> raw.record_id, category |-> Member(category)],
      context |-> Context(raw, n),
      source_data |-> [name \in DOMAIN data |-> Text(data[name])]]

NormalizationError(raw, n) ==
  IF ~IsSupported(raw, n) THEN "UnsupportedEventError"
  ELSE IF \/ \E f \in DOMAIN Route(n, raw.event_id).reads :
               ~IsReadable(Route(n, raw.event_id).reads[f], raw.event_data)
          \/ ~IsValidEvent(NormalizedEventOf(raw, n))
  THEN "InvalidNormalizedEventError"
  ELSE "none"

-----------------------------------------------------------------------------

\* What a caller gets from ingestion and from a normalizer.
RawEvents == {RawWindowsEvent(x) : x \in {y \in Records : IngestionError(y) = "none"}}

NormalizedEvents ==
  UNION {{NormalizedEventOf(raw, n) :
            n \in {m \in Normalizers : NormalizationError(raw, m) = "none"}} : raw \in RawEvents}

ASSUME NoEventAssumption == NoRaw \notin RawEvents /\ NoEvent \notin NormalizedEvents

VARIABLES
  pc,          \* "ingest", "dispatch", "normalize" or "end"
  record,      \* the XML record
  raw,         \* the RawWindowsEvent, or NoRaw
  normalizer,  \* the normalizer called, or "none"
  event,       \* the NormalizedEvent, or NoEvent
  failure      \* the exception that escaped, or "none"

ingestion == <<pc, record, raw, normalizer, event, failure>>

IngestionInit ==
  /\ pc = "ingest" /\ record \in Records
  /\ raw = NoRaw /\ normalizer = "none" /\ event = NoEvent /\ failure = "none"

Fail(error) ==
  /\ pc' = "end"
  /\ failure' = error
  /\ UNCHANGED <<record, raw, normalizer, event>>

RefuseRecord ==
  /\ pc = "ingest" /\ IngestionError(record) # "none"
  /\ Fail(IngestionError(record))

IngestRecord ==
  /\ pc = "ingest" /\ IngestionError(record) = "none"
  /\ pc' = "dispatch"
  /\ raw' = RawWindowsEvent(record)
  /\ UNCHANGED <<record, normalizer, event, failure>>

\* get_event_normalizer.
Dispatch ==
  /\ pc = "dispatch"
  /\ \E n \in Normalizers : IsRegistered(raw, n) /\ normalizer' = n
  /\ pc' = "normalize"
  /\ UNCHANGED <<record, raw, event, failure>>

NotRegistered ==
  /\ pc = "dispatch" /\ \A n \in Normalizers : ~IsRegistered(raw, n)
  /\ Fail("UnsupportedEventError")

\* Both normalizers are public: a caller may take one without asking the registry.
CallDirectly ==
  /\ pc = "dispatch"
  /\ \E n \in Normalizers : normalizer' = n
  /\ pc' = "normalize"
  /\ UNCHANGED <<record, raw, event, failure>>

RefuseRaw ==
  /\ pc = "normalize" /\ NormalizationError(raw, normalizer) # "none"
  /\ Fail(NormalizationError(raw, normalizer))

Normalize ==
  /\ pc = "normalize" /\ NormalizationError(raw, normalizer) = "none"
  /\ pc' = "end"
  /\ event' = NormalizedEventOf(raw, normalizer)
  /\ UNCHANGED <<record, raw, normalizer, failure>>

IngestionNext ==
  \/ RefuseRecord \/ IngestRecord \/ Dispatch \/ NotRegistered \/ CallDirectly
  \/ RefuseRaw \/ Normalize

IngestionSpec == IngestionInit /\ [][IngestionNext]_ingestion

-----------------------------------------------------------------------------
(* Properties.                                                             *)

IngestionErrors == {"MalformedEventXmlError", "InvalidRawEventError"}
NormalizationErrors == {"UnsupportedEventError", "InvalidNormalizedEventError"}

\* Nothing half-built is kept: a raw event and a normalized one pass their own validation,
\* and an error of a stage leaves nothing of that stage behind.
TypeOK ==
  /\ pc \in {"ingest", "dispatch", "normalize", "end"}
  /\ normalizer \in Normalizers \cup {"none"}
  /\ failure \in IngestionErrors \cup NormalizationErrors \cup {"OverflowError", "none"}
  /\ raw # NoRaw => IsRaw(raw)
  /\ event # NoEvent => IsValidEvent(event)
  /\ failure \in IngestionErrors => raw = NoRaw
  /\ failure # "none" => event = NoEvent
  /\ pc = "end" /\ failure = "none" => event # NoEvent

\* What a value of the context tells of a source text.
Tells(value, text) ==
  \/ value \in {Text(Stripped[text]), Address(Stripped[text])}
  \/ \E n \in Number("windows", Stripped[text]) : value = Integer(n)

\* Every EventData entry is where it belongs, and only there: kept in source_data as it was
\* written, or told by the context if it says anything; and the context tells nothing
\* beyond what those entries say (docs/architecture/event-processing.md).  The fields that
\* are read and the fields that are taken out of source_data are tables of their own.
EvidenceIsKept ==
  event # NoEvent =>
    LET data == raw.event_data
        reads == Route(normalizer, raw.event_id).reads
        kept == DOMAIN event.source_data
        told == {f \in DOMAIN event.context \ {"outcome"} : event.context[f] # None}
        said == {name \in DOMAIN data \ kept : Says(data, name)}
    IN /\ kept \subseteq DOMAIN data
       /\ \A name \in kept : event.source_data[name] = Text(data[name])
       /\ \A name \in DOMAIN data \ kept : \E f \in DOMAIN reads : reads[f].name = name
       /\ \A name \in said : \E f \in told : Tells(event.context[f], data[name])
       /\ \A f \in told : \E name \in said : Tells(event.context[f], data[name])
       /\ Cardinality(told) = Cardinality(said)

\* The registry and the identities each normalizer checks for itself are two tables: an
\* event is normalized only by the normalizer the registry names for it, and the
\* normalizer the registry names turns an event away only because of its channel.
DispatchAgrees ==
  /\ event # NoEvent => IsRegistered(raw, normalizer)
  /\ (/\ failure = "UnsupportedEventError"
      /\ \E n \in Normalizers :
           /\ raw.provider = (IF n = "sysmon" THEN SYSMON_PROVIDER ELSE WINDOWS_SECURITY_PROVIDER)
           /\ normalizer \in {n, "none"} /\ raw.channel = Channel(n)) =>
        \A n \in Normalizers : ~IsRegistered(raw, n)

\* docs/architecture/event-processing.md: invalid XML or raw structure, an invalid timestamp
\* included, fails with a controlled ingestion error.
FailuresAreControlled ==
  failure \in IngestionErrors \cup NormalizationErrors \cup {"none"}

=============================================================================
