------------------------------ MODULE EventModels ------------------------------
(***************************************************************************)
(* The data contracts of models/normalized_event.py: which fields a        *)
(* NormalizedEvent and the context of each category have, of which type,   *)
(* and when pydantic accepts an instance.  A value carries the Python type *)
(* the code asks for; an integer its number, a text what it says.          *)
(***************************************************************************)
EXTENDS Integers

EventSource == {"windows_security", "sysmon"}

EventCategory == {"authentication", "process", "network", "file", "dns"}

None == [type |-> "NoneType"]
Integer(i) == [type |-> "int", n |-> i]
Text(s) == [type |-> "str", text |-> s]
Address(s) == [type |-> "ip", text |-> s]
Member(s) == [type |-> "enum", text |-> s]

\* Of an aware datetime the UTC instant is kept, and whether astimezone can produce it.
Instant(i, fits) == [type |-> "datetime", utc |-> i, in_range |-> fits]

Required(as) == [as |-> as, optional |-> FALSE]
Optional(as) == [as |-> as, optional |-> TRUE]

NormalizedEvent ==
  [source |-> Required("Enum"), provider |-> Required("NonEmptyString"),
   event_id |-> Required("PositiveInteger"), channel |-> Required("NonEmptyString"),
   timestamp |-> Required("AwareDatetime"), computer |-> Required("NonEmptyString"),
   record_id |-> Optional("NonNegativeInteger"), category |-> Required("Enum")]

AuthenticationContext ==
  [outcome |-> Required("Enum"), user |-> Optional("StrictStr"),
   domain |-> Optional("StrictStr"), logon_type |-> Optional("NonNegativeInteger"),
   source_ip |-> Optional("IPvAnyAddress"), source_port |-> Optional("Port"),
   workstation |-> Optional("StrictStr")]

ProcessContext ==
  [image |-> Required("NonEmptyString"), process_id |-> Optional("NonNegativeInteger"),
   command_line |-> Optional("StrictStr"),
   parent_process_id |-> Optional("NonNegativeInteger"),
   parent_image |-> Optional("StrictStr"), user |-> Optional("StrictStr")]

NetworkContext ==
  [source_ip |-> Required("IPvAnyAddress"), source_port |-> Required("Port"),
   destination_ip |-> Required("IPvAnyAddress"), destination_port |-> Required("Port"),
   protocol |-> Optional("StrictStr"), process_id |-> Optional("NonNegativeInteger"),
   process_image |-> Optional("StrictStr")]

FileContext ==
  [target_path |-> Required("NonEmptyString"),
   process_id |-> Optional("NonNegativeInteger"), process_image |-> Optional("StrictStr")]

DnsContext ==
  [query_name |-> Required("NonEmptyString"), query_status |-> Optional("StrictStr"),
   query_results |-> Optional("StrictStr"),
   process_id |-> Optional("NonNegativeInteger"), process_image |-> Optional("StrictStr")]

ModelFields ==
  [NormalizedEvent |-> NormalizedEvent, AuthenticationContext |-> AuthenticationContext,
   ProcessContext |-> ProcessContext, NetworkContext |-> NetworkContext,
   FileContext |-> FileContext, DnsContext |-> DnsContext]

CONTEXT_TYPE_BY_CATEGORY ==
  [authentication |-> "AuthenticationContext", process |-> "ProcessContext",
   network |-> "NetworkContext", file |-> "FileContext", dns |-> "DnsContext"]

Port == 0..65535

\* What the annotated types accept; they are strict, so nothing is coerced.
Accepts(as, v) ==
  \/ as = "Enum" /\ v.type = "enum"
  \/ as = "StrictStr" /\ v.type = "str"
  \/ as = "NonEmptyString" /\ v.type = "str" /\ v.text # ""
  \/ as = "IPvAnyAddress" /\ v.type = "ip"
  \/ as = "AwareDatetime" /\ v.type = "datetime"
  \/ as = "NonNegativeInteger" /\ v.type = "int" /\ v.n >= 0
  \/ as = "PositiveInteger" /\ v.type = "int" /\ v.n > 0
  \/ as = "Port" /\ v.type = "int" /\ v.n \in Port

IsInstanceOf(values, model) ==
  /\ DOMAIN values = DOMAIN ModelFields[model]
  /\ \A f \in DOMAIN values :
       \/ ModelFields[model][f].optional /\ values[f] = None
       \/ Accepts(ModelFields[model][f].as, values[f])

\* An event as the model's own validation leaves it; an instance changed afterwards,
\* which no validation sees, may be anything else.
IsValidEvent(e) ==
  /\ e.source \in EventSource /\ e.category \in EventCategory
  /\ e.context_type = CONTEXT_TYPE_BY_CATEGORY[e.category]
  /\ IsInstanceOf(e.own, "NormalizedEvent")
  /\ IsInstanceOf(e.context, e.context_type)
  /\ \A name \in DOMAIN e.source_data : e.source_data[name].type = "str"

================================================================================
