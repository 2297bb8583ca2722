------------------------- MODULE MCEventNormalization -------------------------
(***************************************************************************)
(* A record of every supported identity, each with one thing changed: an   *)
(* entry of its EventData, an element, a text of its System; and records   *)
(* of every combination of provider, channel and event ID.                 *)
(***************************************************************************)
EXTENDS EventNormalization, TLC

LOCAL INSTANCE FiniteSetsExt

Sysmon(id) == [provider |-> SYSMON_PROVIDER, channel |-> Channel("sysmon"), id |-> id]

Security(id) ==
  [provider |-> WINDOWS_SECURITY_PROVIDER, channel |-> Channel("windows_security"), id |-> id]

Identities == {Sysmon(i) : i \in {"1", "3", "11", "22"}} \cup {Security(i) : i \in {"4624", "4625", "4688"}}

Numbers ==
  ("0" :> 0) @@ ("1" :> 1) @@ ("3" :> 3) @@ ("11" :> 11) @@ ("22" :> 22) @@ ("99" :> 99)
    @@ ("4624" :> 4624) @@ ("4625" :> 4625) @@ ("4688" :> 4688) @@ ("420" :> 420) @@ ("7" :> 7)
    @@ ("443" :> 443) @@ ("50123" :> 50123) @@ ("65536" :> 65536) @@ ("-5" :> -5)

HexNumbers == ("0x1a4" :> 420) @@ ("0x7" :> 7)

MCAddresses == {"192.0.2.1", "192.0.2.2"}

MCTimes ==
  ("2024-05-01T00:00:00Z" :> [aware |-> TRUE, utc |-> 5, in_range |-> TRUE])
    @@ ("2024-05-01T00:00:00" :> [aware |-> FALSE, utc |-> 5, in_range |-> TRUE])
    @@ ("0001-01-01T00:00:00+01:00" :> [aware |-> TRUE, utc |-> -1, in_range |-> FALSE])

Names ==
  {"TargetUserName", "TargetDomainName", "LogonType", "IpAddress", "IpPort", "WorkstationName",
   "NewProcessName", "NewProcessId", "CommandLine", "ProcessId", "ParentProcessName",
   "SubjectUserName", "Image", "ParentProcessId", "ParentImage", "User", "SourceIp", "SourcePort",
   "DestinationIp", "DestinationPort", "Protocol", "TargetFilename", "QueryName", "QueryStatus",
   "QueryResults", "SubjectLogonId", "Initiated", " Image "}

Texts ==
  DOMAIN Numbers \cup DOMAIN HexNumbers \cup MCAddresses \cup DOMAIN MCTimes \cup Names
    \cup {"", "-", " ", " - ", " word ", "word", " 420 ", "host", "Other",
          SYSMON_PROVIDER, WINDOWS_SECURITY_PROVIDER, Channel("sysmon"), "Security"}

MCStripped ==
  (" " :> "") @@ (" - " :> "-") @@ (" word " :> "word") @@ (" 420 " :> "420")
    @@ (" Image " :> "Image") @@ [s \in Texts |-> s]

\* An entry of its own text for every name: a number, an address, or its name.
Entry(name) ==
  CASE name = "ProcessId" -> "420"
    [] name = "NewProcessId" -> "11"
    [] name \in {"ParentProcessId", "LogonType"} -> "7"
    [] name \in {"SourcePort", "IpPort"} -> "50123"
    [] name = "DestinationPort" -> "443"
    [] name \in {"SourceIp", "IpAddress"} -> "192.0.2.1"
    [] name = "DestinationIp" -> "192.0.2.2"
    [] OTHER -> name

Listed(entries) ==
  LET names == FoldSet(LAMBDA name, q : Append(q, name), <<>>, DOMAIN entries)
  IN [i \in DOMAIN names |->
        [is_data |-> TRUE, nested |-> FALSE, name |-> names[i], text |-> entries[names[i]]]]

Record(id, data) ==
  [well_formed |-> TRUE, copies |-> [element \in Elements |-> 1], provider |-> id.provider,
   event_id |-> id.id, system_time |-> "2024-05-01T00:00:00Z", channel |-> id.channel,
   computer |-> "host", record_id |-> "7", data |-> data]

Good(id) == Record(id, Listed([name \in Names |-> Entry(name)]))

\* One entry removed, or saying something else.
WithEntries(id) ==
  {[Good(id) EXCEPT !.data = SelectSeq(@, LAMBDA d : d.name # name)] : name \in Names}
    \cup {[Good(id) EXCEPT !.data[i].text = text] :
            i \in DOMAIN Good(id).data,
            text \in {"", "-", " - ", " word ", " 420 ", "0x1a4", "65536", "-5", "192.0.2.2"}}

WithCopies ==
  {[Good(id) EXCEPT !.copies[element] = n] :
     id \in {Sysmon("11"), Security("4624")}, element \in Elements, n \in {0, 2}}

Unusual ==
  LET good == Good(Sysmon("11"))
      element == good.data[1]
  IN {[good EXCEPT !.well_formed = FALSE]}
       \cup {[good EXCEPT !.provider = s] : s \in {Missing, " "}}
       \cup {[good EXCEPT !.system_time = s] : s \in {Missing, " ", "word"} \cup DOMAIN MCTimes}
       \cup {[good EXCEPT !.channel = s, !.system_time = "0001-01-01T00:00:00+01:00"] :
               s \in {" ", "Security"}}
       \cup {[good EXCEPT !.computer = " "], [good EXCEPT !.data = <<>>]}
       \cup {[good EXCEPT !.event_id = s] : s \in {"", "word", "0", "-5", "99"}}
       \cup {[good EXCEPT !.record_id = s] : s \in {"", "word", "0", "-5"}}
       \cup {[good EXCEPT !.data[1] = d] :
               d \in {[element EXCEPT !.is_data = FALSE], [element EXCEPT !.nested = TRUE],
                      [element EXCEPT !.name = Missing], [element EXCEPT !.name = " "],
                      [element EXCEPT !.name = good.data[2].name]}}

OfEveryIdentity ==
  {Record([provider |-> p, channel |-> c, id |-> i], Good(Sysmon("3")).data) :
     p \in {SYSMON_PROVIDER, WINDOWS_SECURITY_PROVIDER, "Other"},
     c \in {Channel("sysmon"), "Security", "Other"}, i \in {k.id : k \in Identities} \cup {"99"}}

MCRecords ==
  UNION {{Good(id)} \cup WithEntries(id) : id \in Identities}
    \cup WithCopies \cup Unusual \cup OfEveryIdentity

================================================================================
