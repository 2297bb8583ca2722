------------------------------- MODULE MCPipeline -------------------------------
(***************************************************************************)
(* Records that the repository's rules select, records that miss a rule by *)
(* one detail, and records that are refused; three libraries.  The         *)
(* relations between texts are computed from the texts themselves.         *)
(***************************************************************************)
EXTENDS RuleLibrary, TLC

Images ==
  {"C:\\Windows\\System32\\certutil.exe", "C:\\Windows\\powershell.exe", "C:\\Tools\\pwsh.exe",
   "powershell.exe", "C:\\Tools\\certutil.exe.bak"}

Commands ==
  {"certutil.exe -urlcache https://example.com", "certutil.exe -decode ",
   "pwsh.exe -enc QQ", "certutil.exe -decode a -EncodedCommand b"}

LogonTypes == {"3", " 10 ", "2", "-", "0x3"}

Queries == {"tunnel-test.example.com", "example.com", " - "}

Targets ==
  {"C:\\Users\\u\\Start Menu\\Programs\\Startup\\a.txt", "C:\\Users\\u\\Startup\\a.txt"}

Providers == {"Microsoft-Windows-Security-Auditing", "Microsoft-Windows-Sysmon"}
Channels == {"Security", "Microsoft-Windows-Sysmon/Operational"}

MCDecimal ==
  ("1" :> 1) @@ ("3" :> 3) @@ ("11" :> 11) @@ ("22" :> 22) @@ ("4624" :> 4624) @@ ("4625" :> 4625)
    @@ ("4688" :> 4688) @@ ("10" :> 10) @@ ("2" :> 2) @@ ("443" :> 443)

MCHexadecimal == "0x3" :> 3

MCAddresses == {"192.0.2.1", "198.51.100.1"}
MCTimes ==
  "2024-05-01T00:00:00Z" :> [aware |-> TRUE, utc |-> 5, in_range |-> TRUE]

MCTimestamps == {"2024-05-01T00:00:00Z"}
MCNetworks == {"192.0.2.0/24"}
MCCovers == {<<"192.0.2.0/24", "192.0.2.1">>}
MCDenotes == [a \in MCAddresses |-> a] @@ ("2024-05-01T00:00:00Z" :> 5)

MCStripped ==
  (" 10 " :> "10") @@ (" - " :> "-")
    @@ ("certutil.exe -decode " :> "certutil.exe -decode")
    @@ [t \in Images \cup Commands \cup LogonTypes \cup Queries \cup Targets \cup Providers
               \cup Channels \cup DOMAIN MCDecimal \cup MCAddresses \cup MCTimestamps
               \cup {"", "-", "certutil.exe -decode", "host", "TargetUserName", "LogonType",
                     "NewProcessName", "NewProcessId", "ParentProcessName", "Image", "ProcessId",
                     "ParentImage", "CommandLine", "SourceIp", "SourcePort", "DestinationIp",
                     "DestinationPort", "TargetFilename", "QueryName", "RuleName"} |-> t]

IsAt(part, text, i) ==
  i + Len(part) - 1 <= Len(text) /\ SubSeq(text, i, i + Len(part) - 1) = part

Pairs == (Markers \cup {"C:\\Tools"}) \X DOMAIN MCStripped

MCOccurs == {p \in Pairs : \E i \in 1..Len(p[2]) : IsAt(p[1], p[2], i)}
MCBegins == {p \in Pairs : IsAt(p[1], p[2], 1)}
MCEnds == {p \in Pairs : Len(p[1]) <= Len(p[2]) /\ IsAt(p[1], p[2], Len(p[2]) - Len(p[1]) + 1)}

-----------------------------------------------------------------------------

Entry(name, text) == [is_data |-> TRUE, nested |-> FALSE, name |-> name, text |-> text]

MCRecord(provider, channel, id, data) ==
  [well_formed |-> TRUE, copies |-> [element \in Elements |-> 1], provider |-> provider,
   event_id |-> id, system_time |-> "2024-05-01T00:00:00Z", channel |-> channel,
   computer |-> "host", record_id |-> "1", data |-> data]

FromSecurity(id, data) == MCRecord("Microsoft-Windows-Security-Auditing", "Security", id, data)
FromSysmon(id, data) ==
  MCRecord("Microsoft-Windows-Sysmon", "Microsoft-Windows-Sysmon/Operational", id, data)

Connection(image) ==
  image \o <<Entry("SourceIp", "192.0.2.1"), Entry("SourcePort", "443"),
             Entry("DestinationIp", "198.51.100.1"), Entry("DestinationPort", "443")>>

MCRecords ==
  {FromSecurity(id, <<Entry("LogonType", t)>>) : id \in {"4624", "4625"}, t \in LogonTypes}
    \cup {FromSecurity("4688", <<Entry("NewProcessName", i), Entry("NewProcessId", "0x3"),
                                 Entry("ParentProcessName", "C:\\Tools\\pwsh.exe"),
                                 Entry("CommandLine", c)>>) : i \in Images, c \in Commands}
    \cup {FromSysmon("1", <<Entry("Image", i), Entry("ProcessId", "3"), Entry("CommandLine", c),
                            Entry("RuleName", "-")>>) : i \in Images, c \in Commands \cup {"-"}}
    \cup {FromSysmon("3", Connection(i)) : i \in {<<>>} \cup {<<Entry("Image", i)>> : i \in Images}}
    \cup {FromSysmon("11", <<Entry("TargetFilename", t)>>) : t \in Targets}
    \cup {FromSysmon("22", <<Entry("QueryName", q)>>) : q \in Queries}
    \cup {FromSysmon("4688", <<>>), [FromSysmon("3", Connection(<<>>)) EXCEPT !.well_formed = FALSE]}

-----------------------------------------------------------------------------

At(space, name, op, value) ==
  [field |-> [space |-> space, name |-> name], op |-> op, value |-> value]

One(id, categories, sources, leaf) ==
  [id |-> id, categories |-> categories, sources |-> sources, well_formed |-> TRUE,
   condition |-> [size |-> 1, kind |-> <<"leaf">>, children |-> <<{}>>], leaf |-> <<leaf>>]

Two(id, categories, sources, kind, first, second) ==
  [id |-> id, categories |-> categories, sources |-> sources, well_formed |-> TRUE,
   condition |-> [size |-> 3, kind |-> <<"leaf", "leaf", kind>>, children |-> <<{}, {}, {1, 2}>>],
   leaf |-> <<first, second>>]

\* Every operator the repository's rules leave out, over every kind of field and retained
\* text, for one source or two categories.
OtherRules ==
  <<Two("b", {"process", "network", "file", "dns"}, AnySource, "all",
        At("context", "process_id", "greater_or_equal", Integer(3)),
        At("context", "process_id", "less_than", Integer(10))),
    Two("c", {"process"}, {"sysmon"}, "any",
        At("source_data", "RuleName", "not_equals", Text("-")),
        At("source_data", "RuleName", "exists", Omitted)),
    Two("a", {"network"}, {"sysmon"}, "all",
        At("context", "source_ip", "ip_in_cidr", Text("192.0.2.0/24")),
        At("context", "destination_ip", "not_in", List(<<Text("192.0.2.1")>>))),
    Two("d", EventCategory, AnySource, "all",
        At("event", "timestamp", "equals", Text("2024-05-01T00:00:00Z")),
        At("event", "record_id", "greater_than", Integer(0))),
    Two("e", {"process"}, {"windows_security"}, "any",
        At("context", "image", "starts_with", Text("C:\\Tools")),
        At("event", "event_id", "less_or_equal", Integer(3)))>>

\* Refused: a field only one of the categories has; a rule twice.
FieldOfOneCategory ==
  <<One("port", {"process", "network"}, AnySource,
        At("context", "source_port", "equals", Integer(443)))>>

MCLibraries ==
  {RepositoryRules, OtherRules, FieldOfOneCategory,
   <<dns_suspicious_query_marker, dns_suspicious_query_marker>>}

MCIdRank ==
  [id \in {r.id : r \in Rules} |->
     CASE id = "a" -> 0 [] id = "b" -> 1 [] id = "c" -> 2
       [] id = "certutil-suspicious-arguments" -> 3 [] id = "d" -> 4
       [] id = "dns-suspicious-query-marker" -> 5 [] id = "e" -> 6
       [] id = "failed-remote-authentication" -> 7 [] id = "port" -> 8
       [] id = "powershell-encoded-command" -> 9
       [] id = "powershell-network-connection" -> 10
       [] id = "startup-folder-file-activity" -> 11]

MCSegments ==
  UNION {DOMAIN CONTEXT_FIELDS[c] : c \in EventCategory} \cup {"RuleName"}

=============================================================================
