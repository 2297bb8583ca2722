------------------------------ MODULE RuleLibrary ------------------------------
(***************************************************************************)
(* The six rules under rules/windows, as the loader reads them, and what   *)
(* docs/architecture/detection-engine.md says they select, told of the XML *)
(* record alone.                                                           *)
(***************************************************************************)
EXTENDS Pipeline

Leaf(name, op, value) ==
  [field |-> [space |-> "context", name |-> name], op |-> op, value |-> value]

Rule(id, category, kind, children, leaf) ==
  [id |-> id, categories |-> {category}, sources |-> AnySource, well_formed |-> TRUE,
   condition |-> [size |-> Len(kind), kind |-> kind, children |-> children], leaf |-> leaf]

failed_remote_authentication ==
  Rule("failed-remote-authentication", "authentication",
       <<"leaf", "leaf", "all">>, <<{}, {}, {1, 2}>>,
       <<Leaf("outcome", "equals", Text("failure")),
         Leaf("logon_type", "in", List(<<Integer(3), Integer(10)>>))>>)

certutil_suspicious_arguments ==
  Rule("certutil-suspicious-arguments", "process",
       <<"leaf", "leaf", "all">>, <<{}, {}, {1, 2}>>,
       <<Leaf("image", "ends_with", Text("\\certutil.exe")),
         Leaf("command_line", "contains_any", List(<<Text(" -urlcache "), Text(" -decode ")>>))>>)

powershell_encoded_command ==
  Rule("powershell-encoded-command", "process",
       <<"leaf", "leaf", "any", "leaf", "all">>, <<{}, {}, {1, 2}, {}, {3, 4}>>,
       [n \in {1, 2, 4} |->
          CASE n = 1 -> Leaf("image", "ends_with", Text("\\powershell.exe"))
            [] n = 2 -> Leaf("image", "ends_with", Text("\\pwsh.exe"))
            [] n = 4 -> Leaf("command_line", "contains_any",
                             List(<<Text(" -EncodedCommand "), Text(" -encodedcommand "),
                                    Text(" -enc ")>>))])

dns_suspicious_query_marker ==
  Rule("dns-suspicious-query-marker", "dns", <<"leaf">>, <<{}>>,
       <<Leaf("query_name", "contains", Text("tunnel-test"))>>)

powershell_network_connection ==
  Rule("powershell-network-connection", "network",
       <<"leaf", "leaf", "any">>, <<{}, {}, {1, 2}>>,
       <<Leaf("process_image", "ends_with", Text("\\powershell.exe")),
         Leaf("process_image", "ends_with", Text("\\pwsh.exe"))>>)

startup_folder_file_activity ==
  Rule("startup-folder-file-activity", "file", <<"leaf">>, <<{}>>,
       <<Leaf("target_path", "contains", Text("\\Start Menu\\Programs\\Startup\\"))>>)

\* In order of the paths of their files.
RepositoryRules ==
  <<failed_remote_authentication, certutil_suspicious_arguments, powershell_encoded_command,
    dns_suspicious_query_marker, powershell_network_connection, startup_folder_file_activity>>

-----------------------------------------------------------------------------
(* What the rules are for.                                                 *)

\* What a record says under a name, without the white space around it.
Written(x, name) ==
  {Stripped[Data(x)[i].text] : i \in {j \in DOMAIN Data(x) : Data(x)[j].name = name}}

Is(x, provider, id) ==
  Stripped[x.provider] = provider /\ Decimal[Stripped[x.event_id]] = id

Security(x, id) == Is(x, "Microsoft-Windows-Security-Auditing", id)
Sysmon(x, id) == Is(x, "Microsoft-Windows-Sysmon", id)

Image(x) == IF Security(x, 4688) THEN Written(x, "NewProcessName") ELSE Written(x, "Image")

Contain(texts, parts) == \E t \in texts, p \in parts : <<p, t>> \in Occurs
EndWith(texts, parts) == \E t \in texts, p \in parts : <<p, t>> \in Ends

Certutil == {"\\certutil.exe"}
PowerShell == {"\\powershell.exe", "\\pwsh.exe"}
Downloads == {" -urlcache ", " -decode "}
Encoded == {" -EncodedCommand ", " -encodedcommand ", " -enc "}
Tunnel == {"tunnel-test"}
Startup == {"\\Start Menu\\Programs\\Startup\\"}

Markers == Certutil \cup PowerShell \cup Downloads \cup Encoded \cup Tunnel \cup Startup

\* No marker occurs in a text that says nothing: each is longer than "-".
ASSUME MarkersAssumption ==
  \A part \in Markers, text \in {"", "-"} : <<part, text>> \notin Occurs \cup Ends

Selects(x, id) ==
  \/ /\ id = "failed-remote-authentication"
     /\ Security(x, 4625)
     /\ \E t \in Written(x, "LogonType") : t \in DOMAIN Decimal /\ Decimal[t] \in {3, 10}
  \/ /\ id = "certutil-suspicious-arguments"
     /\ Security(x, 4688) \/ Sysmon(x, 1)
     /\ EndWith(Image(x), Certutil)
     /\ Contain(Written(x, "CommandLine"), Downloads)
  \/ /\ id = "powershell-encoded-command"
     /\ Security(x, 4688) \/ Sysmon(x, 1)
     /\ EndWith(Image(x), PowerShell)
     /\ Contain(Written(x, "CommandLine"), Encoded)
  \/ /\ id = "dns-suspicious-query-marker"
     /\ Sysmon(x, 22) /\ Contain(Written(x, "QueryName"), Tunnel)
  \/ /\ id = "powershell-network-connection"
     /\ Sysmon(x, 3) /\ EndWith(Image(x), PowerShell)
  \/ /\ id = "startup-folder-file-activity"
     /\ Sysmon(x, 11) /\ Contain(Written(x, "TargetFilename"), Startup)

\* With the repository's rules, the alerts of a record are those its own text calls for,
\* one for each rule: no conversion, dispatch, default or unknown on the way adds one or
\* loses one, unless the record is refused as a whole (detection-engine.md, the table of
\* match criteria).
AlertsAreWhatTheRulesSelect ==
  stage = "done" /\ library = RepositoryRules =>
    LET ids == [i \in DOMAIN alerts |-> alerts[i].rule.id]
    IN /\ Range(ids) =
            IF failure # "none" THEN {}
            ELSE {id \in {r.id : r \in Range(RepositoryRules)} : Selects(record, id)}
       /\ IsInjective(ids)

=============================================================================
