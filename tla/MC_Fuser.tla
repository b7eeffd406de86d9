------------------------------ MODULE MC_Fuser ------------------------------
(***************************************************************************)
(* Instances of SecondStreams for TLC: scans of up to four targets, each   *)
(* reporting one of ten results that agree on some signals and differ on   *)
(* others; one name and one MAC come in two spellings; an address may be   *)
(* probed twice; addresses 1 and 3 are declared VRRP members.  Addresses   *)
(* 1, 2, 3 and 5 report LLDP neighbours: 1 and 2 each other, 3 itself,     *)
(* a blank and 1, 5 the addresses of 4 and of nobody; 3 and 4 answer gNMI. *)
(***************************************************************************)
EXTENDS SecondStreams

Sig(tag, val) == [tag |-> tag, val |-> val]
Reach(kind, at, signals) ==
  [kind |-> kind, reachable |-> TRUE, timestamp |-> at, signals |-> signals,
   lldp |-> <<>>, gnmi |-> <<>>]
Silent(kind) == [Reach(kind, 1, <<>>) EXCEPT !.reachable = FALSE]
Lldp(o, subtype, chassis, via, neighbors) ==
  [o EXCEPT !.lldp = <<[subtype |-> subtype, chassis |-> chassis, via |-> via, neighbors |-> neighbors]>>]
Neighbor(local_port, subtype, chassis, port, sys_name) ==
  [local_port |-> local_port, subtype |-> subtype, chassis |-> chassis,
   port |-> port, sys_name |-> sys_name]
Gnmi(o, port, encodings) == [o EXCEPT !.gnmi = <<[port |-> port, encodings |-> encodings]>>]
On(ip, outcomes) == [ip |-> ip, outcomes |-> outcomes]

\* 1 and 2 see each other: 1 has 2's port wrong, 2 does not know 1's.
LldpOn1(o) == Lldp(o, "mac", "M", "lldp", <<Neighbor("p1", "local", "C2", "wrong", NoValue)>>)
LldpOn2(o) == Lldp(o, "local", "c2", "gnmi", <<Neighbor("p2", "mac", "m", "", "core")>>)
LldpOn3(o) ==
  Lldp(o, "address", "a3", "gnmi",
       <<Neighbor("p3", "address", "a3", "loop", NoValue), Neighbor("p3", "local", "", "x", NoValue),
         Neighbor("", "mac", "m", "seen by 3", NoValue)>>)
LldpOn5(o) ==
  Lldp(o, "mac", "v", "lldp",
       <<Neighbor("p5", "address", "a4", "p4", "core"), Neighbor("p6", "address", "a9", "p9", "nobody")>>)

MCTargets ==
  {On(1, <<Silent("Icmp"),
           LldpOn1(Reach("Snmp", 2, <<Sig("Mac", "m"), Sig("SnmpSysName", "core")>>))>>),
   On(1, <<Reach("Ssh", 1, <<Sig("SshHostKey", "k"), Sig("SnmpSysName", "")>>)>>),
   On(2, <<Reach("Arp", 3, <<Sig("Mac", "M")>>),
           LldpOn2(Reach("Snmp", 1, <<Sig("SnmpSysName", "CORE"), Sig("SshHostKey", "k")>>))>>),
   On(3, <<Reach("Snmp", 2, <<Sig("SnmpSysName", "core")>>)>>),
   On(3, <<LldpOn3(Reach("Tls", 2, <<Sig("TlsSubject", "s"), Sig("TlsSanName", "a"), Sig("TlsSanName", "b"),
                                     Sig("SnmpSysObjectId", "oid1"), Sig("SshHostKey", "k"),
                                     Sig("SshBanner", "banner"), Sig("OpenPort", "22")>>)),
           Gnmi(Reach("Gnmi", 2, <<Sig("GnmiSupportedModel", "interfaces")>>), 57400, <<"BYTES", "PROTO">>)>>),
   On(3, <<Silent("Icmp")>>),
   On(4, <<Reach("Tls", 1, <<Sig("TlsSubject", "s"), Sig("TlsSanName", "b")>>)>>),
   On(4, <<Reach("Tls", 1, <<Sig("TlsSubject", "s"), Sig("TlsSanName", "b"),
                             Sig("SnmpSysObjectId", "oid2")>>)>>),
   On(4, <<Reach("Dns", 1, <<Sig("ReverseDnsName", "CORE"), Sig("Mac", "m")>>),
           Gnmi(Reach("Gnmi", 1, <<>>), 9339, <<>>),
           Gnmi(Reach("Gnmi", 2, <<>>), 57400, <<"JSON">>)>>),
   On(5, <<Reach("Arp", 1, <<Sig("Mac", "v")>>),
           LldpOn5(Reach("Dns", 1, <<Sig("ReverseDnsName", "core"), Sig("SnmpSysName", "core")>>))>>)}

MCCanon ==
  [v \in {"m", "M", "v", "core", "CORE", "acme", "other", "nobody", "none", ""} |->
     CASE v = "M" -> "m" [] v = "CORE" -> "core" [] OTHER -> v]
MCMacRole == [v \in {"v"} |-> "vrrp"]
MCMibTable == [o \in {"oid1", "oid2"} |-> IF o = "oid1" THEN "acme" ELSE "other"]
MCVrrpGroups == {[virtual_mac |-> "v", members |-> {1, 3}]}

MCLower == [v \in {"C2", "c2", "a3", "a4", "a9", ""} |-> IF v = "C2" THEN "c2" ELSE v]
MCAddrOf == [v \in {"a3", "a4", "a9"} |-> CASE v = "a3" -> 3 [] v = "a4" -> 4 [] OTHER -> 9]

Captures(os, ssh, server, version) == [os |-> os, ssh |-> ssh, server |-> server, version |-> version]
\* The first spends the http slot with nothing captured; the third is tried
\* for ssh_version also where the second has named the platform.
MCPlatformRules ==
  <<[signal |-> "SnmpSysObjectId", platform |-> NoValue, ssh |-> FALSE, http |-> TRUE,
     captures |-> [t \in {"oid1"} |-> Captures(NoValue, NoValue, NoValue, "1")]],
    [signal |-> "SnmpSysName", platform |-> "ios", ssh |-> FALSE, http |-> FALSE,
     captures |-> [t \in {"core", "CORE"} |-> Captures("15", NoValue, NoValue, NoValue)]],
    [signal |-> "SshBanner", platform |-> "linux", ssh |-> TRUE, http |-> TRUE,
     captures |-> [t \in {"banner"} |-> Captures("6", "OpenSSH", "nginx", "2")]]>>
MCRoleRules ==
  <<[kind |-> "ports_open", signal |-> NoValue, matches |-> {"22", "443"}, role |-> "server"],
    [kind |-> "sys_object_id_prefix", signal |-> "SnmpSysObjectId", matches |-> {"oid1", "oid2"}, role |-> "switch"],
    [kind |-> "signal_match", signal |-> "SnmpSysName", matches |-> {"core"}, role |-> "router"]>>
MCRenderable == {"JSON", "PROTO", "ASCII", "JSON_IETF"}
MCPathTable == [v \in {"interfaces"} |-> <<"if_counters", "if_oper_status">>]
=============================================================================
