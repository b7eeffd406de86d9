---------------------------- MODULE SecondStreams ----------------------------
(***************************************************************************)
(* What the pipeline makes of a scan besides its fused records             *)
(* (rastreo-core/src/pipeline.rs, emit_target_records and the end of       *)
(* stream_discovery): every record is classified and indexed as it is      *)
(* emitted; once all are, TopologyAssembler joins the LLDP reports into    *)
(* links and CollectionProfileAssembler the gNMI capabilities into         *)
(* profiles, each naming the record of the device it is about.             *)
(*                                                                         *)
(* An outcome carries, besides what IdentityFuser reads, lldp and gnmi:    *)
(* empty, or one observation.  The links are a function of the chassis     *)
(* pair and the profiles one of the (identity, address) pair: sorting by   *)
(* those keys, as both finish functions do, adds nothing.  A rule's regex  *)
(* is the set of texts it matches, with what its groups capture there.     *)
(* Writing to the sink, and stopping at its first failure, is              *)
(* DiscoveryRun's.                                                         *)
(***************************************************************************)
EXTENDS IdentityFuser

CONSTANTS
  Lower,          \* a text trimmed and in lower case
  AddrOf,         \* canonical text -> address, for those that parse as one
  PlatformRules,  \* [signal, captures, platform, ssh, http]
  RoleRules,      \* [kind, signal, matches, role]
  Renderable,     \* the encodings the prober can ask for
  PathTable       \* model -> the curated subscriptions it suggests

\* Only an outcome that answered carries an observation (assemble_outcome of
\* prober/lldp.rs and of prober/gnmi/mod.rs).
ASSUME ObservationsAssumption ==
  \A t \in Targets : \A o \in ToSet(t.outcomes) :
    /\ o.lldp # <<>> \/ o.gnmi # <<>> => o.reachable
    /\ o.lldp # <<>> => o.lldp[1].neighbors \in Seq(ToSet(o.lldp[1].neighbors))
    /\ o.gnmi # <<>> => o.gnmi[1].encodings \in Seq(ToSet(o.gnmi[1].encodings))

ASSUME RulesAssumption ==
  PlatformRules \in Seq(ToSet(PlatformRules)) /\ RoleRules \in Seq(ToSet(RoleRules))

VARIABLES
  flow,      \* "fuse", "records" or "flushed"
  lldpSeen,  \* TopologyAssembler::observations
  gnmiSeen,  \* CollectionProfileAssembler::observations
  emitted,   \* the classified records
  byMac,     \* TopologyAssembler::mac_index
  byName,    \* TopologyAssembler::sys_name_index
  byAddr,    \* the addr_index, the same in both assemblers
  links,     \* {chassis, chassis} -> the link
  profiles   \* <<identity, address>> -> the profile

streamVars == <<flow, lldpSeen, gnmiSeen, emitted, byMac, byName, byAddr, links, profiles>>
allVars == <<vars, streamVars>>

NoIndex == <<>>

\* A text with nothing in it.
Blank == ""

-----------------------------------------------------------------------------
(* RulesClassifier *)

Texts(r, signal) == ToSet(Values(r.signals, signal))

\* platform_rule_match: what the rule captures from the first text it matches.
PlatformRuleMatch(rule, r) ==
  LET texts == Values(r.signals, rule.signal)
      hits == {i \in DOMAIN texts : texts[i] \in DOMAIN rule.captures}
  IN  IF hits = {} THEN <<>> ELSE <<rule.captures[texts[Min(hits)]]>>

\* Which slots of a record a rule can fill.
Declares(rule, slot) ==
  CASE slot = "platform" -> rule.platform # NoValue
    [] slot = "ssh" -> rule.ssh
    [] slot = "http" -> rule.http

\* A fused record has neither platform nor role yet.
Unclassified ==
  [platform |-> NoValue, os_version |-> NoValue, ssh_version |-> NoValue,
   http_server |-> NoValue, http_version |-> NoValue, want |-> {"platform", "ssh", "http"}]

\* One turn of apply_platform_rules: a rule that matches spends every slot it
\* claims, whether or not its group captured anything.
ApplyPlatformRule(r, acc, rule) ==
  LET claims == {slot \in acc.want : Declares(rule, slot)}
      match == PlatformRuleMatch(rule, r)
  IN  IF claims = {} \/ match = <<>>
        THEN acc
        ELSE [platform |-> IF "platform" \in claims THEN rule.platform ELSE acc.platform,
              os_version |-> IF "platform" \in claims THEN match[1].os ELSE acc.os_version,
              ssh_version |-> IF "ssh" \in claims THEN match[1].ssh ELSE acc.ssh_version,
              http_server |-> IF "http" \in claims THEN match[1].server ELSE acc.http_server,
              http_version |-> IF "http" \in claims /\ match[1].server # NoValue
                                 THEN match[1].version ELSE acc.http_version,
              want |-> acc.want \ claims]

ApplyPlatformRules(r) ==
  FoldLeft(LAMBDA acc, rule : ApplyPlatformRule(r, acc, rule), Unclassified, PlatformRules)

\* role_rule_matches: any text of the signal for an OID subtree or a regex,
\* every port of the rule for ports_open.
RoleRuleMatches(rule, r) ==
  IF rule.kind = "ports_open"
    THEN rule.matches \subseteq Texts(r, "OpenPort")
    ELSE rule.matches \cap Texts(r, rule.signal) # {}

Classify(r) ==
  LET found == ApplyPlatformRules(r)
      roles == {i \in DOMAIN RoleRules : RoleRuleMatches(RoleRules[i], r)}
      class == [platform |-> found.platform,
                os_version |-> found.os_version,
                ssh_version |-> found.ssh_version,
                http_server |-> found.http_server,
                http_version |-> found.http_version,
                role |-> IF roles = {} THEN NoValue ELSE RoleRules[Min(roles)].role]
  IN  [field \in DOMAIN class \cup DOMAIN r |->
         IF field \in DOMAIN class THEN class[field] ELSE r[field]]

-----------------------------------------------------------------------------
(* What the assemblers keep of a target's outcomes *)

LldpSeen(ip, o) ==
  LET seen == o.lldp[1]
  IN  [ip |-> ip, at |-> o.timestamp, subtype |-> seen.subtype, chassis |-> seen.chassis,
       via |-> seen.via, neighbors |-> seen.neighbors]

LldpOf(target) ==
  LET os == target.outcomes
  IN  Flatten([i \in DOMAIN os |->
                 IF os[i].lldp # <<>> THEN <<LldpSeen(target.ip, os[i])>> ELSE <<>>])

GnmiSeen(ip, o) ==
  [ip |-> ip, at |-> o.timestamp, port |-> o.gnmi[1].port, encodings |-> o.gnmi[1].encodings,
   version |-> Find(o.signals, "GnmiVersion"), models |-> Values(o.signals, "GnmiSupportedModel")]

HasCapability(g) == g.version # NoValue \/ g.models # <<>> \/ g.encodings # <<>>

GnmiOf(target) ==
  LET os == target.outcomes
  IN  Flatten([i \in DOMAIN os |->
                 IF os[i].kind = "Gnmi" /\ os[i].gnmi # <<>> /\ HasCapability(GnmiSeen(target.ip, os[i]))
                   THEN <<GnmiSeen(target.ip, os[i])>> ELSE <<>>])

\* observe_record: the first record to claim a key keeps it.
Claim(index, keys, r) ==
  [k \in DOMAIN index \cup keys |-> IF k \in DOMAIN index THEN index[k] ELSE r.identity_key]

MacKeys(r) ==
  {Canon[m] : m \in ({r.mac} \cup Texts(r, "Mac")) \ {NoValue}} \ {Blank}
NameKeys(r) ==
  {Canon[v] : v \in Texts(r, "SnmpSysName") \cup Texts(r, "ReverseDnsName")} \ {Blank}
AddrKeys(r) == {r.mgmt_ip} \cup {r.alt_ips[k].address : k \in DOMAIN r.alt_ips}

-----------------------------------------------------------------------------
(* TopologyAssembler::finish *)

NormalizeChassis(subtype, id) == IF subtype = "mac" THEN Canon[id] ELSE Lower[id]

\* The chassis the i-th observation calls its own.
Calls(i) == NormalizeChassis(lldpSeen[i].subtype, lldpSeen[i].chassis)

\* A probed device's own chassis names the record of the address probed, the
\* first observation winning.
ChassisToIdentity ==
  LET known == {i \in DOMAIN lldpSeen : lldpSeen[i].ip \in DOMAIN byAddr}
  IN  [key \in {Calls(i) : i \in known} \ {Blank} |->
         byAddr[lldpSeen[Min({i \in known : Calls(i) = key})].ip]]

\* One neighbour of one observation, as the two ends it describes.
Report(obs, nb) ==
  [at |-> obs.at, via |-> obs.via,
   local |-> [norm |-> NormalizeChassis(obs.subtype, obs.chassis),
              chassis |-> obs.chassis, subtype |-> obs.subtype,
              port |-> nb.local_port, own |-> TRUE, sys_name |-> NoValue],
   remote |-> [norm |-> NormalizeChassis(nb.subtype, nb.chassis),
               chassis |-> nb.chassis, subtype |-> nb.subtype,
               port |-> nb.port, own |-> FALSE, sys_name |-> nb.sys_name]]

EdgeKey(report) == {report.local.norm, report.remote.norm}

\* The reports that name two different chassis, neither of them blank.
IsLink(report) == Blank \notin EdgeKey(report) /\ report.local.norm # report.remote.norm
Reports ==
  Flatten([i \in DOMAIN lldpSeen |->
    LET nbs == lldpSeen[i].neighbors
        all == [k \in DOMAIN nbs |-> Report(lldpSeen[i], nbs[k])]
    IN  Flatten([k \in DOMAIN nbs |-> IF IsLink(all[k]) THEN <<all[k]>> ELSE <<>>])])

\* Mutant: an end's port, once known, is kept, whoever reported it.
TakesPortMutant(entry, o) == entry.port = Blank

\* What a device says of its own port replaces what its neighbour said.
TakesPort(entry, o) == entry.port = Blank \/ (o.own /\ ~entry.own)

NewEnd(o) ==
  [chassis |-> o.chassis, subtype |-> o.subtype, port |-> Blank, own |-> FALSE, sys_name |-> NoValue]

\* Edge::merge: one end, and one more report of it.
MergeEnd(entry, o) ==
  LET takes == o.port # Blank /\ TakesPort(entry, o)
  IN  [chassis |-> entry.chassis, subtype |-> entry.subtype,
       port |-> IF takes THEN o.port ELSE entry.port,
       own |-> IF takes THEN o.own ELSE entry.own,
       sys_name |-> IF entry.sys_name = NoValue THEN o.sys_name ELSE entry.sys_name]

\* What a link's reports say of its end norm, merged in order.
EndSaid(report, norm) == IF report.local.norm = norm THEN report.local ELSE report.remote
Said(reports, pair, norm) ==
  Flatten([i \in DOMAIN reports |->
             IF EdgeKey(reports[i]) = pair THEN <<EndSaid(reports[i], norm)>> ELSE <<>>])
MergedEnd(reports, pair, norm) ==
  LET said == Said(reports, pair, norm) IN FoldLeft(MergeEnd, NewEnd(said[1]), said)

Lookup(index, key) == IF key \in DOMAIN index THEN <<index[key]>> ELSE <<>>

\* The first of these that answers; empty for a neighbour nobody probed.
ResolveIdentity(norm, end, ownChassis) ==
  LET name == IF end.sys_name = NoValue THEN Blank ELSE Canon[end.sys_name]
      byChassis == CASE end.subtype = "mac" -> Lookup(byMac, norm)
                     [] end.subtype = "address" /\ norm \in DOMAIN AddrOf -> Lookup(byAddr, AddrOf[norm])
                     [] OTHER -> <<>>
      hits == Lookup(ownChassis, norm) \o byChassis \o Lookup(byName, name)
  IN  IF hits = <<>> THEN <<>> ELSE <<hits[1]>>

\* The end as it is published.
Endpoint(norm, end, ownChassis) ==
  [identity_key |-> ResolveIdentity(norm, end, ownChassis),
   chassis |-> end.chassis, sys_name |-> end.sys_name, port |-> end.port]

FinishLinks ==
  LET reports == Reports
      own == ChassisToIdentity
      Of(pair) == {i \in DOMAIN reports : EdgeKey(reports[i]) = pair}
  IN  [pair \in {EdgeKey(reports[i]) : i \in DOMAIN reports} |->
         [ends |-> [norm \in pair |-> Endpoint(norm, MergedEnd(reports, pair, norm), own)],
          discovered_via |-> {reports[i].via : i \in Of(pair)},
          observed_at |-> Latest({reports[i].at : i \in Of(pair)})]]

-----------------------------------------------------------------------------
(* CollectionProfileAssembler::finish *)

RecommendedEncoding(advertised) ==
  LET usable == {i \in DOMAIN advertised : advertised[i] \in Renderable}
  IN  IF Contains(advertised, "JSON_IETF") \/ usable = {} THEN "JSON_IETF" ELSE advertised[Min(usable)]

SuggestedSubscriptions(models) ==
  Flatten([i \in DOMAIN models |-> IF models[i] \in DOMAIN PathTable THEN PathTable[models[i]] ELSE <<>>])

Profile(g) ==
  [port |-> g.port, version |-> g.version, models |-> g.models,
   encoding |-> RecommendedEncoding(g.encodings),
   subscriptions |-> SuggestedSubscriptions(g.models),
   observed_at |-> g.at]

\* The first observation of an (identity, address) pair is the profile.
FinishProfiles ==
  LET known == {i \in DOMAIN gnmiSeen : gnmiSeen[i].ip \in DOMAIN byAddr}
      KeyOf(i) == <<byAddr[gnmiSeen[i].ip], gnmiSeen[i].ip>>
  IN  [key \in {KeyOf(i) : i \in known} |-> Profile(gnmiSeen[Min({i \in known : KeyOf(i) = key})])]

-----------------------------------------------------------------------------
(* Actions *)

StreamsInit ==
  /\ Init
  /\ flow = "fuse"
  /\ lldpSeen = <<>> /\ gnmiSeen = <<>> /\ emitted = <<>>
  /\ byMac = NoIndex /\ byName = NoIndex /\ byAddr = NoIndex
  /\ links = NoIndex /\ profiles = NoIndex

\* emit_target_records: the assemblers read the outcomes, then the fuser does.
EmitTargetRecords ==
  /\ \E target \in Targets :
       /\ lldpSeen' = lldpSeen \o LldpOf(target)
       /\ gnmiSeen' = gnmiSeen \o GnmiOf(target)
       /\ IngestTarget(target)
  /\ UNCHANGED <<flow, emitted, byMac, byName, byAddr, links, profiles>>

\* fuser.finish, step by step.
FuserFinish ==
  /\ FinishFew \/ FinishMany \/ Unite \/ EmitGroup
  /\ flow' = IF stage' = "done" THEN "records" ELSE flow
  /\ UNCHANGED <<lldpSeen, gnmiSeen, emitted, byMac, byName, byAddr, links, profiles>>

\* The loop over the tail: classify, then index.
EmitRecord ==
  /\ flow = "records" /\ Len(emitted) < Len(out)
  /\ LET r == Classify(out[Len(emitted) + 1])
     IN  /\ emitted' = Append(emitted, r)
         /\ byMac' = Claim(byMac, MacKeys(r), r)
         /\ byName' = Claim(byName, NameKeys(r), r)
         /\ byAddr' = Claim(byAddr, AddrKeys(r), r)
  /\ UNCHANGED <<vars, flow, lldpSeen, gnmiSeen, links, profiles>>

\* The second streams flush after every device record.
FlushStreams ==
  /\ flow = "records" /\ Len(emitted) = Len(out)
  /\ links' = FinishLinks
  /\ profiles' = FinishProfiles
  /\ flow' = "flushed"
  /\ UNCHANGED <<vars, lldpSeen, gnmiSeen, emitted, byMac, byName, byAddr>>

Flushed == flow = "flushed" /\ UNCHANGED allVars

StreamsNext == EmitTargetRecords \/ FuserFinish \/ EmitRecord \/ FlushStreams \/ Flushed

StreamsSpec == StreamsInit /\ [][StreamsNext]_allVars

-----------------------------------------------------------------------------
(* Properties *)

\* index holds exactly the keys of the records in recs, each with the
\* identity of the first record that has it; keys[k] are those of recs[k].
FirstClaimWins(index, recs, keys) ==
  /\ DOMAIN index = UNION {keys[k] : k \in DOMAIN recs}
  /\ \A key \in DOMAIN index :
       \E k \in DOMAIN recs :
         /\ key \in keys[k]
         /\ index[key] = recs[k].identity_key
         /\ \A j \in DOMAIN recs : key \in keys[j] => k <= j

\* IndexesExact: at every moment the address, MAC and name indexes that
\* links and profiles are resolved with answer for all the records emitted
\* so far and for nothing else, the earliest record winning.
IndexesExact ==
  /\ FirstClaimWins(byAddr, emitted, [k \in DOMAIN emitted |-> AddrKeys(emitted[k])])
  /\ FirstClaimWins(byMac, emitted, [k \in DOMAIN emitted |-> MacKeys(emitted[k])])
  /\ FirstClaimWins(byName, emitted, [k \in DOMAIN emitted |-> NameKeys(emitted[k])])

\* The emitted records that answer for an address.
OwnersOf(address) == {k \in DOMAIN emitted : address \in AddrKeys(emitted[k])}

\* The chassis the i-th observation calls its k-th neighbour.
NeighborAt(i, k) ==
  LET nb == lldpSeen[i].neighbors[k] IN NormalizeChassis(nb.subtype, nb.chassis)

\* Every place in the scan where chassis a was seen to have neighbour b.
Sighted == UNION {{i} \X DOMAIN lldpSeen[i].neighbors : i \in DOMAIN lldpSeen}
Sightings(a, b) == {s \in Sighted : Calls(s[1]) = a /\ NeighborAt(s[1], s[2]) = b}

\* The link between a and b is one record, however often and from whichever
\* side it was seen; a's port is a's own word for it where a gave one; a's
\* identity is that of a record that answers for an address a was probed at,
\* and one that only b reports, by its MAC, is not left without an identity
\* when a record has that MAC.
EndRight(a, b) ==
  LET end == links[{a, b}].ends[a]
      mine == {lldpSeen[s[1]].neighbors[s[2]].local_port : s \in Sightings(a, b)} \ {Blank}
      theirs == {lldpSeen[s[1]].neighbors[s[2]].port : s \in Sightings(b, a)} \ {Blank}
      probedAt == {lldpSeen[i].ip : i \in {j \in DOMAIN lldpSeen : Calls(j) = a}}
  IN  /\ end.port \in IF mine # {} THEN mine ELSE IF theirs # {} THEN theirs ELSE {Blank}
      /\ \A k \in DOMAIN end.identity_key :
           \E e \in DOMAIN emitted : emitted[e].identity_key = end.identity_key[k]
      /\ probedAt # {} =>
           \E address \in probedAt : \E e \in OwnersOf(address) :
             end.identity_key = <<emitted[e].identity_key>>
      /\ (/\ end.identity_key = <<>>
          /\ \A s \in Sightings(b, a) : lldpSeen[s[1]].neighbors[s[2]].subtype = "mac")
           => \A e \in DOMAIN emitted : a \notin MacKeys(emitted[e])

Chassis ==
  ({Calls(i) : i \in DOMAIN lldpSeen}
     \cup UNION {{NeighborAt(i, k) : k \in DOMAIN lldpSeen[i].neighbors} : i \in DOMAIN lldpSeen})
    \ {Blank}

LinksRight ==
  /\ DOMAIN links =
       {{p[1], p[2]} : p \in {q \in Chassis \X Chassis : q[1] # q[2] /\ Sightings(q[1], q[2]) # {}}}
  /\ \A a, b \in Chassis :
       {a, b} \in DOMAIN links =>
         LET seen == Sightings(a, b) \cup Sightings(b, a)
         IN  /\ EndRight(a, b)
             /\ links[{a, b}].discovered_via = {lldpSeen[s[1]].via : s \in seen}
             /\ links[{a, b}].observed_at = Latest({lldpSeen[s[1]].at : s \in seen})

\* One profile for each address that advertised a capability, under the
\* identity of a record that answers for it, with what one endpoint at that
\* address said and nothing from the device's other addresses.
ProfilesRight ==
  /\ {key[2] : key \in DOMAIN profiles} = {gnmiSeen[i].ip : i \in DOMAIN gnmiSeen}
  /\ \A key, other \in DOMAIN profiles : key[2] = other[2] => key = other
  /\ \A key \in DOMAIN profiles :
       /\ \E e \in OwnersOf(key[2]) : emitted[e].identity_key = key[1]
       /\ \E i \in DOMAIN gnmiSeen :
            /\ gnmiSeen[i].ip = key[2]
            /\ gnmiSeen[i].models = profiles[key].models
            /\ profiles[key].encoding \in ToSet(gnmiSeen[i].encodings) \cup {"JSON_IETF"}

\* The rules that match one of r's signals and would fill a slot.
Filling(r, slot) ==
  {i \in DOMAIN PlatformRules :
     /\ Declares(PlatformRules[i], slot)
     /\ Texts(r, PlatformRules[i].signal) \cap DOMAIN PlatformRules[i].captures # {}}

\* Each slot is filled, independently of the others, by the first rule that
\* matches and declares it, and the role by the first role rule that matches.
ClassifiedRight(r) ==
  LET First(S) == CHOOSE i \in S : \A j \in S : i <= j
      Captured(S) == PlatformRuleMatch(PlatformRules[First(S)], r)[1]
      platforms == Filling(r, "platform")
      banners == Filling(r, "ssh")
      servers == Filling(r, "http")
      roles == {i \in DOMAIN RoleRules : RoleRuleMatches(RoleRules[i], r)}
  IN  /\ r.platform = IF platforms = {} THEN NoValue ELSE PlatformRules[First(platforms)].platform
      /\ r.os_version = IF platforms = {} THEN NoValue ELSE Captured(platforms).os
      /\ r.ssh_version = IF banners = {} THEN NoValue ELSE Captured(banners).ssh
      /\ r.http_server = IF servers = {} THEN NoValue ELSE Captured(servers).server
      /\ r.http_version # NoValue => r.http_server # NoValue
      /\ r.role = IF roles = {} THEN NoValue ELSE RoleRules[First(roles)].role

\* StreamsJoin: once a scan's streams are flushed, whatever order its
\* targets came in and however the fuser merged them, every link is one
\* record with its ends as their own devices describe them, every profile
\* describes one address, both name the emitted record of the device they
\* are about, and every record carries what the first matching rules say.
StreamsJoin ==
  flow = "flushed" =>
    /\ LinksRight
    /\ ProfilesRight
    /\ \A e \in DOMAIN emitted : ClassifiedRight(emitted[e])
=============================================================================
