--------------------------- MODULE IdentityFuser ---------------------------
(***************************************************************************)
(* Fusion of a scan's probe outcomes into device records (rastreo-core/    *)
(* src/fuser): DirectFuser makes a record per target, MibEnrichmentFuser   *)
(* adds its manufacturer, IdentityFuser buffers the records and, in        *)
(* finish, merges the ones that describe one device.                       *)
(*                                                                         *)
(* A signal is [tag, val].  Values are opaque; Canon is what normalize_mac *)
(* and normalize_sys_name make of them, MacRole the virtual-router prefix  *)
(* of a canonical MAC.  Weights and confidences are in tenths.  (In f64    *)
(* every sum of the weights falls in the band it has in tenths, and two    *)
(* sums below the high band are equal exactly when they are in tenths.)    *)
(* manufacturer stands for all the fields merge_group takes from the best  *)
(* record or else from the first that has one.                             *)
(***************************************************************************)
EXTENDS UnionFind, SequencesExt

CONSTANTS
  Targets,            \* [ip, outcomes]: what the probers may report
  MaxTargets,         \* bound on the targets of a scan
  Canon,              \* the canonical form of each value
  MacRole,            \* canonical MAC -> "vrrp" or "hsrp", if virtual
  MibTable,           \* sysObjectID -> manufacturer
  VrrpGroups,         \* identity_hints.vrrp_groups: [virtual_mac, members]
  MaxBucket,          \* identity_hints.max_correlation_bucket
  IncludeUnreachable, \* DirectFuser::include_unreachable
  Baseline,           \* DirectFuser::confidence_baseline
  PerSignal           \* DirectFuser::confidence_per_signal

ASSUME ConfidenceAssumption == Baseline \in 0 .. 10 /\ PerSignal \in Nat

\* The outcomes of a target are a sequence, each with its signals in order.
ASSUME TargetsAssumption ==
  \A t \in Targets :
    /\ t.outcomes \in Seq(ToSet(t.outcomes))
    /\ \A o \in ToSet(t.outcomes) : o.timestamp \in Nat /\ o.signals \in Seq(ToSet(o.signals))

VARIABLES
  stage,     \* "ingest", "unite", "merge" or "done"
  fed,       \* targets ingested so far
  buffer,    \* IdentityFuser::buffer
  records,   \* what finish took out of the buffer
  weights,   \* compute_pair_weights: <<i, j>> -> weight
  out        \* the records finish has produced so far

fuserVars == <<stage, fed, buffer, records, weights, out>>
vars == <<ufVars, fuserVars>>

NoValue == "none"

TypeOK ==
  /\ UfTypeOK
  /\ stage \in {"ingest", "unite", "merge", "done"}
  /\ fed \in 0 .. MaxTargets
  /\ Len(buffer) <= fed
  /\ DOMAIN weights \subseteq Pairs
  /\ \A k \in DOMAIN out : out[k].confidence \in 0 .. 10

-----------------------------------------------------------------------------
(* DirectFuser and MibEnrichmentFuser *)

\* The first of each, in order.
Dedup(s) == FoldLeft(LAMBDA acc, x : IF Contains(acc, x) THEN acc ELSE Append(acc, x), <<>>, s)

Flatten(seqs) == FoldLeft(LAMBDA acc, s : acc \o s, <<>>, seqs)

Values(signals, tag) ==
  LET hits == SelectSeq(signals, LAMBDA s : s.tag = tag)
  IN  [i \in DOMAIN hits |-> hits[i].val]

\* find_sysname and its like: the first value under a tag.
Find(signals, tag) == LET vs == Values(signals, tag) IN IF vs = <<>> THEN NoValue ELSE vs[1]

AtMost10(c) == IF c > 10 THEN 10 ELSE c

Latest(stamps) == CHOOSE s \in stamps : \A t \in stamps : t <= s

\* fuse_one: no record for a target nobody reached, unless asked for.
FuseOne(target) ==
  LET os == target.outcomes
      signals == Dedup(Flatten([i \in DOMAIN os |-> os[i].signals]))
      mac == Find(Flatten([i \in DOMAIN os |-> os[i].signals]), "Mac")
      answered == SelectSeq(os, LAMBDA o : o.reachable)
  IN  IF os = <<>> \/ (~(\E i \in DOMAIN os : os[i].reachable) /\ ~IncludeUnreachable)
        THEN <<>>
        ELSE <<[identity_key |-> IF mac = NoValue THEN <<"ip", target.ip>> ELSE <<"mac", mac>>,
                mgmt_ip |-> target.ip,
                mac |-> mac,
                manufacturer |-> NoValue,
                confidence |-> AtMost10(Baseline + Len(signals) * PerSignal),
                last_seen |-> Latest({os[i].timestamp : i \in DOMAIN os}),
                signals |-> signals,
                probe_kinds |-> Dedup([i \in DOMAIN answered |-> answered[i].kind]),
                alt_ips |-> <<>>,
                possible_alias_of |-> <<>>]>>

\* enrich and fill_if_empty.
Enrich(r) ==
  LET oid == Find(r.signals, "SnmpSysObjectId")
  IN  IF oid \in DOMAIN MibTable /\ r.manufacturer = NoValue
        THEN [r EXCEPT !.manufacturer = MibTable[oid]]
        ELSE r

-----------------------------------------------------------------------------
(* Which pairs of records agree, and how strongly *)

HintSaysVirtual(mac) == \E g \in VrrpGroups : Canon[g.virtual_mac] = Canon[mac]
IsVirtualMac(mac) == Canon[mac] \in DOMAIN MacRole

\* mac_equal and eq_ignore_ascii_case.
SameName(a, b) == Canon[a] = Canon[b]

One(r, tag) == {Find(r.signals, tag)} \ {NoValue, ""}
All(r, tag) == ToSet(Values(r.signals, tag)) \ {""}

\* The contribute_ functions, by signal.
Agree(a, b, tag) ==
  CASE tag = "Mac" ->
         /\ NoValue \notin {a.mac, b.mac} /\ SameName(a.mac, b.mac)
         /\ ~IsVirtualMac(a.mac) /\ ~HintSaysVirtual(a.mac)
    [] tag = "SnmpSysName" -> \E x \in One(a, tag), y \in One(b, tag) : SameName(x, y)
    [] tag \in {"SshHostKey", "TlsSubject"} -> One(a, tag) \cap One(b, tag) # {}
    [] tag = "TlsSanName" -> All(a, tag) \cap All(b, tag) # {}
    [] tag = "ReverseDnsName" -> \E x \in All(a, tag), y \in All(b, tag) : SameName(x, y)

Weight == [Mac |-> 5, SnmpSysName |-> 5, SshHostKey |-> 8, TlsSubject |-> 3,
           TlsSanName |-> 5, ReverseDnsName |-> 5]
ConflictingManufacturer == 3
VrrpMemberCap == 4
HighBand == 8
MediumBand == 4

DeclaredVrrpMembers(a, b) == \E g \in VrrpGroups : {a.mgmt_ip, b.mgmt_ip} \subseteq g.members

\* pair_weight.
PairWeight(a, b) ==
  LET agreed == MapThenSumSet(LAMBDA tag : Weight[tag],
                              {tag \in DOMAIN Weight : Agree(a, b, tag)})
      conflict == /\ NoValue \notin {a.manufacturer, b.manufacturer}
                  /\ ~SameName(a.manufacturer, b.manufacturer)
      w == IF conflict THEN agreed - ConflictingManufacturer ELSE agreed
  IN  IF DeclaredVrrpMembers(a, b) /\ w > VrrpMemberCap THEN VrrpMemberCap ELSE w

\* Mutant: names are bucketed as spelled, though compared without case.
SameBucketNameMutant(v) == v

\* normalize_sys_name.
SameBucketName(v) == Canon[v]

\* bucket_keys: the values under which a record is looked up.
BucketKeys(r) ==
  LET macs == IF r.mac = NoValue \/ IsVirtualMac(r.mac) \/ HintSaysVirtual(r.mac)
                THEN {} ELSE {Canon[r.mac]}
  IN  {<<"Mac", v>> : v \in macs}
        \cup {<<"SnmpSysName", SameBucketName(v)>> : v \in One(r, "SnmpSysName")}
        \cup {<<"SshHostKey", v>> : v \in One(r, "SshHostKey")}
        \cup {<<"TlsSubject", v>> : v \in One(r, "TlsSubject")}
        \cup {<<"TlsSanName", v>> : v \in All(r, "TlsSanName")}
        \cup {<<"ReverseDnsName", SameBucketName(v)>> : v \in All(r, "ReverseDnsName")}

AllPairs(rs) == {p \in (DOMAIN rs) \X (DOMAIN rs) : p[1] < p[2]}
Bucket(rs, key) == {i \in DOMAIN rs : key \in BucketKeys(rs[i])}

\* A value shared by more records than the cap proposes no pair.
OverCap(bucket) == Cardinality(bucket) > MaxBucket

Candidates(rs) ==
  {p \in AllPairs(rs) :
     \E key \in BucketKeys(rs[p[1]]) \cap BucketKeys(rs[p[2]]) : ~OverCap(Bucket(rs, key))}

\* compute_pair_weights, as a function on the pairs with a positive weight.
PositiveWeights(rs, pairs) ==
  [p \in {q \in pairs : PairWeight(rs[q[1]], rs[q[2]]) > 0} |-> PairWeight(rs[p[1]], rs[p[2]])]

ComputePairWeights(rs) == PositiveWeights(rs, Candidates(rs))

-----------------------------------------------------------------------------
(* Merging *)

\* The numbers of a set, the smallest first.
InOrder(S) ==
  [k \in 1 .. Cardinality(S) |-> CHOOSE i \in S : Cardinality({j \in S : j < i}) = k - 1]

\* merge_components: the groups, by their first member.
Members(i) == {j \in Nodes : comp[j] = comp[i]}
Groups ==
  LET firsts == InOrder({i \in Nodes : \A j \in Members(i) : i <= j})
  IN  [g \in DOMAIN firsts |-> InOrder(Members(firsts[g]))]

\* collect_medium_peers: the peers of i outside its own component.
PairOf(i, j) == IF i < j THEN <<i, j>> ELSE <<j, i>>
MediumPeers(i) ==
  {j \in Nodes \ Members(i) :
     /\ PairOf(i, j) \in DOMAIN weights
     /\ weights[PairOf(i, j)] \in MediumBand .. HighBand - 1}

\* Mutant: of peers that tie on confidence and weight the last one wins.
BetterPeerMutant(i, j, k) ==
  LET cj == records[j].confidence
      ck == records[k].confidence
      wj == weights[PairOf(i, j)]
      wk == weights[PairOf(i, k)]
  IN  cj > ck \/ (cj = ck /\ wj >= wk)

\* pick_best_medium_peer: j replaces the best peer so far, k.
BetterPeer(i, j, k) ==
  LET cj == records[j].confidence
      ck == records[k].confidence
      wj == weights[PairOf(i, j)]
      wk == weights[PairOf(i, k)]
  IN  cj > ck \/ (cj = ck /\ wj > wk) \/ (cj = ck /\ wj = wk /\ j < k)

PickBestMediumPeer(i, peers) ==
  FoldLeft(LAMBDA best, j : IF best = 0 \/ BetterPeer(i, j, best) THEN j ELSE best, 0, peers)

\* A record nothing merged with; peers is its list of medium peers.
Single(i, peers) ==
  LET best == PickBestMediumPeer(i, peers)
  IN  IF best = 0 THEN records[i]
                  ELSE [records[i] EXCEPT !.possible_alias_of = <<records[best].identity_key>>]

FirstMost(members) ==
  FoldLeft(LAMBDA best, i : IF records[i].confidence > records[best].confidence THEN i ELSE best,
           members[1], members)

FirstNonNone(members, best, Field(_)) ==
  LET has == {k \in DOMAIN members : Field(records[members[k]]) # NoValue}
  IN  CASE Field(records[best]) # NoValue -> Field(records[best])
        [] Field(records[best]) = NoValue /\ has # {} -> Field(records[members[Min(has)]])
        [] OTHER -> NoValue

AltIpRole(mac) ==
  IF mac # NoValue /\ Canon[mac] \in DOMAIN MacRole THEN MacRole[Canon[mac]] ELSE "secondary"

SeenFirst(members) == {records[members[1]].mgmt_ip}

AltIps(members) ==
  FoldLeft(LAMBDA alts, i :
             LET r == records[i]
             IN  IF r.mgmt_ip \in SeenFirst(members) \cup {alts[k].address : k \in DOMAIN alts}
                   THEN alts
                   ELSE Append(alts, [address |-> r.mgmt_ip,
                                      role |-> AltIpRole(r.mac),
                                      responded_via |-> r.probe_kinds]),
           <<>>, Tail(members))

\* MERGE_CONFIDENCE_BONUS, clamped.
Bonus(c) == AtMost10(c + 1)

MergeGroup(members) ==
  LET best == FirstMost(members)
  IN  [identity_key |-> records[best].identity_key,
       mgmt_ip |-> records[members[1]].mgmt_ip,
       mac |-> FirstNonNone(members, best, LAMBDA r : r.mac),
       manufacturer |-> FirstNonNone(members, best, LAMBDA r : r.manufacturer),
       confidence |-> Bonus(records[best].confidence),
       last_seen |-> Latest({records[i].last_seen : i \in ToSet(members)}),
       signals |-> Dedup(Flatten([k \in DOMAIN members |-> records[members[k]].signals])),
       probe_kinds |-> Dedup(Flatten([k \in DOMAIN members |-> records[members[k]].probe_kinds])),
       alt_ips |-> AltIps(members),
       possible_alias_of |-> <<>>]

-----------------------------------------------------------------------------
(* Actions *)

Init ==
  /\ UfOff
  /\ stage = "ingest"
  /\ fed = 0
  /\ buffer = <<>> /\ records = <<>> /\ out = <<>>
  /\ weights = <<>>

\* The pipeline hands over one target's outcomes; the record is held back.
IngestTarget(target) ==
  /\ stage = "ingest" /\ fed < MaxTargets
  /\ LET fused == FuseOne(target)
     IN  buffer' = buffer \o [i \in DOMAIN fused |-> Enrich(fused[i])]
  /\ fed' = fed + 1
  /\ UNCHANGED <<ufVars, stage, records, weights, out>>

Ingest == \E target \in Targets : IngestTarget(target)

\* finish with nothing to correlate.
FinishFew ==
  /\ stage = "ingest" /\ Len(buffer) <= 1
  /\ out' = buffer
  /\ buffer' = <<>>
  /\ stage' = "done"
  /\ UNCHANGED <<ufVars, fed, records, weights>>

\* finish: the weights, and an empty union-find.
FinishMany ==
  /\ stage = "ingest" /\ Len(buffer) > 1
  /\ records' = buffer
  /\ buffer' = <<>>
  /\ weights' = ComputePairWeights(buffer)
  /\ UfBegin(Len(buffer), {p \in DOMAIN weights' : weights'[p] >= HighBand})
  /\ stage' = "unite"
  /\ UNCHANGED <<fed, out>>

Unite ==
  /\ stage = "unite"
  /\ UfStep
  /\ stage' = IF uf' = "ready" THEN "merge" ELSE stage
  /\ UNCHANGED <<fed, buffer, records, weights, out>>

\* The next group of merge_components.  A record's medium peers were listed
\* in the order the HashSet gave the pairs.
EmitGroup ==
  /\ stage = "merge"
  /\ LET members == Groups[Len(out) + 1]
     IN  \/ /\ Len(members) = 1
            /\ \E peers \in SetToSeqs(MediumPeers(members[1])) :
                 out' = Append(out, Single(members[1], peers))
         \/ /\ Len(members) > 1
            /\ out' = Append(out, MergeGroup(members))
  /\ stage' = IF Len(out') = Len(Groups) THEN "done" ELSE stage
  /\ UNCHANGED <<ufVars, fed, buffer, records, weights>>

Done == stage = "done" /\ UNCHANGED vars

Next == Ingest \/ FinishFew \/ FinishMany \/ Unite \/ EmitGroup \/ Done

Spec == Init /\ [][Next]_vars

-----------------------------------------------------------------------------
(* Properties *)

Correlated == stage = "done" /\ records # <<>>

\* BucketsLoseNothing: when no value is over the cap, looking records up by
\* shared value (bucket_keys) weighs every pair that comparing all pairs
\* with each other (the contribute_ functions) would give a weight: the two
\* hand-written notions of "shares a signal" agree.
BucketsLoseNothing ==
  (stage # "ingest" /\ ~\E i \in DOMAIN records : \E key \in BucketKeys(records[i]) :
                           OverCap(Bucket(records, key)))
    => weights = PositiveWeights(records, AllPairs(records))

\* The records a chain of high-band pairs connects i to.
ConnectedTo(i) ==
  {j \in Nodes : \A S \in SUBSET Nodes :
     (i \in S /\ \A p \in high : p[1] \in S <=> p[2] \in S) => j \in S}

\* The peer the documentation names: highest confidence, then pair weight,
\* then earliest input position.
DocumentedPeer(i) ==
  {j \in MediumPeers(i) :
     \A k \in MediumPeers(i) \ {j} :
       LET cj == records[j].confidence
           ck == records[k].confidence
           wj == PairWeight(records[i], records[j])
           wk == PairWeight(records[i], records[k])
       IN  cj > ck \/ (cj = ck /\ (wj > wk \/ (wj = wk /\ j < k)))}

\* Record r is what docs/site/docs/discover/identity.md ("Merged record
\* semantics") says of the group S of two or more records.
MergedRight(r, S) ==
  LET best == {i \in S : \A j \in S : records[j].confidence <= records[i].confidence}
      first == CHOOSE i \in S : \A j \in S : i <= j
      addresses == {records[i].mgmt_ip : i \in S}
  IN  /\ \E i \in best : r.identity_key = records[i].identity_key
      /\ r.mgmt_ip = records[first].mgmt_ip
      /\ {r.alt_ips[k].address : k \in DOMAIN r.alt_ips} = addresses \ {r.mgmt_ip}
      /\ Len(r.alt_ips) = Cardinality(addresses) - 1
      /\ (r.mac = NoValue) <=> \A i \in S : records[i].mac = NoValue
      /\ r.confidence = AtMost10(records[CHOOSE i \in best : TRUE].confidence + 1)
      /\ \A i \in S : r.last_seen >= records[i].last_seen
      /\ ToSet(r.signals) = UNION {ToSet(records[i].signals) : i \in S}
      /\ Cardinality(ToSet(r.signals)) = Len(r.signals)

\* MergeAsDocumented: whatever order the hash tables gave, finish returns
\* one record per group of records connected by high-band pairs, in the
\* order of the groups' first targets; a merged record covers exactly its
\* group's addresses and signals, and a record left alone names the medium
\* peer the documentation says it names, or none.
MergeAsDocumented ==
  Correlated =>
    LET firsts == InOrder({i \in Nodes : \A j \in ConnectedTo(i) : i <= j})
    IN  /\ Len(out) = Len(firsts)
        /\ \A g \in DOMAIN firsts :
             LET i == firsts[g]
                 S == ConnectedTo(i)
             IN  IF S # {i}
                   THEN MergedRight(out[g], S)
                   ELSE /\ out[g].mgmt_ip = records[i].mgmt_ip
                        /\ {out[g].possible_alias_of[k] : k \in DOMAIN out[g].possible_alias_of}
                             = {records[j].identity_key : j \in DocumentedPeer(i)}

\* What docs/site/docs/discover/identity.md says of a value shared by more
\* records than the cap: it "contributes no candidate pairs and no merges".
\* So two records that are merged directly agree on enough without it.
CappedValueNeverMerges ==
  stage = "unite" =>
    \A p \in high :
      MapThenSumSet(LAMBDA tag : Weight[tag],
        {tag \in DOMAIN Weight :
           \E key \in BucketKeys(records[p[1]]) \cap BucketKeys(records[p[2]]) :
             key[1] = tag /\ ~OverCap(Bucket(records, key))}) >= HighBand

\* What the documentation says of a record's possible_alias_of: "another
\* record in the same scan looks like the same device", referenced by its
\* identity_key.
AliasNamesAnotherRecord ==
  Correlated =>
    \A g \in DOMAIN out : \A k \in DOMAIN out[g].possible_alias_of :
      \E h \in DOMAIN out \ {g} : out[h].identity_key = out[g].possible_alias_of[k]

\* What the documentation says of the declared members of a VRRP group:
\* they surface as possible aliases "instead of auto-merging".
DeclaredMembersStaySeparate ==
  Correlated =>
    \A i, j \in Nodes :
      (comp[i] = comp[j] /\ records[i].mgmt_ip # records[j].mgmt_ip)
        => ~DeclaredVrrpMembers(records[i], records[j])
=============================================================================
