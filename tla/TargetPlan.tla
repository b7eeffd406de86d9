----------------------------- MODULE TargetPlan -----------------------------
(***************************************************************************)
(* Resolution of a scenario's targets (rastreo-core/src/resolver): the     *)
(* plan of address blocks and looked-up names, its overlap warning, the    *)
(* allow-list and host cap of GuardedResolver, and the plan a resumed run  *)
(* rebuilds from the checkpoint's DNS pins.                                *)
(*                                                                         *)
(* An address is <<v6, bits>>; both families have MaxAddr + 1 addresses.   *)
(* A network is its first and last address.  MaxAddr stands for u128::MAX  *)
(* where IPv6 counts saturate or wrap, UsizeMax for usize::MAX.  Looking a *)
(* name up is external: each family answers with addresses, answers that   *)
(* there are none, or fails.                                               *)
(***************************************************************************)
EXTENDS AllowSweep, SequencesExt

CONSTANTS
  Inputs,            \* [targets, guarded, nets, capped]: scenario and policy
  Answers6,          \* what the IPv6 lookup of a name may return
  Answers4,          \* what the IPv4 lookup of a name may return
  HostLimit,         \* HickoryResolver::host_limit
  MaxTotalHosts,     \* GuardedResolver::max_total_hosts, where there is one
  UsizeMax,          \* usize::MAX
  ReportedOverlaps   \* REPORTED_OVERLAPS

ASSUME LimitsAssumption ==
  /\ HostLimit \in Nat /\ HostLimit <= UsizeMax
  /\ MaxTotalHosts \in Nat /\ MaxTotalHosts < UsizeMax
  /\ UsizeMax \in Nat /\ UsizeMax < MaxAddr
  /\ ReportedOverlaps \in Nat

IpAddr == BOOLEAN \X Addr
IpNet == [v6 : BOOLEAN, lo : Addr, hi : Addr]

\* A target as the configuration accepts it.
WellFormed(t) ==
  /\ t.kind \in {"ip", "cidr", "range", "dns"}
  /\ t.kind = "ip" => t.ip \in IpAddr
  /\ t.kind = "cidr" => t.v6 \in BOOLEAN /\ t.lo \in Addr /\ t.hi \in Addr /\ t.lo <= t.hi
  /\ t.kind = "range" => t.start \in IpAddr /\ t.end \in IpAddr

ASSUME InputsAssumption ==
  \A i \in Inputs :
    /\ i.guarded \in BOOLEAN /\ i.capped \in BOOLEAN
    /\ i.nets \in Seq(IpNet)
    /\ i.targets \in Seq(ToSet(i.targets))
    /\ \A k \in DOMAIN i.targets : WellFormed(i.targets[k])

\* A family that answers does so with addresses.
ASSUME AnswersAssumption ==
  \A a \in Answers6 \cup Answers4 :
    a.ok \in BOOLEAN /\ (a.ok => a.ips \in Seq(IpAddr))

VARIABLES
  input,      \* the scenario's targets, the server's allow-list and cap
  stage,      \* "plan", "overlap", "guard", "planned" or "refused"
  specs,      \* ResolvedPlan::specs so far
  overlap,    \* find_overlaps: intervals, index, active, found, more
  guardAt,    \* the spec check_allowed looks at
  refusal,    \* why the plan was refused
  replay      \* what a resume rebuilt: not yet, refused or a stream

planVars == <<input, stage, specs, overlap, guardAt, refusal, replay>>
vars == <<sweepVars, planVars>>

None == [kind |-> "none"]

TypeOK ==
  /\ SweepTypeOK
  /\ DOMAIN input = {"targets", "guarded", "nets", "capped"}
  /\ stage \in {"plan", "overlap", "guard", "planned", "refused"}
  /\ Len(specs) <= Len(input.targets)
  /\ overlap.kind \in {"none", "sweep"}
  /\ guardAt \in 1 .. Len(specs) + 1
  /\ refusal.kind \in {"none", "cidr_too_large", "range_too_large", "invalid_range",
                       "dns_failed", "not_allowed", "cap_exceeded"}
  /\ replay.kind \in {"none", "refused", "rebuilt"}

-----------------------------------------------------------------------------
(* Blocks and counts *)

\* Mutant: the host count of an IPv6 block wraps.
SatCountMutant(span) == (span + 1) % (MaxAddr + 1)

\* span.saturating_add(1) in u128.
SatCount(span) == IF span + 1 > MaxAddr THEN MaxAddr ELSE span + 1

\* cidr_bounds: a single host, the pair of a /31, the hosts without network
\* and broadcast address, or the whole IPv6 block.
CidrBounds(n) ==
  CASE n.v6 -> [lo |-> n.lo, hi |-> n.hi, hosts |-> SatCount(n.hi - n.lo)]
    [] ~n.v6 /\ n.hi - n.lo <= 1 ->
         [lo |-> n.lo, hi |-> n.hi, hosts |-> n.hi - n.lo + 1]
    [] OTHER -> [lo |-> n.lo + 1, hi |-> n.hi - 1, hosts |-> n.hi - n.lo - 1]

\* range_bounds, for a range that is in one family and ordered.
RangeBounds(r) ==
  [lo |-> r.start[2], hi |-> r.end[2],
   hosts |-> IF r.start[1] THEN SatCount(r.end[2] - r.start[2])
                           ELSE r.end[2] - r.start[2] + 1]

RangeRefused(r) == r.start[1] # r.end[1] \/ r.start[2] > r.end[2]

Block(v6, b, t) == [kind |-> "block", v6 |-> v6, lo |-> b.lo, hi |-> b.hi, of |-> t]
Points(ips, t) == [kind |-> "points", ips |-> ips, of |-> t]

\* block_span: the IPv6 sum wraps in u128, the count is cut to usize.
BlockSpan(s) ==
  (IF s.v6 THEN (s.hi - s.lo + 1) % (MaxAddr + 1) ELSE s.hi - s.lo + 1)
    % (UsizeMax + 1)

Hosts(s) == IF s.kind = "block" THEN BlockSpan(s) ELSE Len(s.ips)

SatAdd(x, y) == IF x + y > UsizeMax THEN UsizeMax ELSE x + y

\* ResolvedPlan::total_hosts
TotalHosts(ss) == FoldLeft(LAMBDA sum, s : SatAdd(sum, Hosts(s)), 0, ss)

\* PlannedSpec::into_stream: the spec's addresses in ascending or given order.
SpecStream(s) ==
  IF s.kind = "block"
    THEN [i \in 1 .. s.hi - s.lo + 1 |-> <<<<s.v6, s.lo + i - 1>>, s.of>>]
    ELSE [i \in DOMAIN s.ips |-> <<s.ips[i], s.of>>]

\* ResolvedPlan::into_stream
Stream(ss) == FlattenSeq([i \in DOMAIN ss |-> SpecStream(ss[i])])

-----------------------------------------------------------------------------
(* Names *)

\* each_address_once: the union in first-seen order.
EachAddressOnce(ips) ==
  FoldLeft(LAMBDA kept, ip : IF Contains(kept, ip) THEN kept ELSE Append(kept, ip),
           <<>>, ips)

\* Mutant: the IPv6 error wins, whatever the IPv4 lookup said.
MergeErrorsMutant(e6, e4) == e6

\* Two failed families: an answer that there are none yields to the other.
MergeErrors(e6, e4) == IF e6.none THEN e4 ELSE e6

\* merge_family_lookups
MergeFamilyLookups(a6, a4) ==
  CASE a6.ok /\ a4.ok -> [ok |-> TRUE, ips |-> EachAddressOnce(a6.ips \o a4.ips)]
    [] a6.ok /\ ~a4.ok -> [ok |-> TRUE, ips |-> EachAddressOnce(a6.ips)]
    [] ~a6.ok /\ a4.ok -> [ok |-> TRUE, ips |-> EachAddressOnce(a4.ips)]
    [] OTHER -> MergeErrors(a6, a4)

-----------------------------------------------------------------------------
(* Resolver::plan *)

Init ==
  /\ SweepOff
  /\ input \in Inputs
  /\ stage = "plan"
  /\ specs = <<>>
  /\ overlap = None
  /\ guardAt = 1
  /\ refusal = None
  /\ replay = None

Target == input.targets[Len(specs) + 1]
Planning == stage = "plan" /\ Len(specs) < Len(input.targets)

PushSpec(s) ==
  /\ specs' = Append(specs, s)
  /\ UNCHANGED <<sweepVars, input, stage, overlap, guardAt, refusal, replay>>

Refuse(why) ==
  /\ stage' = "refused"
  /\ refusal' = why
  /\ UNCHANGED <<sweepVars, input, specs, overlap, guardAt, replay>>

PlanIp ==
  /\ Planning /\ Target.kind = "ip"
  /\ PushSpec(Block(Target.ip[1], [lo |-> Target.ip[2], hi |-> Target.ip[2]], Target))

PlanCidr ==
  /\ Planning /\ Target.kind = "cidr"
  /\ LET b == CidrBounds(Target)
     IN IF b.hosts > HostLimit THEN Refuse([kind |-> "cidr_too_large"])
                               ELSE PushSpec(Block(Target.v6, b, Target))

PlanRange ==
  /\ Planning /\ Target.kind = "range"
  /\ IF RangeRefused(Target) THEN Refuse([kind |-> "invalid_range"])
     ELSE LET b == RangeBounds(Target)
          IN IF b.hosts > HostLimit THEN Refuse([kind |-> "range_too_large"])
                                    ELSE PushSpec(Block(Target.start[1], b, Target))

\* A name that can be queried: both families are asked, then dns_spec.  A
\* name without addresses is skipped, any other failure ends the plan.
PlanDns(a6, a4) ==
  /\ Planning /\ Target.kind = "dns"
  /\ LET merged == MergeFamilyLookups(a6, a4)
     IN CASE merged.ok -> PushSpec(Points(merged.ips, Target))
          [] ~merged.ok /\ merged.none -> PushSpec(Points(<<>>, Target))
          [] OTHER -> Refuse([kind |-> "dns_failed"])

\* A name that never became a query is skipped, too.
PlanUnqueryable ==
  /\ Planning /\ Target.kind = "dns"
  /\ PushSpec(Points(<<>>, Target))

-----------------------------------------------------------------------------
(* find_overlaps *)

\* push_intervals: one interval for a block, one per looked-up address.
SpecIntervals(i) ==
  LET s == specs[i]
  IN IF s.kind = "block"
       THEN {[v6 |-> s.v6, lo |-> s.lo, hi |-> s.hi, spec |-> i]}
       ELSE {[v6 |-> ip[1], lo |-> ip[2], hi |-> ip[2], spec |-> i] : ip \in ToSet(s.ips)}

\* The derived order of AddressInterval.
Before(a, b) ==
  \/ ~a.v6 /\ b.v6
  \/ a.v6 = b.v6 /\ a.lo < b.lo
  \/ a.v6 = b.v6 /\ a.lo = b.lo /\ a.hi < b.hi
  \/ a.v6 = b.v6 /\ a.lo = b.lo /\ a.hi = b.hi /\ a.spec < b.spec

\* sweep_intervals: sorted, repeats removed.
SweepIntervals ==
  LET all == UNION {SpecIntervals(i) : i \in DOMAIN specs}
  IN [k \in 1 .. Cardinality(all) |->
        CHOOSE x \in all : Cardinality({y \in all : Before(y, x)}) = k - 1]

\* All targets are planned: ResolvedPlan::new looks for overlaps.
BeginOverlaps ==
  /\ stage = "plan" /\ Len(specs) = Len(input.targets)
  /\ stage' = "overlap"
  /\ overlap' = [kind |-> "sweep", ivs |-> SweepIntervals, index |-> 1,
                 active |-> <<>>, found |-> {}, more |-> FALSE]
  /\ UNCHANGED <<sweepVars, input, specs, guardAt, refusal, replay>>

\* Mutant: an interval that ends where the next one starts is dropped.
StillOpenMutant(open, iv) == open.v6 = iv.v6 /\ open.hi > iv.lo

\* An open interval that reaches this one.
StillOpen(open, iv) == open.v6 = iv.v6 /\ open.hi >= iv.lo

\* The inner loop for one open interval; nothing happens after its break.
PairUp(acc, open, iv) ==
  LET pair == <<Min({open.spec, iv.spec}), Max({open.spec, iv.spec})>>
  IN CASE acc.more \/ open.spec = iv.spec \/ pair \in acc.found -> acc
       [] ~acc.more /\ open.spec # iv.spec /\ pair \notin acc.found
            /\ Cardinality(acc.found) >= ReportedOverlaps -> [acc EXCEPT !.more = TRUE]
       [] OTHER -> [acc EXCEPT !.found = @ \cup {pair}]

\* active.retain
Retained(iv) ==
  FoldLeft(LAMBDA kept, j : IF StillOpen(overlap.ivs[j], iv) THEN Append(kept, j) ELSE kept,
           <<>>, overlap.active)

\* The inner loop.
Paired(open, iv) ==
  FoldLeft(LAMBDA acc, j : PairUp(acc, overlap.ivs[j], iv),
           [found |-> overlap.found, more |-> FALSE], open)

\* One turn of the sweep.
OverlapStep ==
  /\ stage = "overlap" /\ ~overlap.more /\ overlap.index <= Len(overlap.ivs)
  /\ LET iv == overlap.ivs[overlap.index]
         open == Retained(iv)
         paired == Paired(open, iv)
     IN overlap' = [kind |-> "sweep", ivs |-> overlap.ivs, index |-> overlap.index + 1,
                    active |-> Append(open, overlap.index),
                    found |-> paired.found, more |-> paired.more]
  /\ UNCHANGED <<sweepVars, input, stage, specs, guardAt, refusal, replay>>

EndOverlaps ==
  /\ stage = "overlap"
  /\ overlap.more \/ overlap.index > Len(overlap.ivs)
  /\ stage' = "guard"
  /\ UNCHANGED <<sweepVars, input, specs, overlap, guardAt, refusal, replay>>

-----------------------------------------------------------------------------
(* GuardedResolver::plan *)

Guarding == stage = "guard" /\ input.guarded /\ guardAt <= Len(specs)
InNets(ip) ==
  \E i \in DOMAIN input.nets :
    /\ input.nets[i].v6 = ip[1]
    /\ input.nets[i].lo <= ip[2] /\ ip[2] <= input.nets[i].hi

\* Mutant: networks of the other family count as well.
FamilyNetsMutant(v6) == DOMAIN input.nets

\* The allow-list's networks of the block's family.
FamilyNets(v6) == {i \in DOMAIN input.nets : input.nets[i].v6 = v6}

\* The ways sort_unstable may leave them, sorted by first address.
Sortings(F) ==
  {t \in {[k \in 1 .. Cardinality(F) |-> [lo |-> input.nets[p[k]].lo, hi |-> input.nets[p[k]].hi]] :
            p \in {q \in [1 .. Cardinality(F) -> F] :
                    \A i \in F : \E k \in 1 .. Cardinality(F) : q[k] = i}} : Sorted(t)}

\* first_uncovered_ip starts the sweep for the block of this spec.
GuardBlock ==
  /\ Guarding /\ sweep = "off"
  /\ LET s == specs[guardAt]
     IN /\ s.kind = "block"
        /\ \E sorted \in Sortings(FamilyNets(s.v6)) :
             SweepBegin([lo |-> s.lo, hi |-> s.hi], sorted)
  /\ UNCHANGED planVars

\* uncovered_point runs.
GuardSweep ==
  /\ Guarding
  /\ SweepStep
  /\ UNCHANGED planVars

\* Its answer: the next spec, or TargetNotAllowed at the first gap.
GuardBlockDone ==
  /\ Guarding /\ sweep \in {"covered", "uncovered"}
  /\ sweep' = "off"
  /\ IF sweep = "covered"
       THEN guardAt' = guardAt + 1 /\ UNCHANGED <<stage, refusal>>
       ELSE /\ stage' = "refused"
            /\ refusal' = [kind |-> "not_allowed", ip |-> <<specs[guardAt].v6, cursor>>]
            /\ UNCHANGED guardAt
  /\ UNCHANGED <<block, ivals, next, cursor, input, specs, overlap, replay>>

\* Looked-up addresses are tested one by one; the first outside is named.
GuardPoints ==
  /\ Guarding /\ sweep = "off" /\ specs[guardAt].kind = "points"
  /\ LET ips == specs[guardAt].ips
         bad == {i \in DOMAIN ips : ~InNets(ips[i])}
     IN \/ /\ bad = {}
           /\ guardAt' = guardAt + 1
           /\ UNCHANGED <<sweepVars, input, stage, specs, overlap, refusal, replay>>
        \/ \E i \in bad : /\ \A j \in bad : i <= j
                          /\ Refuse([kind |-> "not_allowed", ip |-> ips[i]])

\* check_cap, once the allow-list has passed (or there is none); a resolver
\* without max_total_hosts refuses no plan for its size.
GuardCap ==
  /\ stage = "guard" /\ (~input.guarded \/ guardAt > Len(specs))
  /\ IF input.capped /\ TotalHosts(specs) > MaxTotalHosts
       THEN Refuse([kind |-> "cap_exceeded"])
       ELSE /\ stage' = "planned"
            /\ UNCHANGED <<sweepVars, input, specs, overlap, guardAt, refusal, replay>>

-----------------------------------------------------------------------------
(* ResolvedPlan::from_pinned *)

IsDns(t) == t.kind = "dns"

\* dns_pins
DnsPins ==
  FoldLeft(LAMBDA pins, s : IF IsDns(s.of) THEN Append(pins, s) ELSE pins, <<>>, specs)

\* Mutant: a pin is taken without looking at the name it belongs to.
PinMatchesMutant(pin, t) == TRUE

PinMatches(pin, t) == pin.of = t

\* One target of the resumed scenario: a name takes the next pin.
Repinned(acc, t) ==
  CASE acc.refused -> acc
    [] ~acc.refused /\ IsDns(t) ->
         IF acc.pins = <<>> \/ ~PinMatches(Head(acc.pins), t)
           THEN [acc EXCEPT !.refused = TRUE]
           ELSE [specs |-> Append(acc.specs, Points(Head(acc.pins).ips, t)),
                 pins |-> Tail(acc.pins), refused |-> FALSE]
    [] ~acc.refused /\ t.kind = "range" /\ RangeRefused(t) ->
         [acc EXCEPT !.refused = TRUE]
    [] OTHER ->
         LET s == CASE t.kind = "ip" -> Block(t.ip[1], [lo |-> t.ip[2], hi |-> t.ip[2]], t)
                    [] t.kind = "cidr" -> Block(t.v6, CidrBounds(t), t)
                    [] OTHER -> Block(t.start[1], RangeBounds(t), t)
         IN [acc EXCEPT !.specs = Append(@, s)]

FromPinned(ts) ==
  FoldLeft(Repinned, [specs |-> <<>>, pins |-> DnsPins, refused |-> FALSE], ts)

\* The targets a later process may find in the scenario: the same, or edited
\* to come in another order, one dropped, one repeated or put for another.
Edits(ts) ==
  {Reverse(ts)}
    \cup {RemoveAt(ts, i) : i \in DOMAIN ts}
    \cup {Append(ts, ts[i]) : i \in DOMAIN ts}
    \cup {[ts EXCEPT ![i] = ts[j]] : i, j \in DOMAIN ts}

\* A later process rebuilds the plan from the checkpoint.
Resume(ts) ==
  /\ stage = "planned" /\ replay = None
  /\ ts \in Edits(input.targets)
  /\ LET built == FromPinned(ts)
     IN replay' = IF built.refused THEN [kind |-> "refused", targets |-> ts]
                  ELSE [kind |-> "rebuilt", targets |-> ts, specs |-> built.specs]
  /\ UNCHANGED <<sweepVars, input, stage, specs, overlap, guardAt, refusal>>

\* The plan was refused, or a resume has rebuilt it.
Done == (stage = "refused" \/ replay # None) /\ UNCHANGED vars

Next ==
  \/ PlanIp \/ PlanCidr \/ PlanRange \/ PlanUnqueryable
  \/ \E a6 \in Answers6, a4 \in Answers4 : PlanDns(a6, a4)
  \/ BeginOverlaps \/ OverlapStep \/ EndOverlaps
  \/ GuardBlock \/ GuardSweep \/ GuardBlockDone \/ GuardPoints \/ GuardCap
  \/ \E ts \in Edits(input.targets) : Resume(ts)
  \/ Done

Spec == Init /\ [][Next]_vars

-----------------------------------------------------------------------------
(* Properties *)

\* The addresses a spec streams.
Addresses(s) == LET stream == SpecStream(s) IN {stream[i][1] : i \in DOMAIN stream}

\* Pairs of specs that share an address, by definition.
SharedPairs ==
  {p \in (DOMAIN specs) \X (DOMAIN specs) :
     p[1] < p[2] /\ Addresses(specs[p[1]]) \cap Addresses(specs[p[2]]) # {}}

\* The sweep finds exactly the pairs that share an address, or, once it has
\* as many as a warning names, says that there are more (find_overlaps).
OverlapsExact ==
  stage \in {"guard", "planned"} =>
    IF overlap.more
      THEN /\ overlap.found \subseteq SharedPairs
           /\ Cardinality(overlap.found) = ReportedOverlaps
           /\ Cardinality(SharedPairs) > ReportedOverlaps
      ELSE overlap.found = SharedPairs

\* A plan that passes the guard streams allow-listed addresses only; a plan
\* it refuses would stream the address the refusal names, and that address
\* is outside the allow-list (GuardedResolver::plan, first_uncovered_ip).
GuardExact ==
  /\ stage = "planned" /\ input.guarded =>
       \A i \in DOMAIN specs : \A ip \in Addresses(specs[i]) : InNets(ip)
  /\ refusal.kind = "not_allowed" =>
       /\ ~InNets(refusal.ip)
       /\ \E i \in DOMAIN specs : refusal.ip \in Addresses(specs[i])

\* total_hosts of a plan that passes is the number of addresses the plan
\* streams, saturated only at usize::MAX, and a resolver with a cap lets no
\* more than the cap through: also for blocks at either end of the address
\* space whose count saturates or wraps (cidr_bounds, block_span, check_cap).
HostsExact ==
  stage = "planned" =>
    /\ TotalHosts(specs) = Min({Len(Stream(specs)), UsizeMax})
    /\ input.capped => Len(Stream(specs)) <= MaxTotalHosts

\* A resume streams what the interrupted run streamed, position by position,
\* although names may resolve differently by then; of edited targets it
\* refuses, or replays for every name the addresses it was pinned to.
ReplayFaithful ==
  replay.kind # "none" =>
    IF replay.targets = input.targets
      THEN replay.kind = "rebuilt" /\ Stream(replay.specs) = Stream(specs)
      ELSE replay.kind = "rebuilt" =>
             \A s \in ToSet(replay.specs) : IsDns(s.of) => s \in ToSet(specs)

\* Name lookup is part of the model's nondeterminism: the same names stay in
\* the plan without addresses only when both families said there are none,
\* or the name cannot be queried; a nameserver's failure is never mistaken
\* for an empty answer (merge_family_lookups, addresses_or_no_records).
FailureNeverSkips ==
  [][\A a6 \in Answers6, a4 \in Answers4 :
       PlanDns(a6, a4) /\ stage' = "plan" /\ Len(specs') > Len(specs)
         => a6.ok \/ a4.ok \/ (a6.none /\ a4.none)]_vars
=============================================================================
