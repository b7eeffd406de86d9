----------------------------- MODULE PlanProofs -----------------------------
(***************************************************************************)
(* The allow-list sweep is right for every address width, every block and  *)
(* every list of networks, overlapping, nested or adjacent ones included,  *)
(* and its cursor never leaves the address space.                          *)
(*                                                                         *)
(* The allow-list holds for every scenario, every allow-list and every     *)
(* width of address: a plan that passes GuardedResolver has no address     *)
(* outside it, and a refusal names an address that is in the plan and      *)
(* outside the list.                                                       *)
(*                                                                         *)
(* The invariant: the specs before guardAt are inside the allow-list, and  *)
(* while a sweep runs it sweeps the block of specs[guardAt] over exactly   *)
(* the networks of its family, so that what the sweep covers is what the   *)
(* allow-list holds.                                                       *)
(*                                                                         *)
(* Then what the resolver folds over a plan: the host count, the pins and  *)
(* their replay, and the sweep that warns of overlapping targets, by       *)
(* induction over the prefixes of the plan.                                *)
(***************************************************************************)
EXTENDS TargetPlan, SequenceProofs

-----------------------------------------------------------------------------
(* The sweep *)

(***************************************************************************)
(* The loop invariant: below the cursor the block is covered; a network    *)
(* the loop has passed ends below the cursor.  Together with the order of  *)
(* the list the second part shows that a gap is a gap for all networks.    *)
(***************************************************************************)
LoopInv ==
  sweep = "running" =>
    /\ cursor \in block.lo .. block.hi
    /\ \A x \in block.lo .. cursor - 1 : Covered(x)
    /\ \A i \in DOMAIN ivals : i < next => ivals[i].hi < cursor

SweepInv == SweepTypeOK /\ Sorted(ivals) /\ LoopInv /\ SweepExact

\* The ends of the networks are numbers.
LEMMA EntriesAreNumbers ==
  ASSUME SweepInv
  PROVE  \A i \in DOMAIN ivals : /\ ivals[i].lo \in Int /\ ivals[i].hi \in Int
                                 /\ ivals[i].lo \in Addr /\ ivals[i].hi \in Addr
<1>1. ivals \in Seq(Interval) BY DEF SweepInv, SweepTypeOK
<1>2. \A i \in DOMAIN ivals : ivals[i] \in Interval BY <1>1
<1>3. \A v \in Interval : v.lo \in Addr /\ v.hi \in Addr BY DEF Interval
<1>4. \A n \in Addr : n \in Int BY MaxAddrAssumption DEF Addr
<1> QED BY <1>2, <1>3, <1>4

\* Before the first block there is nothing to answer.
LEMMA SweepInvInit ==
  ASSUME SweepOff PROVE SweepInv
<1>1. SweepTypeOK
  <2>1. <<>> \in Seq(Interval) OBVIOUS
  <2>2. block \in Interval BY MaxAddrAssumption DEF SweepOff, Interval, Addr
  <2> QED BY <2>1, <2>2, MaxAddrAssumption DEF SweepOff, SweepTypeOK, Addr
<1>2. Sorted(ivals) BY DEF SweepOff, Sorted
<1>3. LoopInv /\ SweepExact BY DEF SweepOff, LoopInv, SweepExact
<1> QED BY <1>1, <1>2, <1>3 DEF SweepInv

\* The loop starts at the block's first address with nothing passed.
LEMMA SweepInvBegin ==
  ASSUME SweepInv, NEW b \in Interval, NEW s \in Seq(Interval), SweepBegin(b, s)
  PROVE  SweepInv'
<1>1. /\ block' = b /\ ivals' = s /\ next' = 1 /\ cursor' = b.lo
      /\ sweep' = "running" /\ b.lo <= b.hi /\ Sorted(s)
  BY DEF SweepBegin
<1>2. b.lo \in Addr /\ b.hi \in Addr BY DEF Interval
<1>3. SweepTypeOK' BY <1>1, <1>2 DEF SweepTypeOK
<1>4. LoopInv' BY <1>1, <1>2, MaxAddrAssumption DEF LoopInv, Addr
<1>5. SweepExact' BY <1>1 DEF SweepExact
<1>6. Sorted(ivals)' BY <1>1 DEF Sorted
<1> QED BY <1>3, <1>4, <1>5, <1>6 DEF SweepInv

\* At a gap no network holds the cursor: the passed ones end below it, the
\* others start above it.
LEMMA SweepInvGap ==
  ASSUME SweepInv, SweepGap PROVE SweepInv'
<1>1. /\ block' = block /\ ivals' = ivals /\ next' = next /\ cursor' = cursor
      /\ sweep = "running" /\ sweep' = "uncovered"
      /\ next <= Len(ivals) /\ ivals[next].lo > cursor
  BY DEF SweepGap
<1>2. /\ ivals \in Seq(Interval) /\ next \in Nat \ {0} /\ cursor \in Addr
      /\ block \in Interval
  BY DEF SweepInv, SweepTypeOK
<1>3. \A i \in DOMAIN ivals : ivals[i].lo \in Int /\ ivals[i].hi \in Int
  BY EntriesAreNumbers
<1>4. ~Covered(cursor)
  <2> SUFFICES ASSUME NEW i \in DOMAIN ivals,
                      ivals[i].lo <= cursor, cursor <= ivals[i].hi
               PROVE  FALSE
    BY DEF Covered
  <2>1. CASE i < next
    <3>1. ivals[i].hi < cursor BY <1>1, <2>1 DEF SweepInv, LoopInv
    <3> QED BY <1>2, <1>3, <3>1 DEF Addr
  <2>2. CASE i >= next
    <3>1. next \in DOMAIN ivals BY <1>1, <1>2
    <3>2. ivals[next].lo <= ivals[i].lo
      BY <1>2, <1>3, <2>2, <3>1 DEF SweepInv, Sorted
    <3> QED BY <1>1, <1>2, <1>3, <3>1, <3>2 DEF Addr
  <2> QED BY <1>2, <2>1, <2>2
<1>5. SweepExact'
  <2>1. Covered(cursor)' <=> Covered(cursor) BY <1>1 DEF Covered
  <2>2. \A x \in block.lo .. cursor - 1 : Covered(x)' <=> Covered(x)
    BY <1>1 DEF Covered
  <2>3. cursor \in block.lo .. block.hi
        /\ \A x \in block.lo .. cursor - 1 : Covered(x)
    BY <1>1 DEF SweepInv, LoopInv
  <2> QED BY <1>1, <1>4, <2>1, <2>2, <2>3 DEF SweepExact, Covered
<1>6. SweepTypeOK' /\ Sorted(ivals)' /\ LoopInv'
  BY <1>1 DEF SweepInv, SweepTypeOK, Sorted, LoopInv
<1> QED BY <1>5, <1>6 DEF SweepInv

\* A network that holds the cursor and reaches the end covers the rest.
LEMMA SweepInvCovered ==
  ASSUME SweepInv, SweepCovered PROVE SweepInv'
<1>1. /\ block' = block /\ ivals' = ivals /\ next' = next /\ cursor' = cursor
      /\ sweep = "running" /\ sweep' = "covered"
      /\ next <= Len(ivals) /\ ivals[next].lo <= cursor
      /\ ivals[next].hi >= block.hi
  BY DEF SweepCovered, ReachesEnd
<1>2. /\ ivals \in Seq(Interval) /\ next \in Nat \ {0} /\ cursor \in Addr
      /\ block.lo \in Addr /\ block.hi \in Addr
  BY DEF SweepInv, SweepTypeOK, Interval
<1>3. next \in DOMAIN ivals BY <1>1, <1>2
<1>4. ivals[next].lo \in Int /\ ivals[next].hi \in Int
  BY <1>3, EntriesAreNumbers
<1>5. \A x \in block.lo .. block.hi : Covered(x)
  <2> SUFFICES ASSUME NEW x \in block.lo .. block.hi PROVE Covered(x)
    OBVIOUS
  <2>0. x \in Int /\ block.lo <= x /\ x <= block.hi
    BY <1>2, MaxAddrAssumption DEF Addr
  <2>1. CASE x < cursor
    <3>1. x \in block.lo .. cursor - 1
      BY <1>2, <2>0, <2>1, MaxAddrAssumption DEF Addr
    <3> QED BY <1>1, <3>1 DEF SweepInv, LoopInv
  <2>2. CASE x >= cursor
    <3>1. ivals[next].lo <= x /\ x <= ivals[next].hi
      BY <1>1, <1>2, <1>4, <2>0, <2>2, MaxAddrAssumption DEF Addr
    <3> QED BY <1>3, <3>1 DEF Covered
  <2> QED BY <1>2, <2>0, <2>1, <2>2, MaxAddrAssumption DEF Addr
<1>6. SweepExact' BY <1>1, <1>5 DEF SweepExact, Covered
<1>7. SweepTypeOK' /\ Sorted(ivals)' /\ LoopInv'
  BY <1>1 DEF SweepInv, SweepTypeOK, Sorted, LoopInv
<1> QED BY <1>6, <1>7 DEF SweepInv

\* The cursor moves over addresses the network holds, and stays in the
\* block because the network ends before the block does.
LEMMA SweepInvAdvance ==
  ASSUME SweepInv, SweepAdvance PROVE SweepInv'
<1>1. /\ block' = block /\ ivals' = ivals /\ next' = next + 1
      /\ sweep = "running" /\ sweep' = "running"
      /\ next <= Len(ivals) /\ ivals[next].lo <= cursor
      /\ ~(ivals[next].hi >= cursor /\ ivals[next].hi >= block.hi)
      /\ cursor' = IF ivals[next].hi >= cursor THEN ivals[next].hi + 1 ELSE cursor
  BY DEF SweepAdvance, ReachesEnd
<1>2. /\ ivals \in Seq(Interval) /\ next \in Nat \ {0} /\ cursor \in Addr
      /\ block.lo \in Addr /\ block.hi \in Addr
      /\ cursor \in block.lo .. block.hi
  BY <1>1 DEF SweepInv, SweepTypeOK, Interval, LoopInv
<1>3. next \in DOMAIN ivals BY <1>1, <1>2
<1>4. /\ ivals[next].lo \in Int /\ ivals[next].hi \in Int
      /\ \A i \in DOMAIN ivals : ivals[i].hi \in Int
  BY <1>3, EntriesAreNumbers
<1>5. /\ cursor' \in block.lo .. block.hi /\ cursor' \in Addr
      /\ cursor <= cursor' /\ ivals[next].hi < cursor'
  BY <1>1, <1>2, <1>4, MaxAddrAssumption DEF Addr
<1>6. \A x \in block.lo .. cursor' - 1 : Covered(x)
  <2> SUFFICES ASSUME NEW x \in block.lo .. cursor' - 1 PROVE Covered(x)
    OBVIOUS
  <2>0. x \in Int /\ block.lo <= x /\ x < cursor'
    BY <1>2, <1>5, MaxAddrAssumption DEF Addr
  <2>1. CASE x < cursor
    <3>1. x \in block.lo .. cursor - 1
      BY <1>2, <2>0, <2>1, MaxAddrAssumption DEF Addr
    <3> QED BY <1>1, <3>1 DEF SweepInv, LoopInv
  <2>2. CASE x >= cursor
    <3>1. ivals[next].lo <= x /\ x <= ivals[next].hi
      BY <1>1, <1>2, <1>4, <2>0, <2>2, MaxAddrAssumption DEF Addr
    <3> QED BY <1>3, <3>1 DEF Covered
  <2> QED BY <1>2, <2>0, <2>1, <2>2, MaxAddrAssumption DEF Addr
<1>7. \A i \in DOMAIN ivals : i < next + 1 => ivals[i].hi < cursor'
  <2> SUFFICES ASSUME NEW i \in DOMAIN ivals, i < next + 1
               PROVE  ivals[i].hi < cursor'
    OBVIOUS
  <2>1. CASE i = next BY <1>5, <2>1
  <2>2. CASE i < next
    <3>1. ivals[i].hi < cursor BY <1>1, <2>2 DEF SweepInv, LoopInv
    <3> QED BY <1>2, <1>4, <1>5, <3>1, MaxAddrAssumption DEF Addr
  <2> QED BY <1>2, <2>1, <2>2
<1>8. LoopInv'
  BY <1>1, <1>5, <1>6, <1>7 DEF LoopInv, Covered
<1>9. SweepTypeOK' /\ Sorted(ivals)'
  BY <1>1, <1>2, <1>5 DEF SweepInv, SweepTypeOK, Sorted
<1>10. SweepExact' BY <1>1 DEF SweepExact
<1> QED BY <1>8, <1>9, <1>10 DEF SweepInv

\* With all networks passed, the cursor is in the block and outside them.
LEMMA SweepInvDry ==
  ASSUME SweepInv, SweepDry PROVE SweepInv'
<1>1. /\ block' = block /\ ivals' = ivals /\ next' = next /\ cursor' = cursor
      /\ sweep = "running" /\ next > Len(ivals)
  BY DEF SweepDry
<1>2. /\ ivals \in Seq(Interval) /\ next \in Nat \ {0} /\ cursor \in Addr
      /\ block.lo \in Addr /\ block.hi \in Addr
      /\ cursor \in block.lo .. block.hi
      /\ \A x \in block.lo .. cursor - 1 : Covered(x)
  BY <1>1 DEF SweepInv, SweepTypeOK, Interval, LoopInv
<1>3. sweep' = "uncovered"
  BY <1>2, MaxAddrAssumption DEF SweepDry, Addr
<1>4. ~Covered(cursor)
  <2> SUFFICES ASSUME NEW i \in DOMAIN ivals, cursor <= ivals[i].hi
               PROVE  FALSE
    BY DEF Covered
  <2>1. i < next BY <1>1, <1>2
  <2>2. ivals[i].hi < cursor BY <1>1, <2>1 DEF SweepInv, LoopInv
  <2>3. ivals[i].hi \in Int BY EntriesAreNumbers
  <2> QED BY <1>2, <2>2, <2>3, MaxAddrAssumption DEF Addr
<1>5. SweepExact' BY <1>1, <1>2, <1>3, <1>4 DEF SweepExact, Covered
<1>6. SweepTypeOK' /\ Sorted(ivals)' /\ LoopInv'
  BY <1>1, <1>3 DEF SweepInv, SweepTypeOK, Sorted, LoopInv
<1> QED BY <1>5, <1>6 DEF SweepInv

\* The invariant is inductive.
LEMMA SweepInvStep ==
  ASSUME SweepInv, [SweepNext]_sweepVars
  PROVE  SweepInv'
<1>1. CASE UNCHANGED sweepVars
  BY <1>1 DEF sweepVars, SweepInv, SweepTypeOK, Sorted, LoopInv, SweepExact,
    Covered
<1>2. CASE SweepStep
  BY <1>2, SweepInvGap, SweepInvCovered, SweepInvAdvance, SweepInvDry
  DEF SweepStep
<1>3. CASE \E b \in Interval, s \in Seq(Interval) : SweepBegin(b, s)
  BY <1>3, SweepInvBegin
<1> QED BY <1>1, <1>2, <1>3 DEF SweepNext

\* The sweep's answer is exact for every width of address, so the guard
\* refuses exactly the blocks that leave the allow-list.
THEOREM SweepCorrect == SweepSpec => []SweepExact
<1>1. SweepOff => SweepInv BY SweepInvInit
<1>2. SweepInv /\ [SweepNext]_sweepVars => SweepInv' BY SweepInvStep
<1>3. SweepInv => SweepExact BY DEF SweepInv
<1> QED BY <1>1, <1>2, <1>3, PTL DEF SweepSpec

-----------------------------------------------------------------------------
(* The plan and the guard *)

SpecOK(s) ==
  /\ s.kind \in {"block", "points"}
  /\ s.kind = "block" => s.v6 \in BOOLEAN /\ s.lo \in Addr /\ s.hi \in Addr /\ s.lo <= s.hi

SpecsOK ==
  /\ Len(specs) \in Nat /\ DOMAIN specs = 1 .. Len(specs)
  /\ \E S : specs \in Seq(S)
  /\ \A i \in DOMAIN specs : SpecOK(specs[i])

Allowed(i) == \A ip \in Addresses(specs[i]) : InNets(ip)

\* What the running sweep sweeps.
SweepMatches ==
  sweep # "off" =>
    /\ Guarding /\ specs[guardAt].kind = "block"
    /\ block.lo = specs[guardAt].lo /\ block.hi = specs[guardAt].hi
    /\ \A x \in Addr : Covered(x) <=> InNets(<<specs[guardAt].v6, x>>)

GuardLoop ==
  /\ guardAt \in Nat \ {0} /\ guardAt <= Len(specs) + 1
  /\ stage \in {"plan", "overlap"} => guardAt = 1
  /\ input.guarded => \A i \in DOMAIN specs : i < guardAt => Allowed(i)
  /\ (stage = "planned" /\ input.guarded) => guardAt > Len(specs)

Refusals ==
  /\ stage # "refused" => refusal = None
  /\ refusal.kind = "not_allowed" =>
       /\ ~InNets(refusal.ip)
       /\ \E i \in DOMAIN specs : refusal.ip \in Addresses(specs[i])

PlanInv ==
  /\ input \in Inputs
  /\ SweepInv
  /\ SpecsOK
  /\ SweepMatches
  /\ GuardLoop
  /\ Refusals

-----------------------------------------------------------------------------

LEMMA AddrIsInt == \A a \in Addr : a \in Int /\ a \in Nat /\ a <= MaxAddr
  BY MaxAddrAssumption DEF Addr

\* The addresses of a block are the addresses between its ends.
LEMMA BlockAddresses ==
  ASSUME NEW s, SpecOK(s), s.kind = "block"
  PROVE  Addresses(s) = {<<s.v6, x>> : x \in s.lo .. s.hi}
  <1>1. s.lo \in Int /\ s.hi \in Int /\ s.lo <= s.hi
    BY AddrIsInt DEF SpecOK
  <1>2. SpecStream(s) = [i \in 1 .. s.hi - s.lo + 1 |-> <<<<s.v6, s.lo + i - 1>>, s.of>>]
    BY DEF SpecStream
  <1>3. Addresses(s) = {<<s.v6, s.lo + i - 1>> : i \in 1 .. s.hi - s.lo + 1}
    BY <1>2 DEF Addresses
  <1>4. \A x \in s.lo .. s.hi : x - s.lo + 1 \in 1 .. s.hi - s.lo + 1 /\ s.lo + (x - s.lo + 1) - 1 = x
    BY <1>1
  <1>5. \A i \in 1 .. s.hi - s.lo + 1 : s.lo + i - 1 \in s.lo .. s.hi
    BY <1>1
  <1> QED BY <1>3, <1>4, <1>5

LEMMA PointAddresses ==
  ASSUME NEW s, s.kind = "points"
  PROVE  Addresses(s) = {s.ips[i] : i \in DOMAIN s.ips}
  <1>1. SpecStream(s) = [i \in DOMAIN s.ips |-> <<s.ips[i], s.of>>]
    BY DEF SpecStream
  <1> QED BY <1>1 DEF Addresses

\* A sorted arrangement of a family's networks covers what they cover.
LEMMA SortingsCover ==
  ASSUME input \in Inputs, NEW v6 \in BOOLEAN, NEW t \in Sortings(FamilyNets(v6))
  PROVE  /\ t \in Seq(Interval)
         /\ \A x \in Addr : (\E k \in DOMAIN t : t[k].lo <= x /\ x <= t[k].hi)
                              <=> InNets(<<v6, x>>)
  <1> DEFINE F == FamilyNets(v6)
             c == Cardinality(F)
  <1>1. input.nets \in Seq(IpNet)
    BY InputsAssumption
  <1>2. DOMAIN input.nets = 1 .. Len(input.nets) /\ Len(input.nets) \in Nat
    BY <1>1
  <1>3. \A i \in DOMAIN input.nets : /\ input.nets[i] \in IpNet
                                     /\ input.nets[i].lo \in Addr /\ input.nets[i].hi \in Addr
    <2>1. \A i \in DOMAIN input.nets : input.nets[i] \in IpNet
      BY <1>1, <1>2
    <2>2. \A v \in IpNet : v.lo \in Addr /\ v.hi \in Addr
      BY DEF IpNet
    <2> QED BY <2>1, <2>2
  <1>4. c \in Nat
    <2>1. IsFiniteSet(1 .. Len(input.nets))
      BY <1>2, FS_Interval
    <2>2. F \subseteq 1 .. Len(input.nets)
      BY <1>2 DEF FamilyNets
    <2>3. IsFiniteSet(F)
      BY <2>1, <2>2, FS_Subset
    <2> QED BY <2>3, FS_CardinalityType
  <1>5. PICK p \in [1 .. c -> F] :
          /\ \A i \in F : \E k \in 1 .. c : p[k] = i
          /\ t = [k \in 1 .. c |-> [lo |-> input.nets[p[k]].lo, hi |-> input.nets[p[k]].hi]]
    BY DEF Sortings
  <1>6. \A k \in 1 .. c : /\ p[k] \in DOMAIN input.nets /\ input.nets[p[k]].v6 = v6
                          /\ t[k].lo = input.nets[p[k]].lo /\ t[k].hi = input.nets[p[k]].hi
                          /\ t[k] \in Interval
    BY <1>3, <1>5 DEF FamilyNets, Interval
  <1>7. t \in Seq(Interval) /\ DOMAIN t = 1 .. c
    BY <1>4, <1>5, <1>6
  <1>8. ASSUME NEW x \in Addr
        PROVE  (\E k \in DOMAIN t : t[k].lo <= x /\ x <= t[k].hi) <=> InNets(<<v6, x>>)
    <2>1. ASSUME NEW k \in 1 .. c, t[k].lo <= x, x <= t[k].hi
          PROVE  InNets(<<v6, x>>)
      BY <1>6, <2>1 DEF InNets
    <2>2. ASSUME InNets(<<v6, x>>)
          PROVE  \E k \in 1 .. c : t[k].lo <= x /\ x <= t[k].hi
      <3>1. PICK i \in DOMAIN input.nets :
              input.nets[i].v6 = v6 /\ input.nets[i].lo <= x /\ x <= input.nets[i].hi
        BY <2>2 DEF InNets
      <3>2. PICK k \in 1 .. c : p[k] = i
        BY <3>1, <1>5 DEF FamilyNets
      <3> QED BY <3>1, <3>2, <1>6
    <2> QED BY <1>7, <2>1, <2>2
  <1> QED BY <1>7, <1>8

LEMMA InitPlanInv == Init => PlanInv
  <1> SUFFICES ASSUME Init PROVE PlanInv
    OBVIOUS
  <1>1. input \in Inputs /\ SweepInv
    BY SweepInvInit DEF Init
  <1>2. specs = <<>> /\ Len(specs) = 0 /\ DOMAIN specs = {} /\ specs \in Seq({})
    BY DEF Init
  <1>3. SpecsOK
    BY <1>2 DEF SpecsOK
  <1>4. SweepMatches
    BY DEF Init, SweepOff, SweepMatches
  <1>5. GuardLoop
    BY <1>2 DEF Init, GuardLoop
  <1>6. Refusals
    BY DEF Init, Refusals, None
  <1> QED BY <1>1, <1>3, <1>4, <1>5, <1>6 DEF PlanInv

LEMMA SweepKept ==
  ASSUME SweepInv, UNCHANGED sweepVars
  PROVE  SweepInv' /\ (\A x : Covered(x)' <=> Covered(x))
  <1>1. SweepInv'
    BY SweepInvStep
  <1>2. \A x : Covered(x)' <=> Covered(x)
    BY DEF sweepVars, Covered
  <1> QED BY <1>1, <1>2

\* A spec is added while the plan is made: no guard has run yet.
LEMMA PushKeeps ==
  ASSUME PlanInv, stage = "plan", NEW s, SpecOK(s), PushSpec(s)
  PROVE  PlanInv'
  <1>1. /\ specs' = Append(specs, s)
        /\ UNCHANGED <<sweepVars, input, stage, overlap, guardAt, refusal, replay>>
    BY DEF PushSpec
  <1>2. sweep = "off" /\ guardAt = 1 /\ refusal = None
    BY DEF PlanInv, SweepMatches, Guarding, GuardLoop, Refusals
  <1>3. PICK S : specs \in Seq(S)
    BY DEF PlanInv, SpecsOK
  <1>4. /\ specs' \in Seq(S \cup {s}) /\ Len(specs') = Len(specs) + 1 /\ Len(specs) \in Nat
        /\ DOMAIN specs' = 1 .. Len(specs') /\ DOMAIN specs = 1 .. Len(specs)
        /\ \A i \in DOMAIN specs : specs'[i] = specs[i]
        /\ specs'[Len(specs) + 1] = s
    <2>1. specs \in Seq(S \cup {s})
      BY <1>3
    <2> QED BY <1>1, <2>1
  <1>5. \A i \in DOMAIN specs' : i \in DOMAIN specs \/ i = Len(specs) + 1
    BY <1>4
  <1>6. SpecsOK'
    <2>1. \A i \in DOMAIN specs' : SpecOK(specs'[i])
      BY <1>4, <1>5 DEF PlanInv, SpecsOK
    <2>2. \A x : SpecOK(x)' <=> SpecOK(x)
      BY DEF SpecOK
    <2> QED BY <1>4, <2>1 DEF SpecsOK, SpecOK
  <1>7. SweepMatches'
    BY <1>1, <1>2 DEF sweepVars, SweepMatches
  <1>8. GuardLoop'
    BY <1>1, <1>2, <1>4 DEF GuardLoop
  <1>9. Refusals'
    BY <1>1, <1>2 DEF Refusals, None
  <1>10. SweepInv' /\ input' \in Inputs
    BY <1>1, SweepKept DEF PlanInv
  <1> QED BY <1>6, <1>7, <1>8, <1>9, <1>10 DEF PlanInv

\* What no later step changes.
LEMMA SameSpecs ==
  ASSUME UNCHANGED <<input, specs>>
  PROVE  /\ \A i : Allowed(i)' <=> Allowed(i)
         /\ \A ip : InNets(ip)' <=> InNets(ip)
         /\ SpecsOK' <=> SpecsOK
         /\ \A i : Addresses(specs[i])' = Addresses(specs[i])
  <1>1. \A ip : InNets(ip)' <=> InNets(ip)
    BY DEF InNets
  <1>2. \A i : Addresses(specs[i])' = Addresses(specs[i])
    BY DEF Addresses, SpecStream
  <1>3. \A i : Allowed(i)' <=> Allowed(i)
    BY <1>1, <1>2 DEF Allowed
  <1>4. SpecsOK' <=> SpecsOK
    BY DEF SpecsOK, SpecOK
  <1> QED BY <1>1, <1>2, <1>3, <1>4

LEMMA RefuseKeeps ==
  ASSUME PlanInv, sweep = "off", NEW why, Refuse(why),
         why.kind = "not_allowed" =>
           ~InNets(why.ip) /\ \E i \in DOMAIN specs : why.ip \in Addresses(specs[i])
  PROVE  PlanInv'
  <1>1. /\ stage' = "refused" /\ refusal' = why
        /\ UNCHANGED <<sweepVars, input, specs, overlap, guardAt, replay>>
    BY DEF Refuse
  <1>2. /\ \A i : Allowed(i)' <=> Allowed(i)
        /\ \A ip : InNets(ip)' <=> InNets(ip)
        /\ SpecsOK'
        /\ \A i : Addresses(specs[i])' = Addresses(specs[i])
    BY <1>1, SameSpecs DEF PlanInv
  <1>3. SweepInv' /\ input' \in Inputs
    BY <1>1, SweepKept DEF PlanInv
  <1>4. SweepMatches'
    BY <1>1 DEF sweepVars, SweepMatches
  <1>5. GuardLoop'
    BY <1>1, <1>2 DEF PlanInv, GuardLoop
  <1>6. Refusals'
    BY <1>1, <1>2 DEF Refusals
  <1> QED BY <1>2, <1>3, <1>4, <1>5, <1>6 DEF PlanInv

\* The stage moves on, or nothing the invariant speaks of changes.
LEMMA StageKeeps ==
  ASSUME PlanInv, UNCHANGED <<sweepVars, input, specs, guardAt, refusal>>,
         \/ stage' = stage
         \/ /\ stage \in {"plan", "overlap", "guard"}
            /\ sweep = "off"
            /\ stage' \in {"overlap", "guard", "planned"}
            /\ stage' = "overlap" => guardAt = 1
            /\ stage' = "planned" /\ input.guarded => guardAt > Len(specs)
  PROVE  PlanInv'
  <1>1. /\ \A i : Allowed(i)' <=> Allowed(i)
        /\ \A ip : InNets(ip)' <=> InNets(ip)
        /\ SpecsOK'
        /\ \A i : Addresses(specs[i])' = Addresses(specs[i])
    BY SameSpecs DEF PlanInv
  <1>2. SweepInv' /\ input' \in Inputs /\ (\A x : Covered(x)' <=> Covered(x))
    BY SweepKept DEF PlanInv
  <1>3. SweepMatches'
    <2>1. CASE sweep = "off"
      BY <2>1 DEF sweepVars, SweepMatches
    <2>2. CASE sweep # "off" /\ stage' = stage
      BY <2>2, <1>1, <1>2 DEF PlanInv, sweepVars, SweepMatches, Guarding
    <2> QED BY <2>1, <2>2
  <1>4. GuardLoop'
    BY <1>1 DEF PlanInv, GuardLoop
  <1>5. Refusals'
    BY <1>1 DEF PlanInv, Refusals
  <1> QED BY <1>1, <1>2, <1>3, <1>4, <1>5 DEF PlanInv

\* The bounds of a network's or a range's addresses are addresses, in order.
LEMMA CidrBoundsOK ==
  ASSUME NEW t, WellFormed(t), t.kind = "cidr"
  PROVE  SpecOK(Block(t.v6, CidrBounds(t), t))
  <1>1. t.v6 \in BOOLEAN /\ t.lo \in Addr /\ t.hi \in Addr /\ t.lo <= t.hi
    BY DEF WellFormed
  <1>2. t.lo \in Nat /\ t.hi \in Nat /\ t.hi <= MaxAddr
    BY <1>1, AddrIsInt
  <1> DEFINE b == CidrBounds(t)
  <1>3. CASE t.v6 \/ t.hi - t.lo <= 1
    <2>1. b.lo = t.lo /\ b.hi = t.hi
      BY <1>1, <1>3 DEF CidrBounds
    <2> QED BY <2>1, <1>1 DEF SpecOK, Block
  <1>4. CASE ~t.v6 /\ ~(t.hi - t.lo <= 1)
    <2>1. b.lo = t.lo + 1 /\ b.hi = t.hi - 1
      BY <1>1, <1>4 DEF CidrBounds
    <2>2. t.lo + 1 \in Addr /\ t.hi - 1 \in Addr /\ t.lo + 1 <= t.hi - 1
      BY <1>2, <1>4, MaxAddrAssumption DEF Addr
    <2> QED BY <2>1, <2>2, <1>1 DEF SpecOK, Block
  <1> QED BY <1>3, <1>4

LEMMA RangeBoundsOK ==
  ASSUME NEW t, WellFormed(t), t.kind = "range", ~RangeRefused(t)
  PROVE  SpecOK(Block(t.start[1], RangeBounds(t), t))
  <1>1. t.start[1] \in BOOLEAN /\ t.start[2] \in Addr /\ t.end[2] \in Addr
    BY DEF WellFormed, IpAddr
  <1>2. t.start[2] <= t.end[2]
    BY <1>1, AddrIsInt DEF RangeRefused
  <1>3. RangeBounds(t).lo = t.start[2] /\ RangeBounds(t).hi = t.end[2]
    BY DEF RangeBounds
  <1> QED BY <1>1, <1>2, <1>3 DEF SpecOK, Block

LEMMA TargetWellFormed ==
  ASSUME PlanInv, Planning
  PROVE  WellFormed(Target) /\ stage = "plan" /\ sweep = "off"
  <1>1. Len(specs) + 1 \in DOMAIN input.targets
    <2>1. Len(specs) \in Nat /\ Len(specs) < Len(input.targets)
      BY DEF PlanInv, SpecsOK, Planning
    <2>2. \E S : input.targets \in Seq(S)
      BY InputsAssumption DEF PlanInv
    <2> QED BY <2>1, <2>2
  <1>2. WellFormed(Target)
    BY <1>1, InputsAssumption DEF PlanInv, Target
  <1>3. stage = "plan" /\ sweep = "off"
    BY DEF Planning, PlanInv, SweepMatches, Guarding
  <1> QED BY <1>2, <1>3

LEMMA PlanSteps ==
  ASSUME PlanInv,
         PlanIp \/ PlanCidr \/ PlanRange \/ PlanUnqueryable
           \/ \E a6 \in Answers6, a4 \in Answers4 : PlanDns(a6, a4)
  PROVE  PlanInv'
  <1>1. Planning
    BY DEF PlanIp, PlanCidr, PlanRange, PlanUnqueryable, PlanDns
  <1>2. WellFormed(Target) /\ stage = "plan" /\ sweep = "off"
    BY <1>1, TargetWellFormed
  <1>3. \A why : Refuse(why) /\ why.kind # "not_allowed" => PlanInv'
    BY <1>2, RefuseKeeps
  <1>4. \A s : PushSpec(s) /\ SpecOK(s) => PlanInv'
    BY <1>2, PushKeeps
  <1>5. CASE PlanIp
    <2> DEFINE b == [lo |-> Target.ip[2], hi |-> Target.ip[2]]
    <2>1. Target.ip[1] \in BOOLEAN /\ Target.ip[2] \in Addr
      BY <1>2, <1>5 DEF PlanIp, WellFormed, IpAddr
    <2>2. SpecOK(Block(Target.ip[1], b, Target))
      BY <2>1, AddrIsInt DEF SpecOK, Block
    <2> QED BY <1>4, <1>5, <2>2 DEF PlanIp
  <1>6. CASE PlanCidr
    <2>1. SpecOK(Block(Target.v6, CidrBounds(Target), Target))
      BY <1>2, <1>6, CidrBoundsOK DEF PlanCidr
    <2> QED BY <1>3, <1>4, <1>6, <2>1 DEF PlanCidr
  <1>7. CASE PlanRange
    <2>1. CASE RangeRefused(Target)
      BY <1>3, <1>7, <2>1 DEF PlanRange
    <2>2. CASE ~RangeRefused(Target)
      <3>1. SpecOK(Block(Target.start[1], RangeBounds(Target), Target))
        BY <1>2, <1>7, <2>2, RangeBoundsOK DEF PlanRange
      <3> QED BY <1>3, <1>4, <1>7, <2>2, <3>1 DEF PlanRange
    <2> QED BY <2>1, <2>2
  <1>8. \A ips : SpecOK(Points(ips, Target))
    BY DEF SpecOK, Points
  <1>9. CASE PlanUnqueryable
    BY <1>4, <1>8, <1>9 DEF PlanUnqueryable
  <1>10. ASSUME NEW a6 \in Answers6, NEW a4 \in Answers4, PlanDns(a6, a4)
         PROVE  PlanInv'
    <2> DEFINE merged == MergeFamilyLookups(a6, a4)
    <2>1. \/ PushSpec(Points(merged.ips, Target))
          \/ PushSpec(Points(<<>>, Target))
          \/ Refuse([kind |-> "dns_failed"])
      BY <1>10 DEF PlanDns
    <2> QED BY <2>1, <1>3, <1>4, <1>8
  <1> QED BY <1>5, <1>6, <1>7, <1>9, <1>10

LEMMA GuardBlockKeeps == PlanInv /\ GuardBlock => PlanInv'
  <1> SUFFICES ASSUME PlanInv, GuardBlock PROVE PlanInv'
    OBVIOUS
  <1> DEFINE s == specs[guardAt]
             b == [lo |-> s.lo, hi |-> s.hi]
  <1>1. Guarding /\ sweep = "off" /\ s.kind = "block" /\ UNCHANGED planVars
    BY DEF GuardBlock
  <1>2. PICK sorted \in Sortings(FamilyNets(s.v6)) : SweepBegin(b, sorted)
    BY DEF GuardBlock
  <1>3. guardAt \in DOMAIN specs
    BY <1>1 DEF PlanInv, SpecsOK, GuardLoop, Guarding
  <1>4. s.v6 \in BOOLEAN /\ b \in Interval
    BY <1>1, <1>3 DEF PlanInv, SpecsOK, SpecOK, Interval
  <1>5. /\ sorted \in Seq(Interval)
        /\ \A x \in Addr : (\E k \in DOMAIN sorted : sorted[k].lo <= x /\ x <= sorted[k].hi)
                             <=> InNets(<<s.v6, x>>)
    BY <1>2, <1>4, SortingsCover DEF PlanInv
  <1>6. SweepInv'
    BY <1>2, <1>4, <1>5, SweepInvBegin DEF PlanInv
  <1>7. UNCHANGED <<input, stage, specs, guardAt, refusal>>
    BY <1>1 DEF planVars
  <1>8. /\ \A i : Allowed(i)' <=> Allowed(i)
        /\ \A ip : InNets(ip)' <=> InNets(ip)
        /\ SpecsOK'
        /\ \A i : Addresses(specs[i])' = Addresses(specs[i])
    BY <1>7, SameSpecs DEF PlanInv
  <1>9. block' = b /\ ivals' = sorted
    BY <1>2 DEF SweepBegin
  <1>10. \A x \in Addr : Covered(x)' <=> InNets(<<s.v6, x>>)
    BY <1>5, <1>9 DEF Covered
  <1>11. SweepMatches'
    BY <1>1, <1>7, <1>8, <1>9, <1>10 DEF SweepMatches, Guarding
  <1>12. GuardLoop' /\ Refusals'
    BY <1>7, <1>8 DEF PlanInv, GuardLoop, Refusals
  <1> QED BY <1>6, <1>7, <1>8, <1>11, <1>12 DEF PlanInv

LEMMA GuardSweepKeeps == PlanInv /\ GuardSweep => PlanInv'
  <1> SUFFICES ASSUME PlanInv, GuardSweep PROVE PlanInv'
    OBVIOUS
  <1>1. UNCHANGED <<input, stage, specs, guardAt, refusal>> /\ Guarding
    BY DEF GuardSweep, planVars
  <1>2. UNCHANGED <<block, ivals>> /\ sweep # "off"
    BY DEF GuardSweep, SweepStep, SweepGap, SweepCovered, SweepAdvance, SweepDry
  <1>3. SweepInv'
    BY SweepInvStep DEF PlanInv, GuardSweep, SweepNext
  <1>4. /\ \A i : Allowed(i)' <=> Allowed(i)
        /\ \A ip : InNets(ip)' <=> InNets(ip)
        /\ SpecsOK'
        /\ \A i : Addresses(specs[i])' = Addresses(specs[i])
    BY <1>1, SameSpecs DEF PlanInv
  <1>5. \A x : Covered(x)' <=> Covered(x)
    BY <1>2 DEF Covered
  <1>6. SweepMatches'
    BY <1>1, <1>2, <1>4, <1>5 DEF PlanInv, SweepMatches, Guarding
  <1>7. GuardLoop' /\ Refusals'
    BY <1>1, <1>4 DEF PlanInv, GuardLoop, Refusals
  <1> QED BY <1>1, <1>3, <1>4, <1>6, <1>7 DEF PlanInv

LEMMA GuardBlockDoneKeeps == PlanInv /\ GuardBlockDone => PlanInv'
  <1> SUFFICES ASSUME PlanInv, GuardBlockDone PROVE PlanInv'
    OBVIOUS
  <1> DEFINE s == specs[guardAt]
  <1>1. /\ Guarding /\ sweep \in {"covered", "uncovered"} /\ sweep' = "off"
        /\ UNCHANGED <<block, ivals, next, cursor, input, specs>>
    BY DEF GuardBlockDone
  <1>2. /\ \A i : Allowed(i)' <=> Allowed(i)
        /\ \A ip : InNets(ip)' <=> InNets(ip)
        /\ SpecsOK'
        /\ \A i : Addresses(specs[i])' = Addresses(specs[i])
    BY <1>1, SameSpecs DEF PlanInv
  <1>3. SweepInv'
    <2>1. SweepTypeOK'
      BY <1>1 DEF PlanInv, SweepInv, SweepTypeOK
    <2>2. Sorted(ivals)' /\ LoopInv' /\ SweepExact'
      BY <1>1 DEF PlanInv, SweepInv, Sorted, LoopInv, SweepExact
    <2> QED BY <2>1, <2>2 DEF SweepInv
  <1>4. guardAt \in DOMAIN specs /\ guardAt \in Nat /\ Len(specs) \in Nat /\ stage = "guard"
    BY <1>1 DEF PlanInv, SpecsOK, GuardLoop, Guarding
  <1>5. /\ s.kind = "block" /\ SpecOK(s) /\ s.lo = block.lo /\ s.hi = block.hi
        /\ \A x \in Addr : Covered(x) <=> InNets(<<s.v6, x>>)
    BY <1>1, <1>4 DEF PlanInv, SpecsOK, SweepMatches
  <1>6. Addresses(s) = {<<s.v6, x>> : x \in s.lo .. s.hi}
    BY <1>5, BlockAddresses
  <1>7. \A x \in s.lo .. s.hi : x \in Addr
    BY <1>5, MaxAddrAssumption DEF SpecOK, Addr
  <1>8. SweepMatches'
    BY <1>1 DEF SweepMatches
  <1>9. CASE sweep = "covered"
    <2>1. Allowed(guardAt)
      BY <1>5, <1>6, <1>7, <1>9 DEF PlanInv, SweepInv, SweepExact, Allowed
    <2>2. guardAt' = guardAt + 1 /\ UNCHANGED <<stage, refusal>>
      BY <1>9 DEF GuardBlockDone
    <2>3. \A i \in DOMAIN specs : i < guardAt + 1 => i < guardAt \/ i = guardAt
      BY <1>4 DEF PlanInv, SpecsOK
    <2>4. GuardLoop'
      BY <1>1, <1>2, <1>4, <2>1, <2>2, <2>3 DEF PlanInv, GuardLoop, Guarding
    <2>5. Refusals'
      BY <1>1, <1>2, <2>2 DEF PlanInv, Refusals
    <2> QED BY <1>1, <1>2, <1>3, <1>8, <2>4, <2>5 DEF PlanInv
  <1>10. CASE sweep = "uncovered"
    <2>1. cursor \in s.lo .. s.hi /\ ~Covered(cursor)
      BY <1>5, <1>10 DEF PlanInv, SweepInv, SweepExact
    <2>2. ~InNets(<<s.v6, cursor>>) /\ <<s.v6, cursor>> \in Addresses(s)
      BY <1>5, <1>6, <1>7, <2>1
    <2>3. /\ stage' = "refused" /\ guardAt' = guardAt
          /\ refusal' = [kind |-> "not_allowed", ip |-> <<s.v6, cursor>>]
      BY <1>10 DEF GuardBlockDone
    <2>4. GuardLoop'
      BY <1>1, <1>2, <2>3 DEF PlanInv, GuardLoop
    <2>5. refusal'.ip = <<s.v6, cursor>> /\ specs'[guardAt] = specs[guardAt]
      BY <1>1, <2>3
    <2>6. Refusals'
      BY <1>1, <1>2, <1>4, <2>2, <2>3, <2>5 DEF Refusals
    <2> QED BY <1>1, <1>2, <1>3, <1>8, <2>4, <2>6 DEF PlanInv
  <1> QED BY <1>1, <1>9, <1>10

LEMMA GuardPointsKeeps == PlanInv /\ GuardPoints => PlanInv'
  <1> SUFFICES ASSUME PlanInv, GuardPoints PROVE PlanInv'
    OBVIOUS
  <1> DEFINE ips == specs[guardAt].ips
             bad == {i \in DOMAIN ips : ~InNets(ips[i])}
  <1>1. Guarding /\ sweep = "off" /\ specs[guardAt].kind = "points"
    BY DEF GuardPoints
  <1>2. guardAt \in DOMAIN specs /\ guardAt \in Nat /\ Len(specs) \in Nat /\ stage = "guard"
    BY <1>1 DEF PlanInv, SpecsOK, GuardLoop, Guarding
  <1>3. Addresses(specs[guardAt]) = {ips[i] : i \in DOMAIN ips}
    BY <1>1, PointAddresses
  <1>4. CASE /\ bad = {} /\ guardAt' = guardAt + 1
             /\ UNCHANGED <<sweepVars, input, stage, specs, overlap, refusal, replay>>
    <2>1. Allowed(guardAt)
      BY <1>3, <1>4 DEF Allowed
    <2>2. /\ \A i : Allowed(i)' <=> Allowed(i)
          /\ \A ip : InNets(ip)' <=> InNets(ip)
          /\ SpecsOK'
          /\ \A i : Addresses(specs[i])' = Addresses(specs[i])
      BY <1>4, SameSpecs DEF PlanInv
    <2>3. \A i \in DOMAIN specs : i < guardAt + 1 => i < guardAt \/ i = guardAt
      BY <1>2 DEF PlanInv, SpecsOK
    <2>4. GuardLoop'
      BY <1>1, <1>2, <1>4, <2>1, <2>2, <2>3 DEF PlanInv, GuardLoop, Guarding
    <2>5. Refusals'
      BY <1>4, <2>2 DEF PlanInv, Refusals
    <2>6. SweepInv' /\ input' \in Inputs
      BY <1>4, SweepKept DEF PlanInv
    <2>7. SweepMatches'
      BY <1>1, <1>4 DEF sweepVars, SweepMatches
    <2> QED BY <2>2, <2>4, <2>5, <2>6, <2>7 DEF PlanInv
  <1>5. ASSUME NEW i \in bad, Refuse([kind |-> "not_allowed", ip |-> ips[i]])
        PROVE  PlanInv'
    <2>1. ~InNets(ips[i]) /\ ips[i] \in Addresses(specs[guardAt])
      BY <1>3
    <2> QED BY <1>1, <1>2, <1>5, <2>1, RefuseKeeps
  <1> QED BY <1>4, <1>5 DEF GuardPoints

LEMMA NextPlanInv == PlanInv /\ [Next]_vars => PlanInv'
  <1> SUFFICES ASSUME PlanInv, [Next]_vars PROVE PlanInv'
    OBVIOUS
  <1>1. CASE PlanIp \/ PlanCidr \/ PlanRange \/ PlanUnqueryable
               \/ \E a6 \in Answers6, a4 \in Answers4 : PlanDns(a6, a4)
    BY <1>1, PlanSteps
  <1>2. CASE BeginOverlaps \/ EndOverlaps
    <2>1. sweep = "off" /\ (stage \in {"plan", "overlap"} => guardAt = 1)
      BY <1>2 DEF BeginOverlaps, EndOverlaps, PlanInv, SweepMatches, Guarding, GuardLoop
    <2> QED BY <1>2, <2>1, StageKeeps DEF BeginOverlaps, EndOverlaps
  <1>3. CASE OverlapStep \/ Done \/ UNCHANGED vars
              \/ \E ts \in Edits(input.targets) : Resume(ts)
    BY <1>3, StageKeeps DEF OverlapStep, Done, Resume, vars, planVars
  <1>4. CASE GuardBlock \/ GuardSweep \/ GuardBlockDone \/ GuardPoints
    BY <1>4, GuardBlockKeeps, GuardSweepKeeps, GuardBlockDoneKeeps, GuardPointsKeeps
  <1>5. CASE GuardCap
    <2>1. stage = "guard" /\ (~input.guarded \/ guardAt > Len(specs))
      BY <1>5 DEF GuardCap
    <2>2. sweep = "off"
      <3>1. guardAt \in Nat /\ Len(specs) \in Nat
        BY DEF PlanInv, GuardLoop, SpecsOK
      <3>2. ~Guarding
        BY <2>1, <3>1 DEF Guarding
      <3> QED BY <3>2 DEF PlanInv, SweepMatches
    <2>3. CASE Refuse([kind |-> "cap_exceeded"])
      BY <2>2, <2>3, RefuseKeeps
    <2>4. CASE /\ stage' = "planned"
               /\ UNCHANGED <<sweepVars, input, specs, overlap, guardAt, refusal, replay>>
      BY <2>1, <2>2, <2>4, StageKeeps
    <2> QED BY <1>5, <2>3, <2>4 DEF GuardCap
  <1> QED BY <1>1, <1>2, <1>3, <1>4, <1>5 DEF Next

\* AllowListHolds: no plan that passes the guard has an address outside the
\* allow-list, and every refusal names one that is (GuardedResolver::plan),
\* for all targets, lookups, allow-lists and address widths.
THEOREM AllowListHolds == Spec => []GuardExact
  <1>1. PlanInv => GuardExact
    <2> SUFFICES ASSUME PlanInv PROVE GuardExact
      OBVIOUS
    <2>1. ASSUME stage = "planned", input.guarded, NEW i \in DOMAIN specs
          PROVE  \A ip \in Addresses(specs[i]) : InNets(ip)
      <3>1. guardAt > Len(specs) /\ guardAt \in Nat /\ Len(specs) \in Nat /\ i \in 1 .. Len(specs)
        BY <2>1 DEF PlanInv, GuardLoop, SpecsOK
      <3>2. i < guardAt
        BY <3>1
      <3>3. Allowed(i)
        BY <2>1, <3>2 DEF PlanInv, GuardLoop
      <3> QED BY <3>3 DEF Allowed
    <2>2. refusal.kind = "not_allowed" =>
            /\ ~InNets(refusal.ip)
            /\ \E i \in DOMAIN specs : refusal.ip \in Addresses(specs[i])
      BY DEF PlanInv, Refusals
    <2> QED BY <2>1, <2>2 DEF GuardExact
  <1> QED BY InitPlanInv, NextPlanInv, <1>1, PTL DEF Spec

\* PlanSweepCorrect: the sweep the guard runs answers exactly, for every
\* block of every plan (uncovered_point).
THEOREM PlanSweepCorrect == Spec => []SweepExact
  <1>1. PlanInv => SweepExact
    BY DEF PlanInv, SweepInv
  <1> QED BY InitPlanInv, NextPlanInv, <1>1, PTL DEF Spec

-----------------------------------------------------------------------------
(* The host count *)

\* total_hosts adds the specs' counts up, one by one.
LEMMA TotalHostsFold ==
  ASSUME NEW ss, NEW n \in Nat, DOMAIN ss = 1 .. n,
         \A k \in 1 .. n : Hosts(ss[k]) \in Nat
  PROVE  \E h : /\ h[0] = 0
                /\ \A k \in 1 .. n : h[k] = SatAdd(h[k - 1], Hosts(ss[k]))
                /\ TotalHosts(ss) = h[n]
<1> DEFINE Sum(g) == [s \in SUBSET DOMAIN ss |->
                        IF s = {} THEN 0
                        ELSE LET x == Max(s)
                             IN  SatAdd(g[s \ {x}], Hosts(ss[x]))]
           sum == CHOOSE g : g = Sum(g)
           F == [i \in 1 .. n |-> [x \in Nat |-> SatAdd(x, Hosts(ss[i]))]]
           h == [k \in 0 .. n |-> sum[1 .. k]]
<1>1. \A i \in 1 .. n : \A x \in Nat : SatAdd(x, Hosts(ss[i])) \in Nat
  BY LimitsAssumption DEF SatAdd
<1>2. StepsIn(F, n, Nat)
  BY <1>1 DEF StepsIn
<1>3. \A i \in 1 .. n : \A x \in Nat : F[i][x] = SatAdd(x, Hosts(ss[i]))
  OBVIOUS
<1> HIDE DEF F
<1>4. PICK g \in [SUBSET (1 .. n) -> Nat] : Fold(F, 0, n, g)
  BY <1>2, FoldExists
<1>5. \A s \in SUBSET (1 .. n) :
        s # {} => Max(s) \in 1 .. n /\ s \ {Max(s)} \in SUBSET (1 .. n)
  BY MaxOfIndexes
<1>6. \A s \in SUBSET (1 .. n) :
        s # {} => F[Max(s)][g[s \ {Max(s)}]] = SatAdd(g[s \ {Max(s)}], Hosts(ss[Max(s)]))
  BY <1>3, <1>4, <1>5
<1>7. g = Sum(g)
  BY <1>4, <1>6 DEF Fold
<1>8. sum = Sum(sum)
  BY <1>7
<1>9. TotalHosts(ss) = sum[1 .. n]
  <2>1. TotalHosts(ss) = sum[DOMAIN ss]
    BY Zenon DEF TotalHosts, FoldLeft, MapThenFoldSet
  <2> QED BY <2>1
<1> HIDE DEF sum
<1>10. h[0] = 0
  <2>1. 1 .. 0 = {} /\ {} \in SUBSET DOMAIN ss
    OBVIOUS
  <2>2. sum[{}] = 0
    BY <1>8, <2>1
  <2> QED BY <2>1, <2>2
<1>11. ASSUME NEW k \in 1 .. n
       PROVE  h[k] = SatAdd(h[k - 1], Hosts(ss[k]))
  <2>1. 1 .. k # {} /\ Max(1 .. k) = k /\ (1 .. k) \ {k} = 1 .. k - 1
    <3>1. k \in Nat \ {0}
      OBVIOUS
    <3> QED BY <3>1, PrefixIndexes
  <2>2. 1 .. k \in SUBSET DOMAIN ss
    OBVIOUS
  <2>3. sum[1 .. k] = SatAdd(sum[1 .. k - 1], Hosts(ss[k]))
    BY <1>8, <2>1, <2>2
  <2>4. k \in 0 .. n /\ k - 1 \in 0 .. n
    OBVIOUS
  <2> QED BY <2>3, <2>4
<1>12. h[n] = sum[1 .. n]
  OBVIOUS
<1> HIDE DEF h
<1> QED BY <1>9, <1>10, <1>11, <1>12

\* Concatenating a list of lists, one by one.
LEMMA FlattenFold ==
  ASSUME NEW A, NEW q \in Seq(Seq(A))
  PROVE  \E h : /\ h[0] = <<>>
                /\ \A k \in 1 .. Len(q) : h[k] = h[k - 1] \o q[k]
                /\ \A k \in 0 .. Len(q) : h[k] \in Seq(A)
                /\ FlattenSeq(q) = h[Len(q)]
<1> DEFINE n == Len(q)
           F == [i \in 1 .. n |-> [x \in Seq(A) |-> x \o q[i]]]
           Flat(g) == [i \in 1 .. Len(q) |-> IF i = 1 THEN q[i] ELSE g[i - 1] \o q[i]]
           flatten == CHOOSE g : g = Flat(g)
           h == [k \in 0 .. n |-> IF k = 0 THEN <<>> ELSE flatten[k]]
<1>1. n \in Nat /\ \A i \in 1 .. n : q[i] \in Seq(A)
  OBVIOUS
<1> HIDE DEF n
<1>2. \A i \in 1 .. n : \A x \in Seq(A) : x \o q[i] \in Seq(A)
  BY <1>1
<1>3. StepsIn(F, n, Seq(A))
  BY <1>2 DEF StepsIn
<1>4. <<>> \in Seq(A)
  OBVIOUS
<1> HIDE DEF F
<1>5. PICK g \in [SUBSET (1 .. n) -> Seq(A)] : Fold(F, <<>>, n, g)
  BY <1>1, <1>3, <1>4, FoldExists
<1> DEFINE f == [k \in 1 .. n |-> g[1 .. k]]
<1>6. g[1 .. 0] = <<>>
  <2>1. 1 .. 0 = {} /\ {} \in SUBSET (1 .. n)
    OBVIOUS
  <2> QED BY <1>5, <2>1 DEF Fold
<1>7. ASSUME NEW k \in 1 .. n PROVE g[1 .. k] = g[1 .. k - 1] \o q[k]
  <2>1. 1 .. k # {} /\ Max(1 .. k) = k /\ (1 .. k) \ {k} = 1 .. k - 1
    <3>1. k \in Nat \ {0}
      BY <1>1
    <3> QED BY <3>1, PrefixIndexes
  <2>2. 1 .. k \in SUBSET (1 .. n) /\ 1 .. k - 1 \in SUBSET (1 .. n)
    BY <1>1
  <2>3. g[1 .. k] = F[k][g[1 .. k - 1]]
    BY <1>5, <2>1, <2>2 DEF Fold
  <2>4. g[1 .. k - 1] \in Seq(A)
    BY <1>5, <2>2
  <2> QED BY <2>3, <2>4 DEF F
<1>8. f = Flat(f)
  <2> SUFFICES ASSUME NEW k \in 1 .. n
               PROVE  f[k] = IF k = 1 THEN q[k] ELSE f[k - 1] \o q[k]
    BY DEF n
  <2>1. CASE k = 1
    <3>0. 1 .. k - 1 = 1 .. 0
      BY <2>1
    <3>1. g[1 .. 1] = <<>> \o q[1]
      BY <1>6, <1>7, <2>1, <3>0
    <3>2. <<>> \o q[1] = q[1]
      BY <1>1, <2>1
    <3> QED BY <2>1, <3>1, <3>2
  <2>2. CASE k # 1
    <3>1. k - 1 \in 1 .. n
      BY <1>1, <2>2
    <3> QED BY <1>7, <2>2, <3>1
  <2> QED BY <2>1, <2>2
<1> HIDE DEF f
<1>9. flatten = Flat(flatten)
  BY <1>8
<1>10. n # 0 => FlattenSeq(q) = flatten[n]
  BY Zenon DEF FlattenSeq, n
<1> HIDE DEF flatten
<1>11. \A k \in 1 .. n : flatten[k] = IF k = 1 THEN q[k] ELSE flatten[k - 1] \o q[k]
  BY <1>9 DEF n
<1>12. h[0] = <<>>
  BY <1>1
<1>13. ASSUME NEW k \in 1 .. n PROVE h[k] = h[k - 1] \o q[k]
  <2>1. h[k] = flatten[k]
    BY <1>1
  <2>2. CASE k = 1
    <3>1. h[k - 1] = <<>>
      BY <1>1, <2>2
    <3>2. q[k] = <<>> \o q[k]
      BY <1>1
    <3>3. flatten[k] = q[k]
      BY <1>11, <2>2
    <3> HIDE DEF h
    <3> QED BY <2>1, <3>1, <3>2, <3>3
  <2>3. CASE k # 1
    <3>1. h[k - 1] = flatten[k - 1]
      BY <1>1, <2>3
    <3>2. flatten[k] = flatten[k - 1] \o q[k]
      BY <1>11, <2>3
    <3> HIDE DEF h
    <3> QED BY <2>1, <3>1, <3>2
  <2> QED BY <2>2, <2>3
<1>14. FlattenSeq(q) = h[n]
  <2>1. CASE n = 0
    <3>1. q = <<>>
      BY <2>1 DEF n
    <3>2. FlattenSeq(q) = q
      BY <2>1 DEF FlattenSeq, n
    <3> QED BY <1>12, <2>1, <3>1, <3>2
  <2>2. CASE n # 0
    BY <1>1, <1>10, <2>2
  <2> QED BY <2>1, <2>2
<1> HIDE DEF h
<1>15. \A k \in 0 .. n : h[k] \in Seq(A)
  <2> DEFINE T == {k \in 0 .. n : h[k] \in Seq(A)}
  <2>1. 0 \in T
    <3>1. 0 \in 0 .. n
      BY <1>1
    <3>2. h[0] \in Seq(A)
      BY <1>4, <1>12
    <3> QED BY <3>1, <3>2
  <2>2. ASSUME NEW k \in 0 .. n - 1, k \in T PROVE k + 1 \in T
    <3>1. k + 1 \in 1 .. n /\ (k + 1) - 1 = k
      BY <1>1
    <3>2. h[k + 1] = h[k] \o q[k + 1]
      BY <1>13, <3>1
    <3>3. h[k] \in Seq(A) /\ q[k + 1] \in Seq(A)
      BY <1>1, <2>2, <3>1
    <3>4. h[k + 1] \in Seq(A)
      BY <3>2, <3>3
    <3>5. k + 1 \in 0 .. n
      BY <1>1
    <3> QED BY <3>4, <3>5
  <2> HIDE DEF T
  <2>3. \A k \in 0 .. n : k \in T
    BY <1>1, <2>1, <2>2, InductionUpTo
  <2> QED BY <2>3 DEF T
<1> QED BY <1>12, <1>13, <1>14, <1>15 DEF n

\* The saturated count of a plan is the length of its stream, cut off at
\* usize::MAX.
LEMMA CountMatchesStream ==
  ASSUME NEW ss, NEW A, NEW n \in Nat, DOMAIN ss = 1 .. n,
         \A k \in 1 .. n : /\ SpecStream(ss[k]) \in Seq(A)
                           /\ Hosts(ss[k]) = Len(SpecStream(ss[k]))
  PROVE  /\ Len(Stream(ss)) \in Nat
         /\ TotalHosts(ss) = IF Len(Stream(ss)) > UsizeMax THEN UsizeMax ELSE Len(Stream(ss))
<1> DEFINE q == [i \in DOMAIN ss |-> SpecStream(ss[i])]
<1>1. q \in Seq(Seq(A)) /\ Len(q) = n /\ \A k \in 1 .. n : q[k] = SpecStream(ss[k])
  OBVIOUS
<1>2. Stream(ss) = FlattenSeq(q)
  BY DEF Stream
<1> HIDE DEF q
<1>3. PICK f : /\ f[0] = <<>>
               /\ \A k \in 1 .. n : f[k] = f[k - 1] \o q[k]
               /\ \A k \in 0 .. n : f[k] \in Seq(A)
               /\ FlattenSeq(q) = f[n]
  BY <1>1, FlattenFold
<1>4. \A k \in 1 .. n : Hosts(ss[k]) \in Nat
  OBVIOUS
<1>5. PICK h : /\ h[0] = 0
               /\ \A k \in 1 .. n : h[k] = SatAdd(h[k - 1], Hosts(ss[k]))
               /\ TotalHosts(ss) = h[n]
  BY <1>4, TotalHostsFold
<1> DEFINE Cut(x) == IF x > UsizeMax THEN UsizeMax ELSE x
           T == {k \in 0 .. n : h[k] = Cut(Len(f[k]))}
<1>6. 0 \in T
  BY <1>3, <1>5, LimitsAssumption
<1>7. ASSUME NEW k \in 0 .. n - 1, k \in T PROVE k + 1 \in T
  <2>1. k \in 0 .. n /\ k + 1 \in 1 .. n /\ k + 1 \in 0 .. n /\ (k + 1) - 1 = k
    OBVIOUS
  <2>2. f[k] \in Seq(A) /\ q[k + 1] \in Seq(A) /\ Len(q[k + 1]) = Hosts(ss[k + 1])
    BY <1>1, <1>3, <2>1
  <2>3. f[k + 1] = f[k] \o q[k + 1]
    BY <1>3, <2>1
  <2>4. /\ Len(f[k + 1]) = Len(f[k]) + Hosts(ss[k + 1])
        /\ Len(f[k]) \in Nat
        /\ Hosts(ss[k + 1]) \in Nat
    <3>1. Len(f[k] \o q[k + 1]) = Len(f[k]) + Len(q[k + 1])
      BY <2>2, ConcatProperties
    <3>2. Len(f[k]) \in Nat /\ Len(q[k + 1]) \in Nat
      BY <2>2
    <3> QED BY <2>2, <2>3, <3>1, <3>2
  <2>5. h[k + 1] = SatAdd(h[k], Hosts(ss[k + 1]))
    BY <1>5, <2>1
  <2>6. h[k] = Cut(Len(f[k]))
    BY <1>7
  <2>7. h[k + 1] = Cut(Len(f[k + 1]))
    BY <2>4, <2>5, <2>6, LimitsAssumption DEF SatAdd
  <2> QED BY <2>1, <2>7
<1>8. n \in T
  <2> HIDE DEF T
  <2>1. \A k \in 0 .. n : k \in T
    BY <1>6, <1>7, InductionUpTo
  <2> QED BY <2>1
<1>9. Len(f[n]) \in Nat
  BY <1>3
<1> QED BY <1>2, <1>3, <1>5, <1>8, <1>9

-----------------------------------------------------------------------------
(* What is planned for a target *)

\* The addresses of a name are addresses.
LEMMA EachAddressOnceType ==
  ASSUME NEW ips \in Seq(IpAddr)
  PROVE  EachAddressOnce(ips) \in Seq(IpAddr)
<1> DEFINE n == Len(ips)
           Step(kept, ip) == IF Contains(kept, ip) THEN kept ELSE Append(kept, ip)
           Kept(g) == [s \in SUBSET DOMAIN ips |->
                         IF s = {} THEN <<>>
                         ELSE LET x == Max(s)
                              IN  Step(g[s \ {x}], ips[x])]
           kept == CHOOSE g : g = Kept(g)
           F == [i \in 1 .. n |-> [x \in Seq(IpAddr) |-> Step(x, ips[i])]]
<1>1. n \in Nat /\ DOMAIN ips = 1 .. n /\ \A i \in 1 .. n : ips[i] \in IpAddr
  OBVIOUS
<1> HIDE DEF n
<1>2. \A i \in 1 .. n : \A x \in Seq(IpAddr) : Step(x, ips[i]) \in Seq(IpAddr)
  BY <1>1
<1>3. EachAddressOnce(ips) = kept[DOMAIN ips]
  BY Zenon DEF EachAddressOnce, FoldLeft, MapThenFoldSet
<1> HIDE DEF Step
<1>4. StepsIn(F, n, Seq(IpAddr))
  BY <1>2 DEF StepsIn
<1>5. \A i \in 1 .. n : \A x \in Seq(IpAddr) : F[i][x] = Step(x, ips[i])
  OBVIOUS
<1>6. <<>> \in Seq(IpAddr)
  OBVIOUS
<1> HIDE DEF F
<1>7. PICK g \in [SUBSET (1 .. n) -> Seq(IpAddr)] : Fold(F, <<>>, n, g)
  BY <1>1, <1>4, <1>6, FoldExists
<1>8. \A s \in SUBSET (1 .. n) :
        s # {} => Max(s) \in 1 .. n /\ s \ {Max(s)} \in SUBSET (1 .. n)
  BY <1>1, MaxOfIndexes
<1>9. \A s \in SUBSET (1 .. n) :
        s # {} => F[Max(s)][g[s \ {Max(s)}]] = Step(g[s \ {Max(s)}], ips[Max(s)])
  BY <1>5, <1>7, <1>8
<1>10. g = Kept(g)
  BY <1>1, <1>7, <1>9 DEF Fold
<1>11. kept = Kept(kept)
  BY <1>10
<1> HIDE DEF kept
<1> DEFINE T == {k \in 0 .. n : kept[1 .. k] \in Seq(IpAddr)}
<1>12. 0 \in T
  <2>1. 1 .. 0 = {} /\ {} \in SUBSET DOMAIN ips /\ 0 \in 0 .. n
    BY <1>1
  <2>2. kept[{}] = <<>>
    BY <1>11, <2>1
  <2> QED BY <1>6, <2>1, <2>2
<1>13. ASSUME NEW k \in 0 .. n - 1, k \in T PROVE k + 1 \in T
  <2>1. k + 1 \in Nat \ {0} /\ (k + 1) - 1 = k /\ k + 1 \in 1 .. n /\ k + 1 \in 0 .. n
    BY <1>1
  <2>2. 1 .. k + 1 # {} /\ Max(1 .. k + 1) = k + 1 /\ (1 .. k + 1) \ {k + 1} = 1 .. k
    BY <2>1, PrefixIndexes
  <2>3. 1 .. k + 1 \in SUBSET DOMAIN ips
    BY <1>1, <2>1
  <2>4. kept[1 .. k + 1] = Step(kept[1 .. k], ips[k + 1])
    BY <1>11, <2>2, <2>3
  <2>5. kept[1 .. k] \in Seq(IpAddr)
    BY <1>13
  <2>6. kept[1 .. k + 1] \in Seq(IpAddr)
    BY <1>2, <2>1, <2>4, <2>5
  <2> QED BY <2>1, <2>6
<1> HIDE DEF T
<1>14. \A k \in 0 .. n : k \in T
  BY <1>1, <1>12, <1>13, InductionUpTo
<1>15. n \in T
  BY <1>1, <1>14
<1> QED BY <1>1, <1>3, <1>15 DEF T

\* The counts of a network and of a range are numbers, and below the last
\* address exact.
LEMMA CountsAreNumbers ==
  ASSUME NEW t, WellFormed(t)
  PROVE  /\ t.kind = "cidr" =>
              /\ CidrBounds(t).hosts \in Nat
              /\ CidrBounds(t).hosts < MaxAddr =>
                   CidrBounds(t).hi - CidrBounds(t).lo + 1 = CidrBounds(t).hosts
         /\ t.kind = "range" /\ ~RangeRefused(t) =>
              /\ RangeBounds(t).hosts \in Nat
              /\ RangeBounds(t).hosts < MaxAddr =>
                   RangeBounds(t).hi - RangeBounds(t).lo + 1 = RangeBounds(t).hosts
<1>1. CASE t.kind = "cidr"
  <2>1. t.v6 \in BOOLEAN /\ t.lo \in Nat /\ t.hi \in Nat /\ t.lo <= t.hi
    BY <1>1, AddrIsInt DEF WellFormed
  <2>2. CASE t.v6
    <3>1. CidrBounds(t) = [lo |-> t.lo, hi |-> t.hi, hosts |-> SatCount(t.hi - t.lo)]
      BY <2>2 DEF CidrBounds
    <3> QED BY <1>1, <2>1, <3>1, MaxAddrAssumption DEF SatCount
  <2>3. CASE ~t.v6 /\ t.hi - t.lo <= 1
    <3>1. CidrBounds(t) = [lo |-> t.lo, hi |-> t.hi, hosts |-> t.hi - t.lo + 1]
      BY <2>3 DEF CidrBounds
    <3> QED BY <1>1, <2>1, <3>1
  <2>4. CASE ~t.v6 /\ ~(t.hi - t.lo <= 1)
    <3>1. CidrBounds(t) = [lo |-> t.lo + 1, hi |-> t.hi - 1, hosts |-> t.hi - t.lo - 1]
      BY <2>4 DEF CidrBounds
    <3> QED BY <1>1, <2>1, <2>4, <3>1
  <2> QED BY <2>2, <2>3, <2>4
<1>2. CASE t.kind = "range" /\ ~RangeRefused(t)
  <2>1. /\ t.start[1] \in BOOLEAN /\ t.start[2] \in Nat /\ t.end[2] \in Nat
        /\ t.start[2] <= t.end[2]
    BY <1>2, AddrIsInt DEF WellFormed, IpAddr, RangeRefused
  <2>2. /\ RangeBounds(t).lo = t.start[2]
        /\ RangeBounds(t).hi = t.end[2]
        /\ RangeBounds(t).hosts = IF t.start[1] THEN SatCount(t.end[2] - t.start[2])
                                                ELSE t.end[2] - t.start[2] + 1
    BY DEF RangeBounds
  <2> QED BY <1>2, <2>1, <2>2, MaxAddrAssumption DEF SatCount
<1> QED BY <1>1, <1>2

\* The block of a target that is not a name; bounds as from_pinned and plan
\* both compute them.
BlockOf(t) ==
  CASE t.kind = "ip" -> Block(t.ip[1], [lo |-> t.ip[2], hi |-> t.ip[2]], t)
    [] t.kind = "cidr" -> Block(t.v6, CidrBounds(t), t)
    [] OTHER -> Block(t.start[1], RangeBounds(t), t)

\* Spec s is what plan makes of target t when it accepts it.
SpecFor(s, t) ==
  /\ IsDns(t) => \E ips \in Seq(IpAddr) : s = Points(ips, t)
  /\ ~IsDns(t) => s = BlockOf(t)
  /\ t.kind = "cidr" => CidrBounds(t).hosts <= HostLimit
  /\ t.kind = "range" => ~RangeRefused(t) /\ RangeBounds(t).hosts <= HostLimit

\* Every target planned so far has its spec, at its place; once the plan is
\* made, all have.
PlannedInv ==
  /\ Len(specs) <= Len(input.targets)
  /\ \A k \in DOMAIN specs : SpecFor(specs[k], input.targets[k])
  /\ stage \in {"overlap", "guard", "planned"} => Len(specs) = Len(input.targets)

\* A planned plan is under the cap.
CapInv == stage = "planned" /\ input.capped => TotalHosts(specs) <= MaxTotalHosts

\* What the planning steps push.
LEMMA PlanPushes ==
  ASSUME PlanInv,
         PlanIp \/ PlanCidr \/ PlanRange \/ PlanUnqueryable
           \/ \E a6 \in Answers6, a4 \in Answers4 : PlanDns(a6, a4)
  PROVE  /\ Planning
         /\ \/ \E s : PushSpec(s) /\ SpecFor(s, Target)
            \/ \E why : Refuse(why)
<1>1. Planning
  BY DEF PlanIp, PlanCidr, PlanRange, PlanUnqueryable, PlanDns
<1>2. WellFormed(Target)
  BY <1>1, TargetWellFormed
<1>3. CASE PlanIp
  <2> DEFINE s == Block(Target.ip[1], [lo |-> Target.ip[2], hi |-> Target.ip[2]], Target)
  <2>1. Target.kind = "ip" /\ PushSpec(s)
    BY <1>3 DEF PlanIp
  <2>2. SpecFor(s, Target)
    BY <2>1 DEF SpecFor, BlockOf, IsDns
  <2> QED BY <1>1, <2>1, <2>2
<1>4. CASE PlanCidr
  <2> DEFINE b == CidrBounds(Target)
  <2>1. CASE b.hosts > HostLimit
    BY <1>1, <1>4, <2>1 DEF PlanCidr
  <2>2. CASE ~(b.hosts > HostLimit)
    <3>1. Target.kind = "cidr" /\ PushSpec(Block(Target.v6, b, Target))
      BY <1>4, <2>2 DEF PlanCidr
    <3>2. b.hosts <= HostLimit
      BY <1>2, <2>2, <3>1, CountsAreNumbers, LimitsAssumption
    <3>3. SpecFor(Block(Target.v6, b, Target), Target)
      BY <3>1, <3>2 DEF SpecFor, BlockOf, IsDns
    <3> QED BY <1>1, <3>1, <3>3
  <2> QED BY <2>1, <2>2
<1>5. CASE PlanRange
  <2> DEFINE b == RangeBounds(Target)
  <2>1. CASE RangeRefused(Target) \/ b.hosts > HostLimit
    BY <1>1, <1>5, <2>1 DEF PlanRange
  <2>2. CASE ~RangeRefused(Target) /\ ~(b.hosts > HostLimit)
    <3>1. Target.kind = "range" /\ PushSpec(Block(Target.start[1], b, Target))
      BY <1>5, <2>2 DEF PlanRange
    <3>2. b.hosts <= HostLimit
      BY <1>2, <2>2, <3>1, CountsAreNumbers, LimitsAssumption
    <3>3. SpecFor(Block(Target.start[1], b, Target), Target)
      BY <2>2, <3>1, <3>2 DEF SpecFor, BlockOf, IsDns
    <3> QED BY <1>1, <3>1, <3>3
  <2> QED BY <2>1, <2>2
<1>6. ASSUME Target.kind = "dns", NEW ips \in Seq(IpAddr), PushSpec(Points(ips, Target))
      PROVE  \E s : PushSpec(s) /\ SpecFor(s, Target)
  <2>1. SpecFor(Points(ips, Target), Target)
    BY <1>6 DEF SpecFor, IsDns
  <2> QED BY <1>6, <2>1
<1>7. <<>> \in Seq(IpAddr)
  OBVIOUS
<1>8. CASE PlanUnqueryable
  BY <1>1, <1>6, <1>7, <1>8 DEF PlanUnqueryable
<1>9. ASSUME NEW a6 \in Answers6, NEW a4 \in Answers4, PlanDns(a6, a4)
      PROVE  \/ \E s : PushSpec(s) /\ SpecFor(s, Target)
             \/ \E why : Refuse(why)
  <2> DEFINE merged == MergeFamilyLookups(a6, a4)
  <2>1. merged.ok => merged.ips \in Seq(IpAddr)
    <3>1. /\ a6.ok \in BOOLEAN /\ a4.ok \in BOOLEAN
          /\ a6.ok => a6.ips \in Seq(IpAddr)
          /\ a4.ok => a4.ips \in Seq(IpAddr)
      BY AnswersAssumption
    <3>2. CASE a6.ok /\ a4.ok
      <4>1. a6.ips \o a4.ips \in Seq(IpAddr)
        BY <3>1, <3>2, ConcatProperties
      <4>2. merged.ips = EachAddressOnce(a6.ips \o a4.ips)
        BY <3>2 DEF MergeFamilyLookups
      <4> QED BY <4>1, <4>2, EachAddressOnceType
    <3>3. CASE a6.ok /\ ~a4.ok
      <4>1. merged.ips = EachAddressOnce(a6.ips)
        BY <3>3 DEF MergeFamilyLookups
      <4> QED BY <3>1, <3>3, <4>1, EachAddressOnceType
    <3>4. CASE ~a6.ok /\ a4.ok
      <4>1. merged.ips = EachAddressOnce(a4.ips)
        BY <3>4 DEF MergeFamilyLookups
      <4> QED BY <3>1, <3>4, <4>1, EachAddressOnceType
    <3>5. CASE ~a6.ok /\ ~a4.ok
      BY <3>5 DEF MergeFamilyLookups, MergeErrors
    <3> QED BY <3>2, <3>3, <3>4, <3>5
  <2> HIDE DEF merged
  <2>2. /\ Target.kind = "dns"
        /\ \/ merged.ok /\ PushSpec(Points(merged.ips, Target))
           \/ PushSpec(Points(<<>>, Target))
           \/ Refuse([kind |-> "dns_failed"])
    BY <1>9 DEF PlanDns, merged
  <2> QED BY <1>6, <1>7, <2>1, <2>2
<1> QED BY <1>1, <1>3, <1>4, <1>5, <1>8, <1>9

\* The plan grows by the spec of its next target, or not at all.
LEMMA NextPlanned ==
  ASSUME PlanInv, PlannedInv, [Next]_vars
  PROVE  PlannedInv'
<1>1. Len(specs) \in Nat /\ DOMAIN specs = 1 .. Len(specs)
  BY DEF PlanInv, SpecsOK
<1>2. PICK U : input.targets \in Seq(U)
  BY InputsAssumption DEF PlanInv
<1>3. Len(input.targets) \in Nat
  BY <1>2
<1>4. CASE PlanIp \/ PlanCidr \/ PlanRange \/ PlanUnqueryable
             \/ \E a6 \in Answers6, a4 \in Answers4 : PlanDns(a6, a4)
  <2>1. CASE \E why : Refuse(why)
    BY <2>1 DEF Refuse, PlannedInv
  <2>2. ASSUME NEW s, PushSpec(s), SpecFor(s, Target), Planning PROVE PlannedInv'
    <3>1. specs' = Append(specs, s) /\ input' = input /\ stage' = "plan"
      BY <2>2 DEF PushSpec, Planning
    <3>2. PICK S : specs \in Seq(S)
      BY DEF PlanInv, SpecsOK
    <3>3. specs \in Seq(S \cup {s})
      BY <3>2
    <3>4. /\ DOMAIN specs' = 1 .. Len(specs) + 1
          /\ Len(specs') = Len(specs) + 1
          /\ specs'[Len(specs) + 1] = s
          /\ \A k \in DOMAIN specs : specs'[k] = specs[k]
      BY <3>1, <3>3
    <3>5. Len(specs) + 1 <= Len(input.targets)
      BY <1>1, <1>3, <2>2 DEF Planning
    <3>6. ASSUME NEW k \in 1 .. Len(specs) + 1 PROVE SpecFor(specs'[k], input.targets[k])
      <4>1. CASE k \in DOMAIN specs
        BY <3>4, <4>1 DEF PlannedInv
      <4>2. CASE k = Len(specs) + 1
        BY <2>2, <3>4, <4>2 DEF Target
      <4> QED BY <1>1, <4>1, <4>2
    <3> QED BY <3>1, <3>4, <3>5, <3>6 DEF PlannedInv
  <2> QED BY <1>4, <2>1, <2>2, PlanPushes
<1>5. CASE BeginOverlaps
  BY <1>5 DEF BeginOverlaps, PlannedInv
<1>6. CASE OverlapStep \/ EndOverlaps
  BY <1>6 DEF OverlapStep, EndOverlaps, PlannedInv
<1>7. CASE GuardBlock \/ GuardSweep \/ GuardBlockDone \/ GuardPoints \/ GuardCap
  BY <1>7 DEF GuardBlock, GuardSweep, GuardBlockDone, GuardPoints, GuardCap, Guarding,
              planVars, Refuse, PlannedInv
<1>8. CASE Done \/ UNCHANGED vars
             \/ \E ts \in Edits(input.targets) : Resume(ts)
  BY <1>8 DEF Done, Resume, vars, planVars, PlannedInv
<1> QED BY <1>4, <1>5, <1>6, <1>7, <1>8 DEF Next

\* Only check_cap lets a plan pass.
LEMMA NextCap ==
  ASSUME CapInv, [Next]_vars, TotalHosts(specs) \in Nat
  PROVE  CapInv'
<1>1. CASE stage' # "planned"
  BY <1>1 DEF CapInv
<1>2. CASE stage' = "planned" /\ GuardCap
  <2>1. /\ specs' = specs /\ input' = input
        /\ input.capped => ~(TotalHosts(specs) > MaxTotalHosts)
    BY <1>2 DEF GuardCap, Refuse
  <2>2. TotalHosts(specs)' = TotalHosts(specs)
    BY <2>1
  <2> QED BY <2>1, <2>2, LimitsAssumption DEF CapInv
<1>3. CASE stage' = "planned" /\ ~GuardCap
  <2>1. stage = "planned" /\ specs' = specs /\ input' = input
    BY <1>3 DEF Next, PlanIp, PlanCidr, PlanRange, PlanUnqueryable, PlanDns, Planning,
                PushSpec, Refuse, BeginOverlaps, OverlapStep, EndOverlaps, GuardBlock,
                GuardSweep, GuardBlockDone, GuardPoints, Guarding, Resume, Done, vars,
                planVars
  <2>2. TotalHosts(specs)' = TotalHosts(specs)
    BY <2>1
  <2> QED BY <2>1, <2>2 DEF CapInv
<1> QED BY <1>1, <1>2, <1>3

\* A number below the modulus is its own remainder.
LEMMA SmallModulus ==
  ASSUME NEW c \in Nat, NEW m \in Nat, c < m
  PROVE  c % m = c
  OBVIOUS

\* What plan accepts streams as many addresses as it counts.
LEMMA SpecCount ==
  ASSUME NEW s, NEW t, WellFormed(t), SpecOK(s), SpecFor(s, t)
  PROVE  /\ \E A : SpecStream(s) \in Seq(A)
         /\ Hosts(s) = Len(SpecStream(s))
<1>1. CASE IsDns(t)
  <2>1. PICK ips \in Seq(IpAddr) : s = Points(ips, t)
    BY <1>1 DEF SpecFor
  <2>2. s.kind = "points" /\ s.ips = ips
    BY <2>1 DEF Points
  <2>3. SpecStream(s) = [i \in 1 .. Len(ips) |-> <<ips[i], s.of>>]
    BY <2>2 DEF SpecStream
  <2>4. SpecStream(s) \in Seq({<<ips[i], s.of>> : i \in 1 .. Len(ips)})
    BY <2>3
  <2>5. Hosts(s) = Len(ips) /\ Len(ips) \in Nat
    BY <2>2 DEF Hosts
  <2>6. Len(SpecStream(s)) = Len(ips)
    BY <2>3, <2>5
  <2> QED BY <2>4, <2>5, <2>6
<1>2. CASE ~IsDns(t)
  <2>1. s = BlockOf(t) /\ s.kind = "block"
    BY <1>2 DEF SpecFor, BlockOf, Block
  <2>2. s.lo \in Nat /\ s.hi \in Nat /\ s.lo <= s.hi
    BY <2>1, AddrIsInt DEF SpecOK
  <2>3. s.hi - s.lo + 1 <= UsizeMax
    <3>1. CASE t.kind = "ip"
      <4>1. s.lo = s.hi
        BY <2>1, <3>1 DEF BlockOf, Block
      <4> QED BY <2>2, <4>1, LimitsAssumption
    <3>2. CASE t.kind = "cidr"
      <4>1. s.lo = CidrBounds(t).lo /\ s.hi = CidrBounds(t).hi
        BY <2>1, <3>2 DEF BlockOf, Block
      <4>2. CidrBounds(t).hosts \in Nat /\ CidrBounds(t).hosts <= HostLimit
        BY <3>2, CountsAreNumbers DEF SpecFor
      <4>3. CidrBounds(t).hosts < MaxAddr /\ CidrBounds(t).hosts <= UsizeMax
        BY <4>2, LimitsAssumption, MaxAddrAssumption
      <4> QED BY <3>2, <4>1, <4>3, CountsAreNumbers
    <3>3. CASE t.kind = "range"
      <4>1. s.lo = RangeBounds(t).lo /\ s.hi = RangeBounds(t).hi /\ ~RangeRefused(t)
        BY <2>1, <3>3 DEF BlockOf, Block, SpecFor
      <4>2. RangeBounds(t).hosts \in Nat /\ RangeBounds(t).hosts <= HostLimit
        BY <3>3, <4>1, CountsAreNumbers DEF SpecFor
      <4>3. RangeBounds(t).hosts < MaxAddr /\ RangeBounds(t).hosts <= UsizeMax
        BY <4>2, LimitsAssumption, MaxAddrAssumption
      <4> QED BY <3>3, <4>1, <4>3, CountsAreNumbers
    <3> QED BY <1>2, <3>1, <3>2, <3>3 DEF WellFormed, IsDns
  <2> DEFINE c == s.hi - s.lo + 1
  <2>4. c \in Nat /\ c <= UsizeMax /\ c < MaxAddr + 1 /\ c < UsizeMax + 1
    BY <2>2, <2>3, LimitsAssumption, MaxAddrAssumption
  <2>5. SpecStream(s) = [i \in 1 .. c |-> <<<<s.v6, s.lo + i - 1>>, s.of>>]
    BY <2>1 DEF SpecStream
  <2>6. Hosts(s) = (IF s.v6 THEN c % (MaxAddr + 1) ELSE c) % (UsizeMax + 1)
    BY <2>1 DEF Hosts, BlockSpan
  <2> HIDE DEF c
  <2>7. c % (MaxAddr + 1) = c /\ c % (UsizeMax + 1) = c
    BY <2>4, SmallModulus, LimitsAssumption, MaxAddrAssumption
  <2>8. Hosts(s) = c
    BY <2>6, <2>7
  <2> DEFINE At(i) == <<<<s.v6, s.lo + i - 1>>, s.of>>
  <2>9. SpecStream(s) \in Seq({At(i) : i \in 1 .. c}) /\ Len(SpecStream(s)) = c
    <3>1. SpecStream(s) = [i \in 1 .. c |-> At(i)]
      BY <2>5
    <3> HIDE DEF At
    <3> QED BY <2>4, <3>1
  <2> QED BY <2>8, <2>9
<1> QED BY <1>1, <1>2

\* So the whole plan does.
LEMMA PlanCount ==
  ASSUME PlanInv, PlannedInv
  PROVE  /\ Len(Stream(specs)) \in Nat
         /\ TotalHosts(specs) =
              IF Len(Stream(specs)) > UsizeMax THEN UsizeMax ELSE Len(Stream(specs))
<1> DEFINE n == Len(specs)
           A == UNION {{SpecStream(specs[k])[i] : i \in DOMAIN SpecStream(specs[k])} : k \in 1 .. n}
<1>1. n \in Nat /\ DOMAIN specs = 1 .. n
  BY DEF PlanInv, SpecsOK
<1>2. ASSUME NEW k \in 1 .. n
      PROVE  SpecStream(specs[k]) \in Seq(A) /\ Hosts(specs[k]) = Len(SpecStream(specs[k]))
  <2>1. SpecOK(specs[k]) /\ SpecFor(specs[k], input.targets[k])
    BY <1>1 DEF PlanInv, SpecsOK, PlannedInv
  <2>2. WellFormed(input.targets[k])
    <3>1. PICK U : input.targets \in Seq(U)
      BY InputsAssumption DEF PlanInv
    <3>2. k \in DOMAIN input.targets
      BY <1>1, <3>1 DEF PlannedInv
    <3> QED BY <3>2, InputsAssumption DEF PlanInv
  <2>3. PICK B : SpecStream(specs[k]) \in Seq(B)
    BY <2>1, <2>2, SpecCount
  <2> DEFINE m == SpecStream(specs[k])
  <2>4. \A i \in DOMAIN m : m[i] \in A
    OBVIOUS
  <2> HIDE DEF A
  <2>5. m \in Seq(A)
    BY <2>3, <2>4, SeqOfElements
  <2> QED BY <2>1, <2>2, <2>5, SpecCount
<1> HIDE DEF n, A
<1> QED BY <1>1, <1>2, CountMatchesStream

\* HostCountExact: total_hosts of a plan that passes check_cap is the number
\* of addresses it streams, cut only at usize::MAX, and within the cap if
\* there is one, for every address width, limit and scenario: no wrap of
\* block_span and no saturation of cidr_bounds or range_bounds ever reaches
\* the sum, and the sum's own never hides a plan over the cap.
THEOREM HostCountExact == Spec => []HostsExact
<1>1. Init => PlannedInv /\ CapInv
  <2> SUFFICES ASSUME Init PROVE PlannedInv /\ CapInv
    OBVIOUS
  <2>1. specs = <<>> /\ stage = "plan" /\ input \in Inputs
    BY DEF Init
  <2>2. PICK U : input.targets \in Seq(U)
    BY <2>1, InputsAssumption
  <2> QED BY <2>1, <2>2 DEF PlannedInv, CapInv
<1>2. PlanInv /\ PlannedInv /\ CapInv /\ [Next]_vars => PlannedInv' /\ CapInv'
  <2> SUFFICES ASSUME PlanInv, PlannedInv, CapInv, [Next]_vars PROVE PlannedInv' /\ CapInv'
    OBVIOUS
  <2>1. TotalHosts(specs) \in Nat
    BY PlanCount, LimitsAssumption
  <2> QED BY <2>1, NextPlanned, NextCap
<1>3. PlanInv /\ PlannedInv /\ CapInv => HostsExact
  <2> SUFFICES ASSUME PlanInv, PlannedInv, CapInv, stage = "planned"
               PROVE  /\ TotalHosts(specs) = Min({Len(Stream(specs)), UsizeMax})
                      /\ input.capped => Len(Stream(specs)) <= MaxTotalHosts
    BY DEF HostsExact
  <2> DEFINE len == Len(Stream(specs))
             hosts == TotalHosts(specs)
  <2>1. /\ len \in Nat /\ UsizeMax \in Nat /\ MaxTotalHosts \in Nat
        /\ MaxTotalHosts < UsizeMax
        /\ hosts = IF len > UsizeMax THEN UsizeMax ELSE len
    BY PlanCount, LimitsAssumption
  <2>2. input.capped => hosts <= MaxTotalHosts
    BY DEF CapInv
  <2> HIDE DEF len, hosts
  <2>3. hosts \in {len, UsizeMax} /\ hosts <= len /\ hosts <= UsizeMax
    BY <2>1
  <2>4. hosts = Min({len, UsizeMax})
    BY <2>1, <2>3 DEF Min
  <2>5. input.capped => len <= MaxTotalHosts
    BY <2>1, <2>2
  <2> QED BY <2>4, <2>5 DEF len, hosts
<1> QED BY <1>1, <1>2, <1>3, InitPlanInv, NextPlanInv, PTL DEF Spec

-----------------------------------------------------------------------------
(* Names *)

\* NoFailureSkipped: a name stays in the plan without addresses only when
\* both families said there are none; a failed lookup of either family never
\* passes for an empty answer (merge_family_lookups, dns_spec).
THEOREM NoFailureSkipped == Spec => FailureNeverSkips
<1>1. ASSUME NEW a6 \in Answers6, NEW a4 \in Answers4, PlanDns(a6, a4),
             stage' = "plan"
      PROVE  a6.ok \/ a4.ok \/ (a6.none /\ a4.none)
  <2> SUFFICES ASSUME ~a6.ok, ~a4.ok PROVE a6.none /\ a4.none
    BY <1>1
  <2> DEFINE merged == MergeFamilyLookups(a6, a4)
  <2>1. merged = IF a6.none THEN a4 ELSE a6
    BY DEF MergeFamilyLookups, MergeErrors
  <2>2. ~merged.ok
    BY <2>1
  <2> HIDE DEF merged
  <2>3. merged.none
    BY <1>1, <2>2 DEF PlanDns, Refuse, merged
  <2> QED BY <2>1, <2>3
<1>2. [Next]_vars => [\A a6 \in Answers6, a4 \in Answers4 :
                        PlanDns(a6, a4) /\ stage' = "plan" /\ Len(specs') > Len(specs)
                          => a6.ok \/ a4.ok \/ (a6.none /\ a4.none)]_vars
  BY <1>1
<1> QED BY <1>2, PTL DEF Spec, FailureNeverSkips

-----------------------------------------------------------------------------
(* The resumed plan *)

\* dns_pins collects the specs of names, in the plan's order.
LEMMA PinsFold ==
  ASSUME NEW n \in Nat, DOMAIN specs = 1 .. n, NEW P,
         \A k \in 1 .. n : IsDns(specs[k].of) => specs[k] \in P
  PROVE  \E h : /\ h[0] = <<>>
                /\ \A k \in 1 .. n :
                     h[k] = IF IsDns(specs[k].of) THEN Append(h[k - 1], specs[k]) ELSE h[k - 1]
                /\ \A k \in 0 .. n : h[k] \in Seq(P)
                /\ DnsPins = h[n]
<1> DEFINE Step(pins, s) == IF IsDns(s.of) THEN Append(pins, s) ELSE pins
           Pinned(g) == [s \in SUBSET DOMAIN specs |->
                           IF s = {} THEN <<>>
                           ELSE LET x == Max(s)
                                IN  Step(g[s \ {x}], specs[x])]
           pinned == CHOOSE g : g = Pinned(g)
           F == [i \in 1 .. n |-> [x \in Seq(P) |-> Step(x, specs[i])]]
           h == [k \in 0 .. n |-> pinned[1 .. k]]
<1>1. \A i \in 1 .. n : \A x \in Seq(P) : Step(x, specs[i]) \in Seq(P)
  OBVIOUS
<1>2. DnsPins = pinned[DOMAIN specs]
  BY Zenon DEF DnsPins, FoldLeft, MapThenFoldSet
<1>3. \A p, s : Step(p, s) = IF IsDns(s.of) THEN Append(p, s) ELSE p
  OBVIOUS
<1> HIDE DEF Step
<1>4. StepsIn(F, n, Seq(P))
  BY <1>1 DEF StepsIn
<1>5. \A i \in 1 .. n : \A x \in Seq(P) : F[i][x] = Step(x, specs[i])
  OBVIOUS
<1>6. <<>> \in Seq(P)
  OBVIOUS
<1> HIDE DEF F
<1>7. PICK g \in [SUBSET (1 .. n) -> Seq(P)] : Fold(F, <<>>, n, g)
  BY <1>4, <1>6, FoldExists
<1>8. \A s \in SUBSET (1 .. n) :
        s # {} => Max(s) \in 1 .. n /\ s \ {Max(s)} \in SUBSET (1 .. n)
  BY MaxOfIndexes
<1>9. \A s \in SUBSET (1 .. n) :
        s # {} => F[Max(s)][g[s \ {Max(s)}]] = Step(g[s \ {Max(s)}], specs[Max(s)])
  BY <1>5, <1>7, <1>8
<1>10. g = Pinned(g)
  BY <1>7, <1>9 DEF Fold
<1>11. pinned = Pinned(pinned)
  BY <1>10
<1> HIDE DEF pinned
<1>12. h[0] = <<>>
  <2>1. 1 .. 0 = {} /\ {} \in SUBSET DOMAIN specs /\ 0 \in 0 .. n
    OBVIOUS
  <2>2. pinned[{}] = <<>>
    BY <1>11, <2>1
  <2> QED BY <2>1, <2>2
<1>13. ASSUME NEW k \in 1 .. n PROVE h[k] = Step(h[k - 1], specs[k])
  <2>1. 1 .. k # {} /\ Max(1 .. k) = k /\ (1 .. k) \ {k} = 1 .. k - 1
    <3>1. k \in Nat \ {0}
      OBVIOUS
    <3> QED BY <3>1, PrefixIndexes
  <2>2. 1 .. k \in SUBSET DOMAIN specs
    OBVIOUS
  <2>3. pinned[1 .. k] = Step(pinned[1 .. k - 1], specs[k])
    BY <1>11, <2>1, <2>2
  <2>4. k \in 0 .. n /\ k - 1 \in 0 .. n
    OBVIOUS
  <2> QED BY <2>3, <2>4
<1>14. DnsPins = h[n]
  BY <1>2
<1> HIDE DEF h
<1> DEFINE T == {k \in 0 .. n : h[k] \in Seq(P)}
<1>15. 0 \in T
  <2>1. 0 \in 0 .. n
    OBVIOUS
  <2> QED BY <1>6, <1>12, <2>1
<1>16. ASSUME NEW k \in 0 .. n - 1, k \in T PROVE k + 1 \in T
  <2>1. k + 1 \in 1 .. n /\ k + 1 \in 0 .. n /\ (k + 1) - 1 = k
    OBVIOUS
  <2>2. h[k + 1] = Step(h[k], specs[k + 1])
    BY <1>13, <2>1
  <2>3. h[k + 1] \in Seq(P)
    BY <1>1, <1>16, <2>1, <2>2
  <2> QED BY <2>1, <2>3
<1> HIDE DEF T
<1>17. \A k \in 0 .. n : k \in T
  BY <1>15, <1>16, InductionUpTo
<1>18. \A k \in 0 .. n : h[k] \in Seq(P)
  BY <1>17 DEF T
<1> QED BY <1>3, <1>12, <1>13, <1>14, <1>18

\* Each pin stays where it was put.
Prefixed(a, b) == Len(a) <= Len(b) /\ \A i \in 1 .. Len(a) : b[i] = a[i]

LEMMA PinsStay ==
  ASSUME NEW n \in Nat, NEW P, NEW h,
         \A k \in 0 .. n : h[k] \in Seq(P),
         \A k \in 1 .. n : h[k] = h[k - 1] \/ \E p \in P : h[k] = Append(h[k - 1], p)
  PROVE  \A k \in 0 .. n : Prefixed(h[k], h[n])
<1> DEFINE T == {m \in 0 .. n : \A k \in 0 .. m : Prefixed(h[k], h[m])}
<1>1. 0 \in T
  BY DEF Prefixed
<1>2. ASSUME NEW m \in 0 .. n - 1, m \in T PROVE m + 1 \in T
  <2>1. m \in 0 .. n /\ m + 1 \in 1 .. n /\ m + 1 \in 0 .. n /\ (m + 1) - 1 = m
    OBVIOUS
  <2>2. h[m] \in Seq(P) /\ h[m + 1] \in Seq(P)
    BY <2>1
  <2>3. Prefixed(h[m], h[m + 1])
    <3>1. CASE h[m + 1] = h[m]
      BY <2>2, <3>1 DEF Prefixed
    <3>2. CASE \E p \in P : h[m + 1] = Append(h[m], p)
      BY <2>2, <3>2 DEF Prefixed
    <3> QED BY <2>1, <3>1, <3>2
  <2>4. ASSUME NEW k \in 0 .. m + 1 PROVE Prefixed(h[k], h[m + 1])
    <3>1. CASE k = m + 1
      BY <2>2, <3>1 DEF Prefixed
    <3>2. CASE k \in 0 .. m
      <4>1. Prefixed(h[k], h[m]) /\ h[k] \in Seq(P)
        BY <1>2, <3>2
      <4> QED BY <2>2, <2>3, <4>1 DEF Prefixed
    <3> QED BY <3>1, <3>2
  <2> QED BY <2>1, <2>4
<1> HIDE DEF T
<1>3. \A m \in 0 .. n : m \in T
  BY <1>1, <1>2, InductionUpTo
<1>4. n \in T
  BY <1>3
<1> QED BY <1>4 DEF T

\* from_pinned takes the targets one by one.
LEMMA RepinFold ==
  ASSUME NEW U, NEW ts \in Seq(U), NEW S,
         [specs |-> <<>>, pins |-> DnsPins, refused |-> FALSE] \in S,
         \A x \in S : \A t \in U : Repinned(x, t) \in S
  PROVE  \E r : /\ r[0] = [specs |-> <<>>, pins |-> DnsPins, refused |-> FALSE]
                /\ \A k \in 1 .. Len(ts) : r[k] = Repinned(r[k - 1], ts[k])
                /\ \A k \in 0 .. Len(ts) : r[k] \in S
                /\ FromPinned(ts) = r[Len(ts)]
<1> DEFINE n == Len(ts)
           b == [specs |-> <<>>, pins |-> DnsPins, refused |-> FALSE]
           Built(g) == [s \in SUBSET DOMAIN ts |->
                          IF s = {} THEN b
                          ELSE LET x == Max(s)
                               IN  Repinned(g[s \ {x}], ts[x])]
           built == CHOOSE g : g = Built(g)
           F == [i \in 1 .. n |-> [x \in S |-> Repinned(x, ts[i])]]
           r == [k \in 0 .. n |-> built[1 .. k]]
<1>1. n \in Nat /\ DOMAIN ts = 1 .. n /\ \A i \in 1 .. n : ts[i] \in U
  OBVIOUS
<1>2. FromPinned(ts) = built[DOMAIN ts]
  BY Zenon DEF FromPinned, FoldLeft, MapThenFoldSet
<1>3. b \in S
  OBVIOUS
<1> HIDE DEF n, b
<1>4. StepsIn(F, n, S)
  BY <1>1 DEF StepsIn
<1>5. \A i \in 1 .. n : \A x \in S : F[i][x] = Repinned(x, ts[i])
  OBVIOUS
<1> HIDE DEF F
<1>7. PICK g \in [SUBSET (1 .. n) -> S] : Fold(F, b, n, g)
  BY <1>1, <1>3, <1>4, FoldExists
<1>8. \A s \in SUBSET (1 .. n) :
        s # {} => Max(s) \in 1 .. n /\ s \ {Max(s)} \in SUBSET (1 .. n)
  BY <1>1, MaxOfIndexes
<1>9. \A s \in SUBSET (1 .. n) :
        s # {} => F[Max(s)][g[s \ {Max(s)}]] = Repinned(g[s \ {Max(s)}], ts[Max(s)])
  BY <1>5, <1>7, <1>8
<1>10. g = Built(g)
  BY <1>1, <1>7, <1>9 DEF Fold
<1>11. built = Built(built)
  BY <1>10
<1> HIDE DEF built
<1>12. r[0] = b
  <2>1. 1 .. 0 = {} /\ {} \in SUBSET DOMAIN ts /\ 0 \in 0 .. n
    BY <1>1
  <2>2. built[{}] = b
    BY <1>11, <2>1
  <2> QED BY <2>1, <2>2
<1>13. ASSUME NEW k \in 1 .. n PROVE r[k] = Repinned(r[k - 1], ts[k])
  <2>1. 1 .. k # {} /\ Max(1 .. k) = k /\ (1 .. k) \ {k} = 1 .. k - 1
    <3>1. k \in Nat \ {0}
      BY <1>1
    <3> QED BY <3>1, PrefixIndexes
  <2>2. 1 .. k \in SUBSET DOMAIN ts
    BY <1>1
  <2>3. built[1 .. k] = Repinned(built[1 .. k - 1], ts[k])
    BY <1>11, <2>1, <2>2
  <2>4. k \in 0 .. n /\ k - 1 \in 0 .. n
    BY <1>1
  <2> QED BY <2>3, <2>4
<1>14. FromPinned(ts) = r[n]
  BY <1>1, <1>2
<1> HIDE DEF r
<1> DEFINE T == {k \in 0 .. n : r[k] \in S}
<1>15. 0 \in T
  BY <1>1, <1>3, <1>12
<1>16. ASSUME NEW k \in 0 .. n - 1, k \in T PROVE k + 1 \in T
  <2>1. k + 1 \in 1 .. n /\ k + 1 \in 0 .. n /\ (k + 1) - 1 = k
    BY <1>1
  <2>2. r[k + 1] = Repinned(r[k], ts[k + 1])
    BY <1>13, <2>1
  <2>3. r[k + 1] \in S
    BY <1>1, <1>16, <2>1, <2>2
  <2> QED BY <2>1, <2>3
<1> HIDE DEF T
<1>17. \A k \in 0 .. n : k \in T
  BY <1>1, <1>15, <1>16, InductionUpTo
<1>18. \A k \in 0 .. n : r[k] \in S
  BY <1>17 DEF T
<1> QED BY <1>12, <1>13, <1>14, <1>18 DEF n, b

\* The specs of names in the plan, and what from_pinned may put beside them.
NamePins == {specs[k] : k \in {j \in DOMAIN specs : IsDns(specs[j].of)}}
Rebuildable(U) == {BlockOf(t) : t \in {u \in U : ~IsDns(u)}} \cup NamePins
RepinStates(U) == [specs : Seq(Rebuildable(U)), pins : Seq(NamePins), refused : BOOLEAN]

\* The spec of a name is its addresses, under its own name.
LEMMA NamePinShape ==
  ASSUME PlanInv, PlannedInv, NEW p \in NamePins
  PROVE  p = Points(p.ips, p.of)
<1>1. PICK k \in DOMAIN specs : p = specs[k] /\ IsDns(specs[k].of)
  BY DEF NamePins
<1>2. SpecFor(p, input.targets[k])
  BY <1>1 DEF PlannedInv
<1>3. CASE IsDns(input.targets[k])
  BY <1>2, <1>3 DEF SpecFor, Points
<1>4. CASE ~IsDns(input.targets[k])
  <2>1. p = BlockOf(input.targets[k])
    BY <1>2, <1>4 DEF SpecFor
  <2>2. p.of = input.targets[k]
    BY <2>1 DEF BlockOf, Block
  <2> QED BY <1>1, <1>4, <2>2
<1> QED BY <1>3, <1>4

\* One target takes the pin of its own name, or none.
LEMMA RepinStays ==
  ASSUME PlanInv, PlannedInv, NEW U, NEW x \in RepinStates(U), NEW t \in U
  PROVE  Repinned(x, t) \in RepinStates(U)
<1>1. /\ x.specs \in Seq(Rebuildable(U)) /\ x.pins \in Seq(NamePins)
      /\ x.refused \in BOOLEAN
      /\ x = [specs |-> x.specs, pins |-> x.pins, refused |-> x.refused]
  BY DEF RepinStates
<1>2. [x EXCEPT !.refused = TRUE] \in RepinStates(U)
  BY DEF RepinStates
<1>3. CASE x.refused
  BY <1>3 DEF Repinned
<1>4. CASE ~x.refused /\ IsDns(t)
  <2>1. CASE x.pins = <<>> \/ ~PinMatches(Head(x.pins), t)
    BY <1>2, <1>4, <2>1 DEF Repinned
  <2>2. CASE ~(x.pins = <<>> \/ ~PinMatches(Head(x.pins), t))
    <3> DEFINE p == Head(x.pins)
    <3>1. p \in NamePins /\ Tail(x.pins) \in Seq(NamePins) /\ p.of = t
      BY <1>1, <2>2 DEF PinMatches
    <3>2. Points(p.ips, t) \in Rebuildable(U)
      <4>1. p = Points(p.ips, p.of)
        BY <3>1, NamePinShape
      <4> QED BY <3>1, <4>1 DEF Rebuildable
    <3>3. Append(x.specs, Points(p.ips, t)) \in Seq(Rebuildable(U))
      BY <1>1, <3>2
    <3>4. Repinned(x, t) = [specs |-> Append(x.specs, Points(p.ips, t)),
                            pins |-> Tail(x.pins), refused |-> FALSE]
      BY <1>4, <2>2 DEF Repinned, IsDns
    <3> QED BY <1>1, <3>1, <3>3, <3>4 DEF RepinStates
  <2> QED BY <2>1, <2>2
<1>5. CASE ~x.refused /\ ~IsDns(t)
  <2>1. CASE t.kind = "range" /\ RangeRefused(t)
    BY <1>2, <1>5, <2>1 DEF Repinned
  <2>2. CASE ~(t.kind = "range" /\ RangeRefused(t))
    <3>1. Repinned(x, t) = [x EXCEPT !.specs = Append(@, BlockOf(t))]
      BY <1>5, <2>2 DEF Repinned, BlockOf
    <3>2. BlockOf(t) \in Rebuildable(U)
      BY <1>5 DEF Rebuildable
    <3>3. Append(x.specs, BlockOf(t)) \in Seq(Rebuildable(U))
      BY <1>1, <3>2
    <3> QED BY <3>1, <3>3 DEF RepinStates
  <2> QED BY <2>1, <2>2
<1> QED BY <1>1, <1>3, <1>4, <1>5

\* The pins, with the place of each.
LEMMA PinsOfPlan ==
  ASSUME PlanInv
  PROVE  \E h : /\ h[0] = <<>>
                /\ \A k \in 1 .. Len(specs) :
                     h[k] = IF IsDns(specs[k].of) THEN Append(h[k - 1], specs[k]) ELSE h[k - 1]
                /\ \A k \in 0 .. Len(specs) : h[k] \in Seq(NamePins)
                /\ \A k \in 0 .. Len(specs) : Prefixed(h[k], h[Len(specs)])
                /\ DnsPins = h[Len(specs)]
<1> DEFINE n == Len(specs)
<1>1. n \in Nat /\ DOMAIN specs = 1 .. n
  BY DEF PlanInv, SpecsOK
<1>2. \A k \in 1 .. n : IsDns(specs[k].of) => specs[k] \in NamePins
  BY <1>1 DEF NamePins
<1> HIDE DEF n
<1>3. PICK h : /\ h[0] = <<>>
               /\ \A k \in 1 .. n :
                    h[k] = IF IsDns(specs[k].of) THEN Append(h[k - 1], specs[k]) ELSE h[k - 1]
               /\ \A k \in 0 .. n : h[k] \in Seq(NamePins)
               /\ DnsPins = h[n]
  BY <1>1, <1>2, PinsFold
<1>4. \A k \in 1 .. n : h[k] = h[k - 1] \/ \E p \in NamePins : h[k] = Append(h[k - 1], p)
  BY <1>2, <1>3
<1>5. \A k \in 0 .. n : Prefixed(h[k], h[n])
  BY <1>1, <1>3, <1>4, PinsStay
<1> QED BY <1>3, <1>5 DEF n

\* Whatever the targets are, from_pinned rebuilds blocks and pinned names.
LEMMA RepinRun ==
  ASSUME PlanInv, PlannedInv, NEW U, NEW ts \in Seq(U)
  PROVE  \E r : /\ r[0] = [specs |-> <<>>, pins |-> DnsPins, refused |-> FALSE]
                /\ \A k \in 1 .. Len(ts) : r[k] = Repinned(r[k - 1], ts[k])
                /\ \A k \in 0 .. Len(ts) : r[k] \in RepinStates(U)
                /\ FromPinned(ts) = r[Len(ts)]
<1>1. DnsPins \in Seq(NamePins)
  <2>1. Len(specs) \in Nat
    BY DEF PlanInv, SpecsOK
  <2> QED BY <2>1, PinsOfPlan
<1>2. [specs |-> <<>>, pins |-> DnsPins, refused |-> FALSE] \in RepinStates(U)
  BY <1>1 DEF RepinStates
<1>3. \A x \in RepinStates(U) : \A t \in U : Repinned(x, t) \in RepinStates(U)
  BY RepinStays
<1> HIDE DEF RepinStates
<1> QED BY <1>2, <1>3, RepinFold

\* Of other targets: a name comes with the addresses it was pinned to.
LEMMA OtherTargets ==
  ASSUME PlanInv, PlannedInv, NEW U, NEW ts \in Seq(U)
  PROVE  /\ FromPinned(ts).refused \in BOOLEAN
         /\ \A s \in ToSet(FromPinned(ts).specs) : IsDns(s.of) => s \in ToSet(specs)
<1>1. FromPinned(ts) \in RepinStates(U)
  <2>1. Len(ts) \in 0 .. Len(ts)
    OBVIOUS
  <2> QED BY <2>1, RepinRun
<1>2. FromPinned(ts).specs \in Seq(Rebuildable(U)) /\ FromPinned(ts).refused \in BOOLEAN
  BY <1>1 DEF RepinStates
<1>3. \A s \in ToSet(FromPinned(ts).specs) : s \in Rebuildable(U)
  BY <1>2 DEF ToSet
<1>4. ASSUME NEW s \in Rebuildable(U), IsDns(s.of) PROVE s \in ToSet(specs)
  <2>1. CASE s \in NamePins
    BY <2>1 DEF NamePins, ToSet
  <2>2. ASSUME NEW t \in U, ~IsDns(t), s = BlockOf(t) PROVE FALSE
    <3>1. s.of = t
      BY <2>2 DEF BlockOf, Block
    <3> QED BY <1>4, <2>2, <3>1
  <2> QED BY <2>1, <2>2 DEF Rebuildable
<1> QED BY <1>2, <1>3, <1>4

\* One more spec of the same plan.
LEMMA PrefixPlusOne ==
  ASSUME NEW S, NEW q \in Seq(S), NEW k \in 0 .. Len(q) - 1
  PROVE  Append(SubSeq(q, 1, k), q[k + 1]) = SubSeq(q, 1, k + 1)
<1> DEFINE a == SubSeq(q, 1, k)
           b == SubSeq(q, 1, k + 1)
<1>1. a \in Seq(S) /\ Len(a) = k /\ \A i \in 1 .. k : a[i] = q[i]
  <2>1. k = 0 \/ k \in 1 .. Len(q)
    OBVIOUS
  <2> QED BY <2>1, SubSeqProperties
<1>2. b \in Seq(S) /\ Len(b) = k + 1 /\ \A i \in 1 .. k + 1 : b[i] = q[i]
  <2>1. k + 1 \in 1 .. Len(q)
    OBVIOUS
  <2> QED BY <2>1, SubSeqProperties
<1> HIDE DEF a, b
<1>3. q[k + 1] \in S
  OBVIOUS
<1>4. /\ Append(a, q[k + 1]) \in Seq(S) /\ Len(Append(a, q[k + 1])) = k + 1
      /\ \A i \in 1 .. k + 1 : Append(a, q[k + 1])[i] = q[i]
  BY <1>1, <1>3
<1> QED BY <1>2, <1>4 DEF a, b

\* What is left of a sequence, from place m + 1 on.
LEMMA RestOf ==
  ASSUME NEW S, NEW q \in Seq(S), NEW m \in 0 .. Len(q) - 1
  PROVE  LET rest == SubSeq(q, m + 1, Len(q))
         IN  /\ rest # <<>>
             /\ Head(rest) = q[m + 1]
             /\ Tail(rest) = SubSeq(q, m + 2, Len(q))
<1> DEFINE rest == SubSeq(q, m + 1, Len(q))
           less == SubSeq(q, m + 2, Len(q))
<1>1. /\ rest \in Seq(S) /\ Len(rest) = Len(q) - m
      /\ \A i \in 1 .. Len(q) - m : rest[i] = q[m + i]
  OBVIOUS
<1>2. /\ less \in Seq(S) /\ Len(less) = Len(q) - m - 1
      /\ \A i \in 1 .. Len(q) - m - 1 : less[i] = q[m + 1 + i]
  OBVIOUS
<1> HIDE DEF rest, less
<1>3. rest # <<>> /\ Head(rest) = q[m + 1]
  BY <1>1
<1>4. /\ Tail(rest) \in Seq(S) /\ Len(Tail(rest)) = Len(q) - m - 1
      /\ \A i \in 1 .. Len(q) - m - 1 : Tail(rest)[i] = rest[i + 1]
  BY <1>1, <1>3
<1>5. \A i \in 1 .. Len(q) - m - 1 : Tail(rest)[i] = less[i]
  <2> SUFFICES ASSUME NEW i \in 1 .. Len(q) - m - 1 PROVE Tail(rest)[i] = less[i]
    OBVIOUS
  <2>1. i + 1 \in 1 .. Len(q) - m /\ m + (i + 1) = m + 1 + i
    OBVIOUS
  <2> QED BY <1>1, <1>2, <1>4, <2>1
<1>6. Tail(rest) = less
  BY <1>2, <1>4, <1>5
<1> QED BY <1>3, <1>6 DEF rest, less

\* Of the plan's own targets: every name finds its own pin at the head, and
\* the plan comes out as it was.
LEMMA SameTargets ==
  ASSUME PlanInv, PlannedInv, Len(specs) = Len(input.targets)
  PROVE  ~FromPinned(input.targets).refused /\ FromPinned(input.targets).specs = specs
<1> DEFINE ts == input.targets
           n == Len(specs)
<1>1. /\ n \in Nat /\ DOMAIN specs = 1 .. n /\ Len(ts) = n
      /\ \A k \in 1 .. n : SpecFor(specs[k], ts[k])
  BY DEF PlanInv, SpecsOK, PlannedInv
<1>2. PICK S : specs \in Seq(S)
  BY DEF PlanInv, SpecsOK
<1>3. PICK U : ts \in Seq(U)
  BY InputsAssumption DEF PlanInv
<1>4. PICK h : /\ h[0] = <<>>
               /\ \A k \in 1 .. n :
                    h[k] = IF IsDns(specs[k].of) THEN Append(h[k - 1], specs[k]) ELSE h[k - 1]
               /\ \A k \in 0 .. n : h[k] \in Seq(NamePins)
               /\ \A k \in 0 .. n : Prefixed(h[k], h[n])
               /\ DnsPins = h[n]
  BY PinsOfPlan
<1>5. PICK r : /\ r[0] = [specs |-> <<>>, pins |-> DnsPins, refused |-> FALSE]
               /\ \A k \in 1 .. n : r[k] = Repinned(r[k - 1], ts[k])
               /\ FromPinned(ts) = r[n]
  <2> HIDE DEF ts, n
  <2> QED BY <1>1, <1>3, RepinRun
<1> HIDE DEF ts, n
<1> DEFINE Rest(k) == SubSeq(h[n], Len(h[k]) + 1, Len(h[n]))
           Half(k) == [specs |-> SubSeq(specs, 1, k), pins |-> Rest(k), refused |-> FALSE]
           T == {k \in 0 .. n : r[k] = Half(k)}
<1>6. h[n] \in Seq(NamePins) /\ Len(h[n]) \in Nat
  BY <1>1, <1>4
<1>7. 0 \in T
  <2>1. SubSeq(specs, 1, 0) = <<>>
    BY <1>2
  <2>2. Rest(0) = h[n]
    BY <1>4, <1>6
  <2> HIDE DEF Rest
  <2>3. r[0] = Half(0)
    BY <1>4, <1>5, <2>1, <2>2
  <2>4. 0 \in 0 .. n
    BY <1>1
  <2> QED BY <2>3, <2>4
<1>8. ASSUME NEW k \in 0 .. n - 1, k \in T PROVE k + 1 \in T
  <2> DEFINE t == ts[k + 1]
             s == specs[k + 1]
             x == r[k]
  <2>1. k \in 0 .. n /\ k + 1 \in 1 .. n /\ k + 1 \in 0 .. n /\ (k + 1) - 1 = k
    BY <1>1
  <2>2. x = Half(k) /\ r[k + 1] = Repinned(x, t) /\ SpecFor(s, t)
    BY <1>1, <1>5, <1>8, <2>1
  <2>3. x.specs = SubSeq(specs, 1, k) /\ x.pins = Rest(k) /\ x.refused = FALSE
    BY <2>2
  <2>4. s.of = t
    <3>1. CASE IsDns(t)
      <4>1. PICK ips \in Seq(IpAddr) : s = Points(ips, t)
        BY <2>2, <3>1 DEF SpecFor
      <4> HIDE DEF s, t
      <4> QED BY <4>1 DEF Points
    <3>2. CASE ~IsDns(t)
      <4>1. s = BlockOf(t)
        BY <2>2, <3>2 DEF SpecFor
      <4> HIDE DEF s, t
      <4> QED BY <4>1 DEF BlockOf, Block
    <3> QED BY <3>1, <3>2
  <2>5. Append(SubSeq(specs, 1, k), s) = SubSeq(specs, 1, k + 1)
    BY <1>1, <1>2, <2>1, PrefixPlusOne DEF n
  <2>6. h[k] \in Seq(NamePins) /\ Prefixed(h[k + 1], h[n]) /\ Len(h[k]) \in Nat
    BY <1>4, <2>1
  <2> HIDE DEF Rest
  <2>7. CASE IsDns(t)
    <3>1. PICK ips \in Seq(IpAddr) : s = Points(ips, t)
      BY <2>2, <2>7 DEF SpecFor
    <3>2. h[k + 1] = Append(h[k], s)
      BY <1>4, <2>1, <2>4, <2>7
    <3>3. /\ Len(h[k + 1]) = Len(h[k]) + 1
          /\ Len(h[k]) + 1 <= Len(h[n])
          /\ h[n][Len(h[k]) + 1] = s
      <4>1. Len(h[k + 1]) = Len(h[k]) + 1 /\ h[k + 1][Len(h[k]) + 1] = s
        BY <2>6, <3>2
      <4> QED BY <2>6, <4>1 DEF Prefixed
    <3>4. Rest(k) # <<>> /\ Head(Rest(k)) = s /\ Tail(Rest(k)) = Rest(k + 1)
      <4>1. Len(h[k]) \in 0 .. Len(h[n]) - 1 /\ Len(h[k + 1]) + 1 = Len(h[k]) + 2
        BY <1>6, <2>6, <3>3
      <4> QED BY <1>6, <3>3, <4>1, RestOf DEF Rest
    <3>5. s.ips = ips
      BY <3>1 DEF Points
    <3>6. PinMatches(s, t)
      BY <2>4 DEF PinMatches
    <3> HIDE DEF s, t, x
    <3>7. Repinned(x, t) = [specs |-> Append(x.specs, Points(Head(x.pins).ips, t)),
                            pins |-> Tail(x.pins), refused |-> FALSE]
      BY <2>3, <2>7, <3>4, <3>6 DEF Repinned, IsDns
    <3>8. Repinned(x, t) = Half(k + 1)
      BY <2>3, <2>5, <3>1, <3>4, <3>5, <3>7
    <3> QED BY <2>1, <2>2, <3>8
  <2>8. CASE ~IsDns(t)
    <3>1. s = BlockOf(t) /\ (t.kind = "range" => ~RangeRefused(t))
      BY <2>2, <2>8 DEF SpecFor
    <3>2. h[k + 1] = h[k]
      BY <1>4, <2>1, <2>4, <2>8
    <3>3. Rest(k + 1) = Rest(k)
      BY <3>2 DEF Rest
    <3> HIDE DEF s, t
    <3>4. Repinned(x, t) = [x EXCEPT !.specs = Append(@, BlockOf(t))]
      BY <2>3, <2>8, <3>1 DEF Repinned, BlockOf
    <3>5. Repinned(x, t) = Half(k + 1)
      BY <2>2, <2>3, <2>5, <3>1, <3>3, <3>4
    <3> QED BY <2>1, <2>2, <3>5
  <2> QED BY <2>7, <2>8
<1> HIDE DEF T
<1>9. \A k \in 0 .. n : k \in T
  BY <1>1, <1>7, <1>8, InductionUpTo
<1>10. r[n] = Half(n)
  <2>1. n \in T
    BY <1>1, <1>9
  <2> HIDE DEF Half
  <2> QED BY <2>1 DEF T
<1>11. SubSeq(specs, 1, n) = specs
  BY <1>2 DEF n
<1> QED BY <1>5, <1>10, <1>11 DEF ts

\* Every edit of a list of targets is one of the same targets.
LEMMA EditsKept ==
  ASSUME NEW U, NEW ts \in Seq(U), NEW e \in Edits(ts)
  PROVE  e \in Seq(U)
<1>1. Len(ts) \in Nat /\ DOMAIN ts = 1 .. Len(ts) /\ \A i \in DOMAIN ts : ts[i] \in U
  OBVIOUS
<1>2. Reverse(ts) \in Seq(U)
  BY DEF Reverse
<1>3. ASSUME NEW i \in DOMAIN ts PROVE RemoveAt(ts, i) \in Seq(U)
  <2>1. SubSeq(ts, 1, i - 1) \in Seq(U) /\ SubSeq(ts, i + 1, Len(ts)) \in Seq(U)
    BY <1>1, <1>3
  <2> QED BY <2>1 DEF RemoveAt
<1>4. ASSUME NEW i \in DOMAIN ts PROVE Append(ts, ts[i]) \in Seq(U)
  BY <1>1, <1>4
<1>5. ASSUME NEW i \in DOMAIN ts, NEW j \in DOMAIN ts
      PROVE  [ts EXCEPT ![i] = ts[j]] \in Seq(U)
  BY <1>1, <1>5
<1>6. \/ e = Reverse(ts)
      \/ \E i \in DOMAIN ts : e = RemoveAt(ts, i)
      \/ \E i \in DOMAIN ts : e = Append(ts, ts[i])
      \/ \E i, j \in DOMAIN ts : e = [ts EXCEPT ![i] = ts[j]]
  <2>1. \/ e = Reverse(ts)
        \/ e \in {RemoveAt(ts, i) : i \in DOMAIN ts}
        \/ e \in {Append(ts, ts[i]) : i \in DOMAIN ts}
        \/ e \in {[ts EXCEPT ![i] = ts[j]] : i, j \in DOMAIN ts}
    BY DEF Edits
  <2>2. e \in {[ts EXCEPT ![i] = ts[j]] : i, j \in DOMAIN ts} =>
          \E i, j \in DOMAIN ts : e = [ts EXCEPT ![i] = ts[j]]
    OBVIOUS
  <2> QED BY <2>1, <2>2
<1> QED BY <1>2, <1>3, <1>4, <1>5, <1>6, Zenon

\* A resume only follows a finished plan, and leaves it alone.
ReplayInv == replay # None => stage = "planned" /\ ReplayFaithful

LEMMA ResumeKeeps ==
  ASSUME PlanInv, PlannedInv, NEW ts \in Edits(input.targets), Resume(ts)
  PROVE  ReplayInv'
<1> DEFINE built == FromPinned(ts)
<1>1. /\ stage = "planned" /\ stage' = stage /\ specs' = specs /\ input' = input
      /\ replay' = IF built.refused THEN [kind |-> "refused", targets |-> ts]
                   ELSE [kind |-> "rebuilt", targets |-> ts, specs |-> built.specs]
  BY DEF Resume
<1>2. Len(specs) = Len(input.targets)
  BY <1>1 DEF PlannedInv
<1>3. PICK U : input.targets \in Seq(U)
  BY InputsAssumption DEF PlanInv
<1>4. ts \in Seq(U)
  BY <1>3, EditsKept DEF Resume
<1>5. replay'.targets = ts /\ replay'.kind \in {"refused", "rebuilt"}
  BY <1>1
<1>6. CASE ts = input.targets
  <2>1. ~built.refused /\ built.specs = specs
    BY <1>2, <1>6, SameTargets
  <2> HIDE DEF built
  <2>2. replay'.kind = "rebuilt" /\ replay'.specs = specs
    BY <1>1, <2>1
  <2>3. Stream(replay.specs)' = Stream(specs)'
    BY <1>1, <2>2
  <2> QED BY <1>1, <1>5, <1>6, <2>2, <2>3 DEF ReplayInv, ReplayFaithful
<1>7. CASE ts # input.targets
  <2>1. \A s \in ToSet(built.specs) : IsDns(s.of) => s \in ToSet(specs)
    BY <1>4, OtherTargets
  <2> HIDE DEF built
  <2>2. replay'.kind = "rebuilt" => replay'.specs = built.specs
    BY <1>1
  <2>3. replay'.kind = "rebuilt" =>
          \A s \in ToSet(replay'.specs) : IsDns(s.of) => s \in ToSet(specs')
    BY <1>1, <2>1, <2>2
  <2> QED BY <1>1, <1>5, <1>7, <2>3 DEF ReplayInv, ReplayFaithful
<1> QED BY <1>6, <1>7

LEMMA NextReplay ==
  ASSUME PlanInv, PlannedInv, ReplayInv, [Next]_vars
  PROVE  ReplayInv'
<1>1. CASE \E ts \in Edits(input.targets) : Resume(ts)
  BY <1>1, ResumeKeeps
<1>2. CASE ~(\E ts \in Edits(input.targets) : Resume(ts))
  <2>1. /\ replay' = replay
        /\ stage = "planned" => stage' = stage /\ specs' = specs /\ input' = input
    BY <1>2 DEF Next, PlanIp, PlanCidr, PlanRange, PlanUnqueryable, PlanDns, Planning,
                PushSpec, Refuse, BeginOverlaps, OverlapStep, EndOverlaps, GuardBlock,
                GuardSweep, GuardBlockDone, GuardPoints, GuardCap, Guarding, Done, vars,
                planVars
  <2> QED BY <2>1 DEF ReplayInv, ReplayFaithful
<1> QED BY <1>1, <1>2

\* ResumeReplaysPlan: a resume of the same targets is never refused and
\* streams the interrupted run's addresses, position by position; of
\* edited targets a name is only replayed with its own pinned addresses
\* (dns_pins, from_pinned).  For every scenario, whatever was looked up.
THEOREM ResumeReplaysPlan == Spec => []ReplayFaithful
<1>1. Init => PlannedInv /\ ReplayInv
  <2> SUFFICES ASSUME Init PROVE PlannedInv /\ ReplayInv
    OBVIOUS
  <2>1. specs = <<>> /\ stage = "plan" /\ input \in Inputs /\ replay = None
    BY DEF Init
  <2>2. PICK U : input.targets \in Seq(U)
    BY <2>1, InputsAssumption
  <2> QED BY <2>1, <2>2 DEF PlannedInv, ReplayInv
<1>2. PlanInv /\ PlannedInv /\ ReplayInv /\ [Next]_vars => PlannedInv' /\ ReplayInv'
  BY NextPlanned, NextReplay
<1>3. ReplayInv => ReplayFaithful
  BY DEF ReplayInv, ReplayFaithful, None
<1> QED BY <1>1, <1>2, <1>3, InitPlanInv, NextPlanInv, PTL DEF Spec

-----------------------------------------------------------------------------
(* The intervals of find_overlaps, sorted *)

AllIntervals == UNION {SpecIntervals(i) : i \in DOMAIN specs}

\* An interval lies in one family and is not empty.
IntervalOK(x) ==
  /\ x.v6 \in BOOLEAN /\ x.lo \in Nat /\ x.hi \in Nat /\ x.lo <= x.hi
  /\ x.spec \in DOMAIN specs
  /\ x = [v6 |-> x.v6, lo |-> x.lo, hi |-> x.hi, spec |-> x.spec]

\* The addresses of a looked-up spec are addresses.
LEMMA PointsAreAddresses ==
  ASSUME PlanInv, PlannedInv, NEW i \in DOMAIN specs, specs[i].kind = "points"
  PROVE  specs[i].ips \in Seq(IpAddr)
<1>1. SpecFor(specs[i], input.targets[i])
  BY DEF PlannedInv
<1>2. IsDns(input.targets[i])
  <2> SUFFICES ASSUME ~IsDns(input.targets[i]) PROVE FALSE
    OBVIOUS
  <2>1. specs[i] = BlockOf(input.targets[i])
    BY <1>1 DEF SpecFor
  <2>2. specs[i].kind = "block"
    BY <2>1 DEF BlockOf, Block
  <2> QED BY <2>2
<1>3. PICK ips \in Seq(IpAddr) : specs[i] = Points(ips, input.targets[i])
  BY <1>1, <1>2 DEF SpecFor
<1> QED BY <1>3 DEF Points

\* What push_intervals pushes.
LEMMA PushedIntervals ==
  ASSUME PlanInv, PlannedInv, NEW i \in DOMAIN specs
  PROVE  /\ IsFiniteSet(SpecIntervals(i))
         /\ \A x \in SpecIntervals(i) : IntervalOK(x) /\ x.spec = i
<1> DEFINE s == specs[i]
<1>1. SpecOK(s)
  BY DEF PlanInv, SpecsOK
<1>2. CASE s.kind = "block"
  <2>1. SpecIntervals(i) = {[v6 |-> s.v6, lo |-> s.lo, hi |-> s.hi, spec |-> i]}
    BY <1>2 DEF SpecIntervals
  <2>2. s.v6 \in BOOLEAN /\ s.lo \in Nat /\ s.hi \in Nat /\ s.lo <= s.hi
    BY <1>1, <1>2, AddrIsInt DEF SpecOK
  <2> HIDE DEF s
  <2>3. IsFiniteSet(SpecIntervals(i))
    BY <2>1, FS_Singleton
  <2>4. \A x \in SpecIntervals(i) : IntervalOK(x) /\ x.spec = i
    BY <2>1, <2>2 DEF IntervalOK
  <2> QED BY <2>3, <2>4
<1>3. CASE s.kind = "points"
  <2> DEFINE Iv(ip) == [v6 |-> ip[1], lo |-> ip[2], hi |-> ip[2], spec |-> i]
             f == [k \in DOMAIN s.ips |-> Iv(s.ips[k])]
  <2>1. s.ips \in Seq(IpAddr)
    BY <1>3, PointsAreAddresses
  <2>2. SpecIntervals(i) = {Iv(ip) : ip \in ToSet(s.ips)}
    BY <1>3 DEF SpecIntervals
  <2>3. \A ip \in IpAddr : ip[1] \in BOOLEAN /\ ip[2] \in Nat
    BY AddrIsInt DEF IpAddr
  <2> HIDE DEF s
  <2>4. \A ip \in ToSet(s.ips) : ip \in IpAddr
    BY <2>1 DEF ToSet
  <2>5. \A ip \in IpAddr : IntervalOK(Iv(ip)) /\ Iv(ip).spec = i
    BY <2>3 DEF IntervalOK
  <2>6. DOMAIN s.ips = 1 .. Len(s.ips) /\ Len(s.ips) \in Nat
    BY <2>1
  <2>7. IsFiniteSet(DOMAIN s.ips)
    BY <2>6, FS_Interval
  <2> HIDE DEF Iv
  <2>8. \A y \in SpecIntervals(i) : \E k \in DOMAIN s.ips : Iv(s.ips[k]) = y
    BY <2>2 DEF ToSet
  <2>9. \A k \in DOMAIN s.ips : Iv(s.ips[k]) \in SpecIntervals(i)
    BY <2>2 DEF ToSet
  <2>10. f \in Surjection(DOMAIN s.ips, SpecIntervals(i))
    BY <2>8, <2>9 DEF Surjection
  <2> HIDE DEF f
  <2>11. IsFiniteSet(SpecIntervals(i))
    BY <2>7, <2>10, FS_Surjection
  <2> QED BY <2>2, <2>4, <2>5, <2>11
<1> QED BY <1>1, <1>2, <1>3 DEF SpecOK

LEMMA IntervalsFinite ==
  ASSUME PlanInv, PlannedInv
  PROVE  IsFiniteSet(AllIntervals) /\ \A x \in AllIntervals : IntervalOK(x)
<1>1. DOMAIN specs = 1 .. Len(specs) /\ Len(specs) \in Nat
  BY DEF PlanInv, SpecsOK
<1>2. IsFiniteSet(DOMAIN specs)
  BY <1>1, FS_Interval
<1> DEFINE C == {SpecIntervals(i) : i \in DOMAIN specs}
           f == [i \in DOMAIN specs |-> SpecIntervals(i)]
<1>3. f \in Surjection(DOMAIN specs, C)
  BY DEF Surjection
<1>4. \A T \in C : IsFiniteSet(T)
  BY PushedIntervals
<1> HIDE DEF f
<1>5. IsFiniteSet(C)
  BY <1>2, <1>3, FS_Surjection
<1>6. \A x \in AllIntervals : IntervalOK(x)
  BY PushedIntervals DEF AllIntervals
<1>7. AllIntervals = UNION C
  BY DEF AllIntervals
<1> HIDE DEF C
<1> QED BY <1>4, <1>5, <1>6, <1>7, FS_UNION

\* The derived order is a strict total order.
LEMMA BeforeOrders ==
  ASSUME PlanInv, NEW x, NEW y, NEW z, IntervalOK(x), IntervalOK(y), IntervalOK(z)
  PROVE  /\ ~Before(x, x)
         /\ Before(x, y) /\ Before(y, z) => Before(x, z)
         /\ x # y => Before(x, y) \/ Before(y, x)
<1>1. /\ x.spec \in Nat /\ y.spec \in Nat /\ z.spec \in Nat
      /\ x.v6 \in BOOLEAN /\ y.v6 \in BOOLEAN /\ z.v6 \in BOOLEAN
      /\ x.lo \in Nat /\ y.lo \in Nat /\ z.lo \in Nat
      /\ x.hi \in Nat /\ y.hi \in Nat /\ z.hi \in Nat
  BY DEF IntervalOK, PlanInv, SpecsOK
<1>2. ~Before(x, x)
  BY <1>1 DEF Before
<1>3. Before(x, y) /\ Before(y, z) => Before(x, z)
  BY <1>1 DEF Before
<1>4. x # y => Before(x, y) \/ Before(y, x)
  <2> SUFFICES ASSUME ~Before(x, y), ~Before(y, x) PROVE x = y
    OBVIOUS
  <2>1. x.v6 = y.v6 /\ x.lo = y.lo /\ x.hi = y.hi /\ x.spec = y.spec
    BY <1>1 DEF Before
  <2> QED BY <2>1 DEF IntervalOK
<1> QED BY <1>2, <1>3, <1>4

\* What sweep_intervals returns: every interval, in order.
SortedIntervals(ivs) ==
  /\ Len(ivs) \in Nat /\ DOMAIN ivs = 1 .. Len(ivs)
  /\ \A k \in 1 .. Len(ivs) : ivs[k] \in AllIntervals
  /\ \A x \in AllIntervals : \E k \in 1 .. Len(ivs) : ivs[k] = x
  /\ \A j, k \in 1 .. Len(ivs) : j < k => ~Before(ivs[k], ivs[j])

LEMMA SweepIntervalsSorted ==
  ASSUME PlanInv, PlannedInv
  PROVE  SortedIntervals(SweepIntervals)
<1> DEFINE A == AllIntervals
           N == Cardinality(A)
           Below(x) == {y \in A : Before(y, x)}
           rank == [x \in A |-> Cardinality(Below(x))]
<1>1. IsFiniteSet(A) /\ N \in Nat /\ \A x \in A : IntervalOK(x)
  BY IntervalsFinite, FS_CardinalityType
<1> HIDE DEF A
<1>2. \A x \in A : IsFiniteSet(Below(x)) /\ Cardinality(Below(x)) \in Nat
  <2> SUFFICES ASSUME NEW x \in A PROVE IsFiniteSet(Below(x)) /\ Cardinality(Below(x)) \in Nat
    OBVIOUS
  <2>1. Below(x) \in SUBSET A
    OBVIOUS
  <2> QED BY <1>1, <2>1, FS_Subset, FS_CardinalityType
<1>3. ASSUME NEW x \in A, NEW y \in A, Before(y, x) PROVE rank[y] < rank[x]
  <2>1. Below(y) \in SUBSET Below(x)
    BY <1>1, <1>3, BeforeOrders
  <2>2. y \in Below(x) /\ y \notin Below(y)
    BY <1>1, <1>3, BeforeOrders
  <2> HIDE DEF Below
  <2>3. Cardinality(Below(y)) <= Cardinality(Below(x)) /\ Cardinality(Below(y)) # Cardinality(Below(x))
    BY <1>2, <2>1, <2>2, FS_Subset
  <2> QED BY <1>2, <2>3
<1>4. ASSUME NEW x \in A PROVE rank[x] \in 0 .. N - 1
  <2>1. Below(x) \in SUBSET A /\ x \notin Below(x)
    BY <1>1, BeforeOrders
  <2> HIDE DEF Below
  <2>2. Cardinality(Below(x)) <= N /\ Cardinality(Below(x)) # N
    BY <1>1, <2>1, FS_Subset
  <2> QED BY <1>1, <1>2, <2>2
<1> HIDE DEF rank
<1>5. rank \in Injection(A, 0 .. N - 1)
  <2>1. rank \in [A -> 0 .. N - 1]
    BY <1>4 DEF rank
  <2>2. ASSUME NEW x \in A, NEW y \in A, rank[x] = rank[y] PROVE x = y
    <3>1. rank[x] \in Int /\ rank[y] \in Int
      BY <1>1, <1>4
    <3>2. ~Before(x, y) /\ ~Before(y, x)
      BY <1>3, <2>2, <3>1
    <3> QED BY <1>1, <3>2, BeforeOrders
  <2> QED BY <2>1, <2>2 DEF Injection, IsInjective
<1>6. IsFiniteSet(0 .. N - 1) /\ Cardinality(0 .. N - 1) = N
  <2>1. 0 \in Int /\ N - 1 \in Int
    BY <1>1
  <2>2. /\ IsFiniteSet(0 .. N - 1)
        /\ Cardinality(0 .. N - 1) = IF 0 > N - 1 THEN 0 ELSE (N - 1) - 0 + 1
    BY <2>1, FS_Interval
  <2> QED BY <1>1, <2>2
<1>7. \A r \in 0 .. N - 1 : \E x \in A : rank[x] = r
  <2>1. rank \in Surjection(A, 0 .. N - 1)
    BY <1>5, <1>6, FS_Injection
  <2> QED BY <2>1 DEF Surjection
<1> DEFINE ivs == [k \in 1 .. N |-> CHOOSE x \in A : Cardinality(Below(x)) = k - 1]
<1>8. SweepIntervals = ivs
  BY DEF SweepIntervals, A, AllIntervals
<1>9. ASSUME NEW k \in 1 .. N PROVE ivs[k] \in A /\ rank[ivs[k]] = k - 1
  <2>1. k - 1 \in 0 .. N - 1
    BY <1>1
  <2>2. \A x \in A : rank[x] = Cardinality(Below(x))
    BY DEF rank
  <2> HIDE DEF Below
  <2>3. \E x \in A : Cardinality(Below(x)) = k - 1
    BY <1>7, <2>1, <2>2
  <2>4. ivs[k] = CHOOSE x \in A : Cardinality(Below(x)) = k - 1
    OBVIOUS
  <2>5. ivs[k] \in A /\ Cardinality(Below(ivs[k])) = k - 1
    BY <2>3, <2>4
  <2> QED BY <2>2, <2>5
<1>10. DOMAIN ivs = 1 .. N /\ Len(ivs) = N
  BY <1>1
<1> HIDE DEF ivs
<1>11. \A x \in A : \E k \in 1 .. N : ivs[k] = x
  <2> SUFFICES ASSUME NEW x \in A PROVE \E k \in 1 .. N : ivs[k] = x
    OBVIOUS
  <2>1. rank[x] + 1 \in 1 .. N /\ (rank[x] + 1) - 1 = rank[x]
    BY <1>1, <1>4
  <2>2. ivs[rank[x] + 1] \in A /\ rank[ivs[rank[x] + 1]] = rank[x]
    BY <1>9, <2>1
  <2>3. ivs[rank[x] + 1] = x
    BY <1>5, <2>2 DEF Injection, IsInjective
  <2> QED BY <2>1, <2>3
<1>12. \A j, k \in 1 .. N : j < k => ~Before(ivs[k], ivs[j])
  <2> SUFFICES ASSUME NEW j \in 1 .. N, NEW k \in 1 .. N, j < k, Before(ivs[k], ivs[j])
               PROVE  FALSE
    OBVIOUS
  <2>1. rank[ivs[k]] < rank[ivs[j]]
    BY <1>3, <1>9
  <2>2. k - 1 < j - 1
    BY <1>9, <2>1
  <2> QED BY <1>1, <2>2
<1>13. SortedIntervals(ivs)
  BY <1>1, <1>9, <1>10, <1>11, <1>12 DEF SortedIntervals, A
<1> QED BY <1>8, <1>13

-----------------------------------------------------------------------------
(* The pairs of find_overlaps *)

\* The pair that two intervals stand for, and those the sweep has met when it
\* has looked at the first m intervals.
PairOf(a, b) == IF a <= b THEN <<a, b>> ELSE <<b, a>>
Meeting(ivs, m) ==
  {pair \in (DOMAIN specs) \X (DOMAIN specs) :
     \E k \in 1 .. m : \E j \in 1 .. k - 1 :
       /\ StillOpen(ivs[j], ivs[k])
       /\ ivs[j].spec # ivs[k].spec
       /\ pair = PairOf(ivs[j].spec, ivs[k].spec)}

\* An address of a spec lies in one of its intervals.
LEMMA AddressInInterval ==
  ASSUME PlanInv, PlannedInv, NEW i \in DOMAIN specs, NEW ip
  PROVE  ip \in Addresses(specs[i]) <=>
           \E x \in SpecIntervals(i) : \E a \in x.lo .. x.hi : ip = <<x.v6, a>>
<1> DEFINE s == specs[i]
<1>1. SpecOK(s)
  BY DEF PlanInv, SpecsOK
<1>2. CASE s.kind = "block"
  <2>1. SpecIntervals(i) = {[v6 |-> s.v6, lo |-> s.lo, hi |-> s.hi, spec |-> i]}
    BY <1>2 DEF SpecIntervals
  <2>2. Addresses(s) = {<<s.v6, x>> : x \in s.lo .. s.hi}
    BY <1>1, <1>2, BlockAddresses
  <2> HIDE DEF s
  <2> QED BY <2>1, <2>2 DEF s
<1>3. CASE s.kind = "points"
  <2> DEFINE Iv(a) == [v6 |-> a[1], lo |-> a[2], hi |-> a[2], spec |-> i]
  <2>1. s.ips \in Seq(IpAddr)
    BY <1>3, PointsAreAddresses
  <2>2. SpecIntervals(i) = {Iv(a) : a \in ToSet(s.ips)}
    BY <1>3 DEF SpecIntervals
  <2>3. Addresses(s) = ToSet(s.ips)
    BY <1>3, PointAddresses DEF ToSet
  <2>4. \A a \in ToSet(s.ips) : a \in IpAddr
    BY <2>1 DEF ToSet
  <2>5. \A a \in IpAddr : a = <<a[1], a[2]>> /\ a[2] \in Nat
    BY AddrIsInt DEF IpAddr
  <2> HIDE DEF s
  <2>6. ASSUME ip \in ToSet(s.ips)
        PROVE  \E x \in SpecIntervals(i) : \E a \in x.lo .. x.hi : ip = <<x.v6, a>>
    <3>1. Iv(ip) \in SpecIntervals(i) /\ ip = <<ip[1], ip[2]>> /\ ip[2] \in Nat
      BY <2>2, <2>4, <2>5, <2>6
    <3>2. Iv(ip).lo = ip[2] /\ Iv(ip).hi = ip[2] /\ Iv(ip).v6 = ip[1]
      OBVIOUS
    <3>3. ip[2] \in Iv(ip).lo .. Iv(ip).hi
      BY <3>1, <3>2
    <3> HIDE DEF Iv
    <3> QED BY <3>1, <3>2, <3>3
  <2>7. ASSUME NEW x \in SpecIntervals(i), NEW a \in x.lo .. x.hi, ip = <<x.v6, a>>
        PROVE  ip \in ToSet(s.ips)
    <3>1. PICK b \in ToSet(s.ips) : x = Iv(b)
      BY <2>2
    <3>2. x.lo = b[2] /\ x.hi = b[2] /\ x.v6 = b[1] /\ b = <<b[1], b[2]>> /\ b[2] \in Nat
      BY <2>4, <2>5, <3>1
    <3>3. a = b[2]
      BY <3>2
    <3> QED BY <2>7, <3>2, <3>3
  <2> QED BY <2>3, <2>6, <2>7 DEF s
<1> QED BY <1>1, <1>2, <1>3 DEF SpecOK

\* In the sweep's order a later interval starts no earlier, so it meets an
\* earlier one exactly when that one is still open.
LEMMA SweepOrder ==
  ASSUME PlanInv, PlannedInv, NEW ivs, SortedIntervals(ivs),
         NEW j \in 1 .. Len(ivs), NEW k \in 1 .. Len(ivs), j < k
  PROVE  /\ IntervalOK(ivs[j]) /\ IntervalOK(ivs[k])
         /\ ivs[j].v6 => ivs[k].v6
         /\ ivs[j].v6 = ivs[k].v6 => ivs[j].lo <= ivs[k].lo
<1>1. IntervalOK(ivs[j]) /\ IntervalOK(ivs[k]) /\ ~Before(ivs[k], ivs[j])
  BY IntervalsFinite DEF SortedIntervals
<1> DEFINE x == ivs[j]
           y == ivs[k]
<1>2. /\ x.v6 \in BOOLEAN /\ y.v6 \in BOOLEAN /\ x.lo \in Nat /\ y.lo \in Nat
  BY <1>1 DEF IntervalOK
<1>3. (x.v6 => y.v6) /\ (x.v6 = y.v6 => x.lo <= y.lo)
  BY <1>1, <1>2 DEF Before
<1> QED BY <1>1, <1>3

\* Swept to the end, the pairs met are the pairs that share an address.
LEMMA MeetingIsSharing ==
  ASSUME PlanInv, PlannedInv, NEW ivs, SortedIntervals(ivs)
  PROVE  Meeting(ivs, Len(ivs)) = SharedPairs
<1> DEFINE N == Len(ivs)
<1>0. N \in Nat /\ \A i \in DOMAIN specs : i \in Nat
  BY DEF SortedIntervals, PlanInv, SpecsOK
<1>1. \A k \in 1 .. N : ivs[k] \in SpecIntervals(ivs[k].spec) /\ ivs[k].spec \in DOMAIN specs
  <2> SUFFICES ASSUME NEW k \in 1 .. N
               PROVE  ivs[k] \in SpecIntervals(ivs[k].spec) /\ ivs[k].spec \in DOMAIN specs
    OBVIOUS
  <2>1. PICK i \in DOMAIN specs : ivs[k] \in SpecIntervals(i)
    BY DEF SortedIntervals, AllIntervals
  <2> QED BY <2>1, PushedIntervals
<1> HIDE DEF N
<1>2. ASSUME NEW k \in 1 .. N, NEW j \in 1 .. k - 1, StillOpen(ivs[j], ivs[k])
      PROVE  Addresses(specs[ivs[j].spec]) \cap Addresses(specs[ivs[k].spec]) # {}
  <2> DEFINE x == ivs[j]
             y == ivs[k]
             ip == <<y.v6, y.lo>>
  <2>1. j \in 1 .. N /\ j < k
    BY <1>0
  <2>2. IntervalOK(x) /\ IntervalOK(y) /\ (x.v6 = y.v6 => x.lo <= y.lo)
    BY <2>1, SweepOrder DEF N
  <2>3. x.v6 = y.v6 /\ x.hi >= y.lo
    BY <1>2 DEF StillOpen
  <2>4. y.lo \in x.lo .. x.hi /\ y.lo \in y.lo .. y.hi
    BY <2>2, <2>3 DEF IntervalOK
  <2>5. x \in SpecIntervals(x.spec) /\ x.spec \in DOMAIN specs
        /\ y \in SpecIntervals(y.spec) /\ y.spec \in DOMAIN specs
    BY <1>1, <2>1
  <2> HIDE DEF x, y
  <2>6. ip \in Addresses(specs[y.spec])
    BY <2>4, <2>5, AddressInInterval
  <2>7. ip = <<x.v6, y.lo>>
    BY <2>3
  <2> HIDE DEF ip
  <2>8. ip \in Addresses(specs[x.spec])
    BY <2>4, <2>5, <2>7, AddressInInterval
  <2> QED BY <2>6, <2>8 DEF x, y
<1>3. Meeting(ivs, N) \subseteq SharedPairs
  <2> SUFFICES ASSUME NEW p \in Meeting(ivs, N) PROVE p \in SharedPairs
    OBVIOUS
  <2>1. PICK k \in 1 .. N : \E j \in 1 .. k - 1 :
          /\ StillOpen(ivs[j], ivs[k])
          /\ ivs[j].spec # ivs[k].spec
          /\ p = PairOf(ivs[j].spec, ivs[k].spec)
    BY DEF Meeting
  <2>2. PICK j \in 1 .. k - 1 :
          /\ StillOpen(ivs[j], ivs[k])
          /\ ivs[j].spec # ivs[k].spec
          /\ p = PairOf(ivs[j].spec, ivs[k].spec)
    BY <2>1
  <2> DEFINE a == ivs[j].spec
             b == ivs[k].spec
  <2>3. a \in DOMAIN specs /\ b \in DOMAIN specs /\ a \in Nat /\ b \in Nat /\ a # b
    BY <1>0, <1>1, <2>2
  <2>4. Addresses(specs[a]) \cap Addresses(specs[b]) # {}
    BY <1>2, <2>2
  <2>5. p = PairOf(a, b)
    BY <2>2
  <2> HIDE DEF a, b
  <2>6. CASE a < b
    <3>1. p = <<a, b>>
      BY <2>3, <2>5, <2>6 DEF PairOf
    <3> QED BY <2>3, <2>4, <2>6, <3>1 DEF SharedPairs
  <2>7. CASE b < a
    <3>1. p = <<b, a>>
      BY <2>3, <2>5, <2>7 DEF PairOf
    <3>2. Addresses(specs[b]) \cap Addresses(specs[a]) # {}
      BY <2>4
    <3> QED BY <2>3, <2>7, <3>1, <3>2 DEF SharedPairs
  <2> QED BY <2>3, <2>6, <2>7
<1>4. ASSUME NEW j \in 1 .. N, NEW k \in 1 .. N, j < k, NEW c,
             NEW u \in ivs[j].lo .. ivs[j].hi, NEW w \in ivs[k].lo .. ivs[k].hi,
             c = <<ivs[j].v6, u>>, c = <<ivs[k].v6, w>>,
             ivs[j].spec # ivs[k].spec
      PROVE  PairOf(ivs[j].spec, ivs[k].spec) \in Meeting(ivs, N)
  <2>1. IntervalOK(ivs[j]) /\ IntervalOK(ivs[k])
    BY <1>4, SweepOrder DEF N
  <2>2. ivs[j].v6 = ivs[k].v6 /\ u = w
    BY <1>4
  <2>3. StillOpen(ivs[j], ivs[k])
    BY <2>1, <2>2 DEF StillOpen, IntervalOK
  <2>4. j \in 1 .. k - 1
    BY <1>0, <1>4
  <2>5. PairOf(ivs[j].spec, ivs[k].spec) \in (DOMAIN specs) \X (DOMAIN specs)
    BY <1>1 DEF PairOf
  <2> QED BY <1>4, <2>3, <2>4, <2>5 DEF Meeting
<1>5. SharedPairs \subseteq Meeting(ivs, N)
  <2> SUFFICES ASSUME NEW p \in SharedPairs PROVE p \in Meeting(ivs, N)
    OBVIOUS
  <2> DEFINE a == p[1]
             b == p[2]
  <2>1. /\ a \in DOMAIN specs /\ b \in DOMAIN specs /\ a < b /\ p = <<a, b>>
        /\ Addresses(specs[a]) \cap Addresses(specs[b]) # {}
    BY DEF SharedPairs
  <2> HIDE DEF a, b
  <2>2. PICK c : c \in Addresses(specs[a]) /\ c \in Addresses(specs[b])
    BY <2>1
  <2>3. PICK x \in SpecIntervals(a) : \E u \in x.lo .. x.hi : c = <<x.v6, u>>
    BY <2>1, <2>2, AddressInInterval
  <2>4. PICK y \in SpecIntervals(b) : \E w \in y.lo .. y.hi : c = <<y.v6, w>>
    BY <2>1, <2>2, AddressInInterval
  <2>5. x \in AllIntervals /\ y \in AllIntervals
    BY <2>1 DEF AllIntervals
  <2>6. PICK j \in 1 .. N : ivs[j] = x
    BY <2>5 DEF SortedIntervals, N
  <2>7. PICK k \in 1 .. N : ivs[k] = y
    BY <2>5 DEF SortedIntervals, N
  <2>8. x.spec = a /\ y.spec = b /\ a \in Nat /\ b \in Nat
    BY <1>0, <2>1, PushedIntervals
  <2>9. j # k
    BY <2>1, <2>6, <2>7, <2>8
  <2>10. PairOf(a, b) = p /\ PairOf(b, a) = p
    BY <2>1, <2>8 DEF PairOf
  <2>11. CASE j < k
    BY <1>4, <2>1, <2>3, <2>4, <2>6, <2>7, <2>8, <2>10, <2>11
  <2>12. CASE k < j
    BY <1>4, <2>1, <2>3, <2>4, <2>6, <2>7, <2>8, <2>10, <2>12
  <2> QED BY <1>0, <2>9, <2>11, <2>12
<1> QED BY <1>3, <1>5 DEF N

-----------------------------------------------------------------------------
(* One turn of find_overlaps *)

\* retain keeps the open intervals and nothing else.
LEMMA RetainedElements ==
  ASSUME NEW iv, NEW M, overlap.active \in Seq(M)
  PROVE  /\ Retained(iv) \in Seq(M)
         /\ \A j : j \in ToSet(Retained(iv)) <=>
                     j \in ToSet(overlap.active) /\ StillOpen(overlap.ivs[j], iv)
<1> DEFINE q == overlap.active
           n == Len(q)
           Step(kept, j) == IF StillOpen(overlap.ivs[j], iv) THEN Append(kept, j) ELSE kept
           Kept(g) == [s \in SUBSET DOMAIN q |->
                         IF s = {} THEN <<>>
                         ELSE LET x == Max(s)
                              IN  Step(g[s \ {x}], q[x])]
           kept == CHOOSE g : g = Kept(g)
           F == [i \in 1 .. n |-> [x \in Seq(M) |-> Step(x, q[i])]]
<1>1. n \in Nat /\ DOMAIN q = 1 .. n /\ \A i \in 1 .. n : q[i] \in M
  OBVIOUS
<1>2. Retained(iv) = kept[DOMAIN q]
  BY Zenon DEF Retained, FoldLeft, MapThenFoldSet
<1> HIDE DEF q, n
<1>3. \A i \in 1 .. n : \A x \in Seq(M) : Step(x, q[i]) \in Seq(M)
  BY <1>1
<1>4. \A x, j : Step(x, j) = IF StillOpen(overlap.ivs[j], iv) THEN Append(x, j) ELSE x
  OBVIOUS
<1> HIDE DEF Step
<1>5. StepsIn(F, n, Seq(M)) /\ \A i \in 1 .. n : \A x \in Seq(M) : F[i][x] = Step(x, q[i])
  BY <1>3 DEF StepsIn
<1>6. <<>> \in Seq(M)
  OBVIOUS
<1> HIDE DEF F
<1>7. PICK g \in [SUBSET (1 .. n) -> Seq(M)] : Fold(F, <<>>, n, g)
  BY <1>1, <1>5, <1>6, FoldExists
<1>8. \A s \in SUBSET (1 .. n) :
        s # {} => Max(s) \in 1 .. n /\ s \ {Max(s)} \in SUBSET (1 .. n)
  BY <1>1, MaxOfIndexes
<1>9. \A s \in SUBSET (1 .. n) :
        s # {} => F[Max(s)][g[s \ {Max(s)}]] = Step(g[s \ {Max(s)}], q[Max(s)])
  BY <1>5, <1>7, <1>8
<1>10. g = Kept(g)
  BY <1>1, <1>7, <1>9 DEF Fold
<1>11. kept = Kept(kept)
  BY <1>10
<1> HIDE DEF kept
<1>12. kept[{}] = <<>>
  BY <1>11
<1>13. \A s \in SUBSET (1 .. n) : s # {} => kept[s] = Step(kept[s \ {Max(s)}], q[Max(s)])
  BY <1>1, <1>11
<1>14. \A s \in SUBSET (1 .. n) :
         s # {} /\ kept[s \ {Max(s)}] \in Seq(M) => kept[s] = F[Max(s)][kept[s \ {Max(s)}]]
  BY <1>5, <1>8, <1>13
<1>15. /\ kept[1 .. 0] = <<>>
       /\ \A k \in 1 .. n : kept[1 .. k] = F[k][kept[1 .. k - 1]]
       /\ \A k \in 0 .. n : kept[1 .. k] \in Seq(M)
  <2> DEFINE S == Seq(M)
             b == <<>>
  <2>1. n \in Nat /\ b \in S /\ kept[{}] = b
    BY <1>1, <1>6, <1>12
  <2>2. StepsIn(F, n, S)
    BY <1>5
  <2>3. FoldsIn(F, b, n, S, kept)
    BY <1>12, <1>14 DEF FoldsIn
  <2> HIDE DEF S, b
  <2>4. FoldRuns(F, b, n, S, kept)
    BY <2>1, <2>2, <2>3, FoldRun
  <2> QED BY <2>4 DEF S, b, FoldRuns
<1> DEFINE h == [k \in 0 .. n |-> kept[1 .. k]]
           Want(k) == {q[i] : i \in {l \in 1 .. k : StillOpen(overlap.ivs[q[l]], iv)}}
           T == {k \in 0 .. n : ToSet(h[k]) = Want(k)}
<1>16. /\ h[0] = <<>>
       /\ \A k \in 0 .. n : h[k] \in Seq(M)
       /\ \A k \in 1 .. n : h[k] = Step(h[k - 1], q[k])
       /\ h[n] = kept[1 .. n]
  <2>1. \A k \in 1 .. n : k \in 0 .. n /\ k - 1 \in 0 .. n
    BY <1>1
  <2>2. 0 \in 0 .. n /\ n \in 0 .. n
    BY <1>1
  <2> QED BY <1>5, <1>15, <2>1, <2>2
<1> HIDE DEF h
<1>17. 0 \in T
  <2>1. ToSet(h[0]) = {}
    BY <1>16 DEF ToSet
  <2>2. Want(0) = {} /\ 0 \in 0 .. n
    BY <1>1
  <2> HIDE DEF Want
  <2> QED BY <2>1, <2>2
<1>18. ASSUME NEW k \in 0 .. n - 1, k \in T PROVE k + 1 \in T
  <2>1. k \in 0 .. n /\ k + 1 \in 1 .. n /\ k + 1 \in 0 .. n /\ (k + 1) - 1 = k
    BY <1>1
  <2>2. h[k + 1] = Step(h[k], q[k + 1]) /\ h[k] \in Seq(M)
    BY <1>16, <2>1
  <2>3. ToSet(h[k]) = Want(k)
    BY <1>18
  <2>4. \A l : l \in 1 .. k + 1 <=> l \in 1 .. k \/ l = k + 1
    BY <1>1
  <2>5. CASE StillOpen(overlap.ivs[q[k + 1]], iv)
    <3>1. ToSet(h[k + 1]) = ToSet(h[k]) \cup {q[k + 1]}
      <4>1. h[k + 1] = Append(h[k], q[k + 1]) /\ q[k + 1] \in M
        BY <1>1, <1>4, <2>1, <2>2, <2>5
      <4> QED BY <2>2, <4>1, AppendedSet
    <3>2. Want(k + 1) = Want(k) \cup {q[k + 1]}
      BY <2>4, <2>5
    <3> HIDE DEF Want
    <3> QED BY <2>1, <2>3, <3>1, <3>2
  <2>6. CASE ~StillOpen(overlap.ivs[q[k + 1]], iv)
    <3>1. h[k + 1] = h[k]
      BY <1>4, <2>2, <2>6
    <3>2. Want(k + 1) = Want(k)
      BY <2>4, <2>6
    <3> HIDE DEF Want
    <3> QED BY <2>1, <2>3, <3>1, <3>2
  <2> QED BY <2>5, <2>6
<1> HIDE DEF T
<1>19. \A k \in 0 .. n : k \in T
  BY <1>1, <1>17, <1>18, InductionUpTo
<1>20. n \in T
  BY <1>1, <1>19
<1>21. Retained(iv) = h[n] /\ h[n] \in Seq(M) /\ ToSet(h[n]) = Want(n)
  <2>1. n \in 0 .. n
    BY <1>1
  <2> HIDE DEF Want
  <2> QED BY <1>1, <1>2, <1>16, <1>20, <2>1 DEF T
<1>22. \A j : j \in Want(n) <=> j \in ToSet(q) /\ StillOpen(overlap.ivs[j], iv)
  BY <1>1 DEF ToSet
<1> HIDE DEF Want
<1> QED BY <1>21, <1>22 DEF q

PairStates == [found : SUBSET ((DOMAIN specs) \X (DOMAIN specs)), more : BOOLEAN]

\* What the inner loop does for one open interval.
LEMMA PairUpIs ==
  ASSUME PlanInv, NEW acc \in PairStates, NEW x, NEW iv, IntervalOK(x), IntervalOK(iv)
  PROVE  /\ PairUp(acc, x, iv) =
              IF acc.more \/ x.spec = iv.spec \/ PairOf(x.spec, iv.spec) \in acc.found THEN acc
              ELSE IF Cardinality(acc.found) >= ReportedOverlaps
                THEN [found |-> acc.found, more |-> TRUE]
                ELSE [found |-> acc.found \cup {PairOf(x.spec, iv.spec)}, more |-> FALSE]
         /\ PairUp(acc, x, iv) \in PairStates
         /\ PairOf(x.spec, iv.spec) \in (DOMAIN specs) \X (DOMAIN specs)
<1> DEFINE a == x.spec
           b == iv.spec
           pair == <<Min({a, b}), Max({a, b})>>
<1>1. a \in DOMAIN specs /\ b \in DOMAIN specs /\ a \in Nat /\ b \in Nat
  BY DEF IntervalOK, PlanInv, SpecsOK
<1>3. acc.more \in BOOLEAN /\ acc = [found |-> acc.found, more |-> acc.more]
  BY DEF PairStates
<1> DEFINE Loop(p) ==
             CASE acc.more \/ a = b \/ p \in acc.found -> acc
               [] ~acc.more /\ a # b /\ p \notin acc.found
                    /\ Cardinality(acc.found) >= ReportedOverlaps -> [acc EXCEPT !.more = TRUE]
               [] OTHER -> [acc EXCEPT !.found = @ \cup {p}]
<1>4. PairUp(acc, x, iv) = Loop(pair)
  BY DEF PairUp
<1> HIDE DEF a, b
<1>5. pair = PairOf(a, b)
  <2>1. \E m \in {a, b} : \A c \in {a, b} : m <= c
    BY <1>1
  <2>2. Min({a, b}) \in {a, b} /\ \A c \in {a, b} : Min({a, b}) <= c
    BY <2>1 DEF Min
  <2>3. \E m \in {a, b} : \A c \in {a, b} : m >= c
    BY <1>1
  <2>4. Max({a, b}) \in {a, b} /\ \A c \in {a, b} : Max({a, b}) >= c
    BY <2>3 DEF Max
  <2> QED BY <1>1, <2>2, <2>4 DEF PairOf
<1> HIDE DEF pair
<1>6. pair \in (DOMAIN specs) \X (DOMAIN specs)
  BY <1>1, <1>5 DEF PairOf
<1>7. CASE acc.more \/ a = b \/ pair \in acc.found
  BY <1>4, <1>5, <1>6, <1>7 DEF a, b
<1>8. CASE /\ ~acc.more /\ a # b /\ pair \notin acc.found
           /\ Cardinality(acc.found) >= ReportedOverlaps
  <2>1. PairUp(acc, x, iv) = [found |-> acc.found, more |-> TRUE]
    BY <1>3, <1>4, <1>8
  <2>2. PairUp(acc, x, iv) \in PairStates
    BY <2>1 DEF PairStates
  <2> QED BY <1>5, <1>6, <1>8, <2>1, <2>2 DEF a, b
<1>9. CASE /\ ~acc.more /\ a # b /\ pair \notin acc.found
           /\ ~(Cardinality(acc.found) >= ReportedOverlaps)
  <2>1. PairUp(acc, x, iv) = [found |-> acc.found \cup {pair}, more |-> FALSE]
    BY <1>3, <1>4, <1>9
  <2>2. PairUp(acc, x, iv) \in PairStates
    BY <1>6, <2>1 DEF PairStates
  <2> QED BY <1>5, <1>6, <1>9, <2>1, <2>2 DEF a, b
<1> QED BY <1>7, <1>8, <1>9

\* The inner loop runs through the open intervals.
LEMMA PairedRun ==
  ASSUME PlanInv, NEW iv, IntervalOK(iv), NEW M, NEW open \in Seq(M),
         \A j \in M : IntervalOK(overlap.ivs[j]),
         overlap.found \subseteq (DOMAIN specs) \X (DOMAIN specs)
  PROVE  \E r : /\ r[0] = [found |-> overlap.found, more |-> FALSE]
                /\ \A k \in 1 .. Len(open) : r[k] = PairUp(r[k - 1], overlap.ivs[open[k]], iv)
                /\ \A k \in 0 .. Len(open) : r[k] \in PairStates
                /\ Paired(open, iv) = r[Len(open)]
<1> DEFINE n == Len(open)
           b == [found |-> overlap.found, more |-> FALSE]
           Acc(g) == [s \in SUBSET DOMAIN open |->
                         IF s = {} THEN b
                         ELSE LET x == Max(s)
                              IN  PairUp(g[s \ {x}], overlap.ivs[open[x]], iv)]
           acc == CHOOSE g : g = Acc(g)
           F == [i \in 1 .. n |-> [x \in PairStates |-> PairUp(x, overlap.ivs[open[i]], iv)]]
<1>1. n \in Nat /\ DOMAIN open = 1 .. n /\ \A i \in 1 .. n : open[i] \in M
  OBVIOUS
<1>2. Paired(open, iv) = acc[DOMAIN open]
  BY Zenon DEF Paired, FoldLeft, MapThenFoldSet
<1>3. b \in PairStates
  BY DEF PairStates
<1> HIDE DEF n, b
<1>4. \A i \in 1 .. n : \A x \in PairStates : PairUp(x, overlap.ivs[open[i]], iv) \in PairStates
  BY <1>1, PairUpIs
<1>5. /\ StepsIn(F, n, PairStates)
      /\ \A i \in 1 .. n : \A x \in PairStates : F[i][x] = PairUp(x, overlap.ivs[open[i]], iv)
  BY <1>4 DEF StepsIn
<1> HIDE DEF F
<1>7. PICK g \in [SUBSET (1 .. n) -> PairStates] : Fold(F, b, n, g)
  BY <1>1, <1>3, <1>5, FoldExists
<1>8. \A s \in SUBSET (1 .. n) :
        s # {} => Max(s) \in 1 .. n /\ s \ {Max(s)} \in SUBSET (1 .. n)
  BY <1>1, MaxOfIndexes
<1>9. \A s \in SUBSET (1 .. n) :
        s # {} => F[Max(s)][g[s \ {Max(s)}]]
                    = PairUp(g[s \ {Max(s)}], overlap.ivs[open[Max(s)]], iv)
  BY <1>5, <1>7, <1>8
<1>10. g = Acc(g)
  BY <1>1, <1>7, <1>9 DEF Fold
<1>11. acc = Acc(acc)
  BY <1>10
<1> HIDE DEF acc
<1>12. acc[{}] = b
  BY <1>11
<1>13. \A s \in SUBSET (1 .. n) :
         s # {} => acc[s] = PairUp(acc[s \ {Max(s)}], overlap.ivs[open[Max(s)]], iv)
  BY <1>1, <1>11
<1>14. \A s \in SUBSET (1 .. n) :
         s # {} /\ acc[s \ {Max(s)}] \in PairStates => acc[s] = F[Max(s)][acc[s \ {Max(s)}]]
  BY <1>5, <1>8, <1>13
<1>15. FoldsIn(F, b, n, PairStates, acc)
  BY <1>12, <1>14 DEF FoldsIn
<1>16. FoldRuns(F, b, n, PairStates, acc)
  BY <1>1, <1>3, <1>5, <1>15, FoldRun
<1> DEFINE r == [k \in 0 .. n |-> acc[1 .. k]]
<1>17. \A k \in 1 .. n : k \in 0 .. n /\ k - 1 \in 0 .. n
  BY <1>1
<1>18. 0 \in 0 .. n /\ n \in 0 .. n
  BY <1>1
<1>19. /\ r[0] = b
       /\ \A k \in 1 .. n : r[k] = PairUp(r[k - 1], overlap.ivs[open[k]], iv)
       /\ \A k \in 0 .. n : r[k] \in PairStates
       /\ Paired(open, iv) = r[n]
  BY <1>1, <1>2, <1>5, <1>16, <1>17, <1>18 DEF FoldRuns
<1> HIDE DEF r
<1> QED BY <1>19 DEF n, b

\* The pairs that one interval makes with the open ones.
NewPairs(Js, iv) ==
  {PairOf(overlap.ivs[j].spec, iv.spec) : j \in {i \in Js : overlap.ivs[i].spec # iv.spec}}

\* The loop's result: all of them are found, or as many as a warning names
\* are found and at least one was not.
PairsOf(res, all) ==
  /\ res.more \in BOOLEAN
  /\ IsFiniteSet(res.found) /\ Cardinality(res.found) <= ReportedOverlaps
  /\ res.found \subseteq all
  /\ ~res.more => res.found = all
  /\ res.more => /\ Cardinality(res.found) = ReportedOverlaps
                 /\ \E p \in all : p \notin res.found

\* More pairs than that change nothing, once the loop has given up.
LEMMA GivenUp ==
  ASSUME NEW res, NEW all, NEW p, PairsOf(res, all), res.more
  PROVE  PairsOf(res, all \cup {p})
  BY DEF PairsOf

LEMMA PairedExact ==
  ASSUME PlanInv, NEW iv, IntervalOK(iv), NEW M, NEW open \in Seq(M),
         \A j \in M : IntervalOK(overlap.ivs[j]),
         overlap.found \subseteq (DOMAIN specs) \X (DOMAIN specs),
         IsFiniteSet(overlap.found), Cardinality(overlap.found) <= ReportedOverlaps
  PROVE  PairsOf(Paired(open, iv), overlap.found \cup NewPairs(ToSet(open), iv))
<1> DEFINE n == Len(open)
           Seen(k) == {open[i] : i \in 1 .. k}
           All(k) == overlap.found \cup NewPairs(Seen(k), iv)
<1>1. n \in Nat /\ DOMAIN open = 1 .. n /\ \A i \in 1 .. n : open[i] \in M
  OBVIOUS
<1>2. PICK r : /\ r[0] = [found |-> overlap.found, more |-> FALSE]
               /\ \A k \in 1 .. n : r[k] = PairUp(r[k - 1], overlap.ivs[open[k]], iv)
               /\ \A k \in 0 .. n : r[k] \in PairStates
               /\ Paired(open, iv) = r[n]
  BY PairedRun
<1>3. ToSet(open) = Seen(n)
  BY <1>1 DEF ToSet
<1> HIDE DEF n
<1> DEFINE T == {k \in 0 .. n : PairsOf(r[k], All(k))}
<1>4. 0 \in T
  <2>1. Seen(0) = {} /\ 0 \in 0 .. n
    BY <1>1
  <2>2. All(0) = overlap.found
    BY <2>1 DEF NewPairs
  <2> HIDE DEF All
  <2>3. r[0].found = overlap.found /\ r[0].more = FALSE
    BY <1>2
  <2>4. PairsOf(r[0], All(0))
    BY <2>2, <2>3 DEF PairsOf
  <2> QED BY <2>1, <2>4
<1>5. ASSUME NEW k \in 0 .. n - 1, k \in T PROVE k + 1 \in T
  <2> DEFINE acc == r[k]
             x == overlap.ivs[open[k + 1]]
             p == PairOf(x.spec, iv.spec)
  <2>1. k \in 0 .. n /\ k + 1 \in 1 .. n /\ k + 1 \in 0 .. n /\ (k + 1) - 1 = k
    BY <1>1
  <2>2. PairsOf(acc, All(k)) /\ acc \in PairStates /\ IntervalOK(x)
    BY <1>1, <1>2, <1>5, <2>1
  <2>3. r[k + 1] = PairUp(acc, x, iv)
    BY <1>2, <2>1
  <2>4. r[k + 1] = IF acc.more \/ x.spec = iv.spec \/ p \in acc.found THEN acc
                   ELSE IF Cardinality(acc.found) >= ReportedOverlaps
                     THEN [found |-> acc.found, more |-> TRUE]
                     ELSE [found |-> acc.found \cup {p}, more |-> FALSE]
    <3> HIDE DEF acc, x
    <3> QED BY <2>2, <2>3, PairUpIs
  <2>5. All(k + 1) = IF x.spec = iv.spec THEN All(k) ELSE All(k) \cup {p}
    <3>1. \A i : i \in 1 .. k + 1 <=> i \in 1 .. k \/ i = k + 1
      BY <1>1
    <3>2. Seen(k + 1) = Seen(k) \cup {open[k + 1]}
      BY <3>1
    <3> HIDE DEF Seen
    <3>3. CASE x.spec = iv.spec
      BY <3>2, <3>3 DEF NewPairs
    <3>4. CASE x.spec # iv.spec
      <4>1. NewPairs(Seen(k + 1), iv) = NewPairs(Seen(k), iv) \cup {p}
        BY <3>2, <3>4 DEF NewPairs
      <4> QED BY <3>4, <4>1
    <3> QED BY <3>3, <3>4
  <2> HIDE DEF All, p, x, acc
  <2>6. PairsOf(r[k + 1], All(k + 1))
    <3>1. CASE acc.more
      <4>1. r[k + 1] = acc /\ (All(k + 1) = All(k) \/ All(k + 1) = All(k) \cup {p})
        BY <2>4, <2>5, <3>1
      <4>2. PairsOf(acc, All(k) \cup {p})
        BY <2>2, <3>1, GivenUp
      <4> QED BY <2>2, <4>1, <4>2
    <3>2. CASE ~acc.more /\ x.spec = iv.spec
      BY <2>2, <2>4, <2>5, <3>2
    <3>3. CASE ~acc.more /\ x.spec # iv.spec /\ p \in acc.found
      <4>1. All(k + 1) = All(k)
        BY <2>2, <2>5, <3>3 DEF PairsOf
      <4> QED BY <2>2, <2>4, <3>3, <4>1
    <3>4. CASE /\ ~acc.more /\ x.spec # iv.spec /\ p \notin acc.found
               /\ Cardinality(acc.found) >= ReportedOverlaps
      <4>1. r[k + 1].found = acc.found /\ r[k + 1].more = TRUE /\ All(k + 1) = All(k) \cup {p}
        BY <2>4, <2>5, <3>4
      <4>2. Cardinality(acc.found) \in Nat
        BY <2>2, FS_CardinalityType DEF PairsOf
      <4>3. Cardinality(acc.found) = ReportedOverlaps
        BY <2>2, <3>4, <4>2, LimitsAssumption DEF PairsOf
      <4>4. acc.found \subseteq All(k + 1) /\ p \in All(k + 1) /\ IsFiniteSet(acc.found)
        BY <2>2, <4>1 DEF PairsOf
      <4> QED BY <3>4, <4>1, <4>3, <4>4, LimitsAssumption DEF PairsOf
    <3>5. CASE /\ ~acc.more /\ x.spec # iv.spec /\ p \notin acc.found
               /\ ~(Cardinality(acc.found) >= ReportedOverlaps)
      <4>1. /\ r[k + 1].found = acc.found \cup {p} /\ r[k + 1].more = FALSE
            /\ All(k + 1) = All(k) \cup {p}
        BY <2>4, <2>5, <3>5
      <4>2. Cardinality(acc.found) \in Nat /\ IsFiniteSet(acc.found)
        BY <2>2, FS_CardinalityType DEF PairsOf
      <4>3. /\ IsFiniteSet(acc.found \cup {p})
            /\ Cardinality(acc.found \cup {p}) = Cardinality(acc.found) + 1
        BY <3>5, <4>2, FS_AddElement
      <4>4. Cardinality(acc.found \cup {p}) <= ReportedOverlaps
        BY <3>5, <4>2, <4>3, LimitsAssumption
      <4> QED BY <2>2, <3>5, <4>1, <4>3, <4>4 DEF PairsOf
    <3> QED BY <3>1, <3>2, <3>3, <3>4, <3>5
  <2> QED BY <2>1, <2>6
<1> HIDE DEF T
<1>6. \A k \in 0 .. n : k \in T
  BY <1>1, <1>4, <1>5, InductionUpTo
<1>7. n \in T
  BY <1>1, <1>6
<1>8. PairsOf(r[n], All(n))
  <2> HIDE DEF All
  <2> QED BY <1>7 DEF T
<1> HIDE DEF Seen
<1> QED BY <1>2, <1>3, <1>8

-----------------------------------------------------------------------------
(* find_overlaps is exact *)

(***************************************************************************)
(* The loop invariant of find_overlaps: an interval that retain has        *)
(* dropped reaches none of those still to come; the pairs found are all    *)
(* those met, or as many as a warning names with one left over.            *)
(***************************************************************************)
OverlapLoop ==
  /\ SortedIntervals(overlap.ivs)
  /\ overlap.index \in 1 .. Len(overlap.ivs) + 1
  /\ overlap.active \in Seq(1 .. overlap.index - 1)
  /\ \A j \in 1 .. overlap.index - 1 :
       j \notin ToSet(overlap.active) =>
         \A k \in overlap.index .. Len(overlap.ivs) : ~StillOpen(overlap.ivs[j], overlap.ivs[k])
  /\ PairsOf(overlap, Meeting(overlap.ivs, overlap.index - 1))

OverlapInv ==
  /\ stage \in {"overlap", "guard", "planned"} => OverlapLoop
  /\ stage \in {"guard", "planned"} => overlap.more \/ overlap.index > Len(overlap.ivs)

\* The order of the intervals makes a drop final.
LEMMA DropIsFinal ==
  ASSUME PlanInv, PlannedInv, NEW ivs, SortedIntervals(ivs),
         NEW j \in 1 .. Len(ivs), NEW m \in 1 .. Len(ivs), NEW k \in 1 .. Len(ivs),
         j < m, m < k, ~StillOpen(ivs[j], ivs[m])
  PROVE  ~StillOpen(ivs[j], ivs[k])
<1> DEFINE a == ivs[j]
           b == ivs[m]
           c == ivs[k]
<1>1. Len(ivs) \in Nat
  BY DEF SortedIntervals
<1>2. j < k
  BY <1>1
<1>3. /\ IntervalOK(a) /\ IntervalOK(b) /\ IntervalOK(c)
      /\ (a.v6 => b.v6) /\ (b.v6 => c.v6)
      /\ b.v6 = c.v6 => b.lo <= c.lo
  BY <1>2, SweepOrder
<1>4. ~(a.v6 = b.v6 /\ a.hi >= b.lo)
  BY DEF StillOpen
<1> HIDE DEF a, b, c
<1>5. ~(a.v6 = c.v6 /\ a.hi >= c.lo)
  BY <1>3, <1>4 DEF IntervalOK
<1> QED BY <1>5 DEF StillOpen, a, b, c

\* What the next interval adds to the pairs met.
LEMMA MeetingGrows ==
  ASSUME PlanInv, PlannedInv, NEW m \in 1 .. Len(overlap.ivs), SortedIntervals(overlap.ivs),
         NEW Js, Js = {j \in 1 .. m - 1 : StillOpen(overlap.ivs[j], overlap.ivs[m])}
  PROVE  Meeting(overlap.ivs, m) =
           Meeting(overlap.ivs, m - 1) \cup NewPairs(Js, overlap.ivs[m])
<1> DEFINE ivs == overlap.ivs
           D == DOMAIN specs
           Met(p, k) == \E j \in 1 .. k - 1 : /\ StillOpen(ivs[j], ivs[k])
                                              /\ ivs[j].spec # ivs[k].spec
                                              /\ p = PairOf(ivs[j].spec, ivs[k].spec)
<1>1. m \in Nat /\ \A k : k \in 1 .. m <=> k \in 1 .. m - 1 \/ k = m
  BY DEF SortedIntervals
<1>2. \A p : p \in Meeting(ivs, m) <=> p \in D \X D /\ \E k \in 1 .. m : Met(p, k)
  BY DEF Meeting
<1>3. \A p : p \in Meeting(ivs, m - 1) <=> p \in D \X D /\ \E k \in 1 .. m - 1 : Met(p, k)
  BY DEF Meeting
<1>4. \A p : p \in NewPairs(Js, ivs[m]) <=> Met(p, m)
  BY DEF NewPairs
<1>5. \A p : Met(p, m) => p \in D \X D
  <2>1. \A k \in 1 .. m : ivs[k].spec \in D
    <3>1. \A k \in 1 .. m : k \in 1 .. Len(ivs)
      BY <1>1 DEF SortedIntervals
    <3> QED BY <3>1, IntervalsFinite DEF SortedIntervals, IntervalOK
  <2>2. \A j \in 1 .. m - 1 : j \in 1 .. m
    BY <1>1
  <2>3. m \in 1 .. m
    BY <1>1
  <2>4. \A u, w \in D : PairOf(u, w) \in D \X D
    BY DEF PairOf
  <2> QED BY <2>1, <2>2, <2>3, <2>4
<1> HIDE DEF Met, D, ivs
<1>6. \A p : p \in Meeting(ivs, m) <=> p \in Meeting(ivs, m - 1) \cup NewPairs(Js, ivs[m])
  BY <1>1, <1>2, <1>3, <1>4, <1>5
<1>7. Meeting(ivs, m) = Meeting(ivs, m - 1) \cup NewPairs(Js, ivs[m])
  BY <1>6
<1> QED BY <1>7 DEF ivs

\* The order is about the plan's intervals, which later steps leave alone.
LEMMA SameIntervals ==
  ASSUME specs' = specs, NEW ivs, SortedIntervals(ivs), overlap'.ivs = ivs
  PROVE  SortedIntervals(overlap.ivs)'
<1>1. AllIntervals' = AllIntervals
  BY DEF AllIntervals, SpecIntervals
<1> HIDE DEF AllIntervals
<1> QED BY <1>1 DEF SortedIntervals, Before

LEMMA SeqInLarger ==
  ASSUME NEW A, NEW B, \A x \in A : x \in B, NEW q \in Seq(A)
  PROVE  q \in Seq(B)
  OBVIOUS

\* One turn keeps the loop invariant.
LEMMA OverlapStepKeeps ==
  ASSUME PlanInv, PlannedInv, OverlapLoop, OverlapStep
  PROVE  OverlapLoop'
<1> DEFINE ivs == overlap.ivs
           N == Len(ivs)
           m == overlap.index
           iv == ivs[m]
           open == Retained(iv)
           res == Paired(open, iv)
<1>1. /\ ~overlap.more /\ m <= N /\ specs' = specs
      /\ overlap' = [kind |-> "sweep", ivs |-> ivs, index |-> m + 1,
                     active |-> Append(open, m), found |-> res.found, more |-> res.more]
  BY DEF OverlapStep
<1>2. /\ SortedIntervals(ivs) /\ N \in Nat /\ m \in 1 .. N /\ m \in Nat
      /\ overlap.active \in Seq(1 .. m - 1)
      /\ \A j \in 1 .. m - 1 : j \notin ToSet(overlap.active) =>
           \A k \in m .. N : ~StillOpen(ivs[j], ivs[k])
      /\ PairsOf(overlap, Meeting(ivs, m - 1))
  BY <1>1 DEF OverlapLoop, SortedIntervals
<1>3. /\ overlap'.ivs = ivs /\ overlap'.index = m + 1 /\ overlap'.active = Append(open, m)
      /\ overlap'.found = res.found /\ overlap'.more = res.more
  BY <1>1
<1>4. /\ open \in Seq(1 .. m - 1)
      /\ \A j : j \in ToSet(open) <=> j \in ToSet(overlap.active) /\ StillOpen(ivs[j], iv)
  <2> HIDE DEF iv, m
  <2> QED BY <1>2, RetainedElements
<1>5. \A j \in 1 .. N : IntervalOK(ivs[j])
  BY <1>2, IntervalsFinite DEF SortedIntervals
<1>6. ToSet(open) = {j \in 1 .. m - 1 : StillOpen(ivs[j], iv)}
  <2>1. \A j \in ToSet(overlap.active) : j \in 1 .. m - 1
    BY <1>2 DEF ToSet
  <2>2. \A j \in 1 .. m - 1 : StillOpen(ivs[j], iv) => j \in ToSet(overlap.active)
    <3>1. m \in m .. N
      BY <1>2
    <3> QED BY <1>2, <3>1
  <2> HIDE DEF open, iv, m, ivs
  <2> QED BY <1>4, <2>1, <2>2
<1>7. PairsOf(res, Meeting(ivs, m))
  <2>1. overlap.found = Meeting(ivs, m - 1) /\ IsFiniteSet(overlap.found)
        /\ Cardinality(overlap.found) <= ReportedOverlaps
    BY <1>1, <1>2 DEF PairsOf
  <2>2. overlap.found \subseteq (DOMAIN specs) \X (DOMAIN specs)
    BY <2>1 DEF Meeting
  <2>3. \A j \in 1 .. m - 1 : IntervalOK(ivs[j])
    BY <1>2, <1>5
  <2>4. IntervalOK(iv)
    BY <1>2, <1>5
  <2>5. Meeting(ivs, m) = Meeting(ivs, m - 1) \cup NewPairs(ToSet(open), iv)
    <3> HIDE DEF open, m
    <3> QED BY <1>2, <1>6, MeetingGrows
  <2> HIDE DEF open, m, iv
  <2>6. PairsOf(res, overlap.found \cup NewPairs(ToSet(open), iv))
    BY <1>4, <2>1, <2>2, <2>3, <2>4, PairedExact
  <2> HIDE DEF res
  <2> QED BY <2>1, <2>5, <2>6
<1> HIDE DEF res
<1>8. SortedIntervals(overlap.ivs)'
  BY <1>1, <1>2, <1>3, SameIntervals
<1> HIDE DEF open
<1>9. (overlap.index \in 1 .. Len(overlap.ivs) + 1)'
  BY <1>2, <1>3
<1>10. (overlap.active \in Seq(1 .. overlap.index - 1))'
  <2>1. (m + 1) - 1 = m /\ m \in 1 .. m /\ \A j \in 1 .. m - 1 : j \in 1 .. m
    BY <1>2
  <2> HIDE DEF m
  <2>2. open \in Seq(1 .. m)
    BY <1>4, <2>1, SeqInLarger
  <2>3. Append(open, m) \in Seq(1 .. m)
    BY <2>1, <2>2
  <2> QED BY <1>3, <2>1, <2>3
<1>11. ASSUME NEW j \in 1 .. m, j \notin ToSet(Append(open, m)), NEW k \in m + 1 .. N
       PROVE  ~StillOpen(ivs[j], ivs[k])
  <2>1. ToSet(Append(open, m)) = ToSet(open) \cup {m}
    <3>1. open \in Seq(0 .. m) /\ m \in 0 .. m
      <4>1. m \in 0 .. m /\ \A i \in 1 .. m - 1 : i \in 0 .. m
        BY <1>2
      <4> QED BY <1>4, <4>1, SeqInLarger
    <3> HIDE DEF m
    <3> QED BY <3>1, AppendedSet
  <2>2. j \in 1 .. m - 1 /\ j \notin ToSet(open)
    BY <1>2, <1>11, <2>1
  <2>3. ~StillOpen(ivs[j], iv)
    BY <1>6, <2>2
  <2>4. j \in 1 .. N /\ k \in 1 .. N /\ j < m /\ m < k
    BY <1>2, <2>2
  <2> HIDE DEF m, ivs
  <2> QED BY <1>2, <2>3, <2>4, DropIsFinal DEF N
<1>12. (\A j \in 1 .. overlap.index - 1 :
          j \notin ToSet(overlap.active) =>
            \A k \in overlap.index .. Len(overlap.ivs) :
              ~StillOpen(overlap.ivs[j], overlap.ivs[k]))'
  <2>1. (m + 1) - 1 = m
    BY <1>2
  <2>2. \A j \in 1 .. (m + 1) - 1 : j \notin ToSet(Append(open, m)) =>
          \A k \in m + 1 .. N : ~StillOpen(ivs[j], ivs[k])
    BY <1>11, <2>1
  <2>3. \A x, y : StillOpen(x, y)' = StillOpen(x, y)
    BY DEF StillOpen
  <2> QED BY <1>3, <2>2, <2>3 DEF StillOpen
<1>13. PairsOf(overlap, Meeting(overlap.ivs, overlap.index - 1))'
  <2>1. (m + 1) - 1 = m
    BY <1>2
  <2> HIDE DEF m, ivs
  <2>2. Meeting(overlap.ivs, overlap.index - 1)' = Meeting(ivs, m)
    <3>1. (overlap.index - 1)' = m
      BY <1>3, <2>1
    <3> QED BY <1>1, <1>3, <3>1 DEF Meeting, StillOpen, PairOf
  <2> QED BY <1>3, <1>7, <2>2 DEF PairsOf
<1> QED BY <1>8, <1>9, <1>10, <1>12, <1>13 DEF OverlapLoop

\* The sweep starts with nothing met.
LEMMA BeginOverlapsLoop ==
  ASSUME PlanInv, PlannedInv, BeginOverlaps
  PROVE  OverlapLoop'
<1>1. /\ specs' = specs
      /\ overlap' = [kind |-> "sweep", ivs |-> SweepIntervals, index |-> 1,
                     active |-> <<>>, found |-> {}, more |-> FALSE]
  BY DEF BeginOverlaps
<1> DEFINE ivs == SweepIntervals
<1>2. SortedIntervals(ivs)
  BY SweepIntervalsSorted
<1> HIDE DEF ivs
<1>3. /\ overlap'.ivs = ivs /\ overlap'.index = 1 /\ overlap'.active = <<>>
      /\ overlap'.found = {} /\ overlap'.more = FALSE
  BY <1>1 DEF ivs
<1>4. SortedIntervals(overlap.ivs)'
  BY <1>1, <1>2, <1>3, SameIntervals
<1>5. Len(ivs) \in Nat
  BY <1>2 DEF SortedIntervals
<1>6. (overlap.index \in 1 .. Len(overlap.ivs) + 1)' /\ 1 .. 1 - 1 = {}
  BY <1>3, <1>5
<1>7. (overlap.active \in Seq(1 .. overlap.index - 1))'
  BY <1>3
<1>8. (\A j \in 1 .. overlap.index - 1 :
         j \notin ToSet(overlap.active) =>
           \A k \in overlap.index .. Len(overlap.ivs) :
             ~StillOpen(overlap.ivs[j], overlap.ivs[k]))'
  BY <1>3, <1>6
<1>9. PairsOf(overlap, Meeting(overlap.ivs, overlap.index - 1))'
  <2>1. Meeting(overlap.ivs, overlap.index - 1)' = {}
    BY <1>3, <1>6 DEF Meeting
  <2>2. IsFiniteSet({}) /\ Cardinality({}) = 0
    BY FS_EmptySet
  <2>3. Cardinality({}) <= ReportedOverlaps
    BY <2>2, LimitsAssumption
  <2> QED BY Zenon, <1>3, <2>1, <2>2, <2>3 DEF PairsOf
<1> QED BY <1>4, <1>6, <1>7, <1>8, <1>9 DEF OverlapLoop

LEMMA NextOverlap ==
  ASSUME PlanInv, PlannedInv, OverlapInv, [Next]_vars
  PROVE  OverlapInv'
<1>1. CASE BeginOverlaps
  <2>1. OverlapLoop' /\ stage' = "overlap"
    BY <1>1, BeginOverlapsLoop DEF BeginOverlaps
  <2> QED BY <2>1 DEF OverlapInv
<1>2. CASE OverlapStep
  <2>1. stage = "overlap" /\ stage' = "overlap"
    BY <1>2 DEF OverlapStep
  <2>2. OverlapLoop'
    BY <1>2, <2>1, OverlapStepKeeps DEF OverlapInv
  <2> QED BY <2>1, <2>2 DEF OverlapInv
<1>3. CASE ~BeginOverlaps /\ ~OverlapStep
  <2>1. \/ /\ stage \in {"overlap", "guard", "planned"}
           /\ overlap' = overlap /\ specs' = specs
           /\ \/ stage' = stage
              \/ stage' = "refused"
              \/ stage = "guard" /\ stage' = "planned"
              \/ /\ stage = "overlap" /\ stage' = "guard"
                 /\ overlap.more \/ overlap.index > Len(overlap.ivs)
        \/ stage' \notin {"overlap", "guard", "planned"}
    BY <1>3 DEF Next, PlanIp, PlanCidr, PlanRange, PlanUnqueryable, PlanDns, Planning,
                PushSpec, Refuse, EndOverlaps, GuardBlock, GuardSweep, GuardBlockDone,
                GuardPoints, GuardCap, Guarding, Resume, Done, vars, planVars
  <2>2. CASE stage' \notin {"overlap", "guard", "planned"}
    BY <2>2 DEF OverlapInv
  <2>3. CASE stage' \in {"overlap", "guard", "planned"}
    <3>1. OverlapLoop /\ overlap' = overlap /\ specs' = specs
      BY <2>1, <2>3 DEF OverlapInv
    <3>2. OverlapLoop'
      BY <3>1 DEF OverlapLoop, SortedIntervals, AllIntervals, SpecIntervals, PairsOf,
                  Meeting, StillOpen
    <3>3. stage' \in {"guard", "planned"} => overlap.more \/ overlap.index > Len(overlap.ivs)
      BY <2>1, <2>3 DEF OverlapInv
    <3> QED BY <3>1, <3>2, <3>3 DEF OverlapInv
  <2> QED BY <2>2, <2>3
<1> QED BY <1>1, <1>2, <1>3

\* The loop invariant at the end of the sweep.
LEMMA SweptExact ==
  ASSUME PlanInv, PlannedInv, OverlapInv
  PROVE  OverlapsExact
<1> SUFFICES ASSUME stage \in {"guard", "planned"}
             PROVE  IF overlap.more
                      THEN /\ overlap.found \subseteq SharedPairs
                           /\ Cardinality(overlap.found) = ReportedOverlaps
                           /\ Cardinality(SharedPairs) > ReportedOverlaps
                      ELSE overlap.found = SharedPairs
  BY DEF OverlapsExact
<1> DEFINE ivs == overlap.ivs
           N == Len(ivs)
           m == overlap.index - 1
<1>1. /\ SortedIntervals(ivs) /\ N \in Nat /\ m \in 0 .. N /\ PairsOf(overlap, Meeting(ivs, m))
      /\ overlap.more \/ m = N
  BY DEF OverlapInv, OverlapLoop, SortedIntervals
<1> HIDE DEF m, ivs
<1>2. Meeting(ivs, N) = SharedPairs
  BY <1>1, MeetingIsSharing
<1>3. Meeting(ivs, m) \subseteq Meeting(ivs, N)
  <2>1. \A k \in 1 .. m : k \in 1 .. N
    BY <1>1
  <2> QED BY <2>1 DEF Meeting
<1>4. CASE ~overlap.more
  BY <1>1, <1>2, <1>4 DEF PairsOf
<1>5. CASE overlap.more
  <2>1. /\ overlap.found \subseteq Meeting(ivs, m)
        /\ Cardinality(overlap.found) = ReportedOverlaps /\ IsFiniteSet(overlap.found)
    BY <1>1, <1>5 DEF PairsOf
  <2>2. PICK p \in Meeting(ivs, m) : p \notin overlap.found
    BY <1>1, <1>5 DEF PairsOf
  <2>3. overlap.found \cup {p} \in SUBSET SharedPairs
    BY <1>2, <1>3, <2>1, <2>2
  <2>4. Cardinality(overlap.found \cup {p}) = ReportedOverlaps + 1
    BY <2>1, <2>2, FS_AddElement
  <2>5. IsFiniteSet(SharedPairs)
    <3>1. DOMAIN specs = 1 .. Len(specs) /\ Len(specs) \in Nat
      BY DEF PlanInv, SpecsOK
    <3>2. IsFiniteSet(DOMAIN specs)
      BY <3>1, FS_Interval
    <3>3. IsFiniteSet((DOMAIN specs) \X (DOMAIN specs))
      BY <3>2, FS_Product
    <3>4. SharedPairs \in SUBSET ((DOMAIN specs) \X (DOMAIN specs))
      BY DEF SharedPairs
    <3> QED BY <3>3, <3>4, FS_Subset
  <2>6. Cardinality(overlap.found \cup {p}) <= Cardinality(SharedPairs)
        /\ Cardinality(SharedPairs) \in Nat
    BY <2>3, <2>5, FS_Subset, FS_CardinalityType
  <2> QED BY <1>2, <1>3, <1>5, <2>1, <2>4, <2>6, LimitsAssumption
<1> QED BY <1>4, <1>5

\* OverlapWarningExact: find_overlaps reports exactly the pairs of targets
\* that share an address, or, when it stops at the number a warning names,
\* that many true pairs while there are more.  For every plan: any number of
\* targets that nest, touch or repeat, in both families.
THEOREM OverlapWarningExact == Spec => []OverlapsExact
<1>1. Init => PlannedInv /\ OverlapInv
  <2> SUFFICES ASSUME Init PROVE PlannedInv /\ OverlapInv
    OBVIOUS
  <2>1. specs = <<>> /\ stage = "plan" /\ input \in Inputs
    BY DEF Init
  <2>2. PICK U : input.targets \in Seq(U)
    BY <2>1, InputsAssumption
  <2> QED BY <2>1, <2>2 DEF PlannedInv, OverlapInv
<1>2. PlanInv /\ PlannedInv /\ OverlapInv /\ [Next]_vars => PlannedInv' /\ OverlapInv'
  BY NextPlanned, NextOverlap
<1>3. PlanInv /\ PlannedInv /\ OverlapInv => OverlapsExact
  BY SweptExact
<1> QED BY <1>1, <1>2, <1>3, InitPlanInv, NextPlanInv, PTL DEF Spec
=============================================================================
