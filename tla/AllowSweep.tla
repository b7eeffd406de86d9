----------------------------- MODULE AllowSweep -----------------------------
(***************************************************************************)
(* uncovered_point (rastreo-core/src/resolver/mod.rs): is every address of *)
(* a block covered by the union of the allow-list's networks?  One step is *)
(* one turn of its loop over the networks of the block's family, sorted by *)
(* their first address.                                                    *)
(***************************************************************************)
EXTENDS Integers, Sequences

CONSTANT MaxAddr    \* the last address, u32::MAX or u128::MAX in the code

ASSUME MaxAddrAssumption == MaxAddr \in Nat

VARIABLES
  block,    \* [lo, hi]: the block under test
  ivals,    \* the networks' [lo, hi], sorted by lo
  next,     \* index of the network the loop looks at next
  cursor,   \* every address of the block below it is covered
  sweep     \* "off", "running", "covered" or "uncovered" (at cursor)

sweepVars == <<block, ivals, next, cursor, sweep>>

Addr == 0 .. MaxAddr
Interval == [lo : Addr, hi : Addr]
Sorted(s) == \A i, j \in DOMAIN s : i < j => s[i].lo <= s[j].lo

SweepTypeOK ==
  /\ block \in Interval /\ block.lo <= block.hi
  /\ ivals \in Seq(Interval)
  /\ next \in Nat \ {0} /\ next <= Len(ivals) + 1
  /\ cursor \in Addr
  /\ sweep \in {"off", "running", "covered", "uncovered"}

SweepOff ==
  /\ block = [lo |-> 0, hi |-> 0]
  /\ ivals = <<>>
  /\ next = 1
  /\ cursor = 0
  /\ sweep = "off"

\* The sort and the start of the loop.
SweepBegin(b, s) ==
  /\ sweep # "running"
  /\ Sorted(s) /\ b.lo <= b.hi
  /\ block' = b
  /\ ivals' = s
  /\ next' = 1
  /\ cursor' = b.lo
  /\ sweep' = "running"

\* A gap: this network and all later ones start above the cursor.
SweepGap ==
  /\ sweep = "running" /\ next <= Len(ivals)
  /\ ivals[next].lo > cursor
  /\ sweep' = "uncovered"
  /\ UNCHANGED <<block, ivals, next, cursor>>

\* Mutant: reaching the last but one address counts as reaching the end.
ReachesEndMutant(end) == end + 1 >= block.hi

ReachesEnd(end) == end >= block.hi

\* The network covers the cursor and the rest of the block.
SweepCovered ==
  /\ sweep = "running" /\ next <= Len(ivals)
  /\ ivals[next].lo <= cursor /\ ivals[next].hi >= cursor
  /\ ReachesEnd(ivals[next].hi)
  /\ sweep' = "covered"
  /\ UNCHANGED <<block, ivals, next, cursor>>

\* The network moves the cursor past its end, or lies below it.
SweepAdvance ==
  /\ sweep = "running" /\ next <= Len(ivals)
  /\ ivals[next].lo <= cursor
  /\ ~(ivals[next].hi >= cursor /\ ReachesEnd(ivals[next].hi))
  /\ cursor' = IF ivals[next].hi >= cursor THEN ivals[next].hi + 1 ELSE cursor
  /\ next' = next + 1
  /\ UNCHANGED <<block, ivals, sweep>>

\* The networks are used up: Some(cursor).filter(|c| *c <= hi).
SweepDry ==
  /\ sweep = "running" /\ next > Len(ivals)
  /\ sweep' = IF cursor <= block.hi THEN "uncovered" ELSE "covered"
  /\ UNCHANGED <<block, ivals, next, cursor>>

SweepStep == SweepGap \/ SweepCovered \/ SweepAdvance \/ SweepDry

SweepNext ==
  \/ SweepStep
  \/ \E b \in Interval, s \in Seq(Interval) : SweepBegin(b, s)

\* The sweep by itself, over every block and every sorted list.
SweepSpec == SweepOff /\ [][SweepNext]_sweepVars

-----------------------------------------------------------------------------
(* Properties *)

Covered(x) == \E i \in DOMAIN ivals : ivals[i].lo <= x /\ x <= ivals[i].hi

\* The sweep answers what it is asked: "covered" only when the union of the
\* networks holds the whole block, "uncovered" only at an address outside
\* it, and the first one (uncovered_point, first_uncovered_ip).
SweepExact ==
  /\ sweep = "covered" => \A x \in block.lo .. block.hi : Covered(x)
  /\ sweep = "uncovered" => /\ cursor \in block.lo .. block.hi
                            /\ ~Covered(cursor)
                            /\ \A x \in block.lo .. cursor - 1 : Covered(x)
=============================================================================
