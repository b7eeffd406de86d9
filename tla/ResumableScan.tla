--------------------------- MODULE ResumableScan ---------------------------
(***************************************************************************)
(* What a checkpointed scan promises its operator, without processes,      *)
(* channels, buffers or files: a set of targets with nothing owed, and a   *)
(* mark up to which a later process need not look again.                   *)
(***************************************************************************)
EXTENDS Integers

CONSTANT NumTargets

VARIABLES
  covered,    \* targets whose record is at the destination, or that have none
  mark,       \* last target of the prefix vouched for, or -1
  finished    \* the scan was reported complete

pvars == <<covered, mark, finished>>

All == 0 .. NumTargets - 1

Init ==
  /\ covered \in SUBSET All
  /\ mark = -1
  /\ finished = FALSE

\* Records arrive, in any order and number.
Deliver ==
  /\ ~finished
  /\ \E new \in SUBSET All : covered' = covered \cup new
  /\ UNCHANGED <<mark, finished>>

\* What no mark vouches for may vanish with the process (a volatile sink).
Forget ==
  /\ ~finished
  /\ mark = -1
  /\ \E gone \in SUBSET covered : covered' = covered \ gone
  /\ UNCHANGED <<mark, finished>>

\* The mark moves forward over covered targets only.
Advance ==
  /\ ~finished
  /\ \E k \in All :
       /\ k > mark
       /\ 0 .. k \subseteq covered
       /\ mark' = k
  /\ UNCHANGED <<covered, finished>>

\* The scan is reported complete: everything is covered, the mark is gone.
Finish ==
  /\ ~finished
  /\ All \subseteq covered
  /\ finished' = TRUE
  /\ mark' = -1
  /\ UNCHANGED covered

Next == Deliver \/ Forget \/ Advance \/ Finish

Spec == Init /\ [][Next]_pvars

=============================================================================
