----------------------------- MODULE UnionFind -----------------------------
(***************************************************************************)
(* The union-find of the identity fuser (rastreo-core/src/fuser/identity.  *)
(* rs): union by rank with the path compression of find_mut, and the       *)
(* read-only find behind components.  One step is one turn of one of its   *)
(* loops.  The pairs come out of a HashSet, so they are united in any      *)
(* order.  Records are numbered from 1 (from 0 in the code).               *)
(***************************************************************************)
EXTENDS Integers, Sequences

VARIABLES
  n,        \* the number of records
  high,     \* the pairs to unite
  pending,  \* those not yet united
  parent,   \* UnionFind::parent
  rank,     \* UnionFind::rank
  uf,       \* "off", "idle", "climb", "compress", "read" or "ready"
  edge,     \* the pair under way
  side,     \* 1 or 2: which end of it find_mut works on
  root,     \* the climbing cursor of find and find_mut
  cur,      \* the compressing cursor of find_mut
  ra,       \* the root find_mut returned for the first end
  comp,     \* components: the representative of each record read so far
  rep       \* history: the root of each record's tree; no action reads it

ufVars == <<n, high, pending, parent, rank, uf, edge, side, root, cur, ra, comp, rep>>

Nodes == 1 .. n
Pairs == {p \in Nodes \X Nodes : p[1] < p[2]}
Taken == high \ pending

UfTypeOK ==
  /\ n \in Nat \ {0}
  /\ high \subseteq Pairs /\ pending \subseteq high
  /\ parent \in [Nodes -> Nodes]
  /\ rank \in [Nodes -> Nat]
  /\ uf \in {"off", "idle", "climb", "compress", "read", "ready"}
  /\ edge \in Nodes \X Nodes
  /\ side \in {1, 2}
  /\ root \in Nodes /\ cur \in Nodes /\ ra \in Nodes
  /\ comp \in Seq(Nodes) /\ Len(comp) <= n
  /\ rep \in [Nodes -> Nodes]

\* UnionFind::new: every record is its own tree.
OwnTree(m) == [x \in 1 .. m |-> x]

UfOff ==
  /\ n = 1 /\ high = {} /\ pending = {} /\ uf = "off"
  /\ parent = OwnTree(1) /\ rep = OwnTree(1) /\ rank = [x \in {1} |-> 0]
  /\ edge = <<1, 1>> /\ side = 1 /\ root = 1 /\ cur = 1 /\ ra = 1
  /\ comp = <<>>

UfBegin(m, pairs) ==
  /\ uf = "off"
  /\ n' = m
  /\ high' = pairs /\ pending' = pairs
  /\ parent' = OwnTree(m) /\ rep' = OwnTree(m) /\ rank' = [x \in 1 .. m |-> 0]
  /\ uf' = "idle"
  /\ UNCHANGED <<edge, side, root, cur, ra, comp>>

\* The next pair of the loop in correlate; find_mut starts at its first end.
TakeEdge ==
  /\ uf = "idle"
  /\ edge' \in pending
  /\ side' = 1
  /\ root' = edge'[1]
  /\ uf' = "climb"
  /\ UNCHANGED <<n, high, pending, parent, rank, cur, ra, comp, rep>>

\* while parent[root] != root, in find_mut and in find.
Climb ==
  /\ uf \in {"climb", "read"}
  /\ parent[root] # root
  /\ root' = parent[root]
  /\ UNCHANGED <<n, high, pending, parent, rank, uf, edge, side, cur, ra, comp, rep>>

ClimbEnd ==
  /\ uf = "climb"
  /\ parent[root] = root
  /\ uf' = "compress"
  /\ cur' = edge[side]
  /\ UNCHANGED <<n, high, pending, parent, rank, edge, side, root, ra, comp, rep>>

\* while parent[cur] != root: hang cur directly under the root.
Compress ==
  /\ uf = "compress"
  /\ parent[cur] # root
  /\ parent' = [parent EXCEPT ![cur] = root]
  /\ cur' = parent[cur]
  /\ UNCHANGED <<n, high, pending, rank, uf, edge, side, root, ra, comp, rep>>

\* find_mut(a) has returned; find_mut(b) starts.
SecondFind ==
  /\ uf = "compress" /\ side = 1
  /\ parent[cur] = root
  /\ ra' = root
  /\ side' = 2
  /\ root' = edge[2]
  /\ uf' = "climb"
  /\ UNCHANGED <<n, high, pending, parent, rank, edge, cur, comp, rep>>

\* Mutant: the second end of the pair is hung, not the root of its tree.
HangMutant(lower, upper) == [parent EXCEPT ![IF lower = root THEN edge[2] ELSE edge[1]] = upper]

Hang(lower, upper) == [parent EXCEPT ![lower] = upper]

Relabel(lower, upper) == [x \in Nodes |-> IF rep[x] = lower THEN upper ELSE rep[x]]

\* find_mut(b) has returned: union's comparison of the two roots.
Link ==
  /\ uf = "compress" /\ side = 2
  /\ parent[cur] = root
  /\ LET rb == root
     IN  \/ /\ ra = rb
            /\ UNCHANGED <<parent, rank, rep>>
         \/ /\ ra # rb /\ rank[ra] < rank[rb]
            /\ parent' = Hang(ra, rb)
            /\ rep' = Relabel(ra, rb)
            /\ UNCHANGED rank
         \/ /\ ra # rb /\ rank[ra] >= rank[rb]
            /\ parent' = Hang(rb, ra)
            /\ rep' = Relabel(rb, ra)
            /\ rank' = IF rank[ra] = rank[rb] THEN [rank EXCEPT ![ra] = @ + 1] ELSE rank
  /\ pending' = pending \ {edge}
  /\ uf' = "idle"
  /\ UNCHANGED <<n, high, edge, side, root, cur, ra, comp>>

\* components: find for every record, in order.
ReadBegin ==
  /\ uf = "idle" /\ pending = {}
  /\ uf' = "read"
  /\ root' = 1
  /\ UNCHANGED <<n, high, pending, parent, rank, edge, side, cur, ra, comp, rep>>

ReadEnd ==
  /\ uf = "read"
  /\ parent[root] = root
  /\ comp' = Append(comp, root)
  /\ IF Len(comp) + 1 = n
       THEN uf' = "ready" /\ UNCHANGED root
       ELSE uf' = uf /\ root' = Len(comp) + 2
  /\ UNCHANGED <<n, high, pending, parent, rank, edge, side, cur, ra, rep>>

UfStep ==
  \/ TakeEdge \/ Climb \/ ClimbEnd \/ Compress
  \/ SecondFind \/ Link \/ ReadBegin \/ ReadEnd

\* The union-find on its own, over any number of records and any pairs.
UfNext ==
  \/ \E m \in Nat \ {0} :
       \E pairs \in SUBSET {p \in (1 .. m) \X (1 .. m) : p[1] < p[2]} : UfBegin(m, pairs)
  \/ UfStep
UfSpec == UfOff /\ [][UfNext]_ufVars

\* ComponentsExact: when components returns, the two records of every pair
\* have one representative, and records with one representative really are
\* connected: whatever labels the records get, if the two records of every
\* pair are labelled alike then so are a record and its representative.  No
\* order of the HashSet and no path compression adds or loses a merge.
ComponentsExact ==
  uf = "ready" =>
    /\ \A p \in high : comp[p[1]] = comp[p[2]]
    /\ \A label \in [Nodes -> Nodes] :
         (\A p \in high : label[p[1]] = label[p[2]])
           => \A x \in Nodes : label[comp[x]] = label[x]
=============================================================================
