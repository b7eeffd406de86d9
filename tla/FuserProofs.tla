---------------------------- MODULE FuserProofs ----------------------------
(***************************************************************************)
(* The identity fuser's union-find returns the connected components of the *)
(* pairs it was given, for any number of records, any pairs and any order  *)
(* of them.                                                                *)
(*                                                                         *)
(* parent alone says nothing of the root a walk will reach, so the proof   *)
(* carries rep, the root of every record's tree: a record and its parent   *)
(* have one root, a root is its own, and ranks grow towards it (which is   *)
(* why hanging a record directly under its root makes no cycle).           *)
(*                                                                         *)
(* The identity fuser drives its union-find as UnionFind specifies, so     *)
(* what is proved of the union-find holds of the fuser, for all targets,   *)
(* tables and hints.  The only thing to show is that finish starts it with *)
(* pairs of record numbers, which needs buffer to be a sequence.           *)
(*                                                                         *)
(* What finish returns is then proved to be what the documentation says.   *)
(* Each fold (dedup, flatten, first of the most confident, best peer,      *)
(* alt_ips) is unrolled into its run over the prefixes of its sequence and *)
(* what it returns is shown by induction over the run; InOrder is shown to *)
(* sort.  MergeInv carries the records returned so far, right for their    *)
(* groups, until the last one.                                             *)
(*                                                                         *)
(* The second streams join on what the fuser returned.  Their folds, over  *)
(* the platform rules and over the reports of a link, are unrolled in the  *)
(* same way.  JoinInv says that every observation is of an address some    *)
(* record is held for: in the buffer, then among the records being merged, *)
(* then in what finish returns, because a merged record covers the         *)
(* addresses of its whole group.  That is why, at the flush, the address   *)
(* index answers for every device that reported something.                 *)
(***************************************************************************)
EXTENDS SecondStreams, SequenceProofs

-----------------------------------------------------------------------------
(* The union-find *)

\* A record and its parent have one root; only roots are their own parent.
Forest ==
  /\ \A x \in Nodes : rep[parent[x]] = rep[x]
  /\ \A x \in Nodes : parent[x] = x <=> rep[x] = x
  /\ \A x \in Nodes : rep[rep[x]] = rep[x]

\* Ranks grow from a record to its parent and to its root: no cycle.
RankOrder ==
  /\ \A x \in Nodes : rep[x] # x => rank[x] < rank[rep[x]]
  /\ \A x \in Nodes : parent[x] # x => rank[x] < rank[parent[x]]

\* The pairs united so far have one root each.
Joined == \A p \in Taken : rep[p[1]] = rep[p[2]]

\* Nothing else has been joined: any labelling that agrees with the pairs
\* united so far agrees with the trees.
Finest ==
  \A label \in [Nodes -> Nodes] :
    (\A p \in Taken : label[p[1]] = label[p[2]]) => \A x \in Nodes : label[rep[x]] = label[x]

\* Where the cursors of find_mut and find stand.
Cursors ==
  /\ uf = "off" => n = 1
  /\ uf \in {"climb", "compress"} => edge \in pending
  /\ uf = "climb" => rep[root] = rep[edge[side]]
  /\ uf = "compress" => root = rep[edge[side]] /\ rep[cur] = root
  /\ (uf \in {"climb", "compress"} /\ side = 2) => ra = rep[edge[1]]
  /\ uf \in {"read", "ready"} => pending = {}
  /\ uf = "read" => Len(comp) < n /\ rep[root] = rep[Len(comp) + 1]
  /\ uf = "ready" => Len(comp) = n
  /\ uf \notin {"read", "ready"} => comp = <<>>
  /\ \A i \in 1 .. Len(comp) : comp[i] = rep[i]

UfInv == UfTypeOK /\ Forest /\ RankOrder /\ Joined /\ Finest /\ Cursors

LEMMA UfOffInv == UfOff => UfInv
  <1> SUFFICES ASSUME UfOff PROVE UfInv
    OBVIOUS
  <1>1. Nodes = {1} /\ Pairs = {} /\ Taken = {}
    BY DEF UfOff, Nodes, Pairs, Taken
  <1>2. parent = [x \in Nodes |-> x] /\ rep = [x \in Nodes |-> x] /\ rank = [x \in Nodes |-> 0]
    BY <1>1 DEF UfOff, OwnTree, Nodes
  <1>3. comp = <<>> /\ Len(comp) = 0 /\ comp \in Seq(Nodes)
    BY DEF UfOff
  <1>4. UfTypeOK
    BY <1>1, <1>2, <1>3 DEF UfOff, UfTypeOK
  <1>5. Forest /\ RankOrder /\ Joined /\ Finest
    BY <1>1, <1>2 DEF Forest, RankOrder, Joined, Finest
  <1>6. Cursors
    BY <1>1, <1>2, <1>3 DEF Cursors, UfOff
  <1> QED BY <1>4, <1>5, <1>6 DEF UfInv

LEMMA UfBeginInv ==
  ASSUME NEW m \in Nat \ {0},
         NEW pairs \in SUBSET {p \in (1 .. m) \X (1 .. m) : p[1] < p[2]},
         UfInv, UfBegin(m, pairs)
  PROVE  UfInv'
  <1>1. Nodes' = 1 .. m /\ Taken' = {} /\ pairs \subseteq Pairs'
    BY DEF UfBegin, Nodes, Pairs, Taken
  <1>2. /\ parent' = [x \in Nodes' |-> x] /\ rep' = [x \in Nodes' |-> x]
        /\ rank' = [x \in Nodes' |-> 0]
    BY <1>1 DEF UfBegin, OwnTree
  <1>3. n = 1 /\ Nodes = {1} /\ comp = <<>> /\ 1 \in Nodes'
    BY <1>1 DEF UfBegin, UfInv, Cursors, Nodes
  <1>4. comp' = <<>> /\ Len(comp') = 0 /\ comp' \in Seq(Nodes')
    BY <1>3 DEF UfBegin
  <1>5. /\ edge' \in Nodes' \X Nodes' /\ side' \in {1, 2}
        /\ root' \in Nodes' /\ cur' \in Nodes' /\ ra' \in Nodes'
    BY <1>3 DEF UfBegin, UfInv, UfTypeOK
  <1>6. UfTypeOK'
    <2>1. n' \in Nat \ {0} /\ high' \subseteq Pairs' /\ pending' \subseteq high' /\ uf' = "idle"
      BY <1>1 DEF UfBegin
    <2>2. parent' \in [Nodes' -> Nodes'] /\ rank' \in [Nodes' -> Nat] /\ rep' \in [Nodes' -> Nodes']
      BY <1>2
    <2>3. Len(comp') <= n'
      BY <1>4, <2>1
    <2> QED BY <1>4, <1>5, <2>1, <2>2, <2>3 DEF UfTypeOK
  <1>7. Forest' /\ RankOrder'
    BY <1>2 DEF Forest, RankOrder
  <1>8. Joined' /\ Finest'
    BY <1>1, <1>2 DEF Joined, Finest
  <1>9. Cursors'
    BY <1>4 DEF Cursors, UfBegin
  <1> QED BY <1>6, <1>7, <1>8, <1>9 DEF UfInv

\* What every step but Compress and Link keeps.
LEMMA TreesKept ==
  ASSUME UfInv, UNCHANGED <<n, high, pending, parent, rank, rep>>
  PROVE  /\ Forest' /\ RankOrder' /\ Joined' /\ Finest'
         /\ Nodes' = Nodes /\ Pairs' = Pairs
  <1>1. Nodes' = Nodes /\ Pairs' = Pairs /\ Taken' = Taken
    BY DEF Nodes, Pairs, Taken
  <1>2. Forest' /\ RankOrder'
    BY <1>1 DEF UfInv, Forest, RankOrder
  <1>3. Joined' /\ Finest'
    BY <1>1 DEF UfInv, Joined, Finest
  <1> QED BY <1>1, <1>2, <1>3

LEMMA PairsInNodes == \A p \in Pairs : p[1] \in Nodes /\ p[2] \in Nodes /\ p \in Nodes \X Nodes
  BY DEF Pairs

LEMMA TakeEdgeInv == UfInv /\ TakeEdge => UfInv'
  <1> SUFFICES ASSUME UfInv, TakeEdge PROVE UfInv'
    OBVIOUS
  <1>1. UNCHANGED <<n, high, pending, parent, rank, rep, cur, ra, comp>>
    BY DEF TakeEdge
  <1>2. /\ Forest' /\ RankOrder' /\ Joined' /\ Finest' /\ Nodes' = Nodes /\ Pairs' = Pairs
    BY <1>1, TreesKept
  <1>3. edge' \in pending /\ edge' \in Nodes \X Nodes /\ edge'[1] \in Nodes
    BY PairsInNodes DEF TakeEdge, UfInv, UfTypeOK
  <1>4. side' = 1 /\ root' = edge'[1] /\ uf' = "climb" /\ uf = "idle"
    BY DEF TakeEdge
  <1>5. UfTypeOK'
    BY <1>1, <1>2, <1>3, <1>4 DEF UfInv, UfTypeOK
  <1>6. comp' = <<>>
    BY <1>1, <1>4 DEF UfInv, Cursors
  <1>7. Cursors'
    BY <1>1, <1>3, <1>4, <1>6 DEF UfInv, Cursors
  <1> QED BY <1>2, <1>5, <1>7 DEF UfInv

LEMMA ClimbInv == UfInv /\ Climb => UfInv'
  <1> SUFFICES ASSUME UfInv, Climb PROVE UfInv'
    OBVIOUS
  <1>1. UNCHANGED <<n, high, pending, parent, rank, rep, uf, edge, side, cur, ra, comp>>
    BY DEF Climb
  <1>2. /\ Forest' /\ RankOrder' /\ Joined' /\ Finest' /\ Nodes' = Nodes /\ Pairs' = Pairs
    BY <1>1, TreesKept
  <1>3. root' \in Nodes /\ rep[root'] = rep[root]
    BY DEF Climb, UfInv, UfTypeOK, Forest
  <1>4. UfTypeOK'
    BY <1>1, <1>2, <1>3 DEF UfInv, UfTypeOK
  <1>5. uf \in {"climb", "read"}
    BY DEF Climb
  <1>6. Cursors'
    BY <1>1, <1>3, <1>5 DEF UfInv, Cursors
  <1> QED BY <1>2, <1>4, <1>6 DEF UfInv

LEMMA ClimbEndInv == UfInv /\ ClimbEnd => UfInv'
  <1> SUFFICES ASSUME UfInv, ClimbEnd PROVE UfInv'
    OBVIOUS
  <1>1. UNCHANGED <<n, high, pending, parent, rank, rep, edge, side, root, ra, comp>>
    BY DEF ClimbEnd
  <1>2. /\ Forest' /\ RankOrder' /\ Joined' /\ Finest' /\ Nodes' = Nodes /\ Pairs' = Pairs
    BY <1>1, TreesKept
  <1>3. edge[side] \in Nodes
    BY DEF UfInv, UfTypeOK
  <1>4. rep[root] = root /\ rep[root] = rep[edge[side]]
    BY DEF ClimbEnd, UfInv, UfTypeOK, Forest, Cursors
  <1>5. uf = "climb" /\ uf' = "compress" /\ cur' = edge[side]
    BY DEF ClimbEnd
  <1>6. UfTypeOK'
    BY <1>1, <1>2, <1>3, <1>5 DEF UfInv, UfTypeOK
  <1>7. Cursors'
    BY <1>1, <1>4, <1>5 DEF UfInv, Cursors
  <1> QED BY <1>2, <1>6, <1>7 DEF UfInv

LEMMA CompressInv == UfInv /\ Compress => UfInv'
  <1> SUFFICES ASSUME UfInv, Compress PROVE UfInv'
    OBVIOUS
  <1>1. UNCHANGED <<n, high, pending, rank, uf, edge, side, root, ra, comp, rep>> /\ uf = "compress"
    BY DEF Compress
  <1>2. Nodes' = Nodes /\ Pairs' = Pairs /\ Taken' = Taken
    BY <1>1 DEF Nodes, Pairs, Taken
  <1>3. cur \in Nodes /\ root \in Nodes /\ parent[cur] \in Nodes /\ edge[side] \in Nodes
    BY DEF UfInv, UfTypeOK
  <1>4. rep[cur] = root /\ rep[root] = root /\ cur # root
    BY <1>1, <1>3 DEF Compress, UfInv, Cursors, Forest
  <1>5. /\ parent' = [parent EXCEPT ![cur] = root]
        /\ cur' = parent[cur] /\ rep[cur'] = root
    BY <1>3, <1>4 DEF Compress, UfInv, Forest
  <1>6. UfTypeOK'
    BY <1>1, <1>2, <1>3, <1>5 DEF UfInv, UfTypeOK
  <1>7. \A x \in Nodes : parent'[x] = IF x = cur THEN root ELSE parent[x]
    BY <1>3, <1>5 DEF UfInv, UfTypeOK
  <1>8. Forest'
    BY <1>1, <1>2, <1>4, <1>7 DEF UfInv, Forest
  <1>9. RankOrder'
    BY <1>1, <1>2, <1>3, <1>4, <1>7 DEF UfInv, RankOrder
  <1>10. Joined' /\ Finest'
    BY <1>1, <1>2 DEF UfInv, Joined, Finest
  <1>11. Cursors'
    BY <1>1, <1>5 DEF UfInv, Cursors
  <1> QED BY <1>6, <1>8, <1>9, <1>10, <1>11 DEF UfInv

LEMMA SecondFindInv == UfInv /\ SecondFind => UfInv'
  <1> SUFFICES ASSUME UfInv, SecondFind PROVE UfInv'
    OBVIOUS
  <1>1. UNCHANGED <<n, high, pending, parent, rank, rep, edge, cur, comp>>
    BY DEF SecondFind
  <1>2. /\ Forest' /\ RankOrder' /\ Joined' /\ Finest' /\ Nodes' = Nodes /\ Pairs' = Pairs
    BY <1>1, TreesKept
  <1>3. /\ uf = "compress" /\ side = 1 /\ uf' = "climb" /\ side' = 2
        /\ ra' = root /\ root' = edge[2]
    BY DEF SecondFind
  <1>4. edge[2] \in Nodes /\ root \in Nodes
    BY DEF UfInv, UfTypeOK
  <1>5. UfTypeOK'
    BY <1>1, <1>2, <1>3, <1>4 DEF UfInv, UfTypeOK
  <1>6. Cursors'
    BY <1>1, <1>3 DEF UfInv, Cursors
  <1> QED BY <1>2, <1>5, <1>6 DEF UfInv

\* One tree is hung under the root of another one.
LEMMA HangInv ==
  ASSUME UfInv, NEW lower \in Nodes, NEW upper \in Nodes,
         lower # upper, rep[lower] = lower, rep[upper] = upper,
         \/ lower = rep[edge[1]] /\ upper = rep[edge[2]]
         \/ lower = rep[edge[2]] /\ upper = rep[edge[1]],
         edge \in pending,
         UNCHANGED <<n, high, edge, side, root, cur, ra, comp>>,
         pending' = pending \ {edge},
         uf = "compress", uf' = "idle",
         parent' = Hang(lower, upper),
         rep' = Relabel(lower, upper),
         \/ rank' = rank /\ rank[lower] < rank[upper]
         \/ rank' = [rank EXCEPT ![upper] = @ + 1] /\ rank[lower] <= rank[upper]
  PROVE  UfInv'
  <1>1. Nodes' = Nodes /\ Pairs' = Pairs
    BY DEF Nodes, Pairs
  <1>2. edge \in high /\ edge[1] \in Nodes /\ edge[2] \in Nodes
    BY PairsInNodes DEF UfInv, UfTypeOK
  <1>3. Taken' = Taken \cup {edge}
    BY <1>2 DEF Taken
  <1>4. /\ parent \in [Nodes -> Nodes] /\ rep \in [Nodes -> Nodes] /\ rank \in [Nodes -> Nat]
    BY DEF UfInv, UfTypeOK
  <1>5. \A x \in Nodes : parent'[x] = IF x = lower THEN upper ELSE parent[x]
    BY <1>4 DEF Hang
  <1>6. \A x \in Nodes : rep'[x] = IF rep[x] = lower THEN upper ELSE rep[x]
    BY DEF Relabel
  <1>7. \A x \in Nodes : /\ rank'[x] \in Nat
                         /\ x # upper => rank'[x] = rank[x]
                         /\ rank'[upper] >= rank[upper]
                         /\ rank[lower] < rank'[upper]
    BY <1>4
  <1>8. UfTypeOK'
    <2>1. parent' \in [Nodes -> Nodes]
      BY <1>4 DEF Hang
    <2>2. rep' \in [Nodes -> Nodes]
      BY <1>4 DEF Relabel
    <2>3. rank' \in [Nodes -> Nat]
      BY <1>4
    <2>4. pending' \subseteq high
      BY DEF UfInv, UfTypeOK
    <2> QED BY <1>1, <2>1, <2>2, <2>3, <2>4 DEF UfInv, UfTypeOK
  <1>9. Forest'
    <2>1. \A x \in Nodes : rep'[parent'[x]] = rep'[x]
      BY <1>4, <1>5, <1>6 DEF UfInv, Forest
    <2>2. \A x \in Nodes : parent'[x] = x <=> rep'[x] = x
      BY <1>4, <1>5, <1>6 DEF UfInv, Forest
    <2>3. \A x \in Nodes : rep'[rep'[x]] = rep'[x]
      BY <1>4, <1>6 DEF UfInv, Forest
    <2> QED BY <1>1, <2>1, <2>2, <2>3 DEF Forest
  <1>10. RankOrder'
    <2>1. \A x \in Nodes : rep[x] # x => x # upper
      OBVIOUS
    <2>2. \A x \in Nodes : rep'[x] # x => rank'[x] < rank'[rep'[x]]
      <3> SUFFICES ASSUME NEW x \in Nodes, rep'[x] # x PROVE rank'[x] < rank'[rep'[x]]
        OBVIOUS
      <3>1. CASE x = lower
        BY <3>1, <1>4, <1>6, <1>7
      <3>2. CASE x # lower /\ rep[x] = lower
        <4>1. x # upper /\ rank'[x] = rank[x] /\ rank[x] < rank[lower]
          BY <3>2, <1>7 DEF UfInv, RankOrder
        <4>2. rep'[x] = upper
          BY <3>2, <1>6
        <4> QED BY <4>1, <4>2, <1>4, <1>7
      <3>3. CASE x # lower /\ rep[x] # lower
        <4>1. rep'[x] = rep[x] /\ rep[x] # x /\ x # upper /\ rank'[x] = rank[x]
          BY <3>3, <1>6, <1>7
        <4>2. rank[x] < rank[rep[x]] /\ rep[x] \in Nodes
          BY <4>1, <1>4 DEF UfInv, RankOrder
        <4>3. rank'[rep[x]] >= rank[rep[x]]
          BY <4>2, <1>4, <1>7
        <4> QED BY <4>1, <4>2, <4>3, <1>4, <1>7
      <3> QED BY <3>1, <3>2, <3>3
    <2>3. \A x \in Nodes : parent'[x] # x => rank'[x] < rank'[parent'[x]]
      <3> SUFFICES ASSUME NEW x \in Nodes, parent'[x] # x PROVE rank'[x] < rank'[parent'[x]]
        OBVIOUS
      <3>1. CASE x = lower
        BY <3>1, <1>4, <1>5, <1>7
      <3>2. CASE x # lower
        <4>1. parent'[x] = parent[x] /\ parent[x] # x /\ parent[x] \in Nodes
          BY <3>2, <1>4, <1>5
        <4>2. x # upper
          BY <4>1 DEF UfInv, Forest
        <4>3. rank[x] < rank[parent[x]]
          BY <4>1 DEF UfInv, RankOrder
        <4>4. rank'[parent[x]] >= rank[parent[x]]
          BY <4>1, <1>4, <1>7
        <4> QED BY <4>1, <4>2, <4>3, <4>4, <1>4, <1>7
      <3> QED BY <3>1, <3>2
    <2> QED BY <1>1, <2>2, <2>3 DEF RankOrder
  <1>11. Taken \subseteq Pairs
    BY DEF Taken, UfInv, UfTypeOK
  <1>12. Joined'
    <2>1. \A p \in Taken : rep'[p[1]] = rep'[p[2]]
      BY <1>6, <1>11, PairsInNodes DEF UfInv, Joined
    <2>2. rep'[edge[1]] = rep'[edge[2]]
      BY <1>2, <1>6
    <2> QED BY <1>3, <2>1, <2>2 DEF Joined
  <1>13. Finest'
    <2> SUFFICES ASSUME NEW label \in [Nodes -> Nodes],
                        \A p \in Taken' : label[p[1]] = label[p[2]],
                        NEW x \in Nodes
                 PROVE  label[rep'[x]] = label[x]
      BY <1>1 DEF Finest
    <2>1. \A y \in Nodes : label[rep[y]] = label[y]
      BY <1>3 DEF UfInv, Finest
    <2>2. label[edge[1]] = label[edge[2]]
      BY <1>3
    <2>3. label[lower] = label[upper]
      BY <1>2, <2>1, <2>2
    <2> QED BY <1>6, <2>1, <2>3
  <1>14. comp' = <<>> /\ Len(comp') = 0
    BY DEF UfInv, Cursors
  <1>15. Cursors'
    BY <1>14 DEF Cursors
  <1> QED BY <1>8, <1>9, <1>10, <1>12, <1>13, <1>15 DEF UfInv

LEMMA LinkInv == UfInv /\ Link => UfInv'
  <1> SUFFICES ASSUME UfInv, Link PROVE UfInv'
    OBVIOUS
  <1>1. /\ UNCHANGED <<n, high, edge, side, root, cur, ra, comp>>
        /\ pending' = pending \ {edge}
        /\ uf = "compress" /\ uf' = "idle" /\ side = 2
    BY DEF Link
  <1>2. /\ root = rep[edge[2]] /\ ra = rep[edge[1]] /\ edge \in pending
    BY <1>1 DEF UfInv, Cursors
  <1>3. /\ edge[1] \in Nodes /\ edge[2] \in Nodes /\ edge \in high
        /\ root \in Nodes /\ ra \in Nodes
    BY <1>2, PairsInNodes DEF UfInv, UfTypeOK
  <1>4. rep[root] = root /\ rep[ra] = ra
    BY <1>2, <1>3 DEF UfInv, Forest
  <1>5. rank[ra] \in Nat /\ rank[root] \in Nat
    BY <1>3 DEF UfInv, UfTypeOK
  <1>6. CASE ra = root
    <2>1. UNCHANGED <<parent, rank, rep>>
      BY <1>6 DEF Link
    <2>2. Nodes' = Nodes /\ Pairs' = Pairs /\ Taken' = Taken \cup {edge}
      BY <1>1, <1>3 DEF Nodes, Pairs, Taken
    <2>3. UfTypeOK'
      BY <1>1, <2>1, <2>2 DEF UfInv, UfTypeOK
    <2>4. Forest' /\ RankOrder'
      BY <2>1, <2>2 DEF UfInv, Forest, RankOrder
    <2>5. Joined'
      BY <1>2, <1>6, <2>1, <2>2 DEF UfInv, Joined
    <2>6. Finest'
      BY <2>1, <2>2 DEF UfInv, Finest
    <2>7. comp' = <<>> /\ Len(comp') = 0
      BY <1>1 DEF UfInv, Cursors
    <2>8. Cursors'
      BY <1>1, <2>7 DEF Cursors
    <2> QED BY <2>3, <2>4, <2>5, <2>6, <2>8 DEF UfInv
  <1>7. CASE ra # root /\ rank[ra] < rank[root]
    <2>1. parent' = Hang(ra, root) /\ rep' = Relabel(ra, root) /\ rank' = rank
      BY <1>5, <1>7 DEF Link
    <2> QED BY <1>1, <1>2, <1>3, <1>4, <1>7, <2>1, HangInv
  <1>8. CASE ra # root /\ rank[ra] >= rank[root]
    <2>1. parent' = Hang(root, ra) /\ rep' = Relabel(root, ra)
      BY <1>5, <1>8 DEF Link
    <2>2. rank' = IF rank[ra] = rank[root] THEN [rank EXCEPT ![ra] = @ + 1] ELSE rank
      BY <1>5, <1>8 DEF Link
    <2>3. \/ rank' = rank /\ rank[root] < rank[ra]
          \/ rank' = [rank EXCEPT ![ra] = @ + 1] /\ rank[root] <= rank[ra]
      BY <1>5, <1>8, <2>2
    <2> QED BY <1>1, <1>2, <1>3, <1>4, <1>8, <2>1, <2>3, HangInv
  <1> QED BY <1>5, <1>6, <1>7, <1>8

LEMMA ReadBeginInv == UfInv /\ ReadBegin => UfInv'
  <1> SUFFICES ASSUME UfInv, ReadBegin PROVE UfInv'
    OBVIOUS
  <1>1. /\ UNCHANGED <<n, high, pending, parent, rank, rep, edge, side, cur, ra, comp>>
        /\ uf = "idle" /\ uf' = "read" /\ pending = {} /\ root' = 1
    BY DEF ReadBegin
  <1>2. /\ Forest' /\ RankOrder' /\ Joined' /\ Finest' /\ Nodes' = Nodes /\ Pairs' = Pairs
    BY <1>1, TreesKept
  <1>3. comp = <<>> /\ Len(comp) = 0 /\ n \in Nat \ {0} /\ 1 \in Nodes
    BY <1>1 DEF UfInv, UfTypeOK, Cursors, Nodes
  <1>4. UfTypeOK'
    BY <1>1, <1>2, <1>3 DEF UfInv, UfTypeOK
  <1>5. Cursors'
    BY <1>1, <1>3 DEF UfInv, Cursors
  <1> QED BY <1>2, <1>4, <1>5 DEF UfInv

LEMMA ReadEndInv == UfInv /\ ReadEnd => UfInv'
  <1> SUFFICES ASSUME UfInv, ReadEnd PROVE UfInv'
    OBVIOUS
  <1>1. /\ UNCHANGED <<n, high, pending, parent, rank, rep, edge, side, cur, ra>>
        /\ uf = "read" /\ comp' = Append(comp, root)
    BY DEF ReadEnd
  <1>2. /\ Forest' /\ RankOrder' /\ Joined' /\ Finest' /\ Nodes' = Nodes /\ Pairs' = Pairs
    BY <1>1, TreesKept
  <1>3. /\ n \in Nat \ {0} /\ comp \in Seq(Nodes) /\ Len(comp) \in Nat /\ Len(comp) < n
        /\ root \in Nodes /\ pending = {} /\ rep[root] = rep[Len(comp) + 1]
        /\ \A i \in 1 .. Len(comp) : comp[i] = rep[i]
    BY <1>1 DEF UfInv, UfTypeOK, Cursors
  <1>4. rep[root] = root
    BY <1>3 DEF ReadEnd, UfInv, Forest
  <1>5. /\ comp' \in Seq(Nodes) /\ Len(comp') = Len(comp) + 1
        /\ \A i \in 1 .. Len(comp) : comp'[i] = comp[i]
        /\ comp'[Len(comp) + 1] = root
    BY <1>1, <1>3
  <1>6. \A i \in 1 .. Len(comp') : comp'[i] = rep[i]
    <2> SUFFICES ASSUME NEW i \in 1 .. Len(comp') PROVE comp'[i] = rep[i]
      OBVIOUS
    <2>1. i \in 1 .. Len(comp) \/ i = Len(comp) + 1
      BY <1>3, <1>5
    <2> QED BY <2>1, <1>3, <1>4, <1>5
  <1>7. CASE Len(comp) + 1 = n
    <2>1. uf' = "ready" /\ root' = root
      BY <1>7 DEF ReadEnd
    <2>2. UfTypeOK'
      BY <1>1, <1>2, <1>3, <1>5, <1>7, <2>1 DEF UfInv, UfTypeOK
    <2>3. Cursors'
      BY <1>1, <1>3, <1>5, <1>6, <1>7, <2>1 DEF Cursors
    <2> QED BY <1>2, <2>2, <2>3 DEF UfInv
  <1>8. CASE Len(comp) + 1 # n
    <2>1. uf' = "read" /\ root' = Len(comp) + 2
      BY <1>1, <1>8 DEF ReadEnd
    <2>2. Len(comp) + 2 \in Nodes /\ Len(comp') < n /\ Len(comp') + 1 = Len(comp) + 2
      BY <1>3, <1>5, <1>8 DEF Nodes
    <2>3. UfTypeOK'
      BY <1>1, <1>2, <1>3, <1>5, <2>1, <2>2 DEF UfInv, UfTypeOK
    <2>4. Cursors'
      BY <1>1, <1>3, <1>5, <1>6, <2>1, <2>2 DEF Cursors
    <2> QED BY <1>2, <2>3, <2>4 DEF UfInv
  <1> QED BY <1>7, <1>8

LEMMA UfUnchanged == UfInv /\ UNCHANGED ufVars => UfInv'
  <1> SUFFICES ASSUME UfInv, UNCHANGED ufVars PROVE UfInv'
    OBVIOUS
  <1>1. Forest' /\ RankOrder' /\ Joined' /\ Finest' /\ Nodes' = Nodes /\ Pairs' = Pairs
    BY TreesKept DEF ufVars
  <1>2. UfTypeOK'
    BY <1>1 DEF ufVars, UfInv, UfTypeOK
  <1>3. Cursors'
    BY DEF ufVars, UfInv, Cursors
  <1> QED BY <1>1, <1>2, <1>3 DEF UfInv

\* UfInvariant: every loop of find_mut, union and find keeps the trees, the
\* ranks and the partition as described above.
THEOREM UfInvariant == UfSpec => []UfInv
  <1>1. UfInv /\ [UfNext]_ufVars => UfInv'
    <2> SUFFICES ASSUME UfInv, [UfNext]_ufVars PROVE UfInv'
      OBVIOUS
    <2>1. CASE \E m \in Nat \ {0} :
                 \E pairs \in SUBSET {p \in (1 .. m) \X (1 .. m) : p[1] < p[2]} :
                   UfBegin(m, pairs)
      BY <2>1, UfBeginInv
    <2>2. CASE UfStep
      BY <2>2, TakeEdgeInv, ClimbInv, ClimbEndInv, CompressInv, SecondFindInv, LinkInv,
         ReadBeginInv, ReadEndInv DEF UfStep
    <2>3. CASE UNCHANGED ufVars
      BY <2>3, UfUnchanged
    <2> QED BY <2>1, <2>2, <2>3 DEF UfNext
  <1> QED BY UfOffInv, <1>1, PTL DEF UfSpec

\* ComponentsCorrect: components returns exactly the connected components of
\* the high-band pairs, whatever their number and the order the HashSet of
\* candidates yields them in (UnionFind of fuser/identity.rs).
THEOREM ComponentsCorrect == UfSpec => []ComponentsExact
  <1>1. UfInv => ComponentsExact
    <2> SUFFICES ASSUME UfInv, uf = "ready" PROVE
          /\ \A p \in high : comp[p[1]] = comp[p[2]]
          /\ \A label \in [Nodes -> Nodes] :
               (\A p \in high : label[p[1]] = label[p[2]])
                 => \A x \in Nodes : label[comp[x]] = label[x]
      BY DEF ComponentsExact
    <2>1. Taken = high
      BY DEF UfInv, Cursors, Taken
    <2>2. \A x \in Nodes : comp[x] = rep[x]
      BY DEF UfInv, Cursors, Nodes
    <2>3. \A p \in high : p[1] \in Nodes /\ p[2] \in Nodes
      BY PairsInNodes DEF UfInv, UfTypeOK
    <2>4. \A p \in high : comp[p[1]] = comp[p[2]]
      BY <2>1, <2>2, <2>3 DEF UfInv, Joined
    <2>5. \A label \in [Nodes -> Nodes] :
            (\A p \in high : label[p[1]] = label[p[2]])
              => \A x \in Nodes : label[comp[x]] = label[x]
      BY <2>1, <2>2 DEF UfInv, Finest
    <2> QED BY <2>4, <2>5
  <1> QED BY UfInvariant, <1>1, PTL

\* NoCycle: ranks grow along parents, so the walks of find and find_mut end.
THEOREM NoCycle == UfSpec => []RankOrder
  <1>1. UfInv => RankOrder
    BY DEF UfInv
  <1> QED BY UfInvariant, <1>1, PTL

-----------------------------------------------------------------------------
(* The fuser *)

BufferIsSeq == \E S : buffer \in Seq(S)

LEMMA AtMostOneRecord ==
  ASSUME NEW target
  PROVE  FuseOne(target) = <<>> \/ \E r : FuseOne(target) = <<r>>
  BY DEF FuseOne

LEMMA IngestKeepsSeq ==
  ASSUME NEW S, NEW b \in Seq(S), NEW target
  PROVE  \E T : b \o [i \in DOMAIN FuseOne(target) |-> Enrich(FuseOne(target)[i])] \in Seq(T)
  <1> DEFINE fused == FuseOne(target)
             added == [i \in DOMAIN fused |-> Enrich(fused[i])]
  <1>1. CASE fused = <<>>
    <2>1. added = <<>>
      BY <1>1
    <2>2. b \o added \in Seq(S)
      BY <2>1
    <2> QED BY <2>2
  <1>2. CASE \E r : fused = <<r>>
    <2>1. PICK r : fused = <<r>>
      BY <1>2
    <2>2. added = <<Enrich(r)>>
      <3>1. DOMAIN fused = {1} /\ fused[1] = r
        BY <2>1
      <3>2. added = [i \in 1 .. 1 |-> Enrich(r)]
        BY <3>1
      <3> QED BY <3>2
    <2>3. b \in Seq(S \cup {Enrich(r)}) /\ added \in Seq(S \cup {Enrich(r)})
      BY <2>2
    <2>4. b \o added \in Seq(S \cup {Enrich(r)})
      BY <2>3
    <2> QED BY <2>4
  <1> QED BY <1>1, <1>2, AtMostOneRecord

LEMMA SeqStep == BufferIsSeq /\ [Next]_vars => BufferIsSeq'
  <1> SUFFICES ASSUME BufferIsSeq, [Next]_vars PROVE BufferIsSeq'
    OBVIOUS
  <1>1. CASE Ingest
    <2>1. PICK S : buffer \in Seq(S)
      BY DEF BufferIsSeq
    <2>2. PICK target \in Targets :
            buffer' = buffer \o [i \in DOMAIN FuseOne(target) |-> Enrich(FuseOne(target)[i])]
      BY <1>1 DEF Ingest, IngestTarget
    <2>3. \E T : buffer' \in Seq(T)
      BY <2>1, <2>2, IngestKeepsSeq
    <2> QED BY <2>3 DEF BufferIsSeq
  <1>2. CASE buffer' = <<>>
    <2>1. buffer' \in Seq({})
      BY <1>2
    <2> QED BY <2>1 DEF BufferIsSeq
  <1>3. CASE buffer' = buffer
    BY <1>3 DEF BufferIsSeq
  <1> QED BY <1>1, <1>2, <1>3 DEF Next, FinishFew, FinishMany, Unite, EmitGroup, Done, vars, fuserVars

LEMMA StepIsUnionFindStep == BufferIsSeq /\ [Next]_vars => [UfNext]_ufVars
  <1> SUFFICES ASSUME BufferIsSeq, [Next]_vars PROVE [UfNext]_ufVars
    OBVIOUS
  <1>1. CASE FinishMany
    <2>1. PICK S : buffer \in Seq(S)
      BY DEF BufferIsSeq
    <2> DEFINE m == Len(buffer)
               pairs == {p \in DOMAIN weights' : weights'[p] >= HighBand}
    <2>2. m \in Nat \ {0} /\ DOMAIN buffer = 1 .. m
      BY <1>1, <2>1 DEF FinishMany
    <2>3. weights' = PositiveWeights(buffer, Candidates(buffer))
      BY <1>1 DEF FinishMany, ComputePairWeights
    <2>4. DOMAIN weights' \subseteq Candidates(buffer)
      BY <2>3 DEF PositiveWeights
    <2>5. Candidates(buffer) \subseteq {p \in (1 .. m) \X (1 .. m) : p[1] < p[2]}
      BY <2>2 DEF Candidates, AllPairs
    <2>6. pairs \in SUBSET {p \in (1 .. m) \X (1 .. m) : p[1] < p[2]}
      BY <2>4, <2>5
    <2>7. UfBegin(m, pairs)
      BY <1>1 DEF FinishMany
    <2> QED BY <2>2, <2>6, <2>7 DEF UfNext
  <1>2. CASE Unite
    BY <1>2 DEF Unite, UfNext
  <1>3. CASE UNCHANGED ufVars
    BY <1>3
  <1> QED BY <1>1, <1>2, <1>3 DEF Next, Ingest, IngestTarget, FinishFew, EmitGroup, Done, vars

\* FuserUsesUnionFind: correlate of fuser/identity.rs drives the union-find
\* as its specification says, whatever the probers report.
THEOREM FuserUsesUnionFind == Spec => UfSpec
  <1>1. Init => UfOff /\ BufferIsSeq
    <2> SUFFICES ASSUME Init PROVE UfOff /\ BufferIsSeq
      OBVIOUS
    <2>1. buffer \in Seq({})
      BY DEF Init
    <2> QED BY <2>1 DEF Init, BufferIsSeq
  <1> QED BY <1>1, SeqStep, StepIsUnionFindStep, PTL DEF Spec, UfSpec

\* FuserComponentsCorrect: the fuser merges two records exactly when a chain
\* of high-band pairs connects them, for every scan, table and hint.
THEOREM FuserComponentsCorrect == Spec => []ComponentsExact
  BY FuserUsesUnionFind, ComponentsCorrect, PTL

-----------------------------------------------------------------------------
(* The buckets *)

\* Nothing weighs nothing.
LEMMA EmptySum == MapThenSumSet(LAMBDA tag : Weight[tag], {}) = 0
<1> DEFINE Sum(f) == [s \in SUBSET {} |->
                        IF s = {} THEN 0
                        ELSE LET x == CHOOSE x \in s : TRUE
                             IN  Weight[x] + f[s \ {x}]]
           sum == CHOOSE f : f = Sum(f)
<1>1. [s \in SUBSET {} |-> 0] = Sum([s \in SUBSET {} |-> 0])
  OBVIOUS
<1>2. sum = Sum(sum)
  BY <1>1
<1>3. sum[{}] = 0
  BY <1>2
<1>4. QED
  BY <1>3, Zenon DEF MapThenSumSet, MapThenFoldSet

\* Two records that agree on a signal share a bucket: the comparison of the
\* contribute_ functions and the lookup of bucket_keys are one notion.
LEMMA AgreementSharesBucket ==
  ASSUME NEW a, NEW b, NEW tag \in DOMAIN Weight, Agree(a, b, tag)
  PROVE  BucketKeys(a) \cap BucketKeys(b) # {}
<1>1. tag \in {"Mac", "SnmpSysName", "SshHostKey", "TlsSubject", "TlsSanName",
               "ReverseDnsName"}
  BY DEF Weight
<1>2. CASE tag = "Mac"
  <2>1. /\ a.mac # NoValue /\ b.mac # NoValue /\ Canon[a.mac] = Canon[b.mac]
        /\ ~IsVirtualMac(a.mac) /\ ~HintSaysVirtual(a.mac)
    BY <1>2 DEF Agree, SameName
  <2>2. ~IsVirtualMac(b.mac) /\ ~HintSaysVirtual(b.mac)
    BY <2>1 DEF IsVirtualMac, HintSaysVirtual
  <2>3. <<"Mac", Canon[a.mac]>> \in BucketKeys(a) \cap BucketKeys(b)
    BY <2>1, <2>2 DEF BucketKeys
  <2> QED BY <2>3
<1>3. CASE tag = "SnmpSysName"
  <2>1. PICK x \in One(a, tag), y \in One(b, tag) : Canon[x] = Canon[y]
    BY <1>3 DEF Agree, SameName
  <2>2. <<"SnmpSysName", Canon[x]>> \in BucketKeys(a) \cap BucketKeys(b)
    BY <1>3, <2>1 DEF BucketKeys, SameBucketName
  <2> QED BY <2>2
<1>4. CASE tag \in {"SshHostKey", "TlsSubject"}
  <2>1. PICK x : x \in One(a, tag) /\ x \in One(b, tag)
    BY <1>4 DEF Agree
  <2>2. <<tag, x>> \in BucketKeys(a) \cap BucketKeys(b)
    BY <1>4, <2>1 DEF BucketKeys
  <2> QED BY <2>2
<1>5. CASE tag = "TlsSanName"
  <2>1. PICK x : x \in All(a, tag) /\ x \in All(b, tag)
    BY <1>5 DEF Agree
  <2>2. <<tag, x>> \in BucketKeys(a) \cap BucketKeys(b)
    BY <1>5, <2>1 DEF BucketKeys
  <2> QED BY <2>2
<1>6. CASE tag = "ReverseDnsName"
  <2>1. PICK x \in All(a, tag), y \in All(b, tag) : Canon[x] = Canon[y]
    BY <1>6 DEF Agree, SameName
  <2>2. <<"ReverseDnsName", Canon[x]>> \in BucketKeys(a) \cap BucketKeys(b)
    BY <1>6, <2>1 DEF BucketKeys, SameBucketName
  <2> QED BY <2>2
<1> QED BY <1>1, <1>2, <1>3, <1>4, <1>5, <1>6

\* A pair with a positive weight agrees on something.
LEMMA WeightNeedsAgreement ==
  ASSUME NEW a, NEW b, \A tag \in DOMAIN Weight : ~Agree(a, b, tag)
  PROVE  ~(PairWeight(a, b) > 0)
<1>1. {tag \in DOMAIN Weight : Agree(a, b, tag)} = {}
  OBVIOUS
<1>2. MapThenSumSet(LAMBDA tag : Weight[tag], {tag \in DOMAIN Weight : Agree(a, b, tag)}) = 0
  BY <1>1, EmptySum, Zenon
<1>3. PairWeight(a, b) = 0 \/ PairWeight(a, b) = 0 - 3
  BY <1>2 DEF PairWeight, ConflictingManufacturer, VrrpMemberCap
<1> QED BY <1>3

NoneOverCap(rs) == ~\E i \in DOMAIN rs : \E key \in BucketKeys(rs[i]) : OverCap(Bucket(rs, key))

\* So no weighed pair is missed unless a value is over the cap.
LEMMA CandidatesSuffice ==
  ASSUME NEW rs, NoneOverCap(rs)
  PROVE  PositiveWeights(rs, Candidates(rs)) = PositiveWeights(rs, AllPairs(rs))
<1> DEFINE Heavy(pairs) == {q \in pairs : PairWeight(rs[q[1]], rs[q[2]]) > 0}
<1>1. Heavy(AllPairs(rs)) \subseteq Heavy(Candidates(rs))
  <2> SUFFICES ASSUME NEW q \in AllPairs(rs), PairWeight(rs[q[1]], rs[q[2]]) > 0
               PROVE  q \in Candidates(rs)
    OBVIOUS
  <2>1. PICK tag \in DOMAIN Weight : Agree(rs[q[1]], rs[q[2]], tag)
    BY WeightNeedsAgreement
  <2>2. PICK key : key \in BucketKeys(rs[q[1]]) \cap BucketKeys(rs[q[2]])
    BY <2>1, AgreementSharesBucket
  <2>3. q[1] \in DOMAIN rs
    BY DEF AllPairs
  <2>4. ~OverCap(Bucket(rs, key))
    BY <2>2, <2>3 DEF NoneOverCap
  <2> QED BY <2>2, <2>4 DEF Candidates
<1>2. Heavy(Candidates(rs)) \subseteq Heavy(AllPairs(rs))
  BY DEF Candidates
<1>3. Heavy(Candidates(rs)) = Heavy(AllPairs(rs))
  BY <1>1, <1>2
<1> QED BY <1>3, Zenon DEF PositiveWeights

\* The weights are those of the records taken out of the buffer.
WeightsInv ==
  IF stage = "ingest" THEN weights = <<>> /\ records = <<>>
                      ELSE weights = PositiveWeights(records, Candidates(records))

LEMMA NoPairsOfNothing == PositiveWeights(<<>>, Candidates(<<>>)) = <<>>
<1>1. AllPairs(<<>>) = {}
  BY DEF AllPairs
<1>2. Candidates(<<>>) = {}
  BY <1>1 DEF Candidates
<1> QED BY <1>2 DEF PositiveWeights

LEMMA WeightsStep == WeightsInv /\ [Next]_vars => WeightsInv'
  <1> SUFFICES ASSUME WeightsInv, [Next]_vars PROVE WeightsInv'
    OBVIOUS
  <1>1. CASE FinishMany
    BY <1>1 DEF FinishMany, ComputePairWeights, WeightsInv
  <1>2. CASE FinishFew
    BY <1>2, NoPairsOfNothing DEF FinishFew, WeightsInv
  <1>3. CASE Unite \/ EmitGroup
    BY <1>3 DEF Unite, EmitGroup, WeightsInv
  <1>4. CASE Ingest \/ Done \/ UNCHANGED vars
    BY <1>4 DEF Ingest, IngestTarget, Done, vars, fuserVars, WeightsInv
  <1> QED BY <1>1, <1>2, <1>3, <1>4 DEF Next

\* FuserBucketsComplete: when no value is over the cap, the buckets propose
\* every pair that has a weight, for every table, hint and set of signals
\* (bucket_keys against the contribute_ functions of fuser/identity.rs).
THEOREM FuserBucketsComplete == Spec => []BucketsLoseNothing
  <1>1. Init => WeightsInv
    BY DEF Init, WeightsInv
  <1>2. WeightsInv => BucketsLoseNothing
    BY CandidatesSuffice DEF WeightsInv, BucketsLoseNothing, NoneOverCap
  <1> QED BY <1>1, <1>2, WeightsStep, PTL DEF Spec

-----------------------------------------------------------------------------
(* The folds of the fuser, one element at a time *)

\* Dedup keeps the first of each, one by one.
LEMMA DedupRun ==
  ASSUME NEW M, NEW q \in Seq(M)
  PROVE  \E h :
           /\ h[0] = <<>> /\ Dedup(q) = h[Len(q)]
           /\ \A k \in 0 .. Len(q) : h[k] \in Seq(M)
           /\ \A k \in 1 .. Len(q) : h[k] = IF Contains(h[k - 1], q[k]) THEN h[k - 1]
                                            ELSE Append(h[k - 1], q[k])
<1> DEFINE m == Len(q)
           S == Seq(M)
           b == <<>>
           Step(x, e) == IF Contains(x, e) THEN x ELSE Append(x, e)
           Body(g) == [s \in SUBSET DOMAIN q |->
                         IF s = {} THEN b
                         ELSE LET x == Max(s)
                              IN  Step(g[s \ {x}], q[x])]
           c == CHOOSE g : g = Body(g)
           F == [i \in 1 .. m |-> [x \in S |-> Step(x, q[i])]]
           h == [k \in 0 .. m |-> c[1 .. k]]
<1>1. m \in Nat /\ DOMAIN q = 1 .. m
  OBVIOUS
<1>2. Dedup(q) = c[DOMAIN q]
  BY Zenon DEF Dedup, FoldLeft, MapThenFoldSet
<1>3. b \in S
  OBVIOUS
<1>4. \A i \in 1 .. m : \A x \in S : Step(x, q[i]) \in S
  BY <1>1
<1>5. \A x, e : Step(x, e) = IF Contains(x, e) THEN x ELSE Append(x, e)
  OBVIOUS
<1> HIDE DEF Step, S, b, m
<1>6. StepsIn(F, m, S) /\ \A i \in 1 .. m : \A x \in S : F[i][x] = Step(x, q[i])
  BY <1>4 DEF StepsIn
<1> HIDE DEF F
<1>7. PICK g \in [SUBSET (1 .. m) -> S] : Fold(F, b, m, g)
  BY <1>1, <1>3, <1>6, FoldExists
<1>8. \A s \in SUBSET (1 .. m) :
        s # {} => Max(s) \in 1 .. m /\ s \ {Max(s)} \in SUBSET (1 .. m)
  BY <1>1, MaxOfIndexes
<1>9. \A s \in SUBSET (1 .. m) :
        s # {} => F[Max(s)][g[s \ {Max(s)}]] = Step(g[s \ {Max(s)}], q[Max(s)])
  BY <1>6, <1>7, <1>8
<1>10. g = Body(g)
  BY <1>1, <1>7, <1>9 DEF Fold
<1>11. c = Body(c)
  BY <1>10
<1> HIDE DEF c
<1>12. c[{}] = b /\ \A s \in SUBSET (1 .. m) : s # {} => c[s] = Step(c[s \ {Max(s)}], q[Max(s)])
  BY <1>1, <1>11
<1>13. FoldsIn(F, b, m, S, c)
  BY <1>6, <1>8, <1>12 DEF FoldsIn
<1>14. FoldRuns(F, b, m, S, c)
  BY <1>1, <1>3, <1>6, <1>13, FoldRun
<1>15. /\ h[0] = b /\ h[m] = c[1 .. m]
       /\ \A k \in 0 .. m : h[k] \in S
       /\ \A k \in 1 .. m : h[k] = Step(h[k - 1], q[k])
  <2>1. \A k \in 1 .. m : k \in 0 .. m /\ k - 1 \in 0 .. m
    BY <1>1
  <2>2. 0 \in 0 .. m /\ m \in 0 .. m
    BY <1>1
  <2> QED BY <1>6, <1>14, <2>1, <2>2 DEF FoldRuns
<1> HIDE DEF h
<1> WITNESS h
<1> QED BY <1>1, <1>2, <1>5, <1>15 DEF m, S, b

\* Flatten joins the sequences, one by one.
LEMMA FlattenRun ==
  ASSUME NEW M, NEW q \in Seq(Seq(M))
  PROVE  \E h :
           /\ h[0] = <<>> /\ Flatten(q) = h[Len(q)]
           /\ \A k \in 0 .. Len(q) : h[k] \in Seq(M)
           /\ \A k \in 1 .. Len(q) : h[k] = h[k - 1] \o q[k]
<1> DEFINE m == Len(q)
           S == Seq(M)
           b == <<>>
           Step(x, e) == x \o e
           Body(g) == [s \in SUBSET DOMAIN q |->
                         IF s = {} THEN b
                         ELSE LET x == Max(s)
                              IN  Step(g[s \ {x}], q[x])]
           c == CHOOSE g : g = Body(g)
           F == [i \in 1 .. m |-> [x \in S |-> Step(x, q[i])]]
           h == [k \in 0 .. m |-> c[1 .. k]]
<1>1. m \in Nat /\ DOMAIN q = 1 .. m
  OBVIOUS
<1>2. Flatten(q) = c[DOMAIN q]
  BY Zenon DEF Flatten, FoldLeft, MapThenFoldSet
<1>3. b \in S
  OBVIOUS
<1>4. \A i \in 1 .. m : \A x \in S : Step(x, q[i]) \in S
  BY <1>1
<1>5. \A x, e : Step(x, e) = x \o e
  OBVIOUS
<1> HIDE DEF Step, S, b, m
<1>6. StepsIn(F, m, S) /\ \A i \in 1 .. m : \A x \in S : F[i][x] = Step(x, q[i])
  BY <1>4 DEF StepsIn
<1> HIDE DEF F
<1>7. PICK g \in [SUBSET (1 .. m) -> S] : Fold(F, b, m, g)
  BY <1>1, <1>3, <1>6, FoldExists
<1>8. \A s \in SUBSET (1 .. m) :
        s # {} => Max(s) \in 1 .. m /\ s \ {Max(s)} \in SUBSET (1 .. m)
  BY <1>1, MaxOfIndexes
<1>9. \A s \in SUBSET (1 .. m) :
        s # {} => F[Max(s)][g[s \ {Max(s)}]] = Step(g[s \ {Max(s)}], q[Max(s)])
  BY <1>6, <1>7, <1>8
<1>10. g = Body(g)
  BY <1>1, <1>7, <1>9 DEF Fold
<1>11. c = Body(c)
  BY <1>10
<1> HIDE DEF c
<1>12. c[{}] = b /\ \A s \in SUBSET (1 .. m) : s # {} => c[s] = Step(c[s \ {Max(s)}], q[Max(s)])
  BY <1>1, <1>11
<1>13. FoldsIn(F, b, m, S, c)
  BY <1>6, <1>8, <1>12 DEF FoldsIn
<1>14. FoldRuns(F, b, m, S, c)
  BY <1>1, <1>3, <1>6, <1>13, FoldRun
<1>15. /\ h[0] = b /\ h[m] = c[1 .. m]
       /\ \A k \in 0 .. m : h[k] \in S
       /\ \A k \in 1 .. m : h[k] = Step(h[k - 1], q[k])
  <2>1. \A k \in 1 .. m : k \in 0 .. m /\ k - 1 \in 0 .. m
    BY <1>1
  <2>2. 0 \in 0 .. m /\ m \in 0 .. m
    BY <1>1
  <2> QED BY <1>6, <1>14, <2>1, <2>2 DEF FoldRuns
<1> HIDE DEF h
<1> WITNESS h
<1> QED BY <1>1, <1>2, <1>5, <1>15 DEF m, S, b

\* FirstMost walks the members and keeps the best so far.
LEMMA FirstMostRun ==
  ASSUME NEW M, NEW q \in Seq(M), Len(q) > 0
  PROVE  \E h :
           /\ h[0] = q[1] /\ FirstMost(q) = h[Len(q)]
           /\ \A k \in 0 .. Len(q) : h[k] \in M
           /\ \A k \in 1 .. Len(q) :
                h[k] = IF records[q[k]].confidence > records[h[k - 1]].confidence
                         THEN q[k] ELSE h[k - 1]
<1> DEFINE m == Len(q)
           S == M
           b == q[1]
           Step(x, e) == IF records[e].confidence > records[x].confidence THEN e ELSE x
           Body(g) == [s \in SUBSET DOMAIN q |->
                         IF s = {} THEN b
                         ELSE LET x == Max(s)
                              IN  Step(g[s \ {x}], q[x])]
           c == CHOOSE g : g = Body(g)
           F == [i \in 1 .. m |-> [x \in S |-> Step(x, q[i])]]
           h == [k \in 0 .. m |-> c[1 .. k]]
<1>1. m \in Nat /\ DOMAIN q = 1 .. m
  OBVIOUS
<1>2. FirstMost(q) = c[DOMAIN q]
  BY Zenon DEF FirstMost, FoldLeft, MapThenFoldSet
<1>3. b \in S
  OBVIOUS
<1>4. \A i \in 1 .. m : \A x \in S : Step(x, q[i]) \in S
  BY <1>1
<1>5. \A x, e : Step(x, e) = IF records[e].confidence > records[x].confidence THEN e ELSE x
  OBVIOUS
<1> HIDE DEF Step, S, b, m
<1>6. StepsIn(F, m, S) /\ \A i \in 1 .. m : \A x \in S : F[i][x] = Step(x, q[i])
  BY <1>4 DEF StepsIn
<1> HIDE DEF F
<1>7. PICK g \in [SUBSET (1 .. m) -> S] : Fold(F, b, m, g)
  BY <1>1, <1>3, <1>6, FoldExists
<1>8. \A s \in SUBSET (1 .. m) :
        s # {} => Max(s) \in 1 .. m /\ s \ {Max(s)} \in SUBSET (1 .. m)
  BY <1>1, MaxOfIndexes
<1>9. \A s \in SUBSET (1 .. m) :
        s # {} => F[Max(s)][g[s \ {Max(s)}]] = Step(g[s \ {Max(s)}], q[Max(s)])
  BY <1>6, <1>7, <1>8
<1>10. g = Body(g)
  BY <1>1, <1>7, <1>9 DEF Fold
<1>11. c = Body(c)
  BY <1>10
<1> HIDE DEF c
<1>12. c[{}] = b /\ \A s \in SUBSET (1 .. m) : s # {} => c[s] = Step(c[s \ {Max(s)}], q[Max(s)])
  BY <1>1, <1>11
<1>13. FoldsIn(F, b, m, S, c)
  BY <1>6, <1>8, <1>12 DEF FoldsIn
<1>14. FoldRuns(F, b, m, S, c)
  BY <1>1, <1>3, <1>6, <1>13, FoldRun
<1>15. /\ h[0] = b /\ h[m] = c[1 .. m]
       /\ \A k \in 0 .. m : h[k] \in S
       /\ \A k \in 1 .. m : h[k] = Step(h[k - 1], q[k])
  <2>1. \A k \in 1 .. m : k \in 0 .. m /\ k - 1 \in 0 .. m
    BY <1>1
  <2>2. 0 \in 0 .. m /\ m \in 0 .. m
    BY <1>1
  <2> QED BY <1>6, <1>14, <2>1, <2>2 DEF FoldRuns
<1> HIDE DEF h
<1> WITNESS h
<1> QED BY <1>1, <1>2, <1>5, <1>15 DEF m, S, b

\* pick_best_medium_peer walks the peers and keeps the best so far.
LEMMA PickRun ==
  ASSUME NEW M, NEW q \in Seq(M), NEW r
  PROVE  \E h :
           /\ h[0] = 0 /\ PickBestMediumPeer(r, q) = h[Len(q)]
           /\ \A k \in 0 .. Len(q) : h[k] \in (M \cup {0})
           /\ \A k \in 1 .. Len(q) :
                h[k] = IF h[k - 1] = 0 \/ BetterPeer(r, q[k], h[k - 1]) THEN q[k] ELSE h[k - 1]
<1> DEFINE m == Len(q)
           S == (M \cup {0})
           b == 0
           Step(x, e) == IF x = 0 \/ BetterPeer(r, e, x) THEN e ELSE x
           Body(g) == [s \in SUBSET DOMAIN q |->
                         IF s = {} THEN b
                         ELSE LET x == Max(s)
                              IN  Step(g[s \ {x}], q[x])]
           c == CHOOSE g : g = Body(g)
           F == [i \in 1 .. m |-> [x \in S |-> Step(x, q[i])]]
           h == [k \in 0 .. m |-> c[1 .. k]]
<1>1. m \in Nat /\ DOMAIN q = 1 .. m
  OBVIOUS
<1>2. PickBestMediumPeer(r, q) = c[DOMAIN q]
  BY Zenon DEF PickBestMediumPeer, FoldLeft, MapThenFoldSet
<1>3. b \in S
  OBVIOUS
<1>4. \A i \in 1 .. m : \A x \in S : Step(x, q[i]) \in S
  BY <1>1
<1>5. \A x, e : Step(x, e) = IF x = 0 \/ BetterPeer(r, e, x) THEN e ELSE x
  OBVIOUS
<1> HIDE DEF Step, S, b, m
<1>6. StepsIn(F, m, S) /\ \A i \in 1 .. m : \A x \in S : F[i][x] = Step(x, q[i])
  BY <1>4 DEF StepsIn
<1> HIDE DEF F
<1>7. PICK g \in [SUBSET (1 .. m) -> S] : Fold(F, b, m, g)
  BY <1>1, <1>3, <1>6, FoldExists
<1>8. \A s \in SUBSET (1 .. m) :
        s # {} => Max(s) \in 1 .. m /\ s \ {Max(s)} \in SUBSET (1 .. m)
  BY <1>1, MaxOfIndexes
<1>9. \A s \in SUBSET (1 .. m) :
        s # {} => F[Max(s)][g[s \ {Max(s)}]] = Step(g[s \ {Max(s)}], q[Max(s)])
  BY <1>6, <1>7, <1>8
<1>10. g = Body(g)
  BY <1>1, <1>7, <1>9 DEF Fold
<1>11. c = Body(c)
  BY <1>10
<1> HIDE DEF c
<1>12. c[{}] = b /\ \A s \in SUBSET (1 .. m) : s # {} => c[s] = Step(c[s \ {Max(s)}], q[Max(s)])
  BY <1>1, <1>11
<1>13. FoldsIn(F, b, m, S, c)
  BY <1>6, <1>8, <1>12 DEF FoldsIn
<1>14. FoldRuns(F, b, m, S, c)
  BY <1>1, <1>3, <1>6, <1>13, FoldRun
<1>15. /\ h[0] = b /\ h[m] = c[1 .. m]
       /\ \A k \in 0 .. m : h[k] \in S
       /\ \A k \in 1 .. m : h[k] = Step(h[k - 1], q[k])
  <2>1. \A k \in 1 .. m : k \in 0 .. m /\ k - 1 \in 0 .. m
    BY <1>1
  <2>2. 0 \in 0 .. m /\ m \in 0 .. m
    BY <1>1
  <2> QED BY <1>6, <1>14, <2>1, <2>2 DEF FoldRuns
<1> HIDE DEF h
<1> WITNESS h
<1> QED BY <1>1, <1>2, <1>5, <1>15 DEF m, S, b

\* The entry merge_group makes for a member.
AltOf(i) == [address |-> records[i].mgmt_ip, role |-> AltIpRole(records[i].mac),
             responded_via |-> records[i].probe_kinds]
Entries(M) == {AltOf(i) : i \in M}

\* Its address is the group's own or has an entry already.
Listed(q, alts, i) ==
  records[i].mgmt_ip \in SeenFirst(q) \cup {alts[k].address : k \in DOMAIN alts}

\* alt_ips grows by the members whose address is new.
LEMMA AltIpsRun ==
  ASSUME NEW M, NEW q, Tail(q) \in Seq(M)
  PROVE  \E h :
           /\ h[0] = <<>> /\ AltIps(q) = h[Len(Tail(q))]
           /\ \A k \in 0 .. Len(Tail(q)) : h[k] \in Seq(Entries(M))
           /\ \A k \in 1 .. Len(Tail(q)) :
                h[k] = IF Listed(q, h[k - 1], Tail(q)[k]) THEN h[k - 1]
                       ELSE Append(h[k - 1], AltOf(Tail(q)[k]))
<1> DEFINE m == Len(Tail(q))
           S == Seq(Entries(M))
           b == <<>>
           Step(x, e) == IF Listed(q, x, e) THEN x ELSE Append(x, AltOf(e))
           Body(g) == [s \in SUBSET DOMAIN Tail(q) |->
                         IF s = {} THEN b
                         ELSE LET x == Max(s)
                              IN  Step(g[s \ {x}], Tail(q)[x])]
           c == CHOOSE g : g = Body(g)
           F == [i \in 1 .. m |-> [x \in S |-> Step(x, Tail(q)[i])]]
           h == [k \in 0 .. m |-> c[1 .. k]]
<1>1. m \in Nat /\ DOMAIN Tail(q) = 1 .. m
  OBVIOUS
<1>2. AltIps(q) = c[DOMAIN Tail(q)]
  BY Zenon DEF AltIps, AltOf, Listed, FoldLeft, MapThenFoldSet
<1>3. b \in S
  OBVIOUS
<1>4. \A i \in 1 .. m : \A x \in S : Step(x, Tail(q)[i]) \in S
  BY <1>1 DEF Entries
<1>5. \A x, e : Step(x, e) = IF Listed(q, x, e) THEN x ELSE Append(x, AltOf(e))
  OBVIOUS
<1> HIDE DEF Step, S, b, m
<1>6. StepsIn(F, m, S) /\ \A i \in 1 .. m : \A x \in S : F[i][x] = Step(x, Tail(q)[i])
  BY <1>4 DEF StepsIn
<1> HIDE DEF F
<1>7. PICK g \in [SUBSET (1 .. m) -> S] : Fold(F, b, m, g)
  BY <1>1, <1>3, <1>6, FoldExists
<1>8. \A s \in SUBSET (1 .. m) :
        s # {} => Max(s) \in 1 .. m /\ s \ {Max(s)} \in SUBSET (1 .. m)
  BY <1>1, MaxOfIndexes
<1>9. \A s \in SUBSET (1 .. m) :
        s # {} => F[Max(s)][g[s \ {Max(s)}]] = Step(g[s \ {Max(s)}], Tail(q)[Max(s)])
  BY <1>6, <1>7, <1>8
<1>10. g = Body(g)
  BY <1>1, <1>7, <1>9 DEF Fold
<1>11. c = Body(c)
  BY <1>10
<1> HIDE DEF c
<1>12. c[{}] = b /\ \A s \in SUBSET (1 .. m) : s # {} => c[s] = Step(c[s \ {Max(s)}], Tail(q)[Max(s)])
  BY <1>1, <1>11
<1>13. FoldsIn(F, b, m, S, c)
  BY <1>6, <1>8, <1>12 DEF FoldsIn
<1>14. FoldRuns(F, b, m, S, c)
  BY <1>1, <1>3, <1>6, <1>13, FoldRun
<1>15. /\ h[0] = b /\ h[m] = c[1 .. m]
       /\ \A k \in 0 .. m : h[k] \in S
       /\ \A k \in 1 .. m : h[k] = Step(h[k - 1], Tail(q)[k])
  <2>1. \A k \in 1 .. m : k \in 0 .. m /\ k - 1 \in 0 .. m
    BY <1>1
  <2>2. 0 \in 0 .. m /\ m \in 0 .. m
    BY <1>1
  <2> QED BY <1>6, <1>14, <2>1, <2>2 DEF FoldRuns
<1> HIDE DEF h
<1> WITNESS h
<1> QED BY <1>1, <1>2, <1>5, <1>15 DEF m, S, b

-----------------------------------------------------------------------------
(* What the folds return *)

\* Dedup has the elements of its argument, each once.
LEMMA DedupKeeps ==
  ASSUME NEW M, NEW q \in Seq(M)
  PROVE  Dedup(q) \in Seq(M) /\ ToSet(Dedup(q)) = ToSet(q) /\ Distinct(Dedup(q))
<1> DEFINE m == Len(q)
<1>1. m \in Nat /\ DOMAIN q = 1 .. m /\ \A k \in 1 .. m : q[k] \in M
  OBVIOUS
<1>2. PICK h :
        /\ h[0] = <<>> /\ Dedup(q) = h[m]
        /\ \A k \in 0 .. m : h[k] \in Seq(M)
        /\ \A k \in 1 .. m : h[k] = IF Contains(h[k - 1], q[k]) THEN h[k - 1]
                                    ELSE Append(h[k - 1], q[k])
  BY DedupRun
<1> HIDE DEF m
<1> DEFINE Upto(k) == {q[i] : i \in 1 .. k}
           T == {k \in 0 .. m : ToSet(h[k]) = Upto(k) /\ Distinct(h[k])}
<1>3. 0 \in T
  <2>1. ToSet(h[0]) = {} /\ Distinct(h[0])
    BY <1>2 DEF ToSet, Distinct
  <2>2. Upto(0) = {} /\ 0 \in 0 .. m
    BY <1>1
  <2> HIDE DEF Upto
  <2> QED BY <2>1, <2>2
<1>4. ASSUME NEW k \in 0 .. m - 1, k \in T PROVE k + 1 \in T
  <2>1. k \in 0 .. m /\ k + 1 \in 1 .. m /\ k + 1 \in 0 .. m /\ (k + 1) - 1 = k
    BY <1>1
  <2>2. /\ h[k + 1] = IF Contains(h[k], q[k + 1]) THEN h[k] ELSE Append(h[k], q[k + 1])
        /\ h[k] \in Seq(M) /\ q[k + 1] \in M
    BY <1>1, <1>2, <2>1
  <2>3. Upto(k + 1) = Upto(k) \cup {q[k + 1]}
    <3>1. \A i : i \in 1 .. k + 1 <=> i \in 1 .. k \/ i = k + 1
      BY <2>1
    <3> QED BY <3>1
  <2>4. ToSet(h[k]) = Upto(k) /\ Distinct(h[k])
    BY <1>4
  <2>5. Contains(h[k], q[k + 1]) <=> q[k + 1] \in ToSet(h[k])
    <3>1. DOMAIN h[k] = 1 .. Len(h[k])
      BY <2>2
    <3> QED BY <3>1 DEF Contains, ToSet
  <2> HIDE DEF Upto
  <2>6. CASE Contains(h[k], q[k + 1])
    BY <2>1, <2>2, <2>3, <2>4, <2>5, <2>6
  <2>7. CASE ~Contains(h[k], q[k + 1])
    <3>1. h[k + 1] = Append(h[k], q[k + 1])
      BY <2>2, <2>7
    <3>2. ToSet(h[k + 1]) = ToSet(h[k]) \cup {q[k + 1]}
      BY <2>2, <3>1, AppendedSet
    <3>3. Distinct(h[k + 1])
      BY <2>2, <2>4, <2>5, <2>7, <3>1, AppendDistinct
    <3> QED BY <2>1, <2>3, <2>4, <3>2, <3>3
  <2> QED BY <2>6, <2>7
<1> HIDE DEF T
<1>5. \A k \in 0 .. m : k \in T
  BY <1>1, <1>3, <1>4, InductionUpTo
<1>6. m \in 0 .. m /\ m \in T
  BY <1>1, <1>5
<1>7. ToSet(q) = Upto(m)
  BY <1>1 DEF ToSet
<1> HIDE DEF Upto
<1> QED BY <1>2, <1>6, <1>7 DEF T

\* Flatten has the elements of all its sequences.
LEMMA FlattenKeeps ==
  ASSUME NEW M, NEW q \in Seq(Seq(M))
  PROVE  Flatten(q) \in Seq(M) /\ ToSet(Flatten(q)) = UNION {ToSet(q[i]) : i \in DOMAIN q}
<1> DEFINE m == Len(q)
<1>1. m \in Nat /\ DOMAIN q = 1 .. m /\ \A k \in 1 .. m : q[k] \in Seq(M)
  OBVIOUS
<1>2. PICK h :
        /\ h[0] = <<>> /\ Flatten(q) = h[m]
        /\ \A k \in 0 .. m : h[k] \in Seq(M)
        /\ \A k \in 1 .. m : h[k] = h[k - 1] \o q[k]
  BY FlattenRun
<1> HIDE DEF m
<1> DEFINE Upto(k) == UNION {ToSet(q[i]) : i \in 1 .. k}
           T == {k \in 0 .. m : ToSet(h[k]) = Upto(k)}
<1>3. 0 \in T
  <2>1. ToSet(h[0]) = {}
    BY <1>2 DEF ToSet
  <2>2. Upto(0) = {} /\ 0 \in 0 .. m
    BY <1>1
  <2> HIDE DEF Upto
  <2> QED BY <2>1, <2>2
<1>4. ASSUME NEW k \in 0 .. m - 1, k \in T PROVE k + 1 \in T
  <2>1. k \in 0 .. m /\ k + 1 \in 1 .. m /\ k + 1 \in 0 .. m /\ (k + 1) - 1 = k
    BY <1>1
  <2>2. h[k + 1] = h[k] \o q[k + 1] /\ h[k] \in Seq(M) /\ q[k + 1] \in Seq(M)
    BY <1>1, <1>2, <2>1
  <2>3. Upto(k + 1) = Upto(k) \cup ToSet(q[k + 1])
    <3>1. \A i : i \in 1 .. k + 1 <=> i \in 1 .. k \/ i = k + 1
      BY <2>1
    <3> QED BY <3>1
  <2>4. ToSet(h[k]) = Upto(k)
    BY <1>4
  <2>5. ToSet(h[k + 1]) = ToSet(h[k]) \cup ToSet(q[k + 1])
    BY <2>2, JoinedSet
  <2> HIDE DEF Upto
  <2> QED BY <2>1, <2>3, <2>4, <2>5
<1> HIDE DEF T
<1>5. \A k \in 0 .. m : k \in T
  BY <1>1, <1>3, <1>4, InductionUpTo
<1>6. m \in 0 .. m /\ m \in T
  BY <1>1, <1>5
<1>7. Upto(m) = UNION {ToSet(q[i]) : i \in DOMAIN q}
  BY <1>1
<1> HIDE DEF Upto
<1> QED BY <1>2, <1>6, <1>7 DEF T

\* InOrder lists a finite set of numbers, ascending.
LEMMA InOrderSorts ==
  ASSUME NEW A \in SUBSET Nat, IsFiniteSet(A)
  PROVE  /\ InOrder(A) \in Seq(A) /\ Len(InOrder(A)) = Cardinality(A)
         /\ ToSet(InOrder(A)) = A
         /\ \A j, k \in 1 .. Cardinality(A) : j < k => InOrder(A)[j] < InOrder(A)[k]
<1> DEFINE N == Cardinality(A)
           Below(x) == {y \in A : y < x}
           place == [x \in A |-> Cardinality(Below(x))]
<1>1. N \in Nat /\ \A x \in A : x \in Nat
  BY FS_CardinalityType
<1> HIDE DEF N
<1>2. \A x \in A : IsFiniteSet(Below(x)) /\ Cardinality(Below(x)) \in Nat
  <2> SUFFICES ASSUME NEW x \in A PROVE IsFiniteSet(Below(x)) /\ Cardinality(Below(x)) \in Nat
    OBVIOUS
  <2>1. Below(x) \in SUBSET A
    OBVIOUS
  <2> QED BY <2>1, FS_Subset, FS_CardinalityType
<1>3. ASSUME NEW x \in A, NEW y \in A, y < x PROVE place[y] < place[x]
  <2>1. Below(y) \in SUBSET Below(x)
    <3> SUFFICES ASSUME NEW z \in Below(y) PROVE z \in Below(x)
      OBVIOUS
    <3>1. z \in Nat /\ y \in Nat /\ x \in Nat /\ z < y
      BY <1>1
    <3> QED BY <1>3, <3>1
  <2>2. y \in Below(x) /\ y \notin Below(y)
    BY <1>1, <1>3
  <2> HIDE DEF Below
  <2>3. Cardinality(Below(y)) <= Cardinality(Below(x)) /\ Cardinality(Below(y)) # Cardinality(Below(x))
    BY <1>2, <2>1, <2>2, FS_Subset
  <2> QED BY <1>2, <2>3
<1>4. ASSUME NEW x \in A PROVE place[x] \in 0 .. N - 1
  <2>1. Below(x) \in SUBSET A /\ x \notin Below(x)
    BY <1>1
  <2> HIDE DEF Below
  <2>2. Cardinality(Below(x)) <= N /\ Cardinality(Below(x)) # N
    BY <2>1, FS_Subset DEF N
  <2> QED BY <1>1, <1>2, <2>2
<1> HIDE DEF place
<1>5. place \in Injection(A, 0 .. N - 1)
  <2>1. place \in [A -> 0 .. N - 1]
    BY <1>4 DEF place
  <2>2. ASSUME NEW x \in A, NEW y \in A, place[x] = place[y] PROVE x = y
    <3>1. place[x] \in Int /\ place[y] \in Int
      BY <1>1, <1>4
    <3>2. ~(x < y) /\ ~(y < x)
      BY <1>3, <2>2, <3>1
    <3> QED BY <1>1, <3>2
  <2> QED BY <2>1, <2>2 DEF Injection, IsInjective
<1>6. IsFiniteSet(0 .. N - 1) /\ Cardinality(0 .. N - 1) = N
  <2>1. 0 \in Int /\ N - 1 \in Int
    BY <1>1
  <2>2. /\ IsFiniteSet(0 .. N - 1)
        /\ Cardinality(0 .. N - 1) = IF 0 > N - 1 THEN 0 ELSE (N - 1) - 0 + 1
    BY <2>1, FS_Interval
  <2> QED BY <1>1, <2>2
<1>7. \A r \in 0 .. N - 1 : \E x \in A : place[x] = r
  <2>1. place \in Surjection(A, 0 .. N - 1)
    BY <1>5, <1>6, FS_Injection DEF N
  <2> QED BY <2>1 DEF Surjection
<1> DEFINE q == [k \in 1 .. N |-> CHOOSE x \in A : Cardinality(Below(x)) = k - 1]
<1>8. InOrder(A) = q
  BY DEF InOrder, N
<1>9. ASSUME NEW k \in 1 .. N PROVE q[k] \in A /\ place[q[k]] = k - 1
  <2>1. k - 1 \in 0 .. N - 1
    BY <1>1
  <2>2. \A x \in A : place[x] = Cardinality(Below(x))
    BY DEF place
  <2> HIDE DEF Below
  <2>3. \E x \in A : Cardinality(Below(x)) = k - 1
    BY <1>7, <2>1, <2>2
  <2>4. q[k] = CHOOSE x \in A : Cardinality(Below(x)) = k - 1
    OBVIOUS
  <2>5. q[k] \in A /\ Cardinality(Below(q[k])) = k - 1
    BY <2>3, <2>4
  <2> QED BY <2>2, <2>5
<1>10. DOMAIN q = 1 .. N /\ Len(q) = N /\ q \in Seq(A)
  <2>1. q \in [1 .. N -> A]
    <3>1. q = [k \in 1 .. N |-> q[k]]
      OBVIOUS
    <3> HIDE DEF q
    <3> QED BY <1>9, <3>1
  <2>2. DOMAIN q = 1 .. N
    OBVIOUS
  <2> HIDE DEF q
  <2>3. q \in Seq(A)
    BY <1>1, <2>1
  <2> QED BY <1>1, <2>2, <2>3
<1> HIDE DEF q
<1>11. ASSUME NEW x \in A PROVE x \in ToSet(q)
  <2>1. place[x] + 1 \in 1 .. N /\ (place[x] + 1) - 1 = place[x]
    BY <1>1, <1>4
  <2>2. q[place[x] + 1] \in A /\ place[q[place[x] + 1]] = place[x]
    BY <1>9, <2>1
  <2>3. q[place[x] + 1] = x
    BY <1>5, <2>2 DEF Injection, IsInjective
  <2> QED BY <1>10, <2>1, <2>3 DEF ToSet
<1>12. ToSet(q) = A
  <2>1. \A x \in ToSet(q) : x \in A
    BY <1>9, <1>10 DEF ToSet
  <2> QED BY <1>11, <2>1
<1>13. ASSUME NEW j \in 1 .. N, NEW k \in 1 .. N, j < k PROVE q[j] < q[k]
  <2>1. q[j] \in A /\ q[k] \in A /\ place[q[j]] = j - 1 /\ place[q[k]] = k - 1
    BY <1>9
  <2>2. q[j] # q[k]
    BY <1>1, <1>13, <2>1
  <2>3. ~(q[k] < q[j])
    <3> SUFFICES ASSUME q[k] < q[j] PROVE FALSE
      OBVIOUS
    <3>1. place[q[k]] < place[q[j]]
      BY <1>3, <2>1
    <3> QED BY <1>1, <1>13, <2>1, <3>1
  <2>4. q[j] \in Nat /\ q[k] \in Nat
    BY <1>1, <2>1
  <2> QED BY <2>2, <2>3, <2>4
<1> QED BY <1>8, <1>10, <1>12, <1>13 DEF N

\* A non-empty set of naturals that is finite has a greatest element.
LEMMA GreatestNat ==
  ASSUME NEW A \in SUBSET Nat, IsFiniteSet(A), A # {}
  PROVE  \E x \in A : \A y \in A : y <= x
<1> DEFINE q == InOrder(A)
           m == Cardinality(A)
<1>1. q \in Seq(A) /\ Len(q) = m /\ ToSet(q) = A /\ \A j, k \in 1 .. m : j < k => q[j] < q[k]
  BY InOrderSorts
<1>2. m \in Nat
  BY FS_CardinalityType
<1> HIDE DEF q, m
<1>3. DOMAIN q = 1 .. m /\ \A k \in 1 .. m : q[k] \in A /\ q[k] \in Nat
  <2>1. DOMAIN q = 1 .. m /\ \A k \in 1 .. m : q[k] \in A
    BY <1>1, <1>2
  <2>2. \A x \in A : x \in Nat
    OBVIOUS
  <2> QED BY <2>1, <2>2
<1>4. m > 0
  BY <1>1, <1>2, <1>3 DEF ToSet
<1>5. m \in 1 .. m
  BY <1>2, <1>4
<1>6. ASSUME NEW y \in A PROVE y <= q[m]
  <2>1. PICK k \in 1 .. m : q[k] = y
    BY <1>1, <1>3 DEF ToSet
  <2>2. k = m \/ k < m
    BY <1>2
  <2> QED BY <1>1, <1>3, <1>5, <2>1, <2>2
<1> QED BY <1>3, <1>5, <1>6

\* So Latest is defined, and is the last.
LEMMA LatestIsLast ==
  ASSUME NEW A \in SUBSET Nat, IsFiniteSet(A), A # {}
  PROVE  Latest(A) \in A /\ \A y \in A : y <= Latest(A)
  BY GreatestNat DEF Latest

\* The stamps of the elements of a sequence: finite, and not none.
LEMMA ImageOfSeq ==
  ASSUME NEW M, NEW q \in Seq(M), NEW f \in [M -> Nat], Len(q) > 0
  PROVE  LET A == {f[q[i]] : i \in DOMAIN q}
         IN  A \in SUBSET Nat /\ IsFiniteSet(A) /\ A # {}
<1> DEFINE m == Len(q)
           A == {f[q[i]] : i \in DOMAIN q}
           g == [i \in 1 .. m |-> f[q[i]]]
<1>1. m \in Nat /\ m > 0 /\ DOMAIN q = 1 .. m /\ \A i \in 1 .. m : q[i] \in M
  OBVIOUS
<1>2. IsFiniteSet(1 .. m)
  BY <1>1, FS_Interval
<1>3. A \in SUBSET Nat
  BY <1>1
<1>4. 1 \in DOMAIN q
  BY <1>1
<1>5. A # {}
  BY <1>4
<1>6. g \in Surjection(1 .. m, A)
  BY <1>1 DEF Surjection
<1>7. IsFiniteSet(A)
  <2> HIDE DEF A, g, m
  <2> QED BY <1>2, <1>6, FS_Surjection
<1> QED BY <1>3, <1>5, <1>7

\* FirstMost is a member of highest confidence.
LEMMA FirstMostIsBest ==
  ASSUME NEW M, NEW q \in Seq(M), Len(q) > 0, \A i \in M : records[i].confidence \in Nat
  PROVE  /\ FirstMost(q) \in ToSet(q)
         /\ \A j \in ToSet(q) : records[j].confidence <= records[FirstMost(q)].confidence
<1> DEFINE m == Len(q)
           C(i) == records[i].confidence
<1>1. m \in Nat /\ m > 0 /\ DOMAIN q = 1 .. m /\ \A k \in 1 .. m : q[k] \in M
  OBVIOUS
<1>2. PICK h :
        /\ h[0] = q[1] /\ FirstMost(q) = h[m]
        /\ \A k \in 0 .. m : h[k] \in M
        /\ \A k \in 1 .. m : h[k] = IF C(q[k]) > C(h[k - 1]) THEN q[k] ELSE h[k - 1]
  BY FirstMostRun
<1>3. \A i \in M : C(i) \in Nat
  OBVIOUS
<1> HIDE DEF m, C
<1> DEFINE T == {k \in 0 .. m : h[k] \in ToSet(q) /\ \A i \in 1 .. k : C(q[i]) <= C(h[k])}
<1>4. 0 \in T
  <2>1. 1 \in DOMAIN q /\ 0 \in 0 .. m /\ 1 .. 0 = {}
    BY <1>1
  <2> QED BY <1>2, <2>1 DEF ToSet
<1>5. ASSUME NEW k \in 0 .. m - 1, k \in T PROVE k + 1 \in T
  <2>1. k \in 0 .. m /\ k + 1 \in 1 .. m /\ k + 1 \in 0 .. m /\ (k + 1) - 1 = k
    BY <1>1
  <2>2. /\ h[k + 1] = IF C(q[k + 1]) > C(h[k]) THEN q[k + 1] ELSE h[k]
        /\ C(q[k + 1]) \in Nat /\ C(h[k]) \in Nat /\ q[k + 1] \in ToSet(q)
    BY <1>1, <1>2, <1>3, <2>1 DEF ToSet
  <2>3. \A i \in 1 .. k + 1 : i \in 1 .. k \/ i = k + 1
    BY <2>1
  <2>4. \A i \in 1 .. k : C(q[i]) \in Nat
    <3>1. \A i \in 1 .. k : i \in 1 .. m
      BY <1>1, <2>1
    <3> QED BY <1>1, <1>3, <3>1
  <2>5. h[k] \in ToSet(q) /\ \A i \in 1 .. k : C(q[i]) <= C(h[k])
    BY <1>5
  <2>6. h[k + 1] \in ToSet(q)
    BY <2>2, <2>5
  <2>7. C(h[k]) <= C(h[k + 1]) /\ C(q[k + 1]) <= C(h[k + 1]) /\ C(h[k + 1]) \in Nat
    BY <2>2
  <2>8. ASSUME NEW i \in 1 .. k + 1 PROVE C(q[i]) <= C(h[k + 1])
    <3>1. CASE i = k + 1
      BY <2>7, <3>1
    <3>2. CASE i \in 1 .. k
      BY <2>2, <2>4, <2>5, <2>7, <3>2
    <3> QED BY <2>3, <3>1, <3>2
  <2> QED BY <2>1, <2>6, <2>8
<1> HIDE DEF T
<1>6. \A k \in 0 .. m : k \in T
  BY <1>1, <1>4, <1>5, InductionUpTo
<1>7. m \in 0 .. m /\ m \in T
  BY <1>1, <1>6
<1>8. h[m] \in ToSet(q) /\ \A j \in ToSet(q) : C(j) <= C(h[m])
  BY <1>1, <1>7 DEF T, ToSet
<1> QED BY <1>2, <1>8 DEF C

\* BetterPeer is a strict total order on the peers.
Comparable(r, P) ==
  \A j \in P : /\ j \in Nat \ {0}
               /\ records[j].confidence \in Nat /\ weights[PairOf(r, j)] \in Int

\* Of two peers one is better, and better peers of better ones are better.
LEMMA BetterPeerOrders ==
  ASSUME NEW r, NEW P, Comparable(r, P), NEW i \in P, NEW j \in P, NEW k \in P
  PROVE  /\ i # j => BetterPeer(r, i, j) \/ BetterPeer(r, j, i)
         /\ BetterPeer(r, i, j) /\ BetterPeer(r, j, k) => BetterPeer(r, i, k)
         /\ ~BetterPeer(r, i, i)
<1> DEFINE C(x) == records[x].confidence
           W(x) == weights[PairOf(r, x)]
<1>1. \A x \in P : x \in Nat /\ C(x) \in Nat /\ W(x) \in Int
  BY DEF Comparable
<1>2. \A x, y : BetterPeer(r, x, y) <=> C(x) > C(y) \/ (C(x) = C(y) /\ W(x) > W(y))
                                          \/ (C(x) = C(y) /\ W(x) = W(y) /\ x < y)
  BY DEF BetterPeer
<1> HIDE DEF C, W
<1> QED BY <1>1, <1>2

\* A listing of a finite set has its elements, each once.
LEMMA ListingOf ==
  ASSUME NEW P, IsFiniteSet(P), NEW q \in SetToSeqs(P)
  PROVE  q \in Seq(P) /\ Len(q) = Cardinality(P) /\ ToSet(q) = P
<1> DEFINE m == Cardinality(P)
<1>1. m \in Nat /\ q \in [1 .. m -> P] /\ \A i, j \in 1 .. m : i # j => q[i] # q[j]
  BY FS_CardinalityType DEF SetToSeqs
<1> HIDE DEF m
<1>2. q \in Seq(P) /\ Len(q) = m /\ DOMAIN q = 1 .. m
  BY <1>1
<1>3. q \in Injection(1 .. m, P)
  BY <1>1 DEF Injection, IsInjective
<1>4. Cardinality(1 .. m) = m
  BY <1>1, FS_Interval
<1>5. q \in Surjection(1 .. m, P)
  BY <1>3, <1>4, FS_Injection DEF m
<1>6. \A x \in P : \E i \in 1 .. m : q[i] = x
  BY <1>5 DEF Surjection
<1>7. ToSet(q) = P
  BY <1>1, <1>2, <1>6 DEF ToSet
<1> QED BY <1>2, <1>7 DEF m

\* pick_best_medium_peer finds the best peer, in whatever order they come.
LEMMA PickIsBest ==
  ASSUME NEW r, NEW P, IsFiniteSet(P), Comparable(r, P), NEW q \in SetToSeqs(P)
  PROVE  IF P = {} THEN PickBestMediumPeer(r, q) = 0
         ELSE /\ PickBestMediumPeer(r, q) \in P
              /\ \A k \in P \ {PickBestMediumPeer(r, q)} :
                   BetterPeer(r, PickBestMediumPeer(r, q), k)
<1> DEFINE m == Len(q)
           B(i, j) == BetterPeer(r, i, j)
<1>1. /\ m \in Nat /\ DOMAIN q = 1 .. m /\ ToSet(q) = P /\ q \in Seq(P)
      /\ \A k \in 1 .. m : q[k] \in P
  BY ListingOf, FS_CardinalityType
<1>2. PICK h :
        /\ h[0] = 0 /\ PickBestMediumPeer(r, q) = h[m]
        /\ \A k \in 0 .. m : h[k] \in P \cup {0}
        /\ \A k \in 1 .. m : h[k] = IF h[k - 1] = 0 \/ B(q[k], h[k - 1]) THEN q[k] ELSE h[k - 1]
  BY <1>1, PickRun
<1>3. 0 \notin P
  BY DEF Comparable
<1>4. /\ \A i, j \in P : i # j => B(i, j) \/ B(j, i)
      /\ \A i, j, k \in P : B(i, j) /\ B(j, k) => B(i, k)
  BY BetterPeerOrders
<1> HIDE DEF m, B
<1> DEFINE T == {k \in 0 .. m :
                   k > 0 => h[k] \in P /\ \A i \in 1 .. k : q[i] = h[k] \/ B(h[k], q[i])}
<1>5. 0 \in T
  BY <1>1
<1>6. ASSUME NEW k \in 0 .. m - 1, k \in T PROVE k + 1 \in T
  <2>1. k \in 0 .. m /\ k + 1 \in 1 .. m /\ k + 1 \in 0 .. m /\ (k + 1) - 1 = k
    BY <1>1
  <2>2. /\ h[k + 1] = IF h[k] = 0 \/ B(q[k + 1], h[k]) THEN q[k + 1] ELSE h[k]
        /\ q[k + 1] \in P
    BY <1>1, <1>2, <2>1
  <2>3. \A i \in 1 .. k + 1 : i \in 1 .. k \/ i = k + 1
    BY <2>1
  <2>4. \A i \in 1 .. k : q[i] \in P
    <3>1. \A i \in 1 .. k : i \in 1 .. m
      BY <1>1, <2>1
    <3> QED BY <1>1, <3>1
  <2>5. CASE k = 0
    <3>1. h[k + 1] = q[k + 1]
      BY <1>2, <2>2, <2>5
    <3>2. \A i \in 1 .. k + 1 : i = k + 1
      BY <2>5
    <3> QED BY <2>1, <2>2, <3>1, <3>2
  <2>6. CASE k > 0
    <3>1. h[k] \in P /\ \A i \in 1 .. k : q[i] = h[k] \/ B(h[k], q[i])
      BY <1>6, <2>6
    <3>2. CASE B(q[k + 1], h[k])
      <4>1. h[k + 1] = q[k + 1]
        BY <2>2, <3>2
      <4>2. \A i \in 1 .. k : B(h[k + 1], q[i])
        BY <1>4, <2>2, <2>4, <3>1, <3>2, <4>1
      <4> QED BY <2>1, <2>2, <2>3, <4>1, <4>2
    <3>3. CASE ~B(q[k + 1], h[k])
      <4>1. h[k + 1] = h[k]
        BY <1>3, <2>2, <3>1, <3>3
      <4>2. q[k + 1] = h[k] \/ B(h[k], q[k + 1])
        BY <1>4, <2>2, <3>1, <3>3
      <4> QED BY <2>1, <2>3, <3>1, <4>1, <4>2
    <3> QED BY <3>2, <3>3
  <2> QED BY <2>1, <2>5, <2>6
<1> HIDE DEF T
<1>7. \A k \in 0 .. m : k \in T
  BY <1>1, <1>5, <1>6, InductionUpTo
<1>8. m \in 0 .. m /\ m \in T
  BY <1>1, <1>7
<1>9. CASE P = {}
  <2>1. m = 0
    <3> SUFFICES ASSUME m > 0 PROVE FALSE
      BY <1>1
    <3>1. 1 \in 1 .. m
      BY <1>1
    <3> QED BY <1>1, <1>9, <3>1
  <2> QED BY <1>2, <1>9, <2>1
<1>10. CASE P # {}
  <2>1. m > 0
    BY <1>1, <1>10 DEF ToSet
  <2>2. h[m] \in P /\ \A i \in 1 .. m : q[i] = h[m] \/ B(h[m], q[i])
    BY <1>8, <2>1 DEF T
  <2>3. \A k \in P : k = h[m] \/ B(h[m], k)
    BY <1>1, <2>2 DEF ToSet
  <2> QED BY <1>2, <1>10, <2>2, <2>3 DEF B
<1> QED BY <1>9, <1>10

\* The addresses of the entries so far.
Addrs(alts) == [k \in DOMAIN alts |-> alts[k].address]

\* They are addresses of records, as many as the entries.
LEMMA AddrsOf ==
  ASSUME NEW M, NEW alts \in Seq(Entries(M))
  PROVE  /\ Len(Addrs(alts)) = Len(alts) /\ DOMAIN Addrs(alts) = 1 .. Len(alts)
         /\ Addrs(alts) \in Seq({records[i].mgmt_ip : i \in M})
         /\ ToSet(Addrs(alts)) = {alts[k].address : k \in DOMAIN alts}
<1> DEFINE m == Len(alts)
           A == {records[i].mgmt_ip : i \in M}
           a == Addrs(alts)
<1>1. m \in Nat /\ DOMAIN alts = 1 .. m /\ \A k \in 1 .. m : alts[k] \in Entries(M)
  OBVIOUS
<1>2. \A e \in Entries(M) : e.address \in A
  BY DEF Entries, AltOf
<1> HIDE DEF m, A
<1>3. a = [k \in 1 .. m |-> alts[k].address]
  BY <1>1 DEF Addrs
<1> HIDE DEF a
<1>4. a \in [1 .. m -> A]
  BY <1>1, <1>2, <1>3
<1>5. a \in Seq(A) /\ Len(a) = m /\ DOMAIN a = 1 .. m
  BY <1>1, <1>4
<1>6. ToSet(a) = {alts[k].address : k \in DOMAIN alts}
  BY <1>1, <1>3, <1>5 DEF ToSet
<1> QED BY <1>5, <1>6 DEF m, A, a

\* One more entry is one more address.
LEMMA AddrsAppend ==
  ASSUME NEW M, NEW alts \in Seq(Entries(M)), NEW i \in M
  PROVE  Addrs(Append(alts, AltOf(i))) = Append(Addrs(alts), records[i].mgmt_ip)
<1> DEFINE e == AltOf(i)
           m == Len(alts)
           b == Append(alts, e)
           A == {records[j].mgmt_ip : j \in M}
<1>1. e \in Entries(M) /\ e.address = records[i].mgmt_ip /\ records[i].mgmt_ip \in A
  BY DEF Entries, AltOf
<1> HIDE DEF e
<1>2. /\ m \in Nat /\ DOMAIN alts = 1 .. m /\ DOMAIN b = 1 .. m + 1
      /\ b[m + 1] = e /\ \A k \in 1 .. m : b[k] = alts[k]
  BY <1>1
<1>3. Len(Addrs(alts)) = m /\ DOMAIN Addrs(alts) = 1 .. m /\ Addrs(alts) \in Seq(A)
  BY AddrsOf
<1>4. \A k \in 1 .. m : Addrs(alts)[k] = alts[k].address
  BY <1>2 DEF Addrs
<1> HIDE DEF m, b, A
<1>5. Addrs(b) = [k \in 1 .. m + 1 |-> b[k].address]
  BY <1>2 DEF Addrs
<1> DEFINE x == records[i].mgmt_ip
           a == Addrs(alts)
           d == Append(a, x)
<1> HIDE DEF x
<1>6. d = [k \in 1 .. m + 1 |-> IF k = m + 1 THEN x ELSE a[k]]
  <2>1. x \in A
    BY <1>1 DEF x
  <2>2. Len(a) = m /\ a \in Seq(A)
    BY <1>3
  <2> HIDE DEF a
  <2>3. d \in Seq(A) /\ Len(d) = m + 1
    BY <2>1, <2>2
  <2>4. \A k \in 1 .. m + 1 : d[k] = IF k = m + 1 THEN x ELSE a[k]
    BY <1>2, <2>1, <2>2
  <2> HIDE DEF d
  <2>5. DOMAIN d = 1 .. m + 1
    BY <2>3
  <2>6. d = [k \in DOMAIN d |-> d[k]]
    BY <2>3
  <2> QED BY <2>4, <2>5, <2>6
<1>7. \A k \in 1 .. m + 1 : k = m + 1 \/ k \in 1 .. m
  BY <1>2
<1>8. \A k \in 1 .. m + 1 : b[k].address = IF k = m + 1 THEN x ELSE Addrs(alts)[k]
  BY <1>1, <1>2, <1>4, <1>7 DEF x
<1> QED BY <1>5, <1>6, <1>8 DEF b, e, x

\* alt_ips has an entry for each address of the group but its own, and no
\* address twice.
LEMMA AltIpsCover ==
  ASSUME NEW M, NEW q \in Seq(M), Len(q) > 0
  PROVE  LET addresses == {records[i].mgmt_ip : i \in ToSet(q)}
             first == records[q[1]].mgmt_ip
             alts == AltIps(q)
         IN  /\ {alts[k].address : k \in DOMAIN alts} = addresses \ {first}
             /\ Len(alts) = Cardinality(addresses) - 1
<1> DEFINE t == Tail(q)
           m == Len(t)
           Ip(i) == records[i].mgmt_ip
           A == {Ip(i) : i \in M}
           first == Ip(q[1])
<1>1. /\ t \in Seq(M) /\ m \in Nat /\ Len(q) = m + 1 /\ DOMAIN t = 1 .. m /\ DOMAIN q = 1 .. m + 1
      /\ \A k \in 1 .. m : t[k] = q[k + 1] /\ t[k] \in M
      /\ q[1] \in M
  OBVIOUS
<1>2. PICK h :
        /\ h[0] = <<>> /\ AltIps(q) = h[m]
        /\ \A k \in 0 .. m : h[k] \in Seq(Entries(M))
        /\ \A k \in 1 .. m : h[k] = IF Listed(q, h[k - 1], t[k]) THEN h[k - 1]
                                    ELSE Append(h[k - 1], AltOf(t[k]))
  BY <1>1, AltIpsRun
<1>3. \A k \in 0 .. m : /\ Addrs(h[k]) \in Seq(A) /\ Len(Addrs(h[k])) = Len(h[k])
                        /\ ToSet(Addrs(h[k])) = {h[k][j].address : j \in DOMAIN h[k]}
  BY <1>2, AddrsOf
<1>4. \A k \in 0 .. m : \A i : Listed(q, h[k], i) <=> Ip(i) \in {first} \cup ToSet(Addrs(h[k]))
  BY <1>3, Zenon DEF Listed, SeenFirst
<1>5. \A i \in M : Ip(i) \in A
  OBVIOUS
<1>6. \A k \in 0 .. m : \A i \in M : Addrs(Append(h[k], AltOf(i))) = Append(Addrs(h[k]), Ip(i))
  BY <1>2, AddrsAppend
<1> DEFINE g == [k \in 0 .. m |-> Addrs(h[k])]
<1>7. /\ g[0] = <<>> /\ \A k \in 0 .. m : g[k] \in Seq(A)
      /\ \A k \in 1 .. m : g[k] = IF Ip(t[k]) \in {first} \cup ToSet(g[k - 1]) THEN g[k - 1]
                                  ELSE Append(g[k - 1], Ip(t[k]))
  <2>1. 0 \in 0 .. m /\ \A k \in 1 .. m : k \in 0 .. m /\ k - 1 \in 0 .. m
    BY <1>1
  <2>2. g[0] = <<>>
    BY <1>2, <2>1 DEF Addrs
  <2>3. \A k \in 0 .. m : g[k] \in Seq(A)
    BY <1>3
  <2>4. ASSUME NEW k \in 1 .. m
        PROVE  g[k] = IF Ip(t[k]) \in {first} \cup ToSet(g[k - 1]) THEN g[k - 1]
                      ELSE Append(g[k - 1], Ip(t[k]))
    <3>1. g[k] = Addrs(h[k]) /\ g[k - 1] = Addrs(h[k - 1]) /\ t[k] \in M
      BY <1>1, <2>1
    <3>2. Listed(q, h[k - 1], t[k]) <=> Ip(t[k]) \in {first} \cup ToSet(g[k - 1])
      BY <1>4, <2>1, <3>1
    <3>3. Addrs(Append(h[k - 1], AltOf(t[k]))) = Append(g[k - 1], Ip(t[k]))
      BY <1>6, <2>1, <3>1
    <3> HIDE DEF g, Ip, first, t
    <3> QED BY <1>2, <3>1, <3>2, <3>3
  <2> QED BY <2>2, <2>3, <2>4
<1>8. g[m] = Addrs(AltIps(q))
  BY <1>1, <1>2
<1> HIDE DEF g, m, t, Ip, A, first
<1> DEFINE Upto(k) == {Ip(t[i]) : i \in 1 .. k} \ {first}
           T == {k \in 0 .. m : ToSet(g[k]) = Upto(k) /\ Distinct(g[k])}
<1>9. 0 \in T
  <2>1. ToSet(g[0]) = {} /\ Distinct(g[0])
    BY <1>7 DEF ToSet, Distinct
  <2>2. Upto(0) = {} /\ 0 \in 0 .. m
    BY <1>1
  <2> HIDE DEF Upto
  <2> QED BY <2>1, <2>2
<1>10. ASSUME NEW k \in 0 .. m - 1, k \in T PROVE k + 1 \in T
  <2>1. k \in 0 .. m /\ k + 1 \in 1 .. m /\ k + 1 \in 0 .. m /\ (k + 1) - 1 = k
    BY <1>1
  <2> DEFINE x == Ip(t[k + 1])
  <2>2. /\ g[k + 1] = IF x \in {first} \cup ToSet(g[k]) THEN g[k] ELSE Append(g[k], x)
        /\ g[k] \in Seq(A) /\ x \in A
    BY <1>1, <1>5, <1>7, <2>1
  <2>3. Upto(k + 1) = Upto(k) \cup ({x} \ {first})
    <3>1. \A i : i \in 1 .. k + 1 <=> i \in 1 .. k \/ i = k + 1
      BY <2>1
    <3> QED BY <3>1
  <2>4. ToSet(g[k]) = Upto(k) /\ Distinct(g[k])
    BY <1>10
  <2> HIDE DEF Upto, x
  <2>5. CASE x \in {first} \cup ToSet(g[k])
    BY <2>1, <2>2, <2>3, <2>4, <2>5
  <2>6. CASE x \notin {first} \cup ToSet(g[k])
    <3>1. g[k + 1] = Append(g[k], x)
      BY <2>2, <2>6
    <3>2. ToSet(g[k + 1]) = ToSet(g[k]) \cup {x}
      BY <2>2, <3>1, AppendedSet
    <3>3. Distinct(g[k + 1])
      BY <2>2, <2>4, <2>6, <3>1, AppendDistinct
    <3> QED BY <2>1, <2>3, <2>4, <2>6, <3>2, <3>3
  <2> QED BY <2>5, <2>6
<1> HIDE DEF T
<1>11. \A k \in 0 .. m : k \in T
  BY <1>1, <1>9, <1>10, InductionUpTo
<1>12. m \in 0 .. m /\ m \in T
  BY <1>1, <1>11
<1>13. ToSet(g[m]) = Upto(m) /\ Distinct(g[m]) /\ g[m] \in Seq(A)
  BY <1>7, <1>12 DEF T
<1> DEFINE addresses == {Ip(i) : i \in ToSet(q)}
<1>14. Upto(m) = addresses \ {first} /\ first \in addresses
  <2>1. \A i \in 1 .. m : i + 1 \in 1 .. m + 1 /\ t[i] = q[i + 1]
    BY <1>1
  <2>2. \A j \in 1 .. m + 1 : j = 1 \/ (j - 1 \in 1 .. m /\ q[j] = t[j - 1])
    <3> SUFFICES ASSUME NEW j \in 1 .. m + 1, j # 1 PROVE j - 1 \in 1 .. m /\ q[j] = t[j - 1]
      OBVIOUS
    <3>1. j - 1 \in 1 .. m /\ (j - 1) + 1 = j
      BY <1>1
    <3> QED BY <2>1, <3>1
  <2>3. ToSet(q) = {q[j] : j \in 1 .. m + 1} /\ 1 \in 1 .. m + 1
    BY <1>1 DEF ToSet
  <2>4. first = Ip(q[1])
    BY DEF first
  <2>5. first \in addresses
    BY <2>3, <2>4
  <2>6. ASSUME NEW x \in Upto(m) PROVE x \in addresses \ {first}
    <3>1. PICK i \in 1 .. m : x = Ip(t[i])
      OBVIOUS
    <3> QED BY <2>1, <2>3, <3>1
  <2>7. ASSUME NEW x \in addresses \ {first} PROVE x \in Upto(m)
    <3>1. PICK j \in 1 .. m + 1 : x = Ip(q[j])
      BY <2>3
    <3>2. j # 1
      BY <2>4, <3>1
    <3> QED BY <2>2, <3>1, <3>2
  <2> HIDE DEF Upto, addresses
  <2> QED BY <2>5, <2>6, <2>7
<1>15. IsFiniteSet(Upto(m)) /\ Cardinality(Upto(m)) = Len(g[m])
  BY <1>13, DistinctCount
<1> HIDE DEF Upto, addresses
<1>16. Len(g[m]) = Cardinality(addresses) - 1
  <2>1. addresses = Upto(m) \cup {first} /\ first \notin Upto(m)
    BY <1>14
  <2>2. Cardinality(addresses) = Cardinality(Upto(m)) + 1
    BY <1>15, <2>1, FS_AddElement
  <2>3. Cardinality(Upto(m)) \in Nat
    BY <1>15, FS_CardinalityType
  <2> QED BY <1>15, <2>2, <2>3
<1>17. Len(g[m]) = Len(AltIps(q)) /\ ToSet(g[m]) = {AltIps(q)[k].address : k \in DOMAIN AltIps(q)}
  <2>1. h[m] = AltIps(q)
    BY <1>2
  <2>2. Len(Addrs(h[m])) = Len(h[m]) /\ ToSet(Addrs(h[m])) = {h[m][j].address : j \in DOMAIN h[m]}
    BY <1>3, <1>12
  <2> QED BY <1>8, <2>1, <2>2, Zenon
<1> QED BY <1>13, <1>14, <1>16, <1>17 DEF addresses, first, Ip

-----------------------------------------------------------------------------
(* What a group and its peers become *)

\* A merged record lacks a MAC only when every member does.
LEMMA MacOfGroup ==
  ASSUME NEW M, NEW q \in Seq(M), NEW best \in ToSet(q)
  PROVE  FirstNonNone(q, best, LAMBDA r : r.mac) = NoValue
           <=> \A i \in ToSet(q) : records[i].mac = NoValue
<1> DEFINE has == {k \in DOMAIN q : records[q[k]].mac # NoValue}
           found == FirstNonNone(q, best, LAMBDA r : r.mac)
<1>1. found = CASE records[best].mac # NoValue -> records[best].mac
                [] records[best].mac = NoValue /\ has # {} -> records[q[Min(has)]].mac
                [] OTHER -> NoValue
  BY Zenon DEF FirstNonNone
<1>2. has # {} => Min(has) \in has
  <2> SUFFICES ASSUME has # {} PROVE Min(has) \in has
    OBVIOUS
  <2>1. has \in SUBSET Nat
    OBVIOUS
  <2>2. \E a \in has : \A b \in has : a <= b
    BY <2>1, LeastNat
  <2> HIDE DEF has
  <2> QED BY <2>2 DEF Min
<1>3. has # {} => records[q[Min(has)]].mac # NoValue
  BY <1>2
<1>4. (\A i \in ToSet(q) : records[i].mac = NoValue) <=> has = {}
  BY DEF ToSet
<1>5. records[best].mac # NoValue => has # {}
  BY <1>4
<1> HIDE DEF has, found
<1>6. CASE records[best].mac # NoValue
  BY <1>1, <1>4, <1>5, <1>6 DEF found
<1>7. CASE records[best].mac = NoValue /\ has # {}
  BY <1>1, <1>3, <1>4, <1>7 DEF found
<1>8. CASE records[best].mac = NoValue /\ has = {}
  BY <1>1, <1>4, <1>8 DEF found
<1> QED BY <1>6, <1>7, <1>8

\* The weight of a pair does not depend on the order of its records.
LEMMA AgreeSymmetric ==
  ASSUME NEW a, NEW b, NEW tag \in DOMAIN Weight, Agree(a, b, tag)
  PROVE  Agree(b, a, tag)
<1>1. tag \in {"Mac", "SnmpSysName", "SshHostKey", "TlsSubject", "TlsSanName",
               "ReverseDnsName"}
  BY DEF Weight
<1>2. CASE tag = "Mac"
  BY <1>2 DEF Agree, SameName, IsVirtualMac, HintSaysVirtual
<1>3. CASE tag \in {"SnmpSysName", "ReverseDnsName"}
  BY <1>3 DEF Agree, SameName
<1>4. CASE tag \in {"SshHostKey", "TlsSubject", "TlsSanName"}
  BY <1>4 DEF Agree
<1> QED BY <1>1, <1>2, <1>3, <1>4

\* So weights, which has one entry for a pair, serves both its records.
LEMMA WeightSymmetric ==
  ASSUME NEW a, NEW b
  PROVE  PairWeight(a, b) = PairWeight(b, a)
<1>1. {tag \in DOMAIN Weight : Agree(a, b, tag)} = {tag \in DOMAIN Weight : Agree(b, a, tag)}
  BY AgreeSymmetric
<1>2. DeclaredVrrpMembers(a, b) <=> DeclaredVrrpMembers(b, a)
  BY DEF DeclaredVrrpMembers
<1>3. /\ {a.manufacturer, b.manufacturer} = {b.manufacturer, a.manufacturer}
      /\ SameName(a.manufacturer, b.manufacturer) <=> SameName(b.manufacturer, a.manufacturer)
  BY DEF SameName
<1> QED BY <1>1, <1>2, <1>3, Zenon DEF PairWeight

\* When the components are read, they are what the pairs connect.
LEMMA GroupsConnected ==
  ASSUME UfTypeOK, ComponentsExact, uf = "ready", Len(comp) = n, NEW i \in Nodes
  PROVE  Members(i) = ConnectedTo(i)
<1>1. /\ n \in Nat \ {0} /\ comp \in [Nodes -> Nodes] /\ Nodes = 1 .. n
      /\ \A p \in high : p[1] \in Nodes /\ p[2] \in Nodes
  <2>1. n \in Nat \ {0} /\ comp \in Seq(Nodes) /\ Nodes = 1 .. n
    BY DEF UfTypeOK, Nodes
  <2>2. \A p \in high : p[1] \in Nodes /\ p[2] \in Nodes
    BY PairsInNodes DEF UfTypeOK
  <2>3. comp \in [1 .. n -> Nodes]
    BY <2>1
  <2> QED BY <2>1, <2>2, <2>3
<1>2. \A p \in high : comp[p[1]] = comp[p[2]]
  BY DEF ComponentsExact
<1>3. ASSUME NEW j \in Members(i) PROVE j \in ConnectedTo(i)
  <2>1. j \in Nodes /\ comp[j] = comp[i]
    BY DEF Members
  <2> SUFFICES ASSUME NEW S \in SUBSET Nodes, i \in S, \A p \in high : p[1] \in S <=> p[2] \in S
               PROVE  j \in S
    BY <2>1 DEF ConnectedTo
  <2> DEFINE label == [x \in Nodes |-> IF x \in S THEN 1 ELSE n]
  <2>2. 1 \in Nodes /\ n \in Nodes
    BY <1>1
  <2>3. \A x \in Nodes : label[x] = IF x \in S THEN 1 ELSE n
    OBVIOUS
  <2>4. label \in [Nodes -> Nodes]
    BY <2>2
  <2> HIDE DEF label
  <2>5. \A p \in high : label[p[1]] = label[p[2]]
    BY <1>1, <2>3
  <2>6. \A x \in Nodes : label[comp[x]] = label[x]
    BY <2>4, <2>5 DEF ComponentsExact
  <2>7. label[j] = label[comp[j]] /\ label[i] = label[comp[i]]
    BY <2>1, <2>6
  <2>8. label[j] = label[i]
    BY <2>1, <2>7
  <2>9. CASE n = 1
    BY <1>1, <2>1, <2>9
  <2>10. CASE n # 1
    BY <2>1, <2>3, <2>8, <2>10
  <2> QED BY <2>9, <2>10
<1>4. ASSUME NEW j \in ConnectedTo(i) PROVE j \in Members(i)
  <2>1. Members(i) \in SUBSET Nodes /\ i \in Members(i)
    BY DEF Members
  <2>2. \A p \in high : p[1] \in Members(i) <=> p[2] \in Members(i)
    BY <1>1, <1>2 DEF Members
  <2> QED BY <2>1, <2>2 DEF ConnectedTo
<1> QED BY <1>3, <1>4

\* What DirectFuser and MibEnrichmentFuser make of a target.
RecordOK(r) ==
  /\ {"mgmt_ip", "alt_ips", "confidence", "last_seen", "signals", "possible_alias_of"} \subseteq DOMAIN r
  /\ r.confidence \in Nat
  /\ r.last_seen \in Nat
  /\ r.signals \in Seq(ToSet(r.signals))
  /\ r.possible_alias_of = <<>>

\* The signals of the members, once each.
LEMMA SignalsOfGroup ==
  ASSUME NEW S, NEW q \in Seq(S), ToSet(q) = S, \A i \in S : RecordOK(records[i])
  PROVE  LET signals == Dedup(Flatten([k \in DOMAIN q |-> records[q[k]].signals]))
         IN  /\ ToSet(signals) = UNION {ToSet(records[i].signals) : i \in S}
             /\ Cardinality(ToSet(signals)) = Len(signals)
<1> DEFINE m == Len(q)
           M == UNION {ToSet(records[i].signals) : i \in S}
           lists == [k \in DOMAIN q |-> records[q[k]].signals]
<1>1. m \in Nat /\ DOMAIN q = 1 .. m /\ \A k \in 1 .. m : q[k] \in S
  OBVIOUS
<1>2. \A i \in S : records[i].signals \in Seq(ToSet(records[i].signals))
  BY DEF RecordOK
<1>3. ASSUME NEW i \in S PROVE records[i].signals \in Seq(M)
  <2>1. \A k \in DOMAIN records[i].signals : records[i].signals[k] \in M
    BY DEF ToSet
  <2> HIDE DEF M
  <2> QED BY <1>2, <2>1, SeqOfElements
<1> HIDE DEF M, m
<1>4. lists \in [1 .. m -> Seq(M)]
  BY <1>1, <1>3
<1>5. lists \in Seq(Seq(M)) /\ DOMAIN lists = 1 .. m
  BY <1>1, <1>4
<1>6. \A k \in 1 .. m : lists[k] = records[q[k]].signals
  BY <1>1
<1> HIDE DEF lists
<1> DEFINE flat == Flatten(lists)
           signals == Dedup(flat)
<1>7. flat \in Seq(M) /\ ToSet(flat) = UNION {ToSet(lists[k]) : k \in DOMAIN lists}
  BY <1>5, FlattenKeeps
<1>8. UNION {ToSet(lists[k]) : k \in DOMAIN lists} = M
  <2>1. \A i \in S : \E k \in 1 .. m : q[k] = i
    BY <1>1 DEF ToSet
  <2>2. \A k \in 1 .. m : q[k] \in S
    BY <1>1
  <2>3. ASSUME NEW k \in 1 .. m, NEW x \in ToSet(lists[k]) PROVE x \in M
    BY <1>6, <2>2 DEF M
  <2>4. ASSUME NEW i \in S, NEW x \in ToSet(records[i].signals)
        PROVE  \E k \in 1 .. m : x \in ToSet(lists[k])
    BY <1>6, <2>1
  <2> DEFINE U == UNION {ToSet(lists[k]) : k \in DOMAIN lists}
  <2>5. \A x \in U : x \in M
    BY <1>5, <2>3
  <2>6. ASSUME NEW x \in M PROVE x \in U
    <3>1. PICK i \in S : x \in ToSet(records[i].signals)
      BY DEF M
    <3> QED BY <1>5, <2>4, <3>1
  <2> HIDE DEF U
  <2>7. U = M
    BY <2>5, <2>6
  <2> QED BY <2>7 DEF U
<1> HIDE DEF flat
<1>9. signals \in Seq(M) /\ ToSet(signals) = ToSet(flat) /\ Distinct(signals)
  BY <1>7, DedupKeeps
<1> HIDE DEF signals
<1>10. Cardinality(ToSet(signals)) = Len(signals)
  BY <1>9, DistinctCount
<1> QED BY <1>7, <1>8, <1>9, <1>10 DEF signals, flat, lists, M

\* The last time the group was seen.
LEMMA LastSeenOfGroup ==
  ASSUME NEW S, IsFiniteSet(S), S # {}, \A i \in S : RecordOK(records[i])
  PROVE  /\ Latest({records[i].last_seen : i \in S}) \in Nat
         /\ \A i \in S : Latest({records[j].last_seen : j \in S}) >= records[i].last_seen
<1> DEFINE f == [i \in S |-> records[i].last_seen]
           A == {records[i].last_seen : i \in S}
<1>1. \A i \in S : records[i].last_seen \in Nat
  BY DEF RecordOK
<1>2. A \in SUBSET Nat /\ A # {}
  BY <1>1
<1>3. f \in Surjection(S, A)
  BY DEF Surjection
<1>4. IsFiniteSet(A)
  <2> HIDE DEF A, f
  <2> QED BY <1>3, FS_Surjection
<1>5. \A i \in S : records[i].last_seen \in A
  OBVIOUS
<1> HIDE DEF A
<1>6. Latest(A) \in A /\ \A y \in A : y <= Latest(A)
  BY <1>2, <1>4, LatestIsLast
<1>7. Latest(A) \in Nat
  BY <1>2, <1>6
<1>8. \A i \in S : Latest(A) >= records[i].last_seen
  BY <1>1, <1>5, <1>6, <1>7
<1> QED BY <1>7, <1>8 DEF A

\* merge_group as the documentation has it.
LEMMA MergeGroupRight ==
  ASSUME NEW S \in SUBSET Nat, IsFiniteSet(S), S # {}, \A i \in S : RecordOK(records[i])
  PROVE  MergedRight(MergeGroup(InOrder(S)), S)
<1> DEFINE q == InOrder(S)
           m == Cardinality(S)
           r == MergeGroup(q)
           b == FirstMost(q)
           best == {i \in S : \A j \in S : records[j].confidence <= records[i].confidence}
           first == CHOOSE i \in S : \A j \in S : i <= j
           addresses == {records[i].mgmt_ip : i \in S}
<1>1. q \in Seq(S) /\ Len(q) = m /\ ToSet(q) = S /\ \A j, k \in 1 .. m : j < k => q[j] < q[k]
  BY InOrderSorts
<1>2. m \in Nat /\ m # 0
  BY FS_CardinalityType, FS_EmptySet
<1>3. \A i \in S : records[i].confidence \in Nat
  BY DEF RecordOK
<1> HIDE DEF q, m
<1>4. /\ DOMAIN q = 1 .. m /\ 1 \in 1 .. m /\ Len(q) > 0
      /\ \A k \in 1 .. m : q[k] \in S /\ q[k] \in Nat
  <2>1. DOMAIN q = 1 .. m /\ 1 \in 1 .. m /\ Len(q) > 0 /\ \A k \in 1 .. m : q[k] \in S
    BY <1>1, <1>2
  <2>2. \A i \in S : i \in Nat
    OBVIOUS
  <2> QED BY <2>1, <2>2
<1>5. b \in S /\ \A j \in S : records[j].confidence <= records[b].confidence
  <2>1. /\ FirstMost(q) \in ToSet(q)
        /\ \A j \in ToSet(q) : records[j].confidence <= records[FirstMost(q)].confidence
    BY <1>1, <1>3, <1>4, FirstMostIsBest
  <2> QED BY <1>1, <2>1
<1> HIDE DEF b
<1>6. b \in best
  BY <1>5
<1>7. first = q[1]
  <2>1. q[1] \in S /\ \A j \in S : q[1] <= j
    <3> SUFFICES ASSUME NEW j \in S PROVE q[1] <= j
      BY <1>4
    <3>1. PICK k \in 1 .. m : q[k] = j
      BY <1>1, <1>4 DEF ToSet
    <3>2. k = 1 \/ 1 < k
      BY <1>2
    <3> QED BY <1>1, <1>4, <3>1, <3>2
  <2>2. ASSUME NEW i \in S, \A j \in S : i <= j PROVE i = q[1]
    <3>1. i \in Nat /\ q[1] \in Nat /\ i <= q[1] /\ q[1] <= i
      BY <1>4, <2>1, <2>2
    <3> QED BY <3>1
  <2> QED BY <2>1, <2>2
<1> HIDE DEF first
<1>8. /\ r.identity_key = records[b].identity_key
      /\ r.mgmt_ip = records[q[1]].mgmt_ip
      /\ r.mac = FirstNonNone(q, b, LAMBDA x : x.mac)
      /\ r.confidence = Bonus(records[b].confidence)
      /\ r.last_seen = Latest({records[i].last_seen : i \in ToSet(q)})
      /\ r.signals = Dedup(Flatten([k \in DOMAIN q |-> records[q[k]].signals]))
      /\ r.alt_ips = AltIps(q)
  BY Zenon DEF MergeGroup, b
<1> HIDE DEF r
<1>9. \E i \in best : r.identity_key = records[i].identity_key
  BY <1>6, <1>8
<1>10. r.mgmt_ip = records[first].mgmt_ip
  BY <1>7, <1>8
<1>11. /\ {r.alt_ips[k].address : k \in DOMAIN r.alt_ips} = addresses \ {r.mgmt_ip}
       /\ Len(r.alt_ips) = Cardinality(addresses) - 1
  <2>1. /\ {AltIps(q)[k].address : k \in DOMAIN AltIps(q)}
             = {records[i].mgmt_ip : i \in ToSet(q)} \ {records[q[1]].mgmt_ip}
        /\ Len(AltIps(q)) = Cardinality({records[i].mgmt_ip : i \in ToSet(q)}) - 1
    BY <1>1, <1>4, AltIpsCover
  <2>2. {records[i].mgmt_ip : i \in ToSet(q)} = addresses /\ r.alt_ips = AltIps(q)
    BY <1>1, <1>8
  <2>3. r.mgmt_ip = records[q[1]].mgmt_ip
    BY <1>8
  <2> HIDE DEF addresses
  <2> QED BY <2>1, <2>2, <2>3
<1>12. (r.mac = NoValue) <=> \A i \in S : records[i].mac = NoValue
  <2>1. b \in ToSet(q)
    BY <1>1, <1>5
  <2>2. FirstNonNone(q, b, LAMBDA x : x.mac) = NoValue
          <=> \A i \in ToSet(q) : records[i].mac = NoValue
    BY <1>1, <2>1, MacOfGroup
  <2> QED BY <1>1, <1>8, <2>2, Zenon
<1>13. r.confidence = AtMost10(records[CHOOSE i \in best : TRUE].confidence + 1)
  <2> DEFINE c == CHOOSE i \in best : TRUE
  <2>1. c \in best
    BY <1>6
  <2> HIDE DEF c
  <2>2. records[c].confidence = records[b].confidence
    BY <1>3, <1>6, <2>1
  <2> QED BY <1>8, <2>2 DEF Bonus, c
<1>14. \A i \in S : r.last_seen >= records[i].last_seen
  <2>1. r.last_seen = Latest({records[i].last_seen : i \in S})
    BY <1>1, <1>8, Zenon
  <2>2. \A i \in S : Latest({records[j].last_seen : j \in S}) >= records[i].last_seen
    BY LastSeenOfGroup, Zenon
  <2> QED BY <2>1, <2>2, Zenon
<1>15. /\ ToSet(r.signals) = UNION {ToSet(records[i].signals) : i \in S}
       /\ Cardinality(ToSet(r.signals)) = Len(r.signals)
  <2> DEFINE signals == Dedup(Flatten([k \in DOMAIN q |-> records[q[k]].signals]))
  <2>1. /\ ToSet(signals) = UNION {ToSet(records[i].signals) : i \in S}
        /\ Cardinality(ToSet(signals)) = Len(signals)
    BY <1>1, SignalsOfGroup
  <2>2. r.signals = signals
    BY <1>8
  <2> HIDE DEF signals
  <2> QED BY <2>1, <2>2
<1> QED BY <1>9, <1>10, <1>11, <1>12, <1>13, <1>14, <1>15, Zenon DEF MergedRight, q, r, first

\* The records under correlation, and their weights.
RecordsOK ==
  /\ n \in Nat \ {0}
  /\ DOMAIN records = Nodes
  /\ \A i \in Nodes : RecordOK(records[i])

\* The weight looked up for a peer is that of the two records.
LEMMA PeerWeight ==
  ASSUME RecordsOK, weights = PositiveWeights(records, Candidates(records)),
         NEW i \in Nodes, NEW j \in MediumPeers(i)
  PROVE  /\ j \in Nodes /\ weights[PairOf(i, j)] \in Int
         /\ weights[PairOf(i, j)] = PairWeight(records[i], records[j])
<1>1. /\ j \in Nodes /\ PairOf(i, j) \in DOMAIN weights
      /\ weights[PairOf(i, j)] \in MediumBand .. HighBand - 1
  BY DEF MediumPeers
<1>2. weights[PairOf(i, j)] \in Int
  BY <1>1 DEF MediumBand, HighBand
<1>3. \A p \in DOMAIN weights : weights[p] = PairWeight(records[p[1]], records[p[2]])
  BY DEF PositiveWeights
<1>4. CASE i < j
  <2>1. PairOf(i, j) = <<i, j>>
    BY <1>4 DEF PairOf
  <2> QED BY <1>1, <1>2, <1>3, <2>1
<1>5. CASE ~(i < j)
  <2>1. PairOf(i, j) = <<j, i>>
    BY <1>5 DEF PairOf
  <2>2. weights[PairOf(i, j)] = PairWeight(records[j], records[i])
    BY <1>1, <1>3, <2>1
  <2> QED BY <1>1, <1>2, <2>2, WeightSymmetric
<1> QED BY <1>4, <1>5

\* The peer the fuser picks is the only one the documentation allows.
LEMMA PeerDocumented ==
  ASSUME RecordsOK, weights = PositiveWeights(records, Candidates(records)),
         NEW i \in Nodes, NEW peers \in SetToSeqs(MediumPeers(i))
  PROVE  LET best == PickBestMediumPeer(i, peers)
         IN  IF MediumPeers(i) = {} THEN best = 0 /\ DocumentedPeer(i) = {}
             ELSE best # 0 /\ DocumentedPeer(i) = {best}
<1> DEFINE P == MediumPeers(i)
           best == PickBestMediumPeer(i, peers)
           C(j) == records[j].confidence
           W(j) == weights[PairOf(i, j)]
<1>1. P \subseteq Nodes /\ Nodes \subseteq Nat \ {0} /\ IsFiniteSet(Nodes)
  BY FS_Interval DEF RecordsOK, MediumPeers, Nodes
<1>2. IsFiniteSet(P)
  BY <1>1, FS_Subset
<1>3. \A j \in P : j \in Nat \ {0} /\ C(j) \in Nat /\ W(j) \in Int
  BY <1>1, PeerWeight DEF RecordsOK, RecordOK
<1>4. Comparable(i, P)
  BY <1>3 DEF Comparable
<1>5. IF P = {} THEN best = 0
      ELSE best \in P /\ \A k \in P \ {best} : BetterPeer(i, best, k)
  BY <1>2, <1>4, PickIsBest
<1>6. \A j \in P : W(j) = PairWeight(records[i], records[j])
  BY PeerWeight
<1>7. DocumentedPeer(i) = {j \in P : \A k \in P \ {j} : BetterPeer(i, j, k)}
  <2>1. ASSUME NEW j \in P, NEW k \in P
        PROVE  BetterPeer(i, j, k) <=>
                 LET cj == records[j].confidence
                     ck == records[k].confidence
                     wj == PairWeight(records[i], records[j])
                     wk == PairWeight(records[i], records[k])
                 IN  cj > ck \/ (cj = ck /\ (wj > wk \/ (wj = wk /\ j < k)))
    <3>1. W(j) = PairWeight(records[i], records[j]) /\ W(k) = PairWeight(records[i], records[k])
      BY <1>6
    <3> HIDE DEF P
    <3> QED BY <3>1, Zenon DEF BetterPeer
  <2> QED BY <2>1, Zenon DEF DocumentedPeer
<1> HIDE DEF P, best
<1>8. CASE P = {}
  BY <1>5, <1>7, <1>8 DEF P, best
<1>9. CASE P # {}
  <2>1. best \in P /\ best # 0 /\ \A k \in P \ {best} : BetterPeer(i, best, k)
    BY <1>3, <1>5, <1>9
  <2>2. ASSUME NEW j \in P, \A k \in P \ {j} : BetterPeer(i, j, k), j # best PROVE FALSE
    <3>1. BetterPeer(i, j, best) /\ BetterPeer(i, best, j)
      BY <2>1, <2>2
    <3>2. BetterPeer(i, j, j)
      BY <1>4, <2>1, <3>1, BetterPeerOrders
    <3> QED BY <1>4, <2>1, <3>2, BetterPeerOrders
  <2>3. DocumentedPeer(i) = {best}
    BY <1>7, <2>1, <2>2
  <2> QED BY <1>9, <2>1, <2>3 DEF P, best
<1> QED BY <1>8, <1>9

\* A record left alone names that peer.
LEMMA SingleRight ==
  ASSUME RecordsOK, weights = PositiveWeights(records, Candidates(records)),
         NEW i \in Nodes, NEW peers \in SetToSeqs(MediumPeers(i))
  PROVE  LET r == Single(i, peers)
         IN  /\ r.mgmt_ip = records[i].mgmt_ip
             /\ {r.possible_alias_of[k] : k \in DOMAIN r.possible_alias_of}
                  = {records[j].identity_key : j \in DocumentedPeer(i)}
<1> DEFINE best == PickBestMediumPeer(i, peers)
           a == records[i]
           r == Single(i, peers)
<1>1. {"mgmt_ip", "possible_alias_of"} \subseteq DOMAIN a /\ a.possible_alias_of = <<>>
  BY DEF RecordsOK, RecordOK
<1>2. IF MediumPeers(i) = {} THEN best = 0 /\ DocumentedPeer(i) = {}
      ELSE best # 0 /\ DocumentedPeer(i) = {best}
  BY PeerDocumented
<1>3. r = IF best = 0 THEN a ELSE [a EXCEPT !.possible_alias_of = <<records[best].identity_key>>]
  BY DEF Single
<1> HIDE DEF best, r, a
<1>4. CASE best = 0
  BY <1>1, <1>2, <1>3, <1>4 DEF r, a
<1>5. CASE best # 0
  <2> DEFINE key == records[best].identity_key
  <2>1. r.mgmt_ip = a.mgmt_ip /\ r.possible_alias_of = <<key>>
    BY <1>1, <1>3, <1>5
  <2>2. {r.possible_alias_of[k] : k \in DOMAIN r.possible_alias_of} = {key}
    BY <2>1
  <2>3. {records[j].identity_key : j \in DocumentedPeer(i)} = {key}
    BY <1>2, <1>5
  <2> QED BY <2>1, <2>2, <2>3 DEF r, a
<1> QED BY <1>4, <1>5

\* enrich touches none of it.
LEMMA EnrichedOK ==
  ASSUME NEW r, RecordOK(r)
  PROVE  RecordOK(Enrich(r))
<1>1. Enrich(r) = r \/ \E v : Enrich(r) = [r EXCEPT !.manufacturer = v]
  BY DEF Enrich
<1>2. ASSUME NEW v PROVE RecordOK([r EXCEPT !.manufacturer = v])
  <2> DEFINE e == [r EXCEPT !.manufacturer = v]
  <2>1. {"mgmt_ip", "alt_ips", "confidence", "last_seen", "signals", "possible_alias_of"} \subseteq DOMAIN r
    BY DEF RecordOK
  <2>2. DOMAIN e = DOMAIN r
    OBVIOUS
  <2>3. /\ e.confidence = r.confidence /\ e.last_seen = r.last_seen
        /\ e.signals = r.signals /\ e.possible_alias_of = r.possible_alias_of
    BY <2>1
  <2> HIDE DEF e
  <2>4. RecordOK(e)
    BY <2>1, <2>2, <2>3 DEF RecordOK
  <2> QED BY <2>4 DEF e
<1> QED BY <1>1, <1>2

\* fuse_one makes a well-formed record, or none.
LEMMA FusedOK ==
  ASSUME NEW target \in Targets
  PROVE  FuseOne(target) = <<>> \/ \E r : RecordOK(r) /\ FuseOne(target) = <<r>>
<1> DEFINE os == target.outcomes
           lists == [i \in DOMAIN os |-> os[i].signals]
           signals == Dedup(Flatten(lists))
           stamps == {os[i].timestamp : i \in DOMAIN os}
           m == Len(os)
           M == UNION {ToSet(o.signals) : o \in ToSet(os)}
<1>1. /\ os \in Seq(ToSet(os))
      /\ \A o \in ToSet(os) : o.timestamp \in Nat /\ o.signals \in Seq(ToSet(o.signals))
  BY TargetsAssumption
<1> HIDE DEF os
<1>2. m \in Nat /\ DOMAIN os = 1 .. m /\ \A i \in 1 .. m : os[i] \in ToSet(os)
  BY <1>1 DEF ToSet
<1>3. ASSUME NEW o \in ToSet(os) PROVE o.signals \in Seq(M)
  <2>1. \A k \in DOMAIN o.signals : o.signals[k] \in M
    BY DEF ToSet
  <2> HIDE DEF M
  <2> QED BY <1>1, <2>1, SeqOfElements
<1> HIDE DEF M, m
<1>4. lists \in [1 .. m -> Seq(M)]
  BY <1>2, <1>3
<1>5. lists \in Seq(Seq(M))
  BY <1>2, <1>4
<1> HIDE DEF lists
<1>6. Flatten(lists) \in Seq(M)
  BY <1>5, FlattenKeeps
<1>7. signals \in Seq(M)
  BY <1>6, DedupKeeps
<1> HIDE DEF signals
<1>8. signals \in Seq(ToSet(signals)) /\ Len(signals) \in Nat
  <2>1. \A k \in DOMAIN signals : signals[k] \in ToSet(signals)
    BY DEF ToSet
  <2> QED BY <1>7, <2>1, SeqOfElements
<1>9. os # <<>> => Latest(stamps) \in Nat
  <2> SUFFICES ASSUME os # <<>> PROVE Latest(stamps) \in Nat
    OBVIOUS
  <2> DEFINE f == [o \in ToSet(os) |-> o.timestamp]
  <2>1. f \in [ToSet(os) -> Nat] /\ m > 0
    BY <1>1, <1>2 DEF m
  <2>2. stamps = {f[os[i]] : i \in DOMAIN os}
    BY <1>2
  <2> HIDE DEF f
  <2>3. stamps \in SUBSET Nat /\ IsFiniteSet(stamps) /\ stamps # {}
    <3>1. Len(os) > 0
      BY <2>1 DEF m
    <3> DEFINE A == {f[os[i]] : i \in DOMAIN os}
    <3>2. A \in SUBSET Nat /\ IsFiniteSet(A) /\ A # {}
      BY <1>1, <2>1, <3>1, ImageOfSeq
    <3> HIDE DEF A, stamps
    <3>3. stamps = A
      BY <2>2 DEF A
    <3> QED BY <3>2, <3>3
  <2> HIDE DEF stamps
  <2>4. Latest(stamps) \in stamps
    BY <2>3, LatestIsLast
  <2> QED BY <2>3, <2>4
<1> DEFINE c == AtMost10(Baseline + Len(signals) * PerSignal)
<1>10. c \in Nat
  <2>1. Baseline \in Nat /\ PerSignal \in Nat
    BY ConfidenceAssumption
  <2>2. Len(signals) * PerSignal \in Nat
    BY <1>8, <2>1
  <2> QED BY <2>1, <2>2 DEF AtMost10
<1> HIDE DEF stamps, c
<1> SUFFICES ASSUME FuseOne(target) # <<>>
             PROVE  \E r : RecordOK(r) /\ FuseOne(target) = <<r>>
  OBVIOUS
<1> DEFINE t == Latest(stamps)
<1>11. os # <<>>
  BY DEF FuseOne, os
<1> DEFINE r == FuseOne(target)[1]
<1>12. /\ FuseOne(target) = <<r>>
       /\ {"mgmt_ip", "alt_ips", "confidence", "last_seen", "signals", "possible_alias_of"} \subseteq DOMAIN r
       /\ r.confidence = c /\ r.last_seen = t /\ r.signals = signals /\ r.possible_alias_of = <<>>
  BY DEF FuseOne, os, c, signals, lists, stamps
<1>13. t \in Nat
  BY <1>9, <1>11
<1> HIDE DEF r, t
<1>14. RecordOK(r)
  BY <1>8, <1>10, <1>12, <1>13 DEF RecordOK
<1> QED BY <1>12, <1>14

-----------------------------------------------------------------------------
(* What finish returns *)

\* The first members of the groups, in order.
Firsts == InOrder({i \in Nodes : \A j \in Members(i) : i <= j})

\* Record r is right for the group of i.
Right(r, i) ==
  IF Members(i) # {i}
    THEN MergedRight(r, Members(i))
    ELSE /\ r.mgmt_ip = records[i].mgmt_ip
         /\ {r.possible_alias_of[k] : k \in DOMAIN r.possible_alias_of}
              = {records[j].identity_key : j \in DocumentedPeer(i)}

OutRight ==
  /\ \E S : out \in Seq(S)
  /\ \A g \in 1 .. Len(out) : Right(out[g], Firsts[g])

BufferOK == \E S : buffer \in Seq(S) /\ \A r \in S : RecordOK(r)

\* From finish on: the records are well formed, and those already returned
\* are right for the groups they stand for.
MergeInv ==
  /\ stage = "ingest" => BufferOK /\ records = <<>> /\ out = <<>>
  /\ stage = "unite" => out = <<>>
  /\ (stage \in {"unite", "merge"} \/ Correlated) => RecordsOK
  /\ (stage = "merge" \/ Correlated) => uf = "ready" /\ OutRight
  /\ stage = "merge" => out = <<>> \/ Len(out) < Len(Groups)
  /\ Correlated => Len(out) = Len(Groups)

\* The groups, by their first members.
LEMMA GroupsByFirst ==
  ASSUME n \in Nat \ {0}
  PROVE  /\ \A i \in Nodes : /\ Members(i) \in SUBSET Nat /\ IsFiniteSet(Members(i))
                             /\ i \in Members(i) /\ Members(i) \subseteq Nodes
         /\ Len(Firsts) \in Nat \ {0} /\ DOMAIN Firsts = 1 .. Len(Firsts)
         /\ \A g \in 1 .. Len(Firsts) : Firsts[g] \in Nodes
         /\ Len(Groups) = Len(Firsts)
         /\ \A g \in 1 .. Len(Firsts) : Groups[g] = InOrder(Members(Firsts[g]))
<1> DEFINE F == {i \in Nodes : \A j \in Members(i) : i <= j}
           m == Cardinality(F)
<1>1. IsFiniteSet(Nodes) /\ Nodes \in SUBSET Nat /\ 1 \in Nodes /\ \A i \in Nodes : 1 <= i
  BY FS_Interval DEF Nodes
<1>2. ASSUME NEW i \in Nodes
      PROVE  /\ Members(i) \in SUBSET Nat /\ IsFiniteSet(Members(i))
             /\ i \in Members(i) /\ Members(i) \subseteq Nodes
  <2>1. Members(i) \subseteq Nodes /\ i \in Members(i)
    BY DEF Members
  <2> QED BY <1>1, <2>1, FS_Subset
<1>3. 1 \in F
  BY <1>1, <1>2
<1>4. F \in SUBSET Nat /\ F \subseteq Nodes /\ IsFiniteSet(F)
  BY <1>1, FS_Subset
<1> HIDE DEF F
<1>5. m \in Nat /\ m # 0
  BY <1>3, <1>4, FS_CardinalityType, FS_EmptySet
<1>6. Firsts \in Seq(F) /\ Len(Firsts) = m
  BY <1>4, InOrderSorts DEF Firsts, F
<1> HIDE DEF m
<1>7. DOMAIN Firsts = 1 .. m /\ \A g \in 1 .. m : Firsts[g] \in Nodes
  <2>1. DOMAIN Firsts = 1 .. m /\ \A g \in 1 .. m : Firsts[g] \in F
    BY <1>5, <1>6
  <2> QED BY <1>4, <2>1
<1>8. Groups = [g \in DOMAIN Firsts |-> InOrder(Members(Firsts[g]))]
  BY DEF Groups, Firsts
<1>9. Groups = [g \in 1 .. m |-> InOrder(Members(Firsts[g]))]
  BY <1>7, <1>8
<1>10. DOMAIN Groups = 1 .. m /\ \A g \in 1 .. m : Groups[g] = InOrder(Members(Firsts[g]))
  BY <1>9
<1>11. Groups \in [1 .. m -> {Groups[g] : g \in 1 .. m}]
  BY <1>9
<1>12. Len(Groups) = m
  BY <1>5, <1>11
<1> QED BY <1>2, <1>5, <1>6, <1>7, <1>10, <1>12

\* Nothing it depends on changes once the components are known.
LEMMA RightKept ==
  ASSUME UNCHANGED <<n, comp, records, weights>>, NEW r, NEW i, Right(r, i)
  PROVE  Right(r, i)'
<1>1. Nodes' = Nodes
  BY DEF Nodes
<1>2. Members(i)' = Members(i)
  BY <1>1 DEF Members
<1>3. MediumPeers(i)' = MediumPeers(i)
  BY <1>1, <1>2 DEF MediumPeers
<1>4. DocumentedPeer(i)' = DocumentedPeer(i)
  BY <1>3 DEF DocumentedPeer
<1>5. ASSUME NEW S, MergedRight(r, S) PROVE MergedRight(r, S)'
  BY <1>5 DEF MergedRight
<1> QED BY <1>2, <1>4, <1>5 DEF Right

\* What EmitGroup appends is right for the group of i.
LEMMA EmitRight ==
  ASSUME RecordsOK, weights = PositiveWeights(records, Candidates(records)),
         NEW i \in Nodes, NEW members, members = InOrder(Members(i))
  PROVE  /\ Len(members) = 1 => \A peers \in SetToSeqs(MediumPeers(members[1])) :
                                  Right(Single(members[1], peers), i)
         /\ Len(members) > 1 => Right(MergeGroup(members), i)
<1> DEFINE S == Members(i)
<1>1. n \in Nat \ {0} /\ \A j \in Nodes : RecordOK(records[j])
  BY DEF RecordsOK
<1>2. S \in SUBSET Nat /\ IsFiniteSet(S) /\ i \in S /\ S \subseteq Nodes
  BY <1>1, GroupsByFirst
<1> HIDE DEF S
<1>3. members \in Seq(S) /\ Len(members) = Cardinality(S) /\ ToSet(members) = S
  BY <1>2, InOrderSorts DEF S
<1>4. ASSUME Len(members) = 1, NEW peers \in SetToSeqs(MediumPeers(members[1]))
      PROVE  Right(Single(members[1], peers), i)
  <2>1. S = {members[1]}
    BY <1>3, <1>4 DEF ToSet
  <2>2. members[1] = i /\ S = {i}
    BY <1>2, <2>1
  <2> DEFINE r == Single(i, peers)
  <2>3. /\ r.mgmt_ip = records[i].mgmt_ip
        /\ {r.possible_alias_of[k] : k \in DOMAIN r.possible_alias_of}
             = {records[j].identity_key : j \in DocumentedPeer(i)}
    <3>1. peers \in SetToSeqs(MediumPeers(i))
      BY <1>4, <2>2
    <3> QED BY <3>1, SingleRight
  <2> HIDE DEF r
  <2>4. Right(r, i)
    BY <2>2, <2>3 DEF Right, S
  <2> QED BY <2>2, <2>4 DEF r
<1>5. ASSUME Len(members) > 1
      PROVE  Right(MergeGroup(members), i)
  <2>1. S # {i}
    <3>1. Cardinality({i}) = 1
      BY FS_Singleton
    <3> SUFFICES ASSUME S = {i} PROVE FALSE
      OBVIOUS
    <3>2. Len(members) = 1
      BY <1>3, <3>1
    <3> QED BY <1>5, <3>2
  <2>2. MergedRight(MergeGroup(InOrder(S)), S)
    BY <1>1, <1>2, MergeGroupRight
  <2> QED BY <2>1, <2>2 DEF Right, S
<1> QED BY <1>4, <1>5

\* ingest_target keeps the buffer well formed.
LEMMA IngestKeepsOK ==
  ASSUME NEW S, NEW b \in Seq(S), \A r \in S : RecordOK(r), NEW target \in Targets
  PROVE  \E T : /\ b \o [i \in DOMAIN FuseOne(target) |-> Enrich(FuseOne(target)[i])] \in Seq(T)
               /\ \A r \in T : RecordOK(r)
<1> DEFINE fused == FuseOne(target)
           added == [i \in DOMAIN fused |-> Enrich(fused[i])]
<1>1. fused = <<>> \/ \E r : RecordOK(r) /\ fused = <<r>>
  BY FusedOK
<1> HIDE DEF fused
<1>2. CASE fused = <<>>
  <2>1. added = <<>>
    BY <1>2
  <2> HIDE DEF added
  <2>2. b \o added \in Seq(S)
    BY <2>1
  <2> QED BY <2>2 DEF added, fused
<1>3. CASE \E r : RecordOK(r) /\ fused = <<r>>
  <2>1. PICK r : RecordOK(r) /\ fused = <<r>>
    BY <1>3
  <2>2. added = <<Enrich(r)>>
    BY <2>1
  <2> DEFINE T == S \cup {Enrich(r)}
  <2>3. \A x \in T : RecordOK(x)
    BY <2>1, EnrichedOK
  <2> HIDE DEF added
  <2>4. b \in Seq(T) /\ added \in Seq(T)
    BY <2>2
  <2> HIDE DEF T
  <2>5. b \o added \in Seq(T)
    BY <2>4
  <2> QED BY <2>3, <2>5 DEF added, fused
<1> QED BY <1>1, <1>2, <1>3

\* Each step keeps the invariant.
LEMMA MergeStep == UfInv /\ WeightsInv /\ MergeInv /\ [Next]_vars => MergeInv'
<1> SUFFICES ASSUME UfInv, WeightsInv, MergeInv, [Next]_vars PROVE MergeInv'
  OBVIOUS
<1>1. CASE Ingest
  <2>1. PICK target \in Targets : IngestTarget(target)
    BY <1>1 DEF Ingest
  <2>2. stage = "ingest" /\ BufferOK /\ records = <<>> /\ out = <<>>
    BY <2>1 DEF IngestTarget, MergeInv
  <2>3. buffer' = buffer \o [i \in DOMAIN FuseOne(target) |-> Enrich(FuseOne(target)[i])]
    BY <2>1 DEF IngestTarget
  <2>4. BufferOK'
    <3>1. PICK S : buffer \in Seq(S) /\ \A r \in S : RecordOK(r)
      BY <2>2 DEF BufferOK
    <3>2. \E T : buffer' \in Seq(T) /\ \A r \in T : RecordOK(r)
      BY <2>3, <3>1, IngestKeepsOK
    <3> QED BY <3>2 DEF BufferOK
  <2> QED BY <2>1, <2>2, <2>4 DEF IngestTarget, MergeInv, Correlated
<1>2. CASE FinishFew
  BY <1>2 DEF FinishFew, MergeInv, Correlated
<1>3. CASE FinishMany
  <2>1. /\ stage = "ingest" /\ Len(buffer) > 1 /\ records' = buffer /\ n' = Len(buffer)
        /\ stage' = "unite" /\ out' = out
    BY <1>3 DEF FinishMany, UfBegin
  <2>2. out' = <<>> /\ BufferOK
    BY <2>1 DEF MergeInv
  <2>3. PICK S : buffer \in Seq(S) /\ \A r \in S : RecordOK(r)
    BY <2>2 DEF BufferOK
  <2>4. RecordsOK'
    <3>1. n' \in Nat \ {0} /\ DOMAIN records' = 1 .. n' /\ \A i \in 1 .. n' : records'[i] \in S
      BY <2>1, <2>3
    <3> QED BY <2>3, <3>1 DEF RecordsOK, Nodes
  <2> QED BY <2>1, <2>2, <2>4 DEF MergeInv, Correlated
<1>4. CASE Unite
  <2>1. /\ stage = "unite" /\ n' = n /\ records' = records /\ out' = out /\ weights' = weights
        /\ stage' = IF uf' = "ready" THEN "merge" ELSE stage
    BY <1>4 DEF Unite, UfStep, TakeEdge, Climb, ClimbEnd, Compress, SecondFind, Link,
           ReadBegin, ReadEnd
  <2>2. out = <<>> /\ RecordsOK
    BY <2>1 DEF MergeInv
  <2>3. RecordsOK'
    BY <2>1, <2>2 DEF RecordsOK, Nodes
  <2>4. OutRight'
    <3>1. out' \in Seq({}) /\ Len(out') = 0
      BY <2>1, <2>2
    <3> QED BY <3>1 DEF OutRight
  <2> QED BY <2>1, <2>2, <2>3, <2>4 DEF MergeInv, Correlated
<1>5. CASE EmitGroup
  <2>1. /\ stage = "merge" /\ n' = n /\ comp' = comp /\ records' = records /\ weights' = weights
        /\ uf' = uf /\ high' = high
        /\ stage' = IF Len(out') = Len(Groups) THEN "done" ELSE stage
    BY <1>5 DEF EmitGroup, ufVars
  <2>2. /\ uf = "ready" /\ OutRight /\ RecordsOK /\ (out = <<>> \/ Len(out) < Len(Groups))
        /\ weights = PositiveWeights(records, Candidates(records))
    BY <2>1 DEF MergeInv, WeightsInv
  <2>3. PICK S : out \in Seq(S)
    BY <2>2 DEF OutRight
  <2> DEFINE m == Len(out)
             first == Firsts[m + 1]
             members == Groups[m + 1]
  <2>4. /\ Len(Groups) = Len(Firsts) /\ Len(Firsts) \in Nat \ {0}
        /\ \A g \in 1 .. Len(Firsts) : Firsts[g] \in Nodes
        /\ \A g \in 1 .. Len(Firsts) : Groups[g] = InOrder(Members(Firsts[g]))
    BY <2>2, GroupsByFirst DEF RecordsOK
  <2>5. m \in Nat /\ m + 1 \in 1 .. Len(Firsts)
    BY <2>2, <2>3, <2>4
  <2>6. first \in Nodes /\ members = InOrder(Members(first))
    BY <2>4, <2>5
  <2>7. PICK r : out' = Append(out, r) /\ Right(r, first)
    <3>1. \/ /\ Len(members) = 1
             /\ \E peers \in SetToSeqs(MediumPeers(members[1])) :
                  out' = Append(out, Single(members[1], peers))
          \/ Len(members) > 1 /\ out' = Append(out, MergeGroup(members))
      BY <1>5 DEF EmitGroup
    <3> HIDE DEF members, first
    <3>2. /\ Len(members) = 1 => \A peers \in SetToSeqs(MediumPeers(members[1])) :
                                   Right(Single(members[1], peers), first)
          /\ Len(members) > 1 => Right(MergeGroup(members), first)
      BY <2>2, <2>6, EmitRight
    <3> QED BY <3>1, <3>2
  <2>8. Firsts' = Firsts /\ Groups' = Groups
    BY <2>1 DEF Firsts, Groups, Members, Nodes
  <2>9. Len(out') = m + 1 /\ out'[m + 1] = r /\ \A g \in 1 .. m : out'[g] = out[g]
    BY <2>3, <2>7
  <2>10. OutRight'
    <3>1. out' \in Seq(S \cup {r})
      BY <2>3, <2>7
    <3>2. ASSUME NEW g \in 1 .. m + 1 PROVE Right(out[g], Firsts[g])'
      <4>1. PICK x, i : x = out'[g] /\ i = Firsts[g]
        OBVIOUS
      <4>2. Right(x, i)
        <5>1. CASE g = m + 1
          BY <2>7, <2>9, <4>1, <5>1
        <5>2. CASE g \in 1 .. m
          BY <2>2, <2>9, <4>1, <5>2 DEF OutRight
        <5> QED BY <2>5, <5>1, <5>2
      <4>3. Right(x, i)'
        BY <2>1, <4>2, RightKept
      <4> QED BY <2>8, <4>1, <4>3
    <3> QED BY <2>9, <3>1, <3>2 DEF OutRight
  <2>11. RecordsOK'
    BY <2>1, <2>2 DEF RecordsOK, Nodes
  <2>12. /\ Len(out') <= Len(Groups)' /\ Len(out') \in Nat /\ Len(Groups)' \in Nat
         /\ Len(Groups)' = Len(Groups)
    BY <2>4, <2>5, <2>8, <2>9
  <2> QED BY <2>1, <2>2, <2>10, <2>11, <2>12 DEF MergeInv, Correlated
<1>6. CASE Done \/ UNCHANGED vars
  <2>1. /\ UNCHANGED <<stage, buffer, records, weights, out, n, comp, uf>>
    BY <1>6 DEF Done, vars, fuserVars, ufVars
  <2>2. Firsts' = Firsts /\ Groups' = Groups /\ Correlated' = Correlated /\ Nodes' = Nodes
    BY <2>1 DEF Firsts, Groups, Members, Nodes, Correlated
  <2>3. BufferOK => BufferOK'
    BY <2>1 DEF BufferOK
  <2>4. RecordsOK => RecordsOK'
    BY <2>1, <2>2 DEF RecordsOK
  <2>5. OutRight => OutRight'
    <3> SUFFICES ASSUME OutRight PROVE OutRight'
      OBVIOUS
    <3>1. \E S : out' \in Seq(S)
      BY <2>1 DEF OutRight
    <3>2. ASSUME NEW g \in 1 .. Len(out) PROVE Right(out[g], Firsts[g])'
      <4>1. PICK x, i : x = out[g] /\ i = Firsts[g]
        OBVIOUS
      <4>2. Right(x, i)'
        BY <2>1, <4>1, RightKept DEF OutRight
      <4> QED BY <2>1, <2>2, <4>1, <4>2
    <3> QED BY <2>1, <3>1, <3>2 DEF OutRight
  <2> QED BY <2>1, <2>2, <2>3, <2>4, <2>5 DEF MergeInv
<1> QED BY <1>1, <1>2, <1>3, <1>4, <1>5, <1>6 DEF Next

\* MergeInv holds throughout a fuser's run.
LEMMA MergeInvAlways == Spec => []MergeInv
<1>1. Init => MergeInv /\ WeightsInv
  <2> SUFFICES ASSUME Init PROVE MergeInv /\ WeightsInv
    OBVIOUS
  <2>1. buffer \in Seq({})
    BY DEF Init
  <2>2. BufferOK
    BY <2>1 DEF BufferOK
  <2> QED BY <2>2 DEF Init, MergeInv, WeightsInv, Correlated
<1>2. Spec => []UfInv
  BY FuserUsesUnionFind, UfInvariant, PTL
<1> QED BY <1>1, <1>2, MergeStep, WeightsStep, PTL DEF Spec

\* FuserMergesAsDocumented: whatever the probers report and in whatever order
\* the hash tables list pairs and peers, finish returns what the
\* documentation says (merge_components and merge_group of
\* fuser/identity.rs).
THEOREM FuserMergesAsDocumented == Spec => []MergeAsDocumented
<1>1. UfInv /\ ComponentsExact /\ MergeInv => MergeAsDocumented
  <2> SUFFICES ASSUME UfInv, ComponentsExact, MergeInv, Correlated PROVE MergeAsDocumented
    BY DEF MergeAsDocumented
  <2>1. uf = "ready" /\ OutRight /\ RecordsOK /\ Len(out) = Len(Groups)
    BY DEF MergeInv
  <2>2. UfTypeOK /\ Len(comp) = n
    BY <2>1 DEF UfInv, Cursors
  <2>3. \A i \in Nodes : Members(i) = ConnectedTo(i)
    BY <2>1, <2>2, GroupsConnected
  <2>4. /\ Len(Groups) = Len(Firsts) /\ DOMAIN Firsts = 1 .. Len(Firsts)
        /\ \A g \in 1 .. Len(Firsts) : Firsts[g] \in Nodes
    BY <2>1, GroupsByFirst DEF RecordsOK
  <2>5. {i \in Nodes : \A j \in Members(i) : i <= j}
          = {i \in Nodes : \A j \in ConnectedTo(i) : i <= j}
    BY <2>3
  <2>6. InOrder({i \in Nodes : \A j \in ConnectedTo(i) : i <= j}) = Firsts
    BY <2>5, Zenon DEF Firsts
  <2>7. ASSUME NEW g \in DOMAIN Firsts
        PROVE  LET i == Firsts[g]
                   S == ConnectedTo(i)
               IN  IF S # {i}
                     THEN MergedRight(out[g], S)
                     ELSE /\ out[g].mgmt_ip = records[i].mgmt_ip
                          /\ {out[g].possible_alias_of[k] : k \in DOMAIN out[g].possible_alias_of}
                               = {records[j].identity_key : j \in DocumentedPeer(i)}
    <3>1. Right(out[g], Firsts[g]) /\ Members(Firsts[g]) = ConnectedTo(Firsts[g])
      BY <2>1, <2>3, <2>4 DEF OutRight
    <3> QED BY <3>1, Zenon DEF Right
  <2>8. Len(out) = Len(Firsts)
    BY <2>1, <2>4
  <2> QED BY <2>6, <2>7, <2>8, Zenon DEF MergeAsDocumented
<1>2. Spec => []UfInv /\ []ComponentsExact
  BY FuserUsesUnionFind, UfInvariant, FuserComponentsCorrect, PTL
<1> QED BY <1>1, <1>2, MergeInvAlways, PTL

-----------------------------------------------------------------------------
(* The second streams *)

LEMMA StreamsStepIsFuserStep == [StreamsNext]_allVars => [Next]_vars
  <1> SUFFICES ASSUME [StreamsNext]_allVars PROVE [Next]_vars
    OBVIOUS
  <1>1. CASE EmitTargetRecords
    BY <1>1 DEF EmitTargetRecords, Ingest, Next
  <1>2. CASE FuserFinish
    BY <1>2 DEF FuserFinish, Next
  <1>3. CASE UNCHANGED vars
    BY <1>3
  <1> QED BY <1>1, <1>2, <1>3 DEF StreamsNext, EmitRecord, FlushStreams, Flushed, allVars

\* StreamsDriveTheFuser: the pipeline takes the fuser through the steps of
\* its own specification; classifying, indexing and assembling never
\* disturb it.
THEOREM StreamsDriveTheFuser == StreamsSpec => Spec
  <1>1. StreamsInit => Init
    BY DEF StreamsInit
  <1> QED BY <1>1, StreamsStepIsFuserStep, PTL DEF StreamsSpec, Spec

\* StreamsComponentsCorrect: so the records a scan emits are grouped by
\* exactly the high-band components, in the whole pipeline too.
THEOREM StreamsComponentsCorrect == StreamsSpec => []ComponentsExact
  BY StreamsDriveTheFuser, FuserComponentsCorrect, PTL

\* StreamsBucketsComplete: nor does the whole pipeline miss a weighed pair.
THEOREM StreamsBucketsComplete == StreamsSpec => []BucketsLoseNothing
  BY StreamsDriveTheFuser, FuserBucketsComplete, PTL

\* StreamsMergeAsDocumented: so what the classifier and the assemblers are
\* given, in the whole pipeline, is what the documentation says.
THEOREM StreamsMergeAsDocumented == StreamsSpec => []MergeAsDocumented
  BY StreamsDriveTheFuser, FuserMergesAsDocumented, PTL

EmittedIsSeq == \E S : emitted \in Seq(S)

\* One more record, under the keys K.
LEMMA ClaimKeepsFirst ==
  ASSUME NEW S, NEW recs \in Seq(S), NEW r, NEW K, NEW index, NEW keys, NEW keys2,
         FirstClaimWins(index, recs, keys),
         keys2[Len(recs) + 1] = K,
         \A k \in DOMAIN recs : keys2[k] = keys[k]
  PROVE  FirstClaimWins(Claim(index, K, r), Append(recs, r), keys2)
  <1> DEFINE m == Len(recs) + 1
             recs2 == Append(recs, r)
             index2 == Claim(index, K, r)
  <1>1. /\ m \in Nat /\ DOMAIN recs = 1 .. (m - 1) /\ DOMAIN recs2 = 1 .. m
        /\ recs2[m] = r /\ \A k \in 1 .. (m - 1) : recs2[k] = recs[k]
    <2>1. recs \in Seq(S \cup {r}) /\ r \in S \cup {r}
      OBVIOUS
    <2> QED BY <2>1
  <1>2. /\ DOMAIN index2 = DOMAIN index \cup K
        /\ \A key \in DOMAIN index : index2[key] = index[key]
        /\ \A key \in K \ DOMAIN index : index2[key] = r.identity_key
    BY DEF Claim
  <1>3. DOMAIN index2 = UNION {keys2[k] : k \in DOMAIN recs2}
    <2>1. DOMAIN index = UNION {keys[k] : k \in DOMAIN recs}
      BY DEF FirstClaimWins
    <2>2. \A key : key \in UNION {keys2[k] : k \in DOMAIN recs2}
                    <=> key \in K \/ \E k \in DOMAIN recs : key \in keys[k]
      BY <1>1
    <2> QED BY <1>2, <2>1, <2>2
  <1>4. ASSUME NEW key \in DOMAIN index
        PROVE  \E k \in DOMAIN recs2 :
                 /\ key \in keys2[k]
                 /\ index2[key] = recs2[k].identity_key
                 /\ \A j \in DOMAIN recs2 : key \in keys2[j] => k <= j
    <2>1. PICK k \in DOMAIN recs :
            /\ key \in keys[k]
            /\ index[key] = recs[k].identity_key
            /\ \A j \in DOMAIN recs : key \in keys[j] => k <= j
      BY DEF FirstClaimWins
    <2>2. k \in DOMAIN recs2 /\ key \in keys2[k] /\ index2[key] = recs2[k].identity_key
      BY <1>1, <1>2, <2>1
    <2>3. \A j \in DOMAIN recs2 : key \in keys2[j] => k <= j
      BY <1>1, <2>1
    <2> QED BY <2>2, <2>3
  <1>5. ASSUME NEW key \in K \ DOMAIN index
        PROVE  \E k \in DOMAIN recs2 :
                 /\ key \in keys2[k]
                 /\ index2[key] = recs2[k].identity_key
                 /\ \A j \in DOMAIN recs2 : key \in keys2[j] => k <= j
    <2>1. \A j \in DOMAIN recs : key \notin keys2[j]
      BY DEF FirstClaimWins
    <2>2. \A j \in DOMAIN recs2 : key \in keys2[j] => m <= j
      BY <1>1, <2>1
    <2>3. m \in DOMAIN recs2 /\ key \in keys2[m] /\ index2[key] = recs2[m].identity_key
      BY <1>1, <1>2
    <2> QED BY <2>2, <2>3
  <1> QED BY <1>2, <1>3, <1>4, <1>5 DEF FirstClaimWins

LEMMA IndexesStep ==
  EmittedIsSeq /\ IndexesExact /\ [StreamsNext]_allVars => EmittedIsSeq' /\ IndexesExact'
  <1> SUFFICES ASSUME EmittedIsSeq, IndexesExact, [StreamsNext]_allVars
               PROVE  EmittedIsSeq' /\ IndexesExact'
    OBVIOUS
  <1>1. CASE EmitRecord
    <2>1. PICK S : emitted \in Seq(S)
      BY DEF EmittedIsSeq
    <2>2. PICK r : /\ emitted' = Append(emitted, r)
                   /\ byMac' = Claim(byMac, MacKeys(r), r)
                   /\ byName' = Claim(byName, NameKeys(r), r)
                   /\ byAddr' = Claim(byAddr, AddrKeys(r), r)
      BY <1>1 DEF EmitRecord
    <2>3. emitted' \in Seq(S \cup {r})
      <3>1. emitted \in Seq(S \cup {r})
        BY <2>1
      <3> QED BY <2>2, <3>1
    <2>4. /\ Len(emitted) + 1 \in DOMAIN emitted' /\ emitted'[Len(emitted) + 1] = r
          /\ \A k \in DOMAIN emitted : k \in DOMAIN emitted' /\ emitted'[k] = emitted[k]
      <3>1. emitted \in Seq(S \cup {r})
        BY <2>1
      <3> QED BY <2>2, <3>1
    <2>5. FirstClaimWins(byAddr', emitted', [k \in DOMAIN emitted' |-> AddrKeys(emitted'[k])])
      BY <2>1, <2>2, <2>4, ClaimKeepsFirst DEF IndexesExact
    <2>6. FirstClaimWins(byMac', emitted', [k \in DOMAIN emitted' |-> MacKeys(emitted'[k])])
      BY <2>1, <2>2, <2>4, ClaimKeepsFirst DEF IndexesExact
    <2>7. FirstClaimWins(byName', emitted', [k \in DOMAIN emitted' |-> NameKeys(emitted'[k])])
      BY <2>1, <2>2, <2>4, ClaimKeepsFirst DEF IndexesExact
    <2> QED BY <2>3, <2>5, <2>6, <2>7 DEF IndexesExact, EmittedIsSeq, AddrKeys, MacKeys, NameKeys, Texts
  <1>2. CASE UNCHANGED <<emitted, byMac, byName, byAddr>>
    BY <1>2 DEF EmittedIsSeq, IndexesExact
  <1> QED BY <1>1, <1>2 DEF StreamsNext, EmitTargetRecords, FuserFinish, FlushStreams, Flushed,
                            allVars, streamVars

\* IndexesAlwaysExact: IndexesExact for every scan, rule and table: a link or
\* a profile is resolved against the records really emitted, all of them.
THEOREM IndexesAlwaysExact == StreamsSpec => []IndexesExact
  <1>1. StreamsInit => EmittedIsSeq /\ IndexesExact
    <2> SUFFICES ASSUME StreamsInit PROVE EmittedIsSeq /\ IndexesExact
      OBVIOUS
    <2>1. emitted \in Seq({})
      BY DEF StreamsInit
    <2>2. DOMAIN emitted = {} /\ DOMAIN byAddr = {} /\ DOMAIN byMac = {} /\ DOMAIN byName = {}
      BY DEF StreamsInit, NoIndex
    <2> QED BY <2>1, <2>2 DEF EmittedIsSeq, IndexesExact, FirstClaimWins
  <1> QED BY <1>1, IndexesStep, PTL DEF StreamsSpec

-----------------------------------------------------------------------------
(* The classifier *)

\* Min of a set of numbers.
LEMMA MinIsFirst ==
  ASSUME NEW A \in SUBSET Nat, A # {}
  PROVE  Min(A) \in A /\ \A j \in A : Min(A) <= j
<1>1. \E i \in A : \A j \in A : i <= j
  BY LeastNat
<1> QED BY <1>1 DEF Min

\* A classified record keeps what the fuser gave it.
LEMMA ClassifyKeeps ==
  ASSUME NEW r, {"mgmt_ip", "alt_ips", "signals"} \subseteq DOMAIN r
  PROVE  /\ Classify(r).mgmt_ip = r.mgmt_ip
         /\ Classify(r).alt_ips = r.alt_ips
         /\ Classify(r).signals = r.signals
BY DEF Classify

\* ... and gains what the rules found.
LEMMA ClassifyAdds ==
  ASSUME NEW r
  PROVE  LET c == Classify(r)
             found == ApplyPlatformRules(r)
             roles == {i \in DOMAIN RoleRules : RoleRuleMatches(RoleRules[i], r)}
         IN /\ c.platform = found.platform
            /\ c.os_version = found.os_version
            /\ c.ssh_version = found.ssh_version
            /\ c.http_server = found.http_server
            /\ c.http_version = found.http_version
            /\ c.role = IF roles = {} THEN NoValue ELSE RoleRules[Min(roles)].role
BY DEF Classify

\* A rule matches when one of the record's texts is among those it captures.
LEMMA RuleMatches ==
  ASSUME NEW r, NEW rule
  PROVE  PlatformRuleMatch(rule, r) # <<>> <=> Texts(r, rule.signal) \cap DOMAIN rule.captures # {}
BY DEF PlatformRuleMatch, Texts, ToSet

\* Where the platform rules can take the slots of record r.
Found(r) ==
  LET Captured == {<<PlatformRuleMatch(PlatformRules[i], r)[1], PlatformRules[i].platform>> :
                      i \in DOMAIN PlatformRules}
  IN  [platform : {NoValue} \cup {x[2] : x \in Captured},
       os_version : {NoValue} \cup {x[1].os : x \in Captured},
       ssh_version : {NoValue} \cup {x[1].ssh : x \in Captured},
       http_server : {NoValue} \cup {x[1].server : x \in Captured},
       http_version : {NoValue} \cup {x[1].version : x \in Captured},
       want : SUBSET {"platform", "ssh", "http"}]

\* One more rule.
LEMMA RuleStaysFound ==
  ASSUME NEW r, NEW acc \in Found(r), NEW i \in DOMAIN PlatformRules
  PROVE  ApplyPlatformRule(r, acc, PlatformRules[i]) \in Found(r)
<1> DEFINE rule == PlatformRules[i]
           claims == {slot \in acc.want : Declares(rule, slot)}
           match == PlatformRuleMatch(rule, r)
           Captured == {<<PlatformRuleMatch(PlatformRules[j], r)[1], PlatformRules[j].platform>> :
                      j \in DOMAIN PlatformRules}
           next == ApplyPlatformRule(r, acc, rule)
<1>1. <<match[1], rule.platform>> \in Captured
  OBVIOUS
<1>2. Found(r) = [platform : {NoValue} \cup {x[2] : x \in Captured},
       os_version : {NoValue} \cup {x[1].os : x \in Captured},
       ssh_version : {NoValue} \cup {x[1].ssh : x \in Captured},
       http_server : {NoValue} \cup {x[1].server : x \in Captured},
       http_version : {NoValue} \cup {x[1].version : x \in Captured},
       want : SUBSET {"platform", "ssh", "http"}]
  BY DEF Found
<1>3. claims \subseteq acc.want
  OBVIOUS
<1>4. next = IF claims = {} \/ match = <<>> THEN acc
        ELSE [platform |-> IF "platform" \in claims THEN rule.platform ELSE acc.platform,
              os_version |-> IF "platform" \in claims THEN match[1].os ELSE acc.os_version,
              ssh_version |-> IF "ssh" \in claims THEN match[1].ssh ELSE acc.ssh_version,
              http_server |-> IF "http" \in claims THEN match[1].server ELSE acc.http_server,
              http_version |-> IF "http" \in claims /\ match[1].server # NoValue
                                 THEN match[1].version ELSE acc.http_version,
              want |-> acc.want \ claims]
  BY DEF ApplyPlatformRule
<1> HIDE DEF rule, claims, match, Captured, next
<1> QED BY <1>1, <1>2, <1>3, <1>4 DEF next, rule

\* apply_platform_rules, one rule at a time.
LEMMA PlatformRun ==
  ASSUME NEW r
  PROVE  \E h :
           /\ h[0] = Unclassified /\ ApplyPlatformRules(r) = h[Len(PlatformRules)]
           /\ \A k \in 0 .. Len(PlatformRules) : h[k] \in Found(r)
           /\ \A k \in 1 .. Len(PlatformRules) : h[k] = ApplyPlatformRule(r, h[k - 1], PlatformRules[k])
<1> DEFINE m == Len(PlatformRules)
           S == Found(r)
           b == Unclassified
           Step(x, e) == ApplyPlatformRule(r, x, e)
           Body(g) == [s \in SUBSET DOMAIN PlatformRules |->
                         IF s = {} THEN b
                         ELSE LET x == Max(s)
                              IN  Step(g[s \ {x}], PlatformRules[x])]
           c == CHOOSE g : g = Body(g)
           F == [i \in 1 .. m |-> [x \in S |-> Step(x, PlatformRules[i])]]
           h == [k \in 0 .. m |-> c[1 .. k]]
<1>1. m \in Nat /\ DOMAIN PlatformRules = 1 .. m
  BY RulesAssumption
<1>2. ApplyPlatformRules(r) = c[DOMAIN PlatformRules]
  BY Zenon DEF ApplyPlatformRules, FoldLeft, MapThenFoldSet
<1>3. b \in S
  BY DEF Unclassified, Found
<1>4. \A i \in 1 .. m : \A x \in S : Step(x, PlatformRules[i]) \in S
  BY <1>1, RuleStaysFound
<1>5. \A x, e : Step(x, e) = ApplyPlatformRule(r, x, e)
  OBVIOUS
<1> HIDE DEF Step, S, b, m
<1>6. StepsIn(F, m, S) /\ \A i \in 1 .. m : \A x \in S : F[i][x] = Step(x, PlatformRules[i])
  BY <1>4 DEF StepsIn
<1> HIDE DEF F
<1>7. PICK g \in [SUBSET (1 .. m) -> S] : Fold(F, b, m, g)
  BY <1>1, <1>3, <1>6, FoldExists
<1>8. \A s \in SUBSET (1 .. m) :
        s # {} => Max(s) \in 1 .. m /\ s \ {Max(s)} \in SUBSET (1 .. m)
  BY <1>1, MaxOfIndexes
<1>9. \A s \in SUBSET (1 .. m) :
        s # {} => F[Max(s)][g[s \ {Max(s)}]] = Step(g[s \ {Max(s)}], PlatformRules[Max(s)])
  BY <1>6, <1>7, <1>8
<1>10. g = Body(g)
  BY <1>1, <1>7, <1>9 DEF Fold
<1>11. c = Body(c)
  BY <1>10
<1> HIDE DEF c
<1>12. /\ c[{}] = b
       /\ \A s \in SUBSET (1 .. m) :
            s # {} => c[s] = Step(c[s \ {Max(s)}], PlatformRules[Max(s)])
  BY <1>1, <1>11
<1>13. FoldsIn(F, b, m, S, c)
  BY <1>6, <1>8, <1>12 DEF FoldsIn
<1>14. FoldRuns(F, b, m, S, c)
  BY <1>1, <1>3, <1>6, <1>13, FoldRun
<1>15. /\ h[0] = b /\ h[m] = c[1 .. m]
       /\ \A k \in 0 .. m : h[k] \in S
       /\ \A k \in 1 .. m : h[k] = Step(h[k - 1], PlatformRules[k])
  <2>1. \A k \in 1 .. m : k \in 0 .. m /\ k - 1 \in 0 .. m
    BY <1>1
  <2>2. 0 \in 0 .. m /\ m \in 0 .. m
    BY <1>1
  <2> QED BY <1>6, <1>14, <2>1, <2>2 DEF FoldRuns
<1> HIDE DEF h
<1> WITNESS h
<1> QED BY <1>1, <1>2, <1>5, <1>15 DEF m, S, b

\* After the first k rules, those of A being the ones that match and declare
\* the slot: it is open and blank, or has what the first of them gives, val.
UpTo(A, k) == {i \in A : i <= k}
SlotRight(A, k, want, slot, val, f) ==
  IF UpTo(A, k) = {} THEN slot \in want /\ val = NoValue
                     ELSE slot \notin want /\ val = f[Min(UpTo(A, k))]

\* ... and after one more rule.
LEMMA SlotStep ==
  ASSUME NEW A \in SUBSET Nat, NEW k \in Nat, NEW want, NEW slot, NEW val, NEW f,
         SlotRight(A, k, want, slot, val, f), NEW want2, NEW val2,
         IF slot \in want /\ k + 1 \in A
           THEN slot \notin want2 /\ val2 = f[k + 1]
           ELSE (slot \in want2 <=> slot \in want) /\ val2 = val
  PROVE  SlotRight(A, k + 1, want2, slot, val2, f)
<1> DEFINE B == UpTo(A, k)
           C == UpTo(A, k + 1)
<1>1. \A i : i \in C <=> i \in B \/ (i = k + 1 /\ k + 1 \in A)
  <2>1. \A i \in A : i \in Nat
    OBVIOUS
  <2>2. \A i \in Nat : i <= k + 1 <=> i <= k \/ i = k + 1
    OBVIOUS
  <2> QED BY <2>1, <2>2 DEF UpTo
<1>2. B \in SUBSET Nat /\ C \in SUBSET Nat /\ \A i \in B : i <= k
  BY DEF UpTo
<1>3. IF B = {} THEN slot \in want /\ val = NoValue ELSE slot \notin want /\ val = f[Min(B)]
  BY DEF SlotRight
<1> HIDE DEF B, C
<1>4. IF C = {} THEN slot \in want2 /\ val2 = NoValue ELSE slot \notin want2 /\ val2 = f[Min(C)]
  <2>1. CASE B = {}
    <3>1. CASE k + 1 \in A
      <4>1. C = {k + 1}
        BY <1>1, <2>1, <3>1
      <4>2. Min(C) = k + 1
        BY <1>2, <4>1, MinIsFirst
      <4> QED BY <1>3, <2>1, <3>1, <4>1, <4>2
    <3>2. CASE k + 1 \notin A
      <4>1. C = {}
        BY <1>1, <2>1, <3>2
      <4> QED BY <1>3, <2>1, <3>2, <4>1
    <3> QED BY <3>1, <3>2
  <2>2. CASE B # {}
    <3>1. Min(B) \in B /\ \A j \in B : Min(B) <= j
      BY <1>2, <2>2, MinIsFirst
    <3>2. C # {} /\ Min(B) \in C
      BY <1>1, <3>1
    <3>3. Min(C) \in C /\ \A j \in C : Min(C) <= j
      BY <1>2, <3>2, MinIsFirst
    <3>4. Min(C) = Min(B)
      <4>1. Min(C) <= Min(B) /\ Min(B) <= k /\ Min(B) \in Nat /\ Min(C) \in Nat
        BY <1>2, <3>1, <3>2, <3>3
      <4>2. Min(C) \in B
        BY <1>1, <3>3, <4>1
      <4>3. Min(B) <= Min(C)
        BY <3>1, <4>2
      <4> QED BY <4>1, <4>3
    <3> QED BY <1>3, <2>2, <3>2, <3>4
  <2> QED BY <2>1, <2>2
<1> QED BY <1>4 DEF SlotRight, C


\* Every slot is right after the first k rules.
SlotsRight(r, k, acc) ==
  /\ SlotRight(Filling(r, "platform"), k, acc.want, "platform", acc.platform,
               [i \in DOMAIN PlatformRules |-> PlatformRules[i].platform])
  /\ SlotRight(Filling(r, "platform"), k, acc.want, "platform", acc.os_version,
               [i \in DOMAIN PlatformRules |-> PlatformRuleMatch(PlatformRules[i], r)[1].os])
  /\ SlotRight(Filling(r, "ssh"), k, acc.want, "ssh", acc.ssh_version,
               [i \in DOMAIN PlatformRules |-> PlatformRuleMatch(PlatformRules[i], r)[1].ssh])
  /\ SlotRight(Filling(r, "http"), k, acc.want, "http", acc.http_server,
               [i \in DOMAIN PlatformRules |-> PlatformRuleMatch(PlatformRules[i], r)[1].server])
  /\ acc.http_version # NoValue => acc.http_server # NoValue

\* One more rule, for all the slots.
LEMMA SlotsStep ==
  ASSUME NEW r, NEW k \in Nat, k + 1 \in DOMAIN PlatformRules, NEW acc,
         acc.want \subseteq {"platform", "ssh", "http"},
         SlotsRight(r, k, acc)
  PROVE  SlotsRight(r, k + 1, ApplyPlatformRule(r, acc, PlatformRules[k + 1]))
<1> DEFINE rule == PlatformRules[k + 1]
           claims == {slot \in acc.want : Declares(rule, slot)}
           match == PlatformRuleMatch(rule, r)
           next == ApplyPlatformRule(r, acc, rule)
           P == Filling(r, "platform")
           B == Filling(r, "ssh")
           W == Filling(r, "http")
           fp == [i \in DOMAIN PlatformRules |-> PlatformRules[i].platform]
           fo == [i \in DOMAIN PlatformRules |-> PlatformRuleMatch(PlatformRules[i], r)[1].os]
           fs == [i \in DOMAIN PlatformRules |-> PlatformRuleMatch(PlatformRules[i], r)[1].ssh]
           fw == [i \in DOMAIN PlatformRules |-> PlatformRuleMatch(PlatformRules[i], r)[1].server]
<1>1. /\ fp[k + 1] = rule.platform /\ fo[k + 1] = match[1].os
      /\ fs[k + 1] = match[1].ssh /\ fw[k + 1] = match[1].server
  OBVIOUS
<1>2. /\ SlotRight(P, k, acc.want, "platform", acc.platform, fp)
      /\ SlotRight(P, k, acc.want, "platform", acc.os_version, fo)
      /\ SlotRight(B, k, acc.want, "ssh", acc.ssh_version, fs)
      /\ SlotRight(W, k, acc.want, "http", acc.http_server, fw)
      /\ acc.http_version # NoValue => acc.http_server # NoValue
  BY DEF SlotsRight
<1>3. P \in SUBSET Nat /\ B \in SUBSET Nat /\ W \in SUBSET Nat
  <2>1. DOMAIN PlatformRules \subseteq Nat
    BY RulesAssumption
  <2> QED BY <2>1 DEF Filling
<1>4. ASSUME NEW slot PROVE k + 1 \in Filling(r, slot) <=> Declares(rule, slot) /\ match # <<>>
  BY RuleMatches DEF Filling
<1>5. /\ k + 1 \in P <=> Declares(rule, "platform") /\ match # <<>>
      /\ k + 1 \in B <=> Declares(rule, "ssh") /\ match # <<>>
      /\ k + 1 \in W <=> Declares(rule, "http") /\ match # <<>>
  BY <1>4
<1>6. next = IF claims = {} \/ match = <<>> THEN acc
        ELSE [platform |-> IF "platform" \in claims THEN rule.platform ELSE acc.platform,
              os_version |-> IF "platform" \in claims THEN match[1].os ELSE acc.os_version,
              ssh_version |-> IF "ssh" \in claims THEN match[1].ssh ELSE acc.ssh_version,
              http_server |-> IF "http" \in claims THEN match[1].server ELSE acc.http_server,
              http_version |-> IF "http" \in claims /\ match[1].server # NoValue
                                 THEN match[1].version ELSE acc.http_version,
              want |-> acc.want \ claims]
  BY DEF ApplyPlatformRule
<1>7. ASSUME NEW slot PROVE slot \in claims <=> slot \in acc.want /\ Declares(rule, slot)
  OBVIOUS
<1> HIDE DEF rule, claims, match, next, P, B, W, fp, fo, fs, fw
<1>8. CASE claims = {} \/ match = <<>>
  <2>1. next = acc
    BY <1>6, <1>8
  <2>2. /\ ~("platform" \in acc.want /\ k + 1 \in P)
        /\ ~("ssh" \in acc.want /\ k + 1 \in B)
        /\ ~("http" \in acc.want /\ k + 1 \in W)
    BY <1>5, <1>7, <1>8
  <2>3. SlotRight(P, k + 1, acc.want, "platform", acc.platform, fp)
    BY <1>2, <1>3, <2>2, SlotStep
  <2>4. SlotRight(P, k + 1, acc.want, "platform", acc.os_version, fo)
    BY <1>2, <1>3, <2>2, SlotStep
  <2>5. SlotRight(B, k + 1, acc.want, "ssh", acc.ssh_version, fs)
    BY <1>2, <1>3, <2>2, SlotStep
  <2>6. SlotRight(W, k + 1, acc.want, "http", acc.http_server, fw)
    BY <1>2, <1>3, <2>2, SlotStep
  <2>7. SlotsRight(r, k + 1, acc)
    BY <1>2, <2>3, <2>4, <2>5, <2>6 DEF SlotsRight, P, B, W, fp, fo, fs, fw
  <2> QED BY <2>1, <2>7 DEF next, rule
<1>9. CASE ~(claims = {} \/ match = <<>>)
  <2>1. /\ next.platform = IF "platform" \in claims THEN rule.platform ELSE acc.platform
        /\ next.os_version = IF "platform" \in claims THEN match[1].os ELSE acc.os_version
        /\ next.ssh_version = IF "ssh" \in claims THEN match[1].ssh ELSE acc.ssh_version
        /\ next.http_server = IF "http" \in claims THEN match[1].server ELSE acc.http_server
        /\ next.http_version = IF "http" \in claims /\ match[1].server # NoValue
                                 THEN match[1].version ELSE acc.http_version
        /\ next.want = acc.want \ claims
    BY <1>6, <1>9
  <2>2. /\ "platform" \in claims <=> "platform" \in acc.want /\ k + 1 \in P
        /\ "ssh" \in claims <=> "ssh" \in acc.want /\ k + 1 \in B
        /\ "http" \in claims <=> "http" \in acc.want /\ k + 1 \in W
    BY <1>5, <1>7, <1>9
  <2>3. SlotRight(P, k + 1, next.want, "platform", next.platform, fp)
    BY <1>1, <1>2, <1>3, <2>1, <2>2, SlotStep
  <2>4. SlotRight(P, k + 1, next.want, "platform", next.os_version, fo)
    BY <1>1, <1>2, <1>3, <2>1, <2>2, SlotStep
  <2>5. SlotRight(B, k + 1, next.want, "ssh", next.ssh_version, fs)
    BY <1>1, <1>2, <1>3, <2>1, <2>2, SlotStep
  <2>6. SlotRight(W, k + 1, next.want, "http", next.http_server, fw)
    BY <1>1, <1>2, <1>3, <2>1, <2>2, SlotStep
  <2>7. next.http_version # NoValue => next.http_server # NoValue
    <3>1. CASE "http" \in claims
      <4>1. "http" \in acc.want
        BY <2>2, <3>1
      <4>2. acc.http_server = NoValue
        BY <1>2, <4>1 DEF SlotRight
      <4> QED BY <1>2, <2>1, <3>1, <4>2
    <3>2. CASE "http" \notin claims
      BY <1>2, <2>1, <3>2
    <3> QED BY <3>1, <3>2
  <2>8. SlotsRight(r, k + 1, next)
    BY <2>3, <2>4, <2>5, <2>6, <2>7 DEF SlotsRight, P, B, W, fp, fo, fs, fw
  <2> QED BY <2>8 DEF next, rule
<1> QED BY <1>8, <1>9

\* All the rules have been tried.
LEMMA AllRulesTried ==
  ASSUME NEW r
  PROVE  SlotsRight(r, Len(PlatformRules), ApplyPlatformRules(r))
<1> DEFINE m == Len(PlatformRules)
<1>1. m \in Nat /\ DOMAIN PlatformRules = 1 .. m
  BY RulesAssumption
<1>2. PICK h :
        /\ h[0] = Unclassified /\ ApplyPlatformRules(r) = h[m]
        /\ \A k \in 0 .. m : h[k] \in Found(r)
        /\ \A k \in 1 .. m : h[k] = ApplyPlatformRule(r, h[k - 1], PlatformRules[k])
  BY PlatformRun
<1> HIDE DEF m
<1> DEFINE T == {k \in 0 .. m : SlotsRight(r, k, h[k])}
<1>3. 0 \in T
  <2>1. ASSUME NEW slot PROVE UpTo(Filling(r, slot), 0) = {}
    BY <1>1 DEF Filling, UpTo
  <2>2. SlotsRight(r, 0, Unclassified)
    BY <2>1 DEF SlotsRight, SlotRight, Unclassified
  <2>3. 0 \in 0 .. m
    BY <1>1
  <2> QED BY <1>2, <2>2, <2>3
<1>4. ASSUME NEW k \in 0 .. m - 1, k \in T PROVE k + 1 \in T
  <2>1. k \in Nat /\ k \in 0 .. m /\ k + 1 \in 0 .. m /\ k + 1 \in 1 .. m /\ (k + 1) - 1 = k
    BY <1>1
  <2>2. h[k + 1] = ApplyPlatformRule(r, h[k], PlatformRules[k + 1])
    BY <1>2, <2>1
  <2>3. SlotsRight(r, k, h[k])
    BY <1>4
  <2>4. h[k].want \subseteq {"platform", "ssh", "http"}
    <3>1. h[k] \in Found(r)
      BY <1>2, <2>1
    <3> QED BY <3>1 DEF Found
  <2>5. SlotsRight(r, k + 1, h[k + 1])
    BY <1>1, <2>1, <2>2, <2>3, <2>4, SlotsStep
  <2> QED BY <2>1, <2>5
<1> HIDE DEF T
<1>5. \A k \in 0 .. m : k \in T
  BY <1>1, <1>3, <1>4, InductionUpTo
<1>6. m \in 0 .. m /\ m \in T
  BY <1>1, <1>5
<1> QED BY <1>2, <1>6 DEF T, m

\* What the classifier reads of a record are its signals.
LEMMA SignalsDecide ==
  ASSUME NEW r, NEW c, c.signals = r.signals
  PROVE  /\ \A slot : Filling(c, slot) = Filling(r, slot)
         /\ \A rule : PlatformRuleMatch(rule, c) = PlatformRuleMatch(rule, r)
         /\ \A rule : RoleRuleMatches(rule, c) <=> RoleRuleMatches(rule, r)
<1>1. \A signal : Texts(c, signal) = Texts(r, signal)
  BY DEF Texts
<1>2. \A slot : Filling(c, slot) = Filling(r, slot)
  BY <1>1 DEF Filling
<1>3. \A rule : PlatformRuleMatch(rule, c) = PlatformRuleMatch(rule, r)
  BY DEF PlatformRuleMatch
<1>4. \A rule : RoleRuleMatches(rule, c) <=> RoleRuleMatches(rule, r)
  BY <1>1 DEF RoleRuleMatches
<1> QED BY <1>2, <1>3, <1>4

\* Classify fills each slot by the first rule that matches and declares it.
LEMMA ClassifyRight ==
  ASSUME NEW r, {"mgmt_ip", "alt_ips", "signals"} \subseteq DOMAIN r
  PROVE  ClassifiedRight(Classify(r))
<1> DEFINE c == Classify(r)
           acc == ApplyPlatformRules(r)
           m == Len(PlatformRules)
           P == Filling(r, "platform")
           B == Filling(r, "ssh")
           W == Filling(r, "http")
           R == {i \in DOMAIN RoleRules : RoleRuleMatches(RoleRules[i], r)}
<1>1. c.signals = r.signals
  BY ClassifyKeeps
<1>2. /\ c.platform = acc.platform /\ c.os_version = acc.os_version
      /\ c.ssh_version = acc.ssh_version /\ c.http_server = acc.http_server
      /\ c.http_version = acc.http_version
      /\ c.role = IF R = {} THEN NoValue ELSE RoleRules[Min(R)].role
  BY ClassifyAdds
<1>3. /\ \A slot : Filling(c, slot) = Filling(r, slot)
      /\ \A rule : PlatformRuleMatch(rule, c) = PlatformRuleMatch(rule, r)
      /\ {i \in DOMAIN RoleRules : RoleRuleMatches(RoleRules[i], c)} = R
  <2> HIDE DEF c
  <2> QED BY <1>1, SignalsDecide
<1>4. SlotsRight(r, m, acc)
  BY AllRulesTried
<1>5. m \in Nat /\ DOMAIN PlatformRules = 1 .. m
  BY RulesAssumption
<1> HIDE DEF c, acc, m, R
<1>6. ASSUME NEW slot
      PROVE  UpTo(Filling(r, slot), m) = Filling(r, slot) /\ Filling(r, slot) \in SUBSET (1 .. m)
  BY <1>5 DEF UpTo, Filling
<1>7. UpTo(P, m) = P /\ UpTo(B, m) = B /\ UpTo(W, m) = W
  BY <1>6
<1>8. P \in SUBSET (1 .. m) /\ B \in SUBSET (1 .. m) /\ W \in SUBSET (1 .. m)
  BY <1>6
<1>9. ASSUME NEW A \in SUBSET (1 .. m), A # {} PROVE Min(A) \in DOMAIN PlatformRules
  <2>1. A \in SUBSET Nat
    BY <1>5
  <2> QED BY <1>5, <1>9, <2>1, MinIsFirst
<1>10. /\ acc.platform = IF P = {} THEN NoValue ELSE PlatformRules[Min(P)].platform
       /\ acc.os_version = IF P = {} THEN NoValue ELSE PlatformRuleMatch(PlatformRules[Min(P)], r)[1].os
       /\ acc.ssh_version = IF B = {} THEN NoValue ELSE PlatformRuleMatch(PlatformRules[Min(B)], r)[1].ssh
       /\ acc.http_server = IF W = {} THEN NoValue ELSE PlatformRuleMatch(PlatformRules[Min(W)], r)[1].server
       /\ acc.http_version # NoValue => acc.http_server # NoValue
  <2>1. P # {} => Min(P) \in DOMAIN PlatformRules
    BY <1>8, <1>9
  <2>2. B # {} => Min(B) \in DOMAIN PlatformRules
    BY <1>8, <1>9
  <2>3. W # {} => Min(W) \in DOMAIN PlatformRules
    BY <1>8, <1>9
  <2> HIDE DEF P, B, W
  <2> DEFINE fp == [i \in DOMAIN PlatformRules |-> PlatformRules[i].platform]
             fo == [i \in DOMAIN PlatformRules |-> PlatformRuleMatch(PlatformRules[i], r)[1].os]
             fs == [i \in DOMAIN PlatformRules |-> PlatformRuleMatch(PlatformRules[i], r)[1].ssh]
             fw == [i \in DOMAIN PlatformRules |-> PlatformRuleMatch(PlatformRules[i], r)[1].server]
  <2>4. /\ SlotRight(P, m, acc.want, "platform", acc.platform, fp)
        /\ SlotRight(P, m, acc.want, "platform", acc.os_version, fo)
        /\ SlotRight(B, m, acc.want, "ssh", acc.ssh_version, fs)
        /\ SlotRight(W, m, acc.want, "http", acc.http_server, fw)
        /\ acc.http_version # NoValue => acc.http_server # NoValue
    BY <1>4, Zenon DEF SlotsRight, P, B, W
  <2> HIDE DEF fp, fo, fs, fw
  <2>5. /\ acc.platform = IF P = {} THEN NoValue ELSE fp[Min(P)]
        /\ acc.os_version = IF P = {} THEN NoValue ELSE fo[Min(P)]
        /\ acc.ssh_version = IF B = {} THEN NoValue ELSE fs[Min(B)]
        /\ acc.http_server = IF W = {} THEN NoValue ELSE fw[Min(W)]
    BY <1>7, <2>4 DEF SlotRight
  <2> QED BY <2>1, <2>2, <2>3, <2>4, <2>5 DEF fp, fo, fs, fw
<1> HIDE DEF P, B, W
<1>11. Filling(c, "platform") = P /\ Filling(c, "ssh") = B /\ Filling(c, "http") = W
  BY <1>3 DEF P, B, W
<1>12. ClassifiedRight(c)
  BY <1>2, <1>3, <1>10, <1>11 DEF ClassifiedRight, Min
<1> QED BY <1>12 DEF c

-----------------------------------------------------------------------------
(* What the reports of a link say of its ends *)

\* What an end can become from the reports in q.
Ends(q) ==
  [chassis : {x.chassis : x \in ToSet(q)}, subtype : {x.subtype : x \in ToSet(q)},
   port : {Blank} \cup {x.port : x \in ToSet(q)}, own : BOOLEAN,
   sys_name : {NoValue} \cup {x.sys_name : x \in ToSet(q)}]

\* One more report.
LEMMA MergeStaysEnd ==
  ASSUME NEW q, \A x \in ToSet(q) : x.own \in BOOLEAN,
         NEW entry \in Ends(q), NEW o \in ToSet(q)
  PROVE  MergeEnd(entry, o) \in Ends(q)
<1> DEFINE takes == o.port # Blank /\ TakesPort(entry, o)
           next == MergeEnd(entry, o)
           C == {x.chassis : x \in ToSet(q)}
           U == {x.subtype : x \in ToSet(q)}
           P == {Blank} \cup {x.port : x \in ToSet(q)}
           N == {NoValue} \cup {x.sys_name : x \in ToSet(q)}
<1>1. next = [chassis |-> entry.chassis, subtype |-> entry.subtype,
              port |-> IF takes THEN o.port ELSE entry.port,
              own |-> IF takes THEN o.own ELSE entry.own,
              sys_name |-> IF entry.sys_name = NoValue THEN o.sys_name ELSE entry.sys_name]
  BY DEF MergeEnd
<1>2. entry \in [chassis : C, subtype : U, port : P, own : BOOLEAN, sys_name : N]
  BY DEF Ends
<1>3. o.port \in P /\ o.own \in BOOLEAN /\ o.sys_name \in N
  OBVIOUS
<1> HIDE DEF takes, next, C, U, P, N
<1>4. next \in [chassis : C, subtype : U, port : P, own : BOOLEAN, sys_name : N]
  BY <1>1, <1>2, <1>3
<1> QED BY <1>4 DEF next, Ends, C, U, P, N

\* Edge::merge, one report at a time.
LEMMA EndRun ==
  ASSUME NEW M, NEW q \in Seq(M), Len(q) > 0, \A x \in ToSet(q) : x.own \in BOOLEAN
  PROVE  \E h :
           /\ h[0] = NewEnd(q[1]) /\ FoldLeft(MergeEnd, NewEnd(q[1]), q) = h[Len(q)]
           /\ \A k \in 0 .. Len(q) : h[k] \in Ends(q)
           /\ \A k \in 1 .. Len(q) : h[k] = MergeEnd(h[k - 1], q[k])
<1> DEFINE m == Len(q)
           S == Ends(q)
           b == NewEnd(q[1])
           Step(x, e) == MergeEnd(x, e)
           Body(g) == [s \in SUBSET DOMAIN q |->
                         IF s = {} THEN b
                         ELSE LET x == Max(s)
                              IN  Step(g[s \ {x}], q[x])]
           c == CHOOSE g : g = Body(g)
           F == [i \in 1 .. m |-> [x \in S |-> Step(x, q[i])]]
           h == [k \in 0 .. m |-> c[1 .. k]]
<1>1. m \in Nat /\ DOMAIN q = 1 .. m
  OBVIOUS
<1>2. FoldLeft(MergeEnd, NewEnd(q[1]), q) = c[DOMAIN q]
  BY Zenon DEF FoldLeft, MapThenFoldSet
<1>3. b \in S
  <2>1. q[1] \in ToSet(q)
    BY <1>1 DEF ToSet
  <2> QED BY <2>1 DEF NewEnd, Ends
<1>4. \A i \in 1 .. m : \A x \in S : Step(x, q[i]) \in S
  <2>1. \A i \in 1 .. m : q[i] \in ToSet(q)
    BY <1>1 DEF ToSet
  <2> QED BY <2>1, MergeStaysEnd
<1>5. \A x, e : Step(x, e) = MergeEnd(x, e)
  OBVIOUS
<1> HIDE DEF Step, S, b, m
<1>6. StepsIn(F, m, S) /\ \A i \in 1 .. m : \A x \in S : F[i][x] = Step(x, q[i])
  BY <1>4 DEF StepsIn
<1> HIDE DEF F
<1>7. PICK g \in [SUBSET (1 .. m) -> S] : Fold(F, b, m, g)
  BY <1>1, <1>3, <1>6, FoldExists
<1>8. \A s \in SUBSET (1 .. m) :
        s # {} => Max(s) \in 1 .. m /\ s \ {Max(s)} \in SUBSET (1 .. m)
  BY <1>1, MaxOfIndexes
<1>9. \A s \in SUBSET (1 .. m) :
        s # {} => F[Max(s)][g[s \ {Max(s)}]] = Step(g[s \ {Max(s)}], q[Max(s)])
  BY <1>6, <1>7, <1>8
<1>10. g = Body(g)
  BY <1>1, <1>7, <1>9 DEF Fold
<1>11. c = Body(c)
  BY <1>10
<1> HIDE DEF c
<1>12. c[{}] = b /\ \A s \in SUBSET (1 .. m) : s # {} => c[s] = Step(c[s \ {Max(s)}], q[Max(s)])
  BY <1>1, <1>11
<1>13. FoldsIn(F, b, m, S, c)
  BY <1>6, <1>8, <1>12 DEF FoldsIn
<1>14. FoldRuns(F, b, m, S, c)
  BY <1>1, <1>3, <1>6, <1>13, FoldRun
<1>15. /\ h[0] = b /\ h[m] = c[1 .. m]
       /\ \A k \in 0 .. m : h[k] \in S
       /\ \A k \in 1 .. m : h[k] = Step(h[k - 1], q[k])
  <2>1. \A k \in 1 .. m : k \in 0 .. m /\ k - 1 \in 0 .. m
    BY <1>1
  <2>2. 0 \in 0 .. m /\ m \in 0 .. m
    BY <1>1
  <2> QED BY <1>6, <1>14, <2>1, <2>2 DEF FoldRuns
<1> HIDE DEF h
<1> WITNESS h
<1> QED BY <1>1, <1>2, <1>5, <1>15 DEF m, S, b

\* The ports that the first k reports give, as the end's own word or not.
PortsSaid(q, k, who) ==
  {q[j].port : j \in {i \in 1 .. k : (q[i].own <=> who = "self") /\ q[i].port # Blank}}

\* ... and with one more report, o.
Grown(P, o, who) == P \cup (IF (o.own <=> who = "self") /\ o.port # Blank THEN {o.port} ELSE {})

\* Own ports come first, then a neighbour's, then none.
PortRight(entry, mine, theirs) ==
  IF mine # {} THEN entry.own /\ entry.port \in mine
  ELSE ~entry.own /\ IF theirs # {} THEN entry.port \in theirs ELSE entry.port = Blank

\* One more report keeps the order of precedence.
LEMMA PortStep ==
  ASSUME NEW entry, NEW o,
         NEW mine, NEW theirs, Blank \notin mine, Blank \notin theirs, PortRight(entry, mine, theirs)
  PROVE  PortRight(MergeEnd(entry, o),
                   Grown(mine, o, "self"),
                   Grown(theirs, o, "peer"))
<1> DEFINE takes == o.port # Blank /\ TakesPort(entry, o)
           next == MergeEnd(entry, o)
<1>1. /\ next.port = IF takes THEN o.port ELSE entry.port
      /\ next.own = IF takes THEN o.own ELSE entry.own
  BY DEF MergeEnd
<1>2. takes <=> o.port # Blank /\ (entry.port = Blank \/ (o.own /\ ~entry.own))
  BY DEF TakesPort
<1> HIDE DEF takes, next
<1>3. CASE o.own
  BY <1>1, <1>2, <1>3 DEF PortRight, Grown, next
<1>4. CASE ~o.own
  BY <1>1, <1>2, <1>4 DEF PortRight, Grown, next
<1> QED BY <1>3, <1>4

\* All the reports: the end's port is its own word where there is one.
LEMMA EndMerged ==
  ASSUME NEW M, NEW q \in Seq(M), Len(q) > 0, \A x \in ToSet(q) : x.own \in BOOLEAN
  PROVE  LET end == FoldLeft(MergeEnd, NewEnd(q[1]), q)
         IN  /\ PortRight(end, PortsSaid(q, Len(q), "self"), PortsSaid(q, Len(q), "peer"))
             /\ \E x \in ToSet(q) : end.subtype = x.subtype
<1> DEFINE m == Len(q)
           end == FoldLeft(MergeEnd, NewEnd(q[1]), q)
<1>1. m \in Nat /\ DOMAIN q = 1 .. m /\ \A k \in 1 .. m : q[k] \in ToSet(q)
  BY DEF ToSet
<1>2. PICK h :
        /\ h[0] = NewEnd(q[1]) /\ end = h[m]
        /\ \A k \in 0 .. m : h[k] \in Ends(q)
        /\ \A k \in 1 .. m : h[k] = MergeEnd(h[k - 1], q[k])
  BY EndRun
<1> HIDE DEF m, end
<1> DEFINE T == {k \in 0 .. m : PortRight(h[k], PortsSaid(q, k, "self"), PortsSaid(q, k, "peer"))}
<1>3. 0 \in T
  <2>1. \A who : PortsSaid(q, 0, who) = {}
    BY DEF PortsSaid
  <2>2. PortRight(NewEnd(q[1]), {}, {})
    BY DEF PortRight, NewEnd
  <2>3. 0 \in 0 .. m
    BY <1>1
  <2> QED BY <1>2, <2>1, <2>2, <2>3
<1>4. ASSUME NEW k \in 0 .. m - 1, k \in T PROVE k + 1 \in T
  <2>1. k \in Nat /\ k \in 0 .. m /\ k + 1 \in 0 .. m /\ k + 1 \in 1 .. m /\ (k + 1) - 1 = k
    BY <1>1
  <2> DEFINE o == q[k + 1]
             A == PortsSaid(q, k, "self")
             B == PortsSaid(q, k, "peer")
  <2>2. h[k + 1] = MergeEnd(h[k], o)
    BY <1>2, <2>1
  <2>3. PortRight(h[k], A, B)
    BY <1>4
  <2>4. Blank \notin A /\ Blank \notin B
    BY DEF PortsSaid
  <2>5. \A i : i \in 1 .. k + 1 <=> i \in 1 .. k \/ i = k + 1
    BY <2>1
  <2>6. ASSUME NEW who
        PROVE  PortsSaid(q, k + 1, who)
                 = Grown(PortsSaid(q, k, who), o, who)
    BY <2>5, Zenon DEF PortsSaid, Grown
  <2>7. /\ PortsSaid(q, k + 1, "self") = Grown(A, o, "self")
        /\ PortsSaid(q, k + 1, "peer") = Grown(B, o, "peer")
    BY <2>6
  <2> HIDE DEF A, B, o
  <2>8. PortRight(MergeEnd(h[k], o),
                   Grown(A, o, "self"),
                   Grown(B, o, "peer"))
    BY <2>3, <2>4, PortStep
  <2>9. PortRight(h[k + 1], PortsSaid(q, k + 1, "self"), PortsSaid(q, k + 1, "peer"))
    BY <2>2, <2>7, <2>8
  <2> QED BY <2>1, <2>9
<1> HIDE DEF T
<1>5. \A k \in 0 .. m : k \in T
  BY <1>1, <1>3, <1>4, InductionUpTo
<1>6. m \in 0 .. m /\ m \in T
  BY <1>1, <1>5
<1>7. \E x \in ToSet(q) : end.subtype = x.subtype
  <2>1. end \in Ends(q)
    BY <1>2, <1>6
  <2> QED BY <2>1 DEF Ends
<1> QED BY <1>2, <1>6, <1>7 DEF T, m, end

\* Flatten as a filter: the entries of f at the places in A, in order.
Picks(f, A) == [k \in DOMAIN f |-> IF k \in A THEN <<f[k]>> ELSE <<>>]

LEMMA FlattenPicks ==
  ASSUME NEW M, NEW m \in Nat, NEW f \in [1 .. m -> M], NEW A \in SUBSET (1 .. m)
  PROVE  Flatten(Picks(f, A)) \in Seq(M) /\ ToSet(Flatten(Picks(f, A))) = {f[k] : k \in A}
<1> DEFINE g == Picks(f, A)
<1>1. \A k \in 1 .. m : <<f[k]>> \in Seq(M) /\ <<>> \in Seq(M)
  OBVIOUS
<1>2. g \in [1 .. m -> Seq(M)] /\ \A k \in 1 .. m : g[k] = IF k \in A THEN <<f[k]>> ELSE <<>>
  BY <1>1 DEF Picks
<1> HIDE DEF g
<1>3. g \in Seq(Seq(M)) /\ DOMAIN g = 1 .. m
  BY <1>2
<1>4. \A k \in 1 .. m : \A x : x \in ToSet(g[k]) <=> k \in A /\ x = f[k]
  <2> SUFFICES ASSUME NEW k \in 1 .. m PROVE \A x : x \in ToSet(g[k]) <=> k \in A /\ x = f[k]
    OBVIOUS
  <2>1. CASE k \in A
    <3>1. g[k] = <<f[k]>>
      BY <1>2, <2>1
    <3> QED BY <2>1, <3>1 DEF ToSet
  <2>2. CASE k \notin A
    <3>1. g[k] = <<>>
      BY <1>2, <2>2
    <3> QED BY <2>2, <3>1 DEF ToSet
  <2> QED BY <2>1, <2>2
<1>5. Flatten(g) \in Seq(M) /\ ToSet(Flatten(g)) = UNION {ToSet(g[k]) : k \in DOMAIN g}
  BY <1>3, FlattenKeeps
<1>6. \A x : x \in UNION {ToSet(g[k]) : k \in DOMAIN g} <=> x \in {f[k] : k \in A}
  BY <1>3, <1>4
<1> QED BY <1>5, <1>6 DEF g

\* The observations are a sequence, with sequences of neighbours.
LldpOK ==
  /\ \E S : lldpSeen \in Seq(S)
  /\ \A i \in DOMAIN lldpSeen : lldpSeen[i].neighbors \in Seq(ToSet(lldpSeen[i].neighbors))

ReportAt(i, k) == Report(lldpSeen[i], lldpSeen[i].neighbors[k])

\* The places where a neighbour was seen.
LEMMA SightedIs ==
  \A s : s \in Sighted
            <=> \E i \in DOMAIN lldpSeen : \E k \in DOMAIN lldpSeen[i].neighbors : s = <<i, k>>
BY DEF Sighted

\* Every link sighted is reported, and nothing else.
LEMMA ReportsAre ==
  ASSUME LldpOK
  PROVE  /\ \E M : Reports \in Seq(M)
         /\ \A x : x \in ToSet(Reports)
              <=> \E i \in DOMAIN lldpSeen : \E k \in DOMAIN lldpSeen[i].neighbors :
                    x = ReportAt(i, k) /\ IsLink(x)
<1> DEFINE M == {ReportAt(s[1], s[2]) : s \in Sighted}
           m == Len(lldpSeen)
           Part(i) == Flatten([k \in DOMAIN lldpSeen[i].neighbors |->
                         IF IsLink(ReportAt(i, k)) THEN <<ReportAt(i, k)>> ELSE <<>>])
           q == [i \in 1 .. m |-> Part(i)]
<1>1. m \in Nat /\ DOMAIN lldpSeen = 1 .. m
  BY DEF LldpOK
<1>2. \A i \in DOMAIN lldpSeen : \A k \in DOMAIN lldpSeen[i].neighbors : ReportAt(i, k) \in M
  <2> SUFFICES ASSUME NEW i \in DOMAIN lldpSeen, NEW k \in DOMAIN lldpSeen[i].neighbors
               PROVE  ReportAt(i, k) \in M
    OBVIOUS
  <2>1. <<i, k>> \in Sighted
    BY SightedIs
  <2>2. <<i, k>>[1] = i /\ <<i, k>>[2] = k
    OBVIOUS
  <2> QED BY <2>1, <2>2
<1> HIDE DEF M
<1>3. ASSUME NEW i \in 1 .. m
      PROVE  /\ Part(i) \in Seq(M)
             /\ \A x : x \in ToSet(Part(i))
                  <=> \E k \in DOMAIN lldpSeen[i].neighbors : x = ReportAt(i, k) /\ IsLink(x)
  <2> DEFINE nbs == lldpSeen[i].neighbors
             c == Len(nbs)
             f == [k \in 1 .. c |-> ReportAt(i, k)]
             A == {k \in 1 .. c : IsLink(ReportAt(i, k))}
             g == [k \in DOMAIN nbs |-> IF IsLink(ReportAt(i, k)) THEN <<ReportAt(i, k)>> ELSE <<>>]
  <2>1. c \in Nat /\ DOMAIN nbs = 1 .. c
    <3>1. nbs \in Seq(ToSet(nbs))
      BY <1>1 DEF LldpOK
    <3> QED BY <3>1
  <2>2. f \in [1 .. c -> M]
    BY <1>1, <1>2, <2>1
  <2>3. g = Picks(f, A)
    BY <2>1 DEF Picks
  <2>4. A \in SUBSET (1 .. c)
    OBVIOUS
  <2>5. Part(i) = Flatten(g)
    OBVIOUS
  <2>6. \A x : x \in {f[k] : k \in A}
              <=> \E k \in DOMAIN nbs : x = ReportAt(i, k) /\ IsLink(x)
    BY <2>1
  <2> HIDE DEF f, A, g, c, nbs, Part
  <2>7. Flatten(g) \in Seq(M) /\ ToSet(Flatten(g)) = {f[k] : k \in A}
    BY <2>1, <2>2, <2>3, <2>4, FlattenPicks
  <2> QED BY <2>5, <2>6, <2>7 DEF nbs
<1>4. Reports = Flatten(q)
  <2>1. Reports = Flatten([i \in DOMAIN lldpSeen |-> Part(i)])
    BY DEF Reports, ReportAt
  <2> QED BY <1>1, <2>1
<1> HIDE DEF Part
<1>5. q \in [1 .. m -> Seq(M)]
  BY <1>3
<1>6. q \in Seq(Seq(M)) /\ DOMAIN q = 1 .. m
  BY <1>1, <1>5
<1>7. Flatten(q) \in Seq(M) /\ ToSet(Flatten(q)) = UNION {ToSet(q[i]) : i \in DOMAIN q}
  BY <1>6, FlattenKeeps
<1>8. \A x : x \in UNION {ToSet(q[i]) : i \in DOMAIN q}
              <=> \E i \in 1 .. m : x \in ToSet(Part(i))
  BY <1>6
<1> QED BY <1>1, <1>3, <1>4, <1>7, <1>8

\* What a report has of the sighting it comes from.
LEMMA ReportHas ==
  ASSUME NEW i, NEW k
  PROVE  LET nb == lldpSeen[i].neighbors[k]
             x == ReportAt(i, k)
         IN  /\ x.local.norm = Calls(i) /\ x.remote.norm = NeighborAt(i, k)
             /\ x.local.port = nb.local_port /\ x.remote.port = nb.port
             /\ x.local.own = TRUE /\ x.remote.own = FALSE
             /\ x.remote.subtype = nb.subtype
             /\ x.at = lldpSeen[i].at /\ x.via = lldpSeen[i].via
             /\ EdgeKey(x) = {Calls(i), NeighborAt(i, k)}
             /\ IsLink(x) <=> Calls(i) # Blank /\ NeighborAt(i, k) # Blank /\ Calls(i) # NeighborAt(i, k)
<1> DEFINE nb == lldpSeen[i].neighbors[k]
           x == ReportAt(i, k)
<1>1. /\ x.local.norm = Calls(i) /\ x.remote.norm = NeighborAt(i, k)
      /\ x.local.port = nb.local_port /\ x.remote.port = nb.port
      /\ x.local.own = TRUE /\ x.remote.own = FALSE
      /\ x.remote.subtype = nb.subtype
      /\ x.at = lldpSeen[i].at /\ x.via = lldpSeen[i].via
  BY DEF ReportAt, Report, Calls, NeighborAt
<1> HIDE DEF x, nb
<1>2. EdgeKey(x) = {Calls(i), NeighborAt(i, k)}
  BY <1>1 DEF EdgeKey
<1>3. IsLink(x) <=> Calls(i) # Blank /\ NeighborAt(i, k) # Blank /\ Calls(i) # NeighborAt(i, k)
  BY <1>1, <1>2 DEF IsLink
<1> QED BY <1>1, <1>2, <1>3 DEF x, nb

\* Where a was seen to have neighbour b.
LEMMA SightingsAre ==
  \A a, b, s : s \in Sightings(a, b)
                 <=> \E i \in DOMAIN lldpSeen : \E k \in DOMAIN lldpSeen[i].neighbors :
                       s = <<i, k>> /\ Calls(i) = a /\ NeighborAt(i, k) = b
<1> SUFFICES ASSUME NEW a, NEW b, NEW s
             PROVE  s \in Sightings(a, b)
                      <=> \E i \in DOMAIN lldpSeen : \E k \in DOMAIN lldpSeen[i].neighbors :
                            s = <<i, k>> /\ Calls(i) = a /\ NeighborAt(i, k) = b
  OBVIOUS
<1>1. s \in Sightings(a, b) <=> s \in Sighted /\ Calls(s[1]) = a /\ NeighborAt(s[1], s[2]) = b
  BY DEF Sightings
<1>2. \A i, k : s = <<i, k>> => s[1] = i /\ s[2] = k
  OBVIOUS
<1> QED BY <1>1, <1>2, SightedIs

\* The reports about the link between a and b are its sightings, from
\* either side.
LEMMA ReportsOfLink ==
  ASSUME LldpOK, NEW a, NEW b, a # b, a # Blank, b # Blank
  PROVE  \A x : x \in ToSet(Reports) /\ EdgeKey(x) = {a, b}
           <=> \E s \in Sightings(a, b) \cup Sightings(b, a) : x = ReportAt(s[1], s[2])
<1> SUFFICES ASSUME NEW x
             PROVE  x \in ToSet(Reports) /\ EdgeKey(x) = {a, b}
                      <=> \E s \in Sightings(a, b) \cup Sightings(b, a) : x = ReportAt(s[1], s[2])
  OBVIOUS
<1>1. ASSUME x \in ToSet(Reports), EdgeKey(x) = {a, b}
      PROVE  \E s \in Sightings(a, b) \cup Sightings(b, a) : x = ReportAt(s[1], s[2])
  <2>1. PICK i \in DOMAIN lldpSeen : \E k \in DOMAIN lldpSeen[i].neighbors :
               x = ReportAt(i, k) /\ IsLink(x)
    BY <1>1, ReportsAre
  <2>2. PICK k \in DOMAIN lldpSeen[i].neighbors : x = ReportAt(i, k) /\ IsLink(x)
    BY <2>1
  <2>3. {Calls(i), NeighborAt(i, k)} = {a, b}
    BY <1>1, <2>2, ReportHas
  <2>4. (Calls(i) = a /\ NeighborAt(i, k) = b) \/ (Calls(i) = b /\ NeighborAt(i, k) = a)
    BY <2>3
  <2>5. <<i, k>> \in Sightings(a, b) \cup Sightings(b, a)
    BY <2>4, SightingsAre
  <2> QED BY <2>2, <2>5
<1>2. ASSUME NEW s \in Sightings(a, b) \cup Sightings(b, a), x = ReportAt(s[1], s[2])
      PROVE  x \in ToSet(Reports) /\ EdgeKey(x) = {a, b}
  <2>1. /\ s \in Sighted
        /\ \/ Calls(s[1]) = a /\ NeighborAt(s[1], s[2]) = b
           \/ Calls(s[1]) = b /\ NeighborAt(s[1], s[2]) = a
    BY DEF Sightings
  <2>2. PICK i \in DOMAIN lldpSeen : \E k \in DOMAIN lldpSeen[i].neighbors : s = <<i, k>>
    BY <2>1, SightedIs
  <2>3. PICK k \in DOMAIN lldpSeen[i].neighbors : s = <<i, k>>
    BY <2>2
  <2>4. /\ x = ReportAt(i, k)
        /\ \/ Calls(i) = a /\ NeighborAt(i, k) = b
           \/ Calls(i) = b /\ NeighborAt(i, k) = a
    <3>1. s[1] = i /\ s[2] = k
      BY <2>3
    <3> QED BY <1>2, <2>1, <3>1
  <2>5. IsLink(x) /\ EdgeKey(x) = {Calls(i), NeighborAt(i, k)}
    BY <2>4, ReportHas
  <2>6. EdgeKey(x) = {a, b}
    BY <2>4, <2>5
  <2> QED BY <2>4, <2>5, <2>6, ReportsAre
<1> QED BY <1>1, <1>2

\* What the reports rs of a link say of one end.
LEMMA SaidFrom ==
  ASSUME NEW R, NEW rs \in Seq(R), NEW pair, NEW norm
  PROVE  /\ \E M : Said(rs, pair, norm) \in Seq(M)
         /\ \A y : y \in ToSet(Said(rs, pair, norm))
              <=> \E x \in ToSet(rs) : EdgeKey(x) = pair /\ y = EndSaid(x, norm)
<1> DEFINE m == Len(rs)
           M == {EndSaid(rs[i], norm) : i \in 1 .. m}
           f == [i \in 1 .. m |-> EndSaid(rs[i], norm)]
           A == {i \in 1 .. m : EdgeKey(rs[i]) = pair}
           g == [i \in DOMAIN rs |-> IF EdgeKey(rs[i]) = pair THEN <<EndSaid(rs[i], norm)>> ELSE <<>>]
<1>1. m \in Nat /\ DOMAIN rs = 1 .. m
  OBVIOUS
<1>2. f \in [1 .. m -> M] /\ A \in SUBSET (1 .. m)
  OBVIOUS
<1>3. g = Picks(f, A)
  BY <1>1 DEF Picks
<1>4. Said(rs, pair, norm) = Flatten(g)
  BY DEF Said
<1>5. \A y : y \in {f[i] : i \in A}
              <=> \E x \in ToSet(rs) : EdgeKey(x) = pair /\ y = EndSaid(x, norm)
  BY <1>1 DEF ToSet
<1> HIDE DEF m, M, f, A, g
<1>6. Flatten(Picks(f, A)) \in Seq(M) /\ ToSet(Flatten(Picks(f, A))) = {f[i] : i \in A}
  BY <1>1, <1>2, FlattenPicks
<1> QED BY <1>3, <1>4, <1>5, <1>6

\* What was said of a on its link with b: by itself, and by b.
LEMMA SaidAre ==
  ASSUME LldpOK, NEW a, NEW b, a # b, a # Blank, b # Blank
  PROVE  /\ \E M : Said(Reports, {a, b}, a) \in Seq(M)
         /\ \A y : y \in ToSet(Said(Reports, {a, b}, a))
              <=> \/ \E s \in Sightings(a, b) : y = ReportAt(s[1], s[2]).local
                  \/ \E s \in Sightings(b, a) : y = ReportAt(s[1], s[2]).remote
<1> DEFINE pair == {a, b}
           said == Said(Reports, pair, a)
<1>1. PICK R : Reports \in Seq(R)
  BY ReportsAre
<1> HIDE DEF pair
<1>2. /\ \E M : said \in Seq(M)
      /\ \A y : y \in ToSet(said) <=> \E x \in ToSet(Reports) : EdgeKey(x) = pair /\ y = EndSaid(x, a)
  BY <1>1, SaidFrom
<1> HIDE DEF said
<1>3. \A y : y \in ToSet(said)
              <=> \E s \in Sightings(a, b) \cup Sightings(b, a) : y = EndSaid(ReportAt(s[1], s[2]), a)
  <2>1. \A x : x \in ToSet(Reports) /\ EdgeKey(x) = pair
           <=> \E s \in Sightings(a, b) \cup Sightings(b, a) : x = ReportAt(s[1], s[2])
    BY ReportsOfLink DEF pair
  <2> QED BY <1>2, <2>1
<1>4. ASSUME NEW s \in Sightings(a, b)
      PROVE  EndSaid(ReportAt(s[1], s[2]), a) = ReportAt(s[1], s[2]).local
  <2>1. Calls(s[1]) = a
    BY DEF Sightings
  <2>2. ReportAt(s[1], s[2]).local.norm = a
    BY <2>1, ReportHas
  <2> QED BY <2>2 DEF EndSaid
<1>5. ASSUME NEW s \in Sightings(b, a)
      PROVE  EndSaid(ReportAt(s[1], s[2]), a) = ReportAt(s[1], s[2]).remote
  <2>1. Calls(s[1]) = b
    BY DEF Sightings
  <2>2. ReportAt(s[1], s[2]).local.norm = b
    BY <2>1, ReportHas
  <2> QED BY <2>2 DEF EndSaid
<1>6. \A y : y \in ToSet(said)
              <=> \/ \E s \in Sightings(a, b) : y = ReportAt(s[1], s[2]).local
                  \/ \E s \in Sightings(b, a) : y = ReportAt(s[1], s[2]).remote
  BY <1>3, <1>4, <1>5
<1> QED BY <1>2, <1>6 DEF said, pair

-----------------------------------------------------------------------------
(* The links *)

\* The first of three joined sequences.
LEMMA FirstOfJoined ==
  ASSUME NEW V, NEW x \in Seq(V), NEW y \in Seq(V), NEW z \in Seq(V)
  PROVE  LET j == x \o y \o z
         IN  /\ j = <<>> <=> x = <<>> /\ y = <<>> /\ z = <<>>
             /\ x # <<>> => j[1] = x[1]
             /\ x = <<>> /\ y # <<>> => j[1] = y[1]
             /\ x = <<>> /\ y = <<>> /\ z # <<>> => j[1] = z[1]
<1> DEFINE j == x \o y \o z
           p == x \o y
<1>1. /\ Len(x) \in Nat /\ Len(y) \in Nat /\ Len(z) \in Nat
      /\ x = <<>> <=> Len(x) = 0
      /\ y = <<>> <=> Len(y) = 0
      /\ z = <<>> <=> Len(z) = 0
  OBVIOUS
<1>2. /\ p \in Seq(V) /\ Len(p) = Len(x) + Len(y)
      /\ Len(x) > 0 => p[1] = x[1]
      /\ Len(x) = 0 /\ Len(y) > 0 => p[1] = y[1]
  OBVIOUS
<1> HIDE DEF p
<1>3. p \o z \in Seq(V) /\ Len(p \o z) = Len(p) + Len(z)
  BY <1>2
<1>4. /\ Len(p) > 0 => (p \o z)[1] = p[1]
      /\ Len(p) = 0 /\ Len(z) > 0 => (p \o z)[1] = z[1]
  BY <1>2
<1>5. p \o z = <<>> <=> Len(p \o z) = 0
  BY <1>3
<1>6. j = p \o z
  BY DEF p
<1> QED BY <1>1, <1>2, <1>3, <1>4, <1>5, <1>6

\* A lookup answers with one value or none.
LEMMA LookupIs ==
  ASSUME NEW index, NEW key
  PROVE  IF key \in DOMAIN index THEN Lookup(index, key) = <<index[key]>> ELSE Lookup(index, key) = <<>>
BY DEF Lookup

\* resolve_identity.
LEMMA Resolved ==
  ASSUME NEW norm, NEW end, NEW own
  PROVE  LET id == ResolveIdentity(norm, end, own)
             V == Range(own) \cup Range(byMac) \cup Range(byAddr) \cup Range(byName)
         IN  /\ id = <<>> \/ \E v \in V : id = <<v>>
             /\ norm \in DOMAIN own => id = <<own[norm]>>
             /\ id = <<>> /\ end.subtype = "mac" => norm \notin DOMAIN byMac
<1> DEFINE V == Range(own) \cup Range(byMac) \cup Range(byAddr) \cup Range(byName)
           name == IF end.sys_name = NoValue THEN Blank ELSE Canon[end.sys_name]
           x == Lookup(own, norm)
           y == CASE end.subtype = "mac" -> Lookup(byMac, norm)
                     [] end.subtype = "address" /\ norm \in DOMAIN AddrOf -> Lookup(byAddr, AddrOf[norm])
                     [] OTHER -> <<>>
           z == Lookup(byName, name)
           j == x \o y \o z
           id == ResolveIdentity(norm, end, own)
<1>1. id = IF j = <<>> THEN <<>> ELSE <<j[1]>>
  BY DEF ResolveIdentity
<1>2. ASSUME NEW index, NEW key, Range(index) \subseteq V
      PROVE  Lookup(index, key) = <<>> \/ \E v \in V : Lookup(index, key) = <<v>>
  <2> HIDE DEF V
  <2>1. CASE key \in DOMAIN index
    <3>1. index[key] \in V
      BY <1>2, <2>1 DEF Range
    <3> QED BY <2>1, <3>1, LookupIs
  <2>2. CASE key \notin DOMAIN index
    BY <2>2, LookupIs
  <2> QED BY <2>1, <2>2
<1>3. /\ Range(own) \subseteq V /\ Range(byMac) \subseteq V
      /\ Range(byAddr) \subseteq V /\ Range(byName) \subseteq V
  OBVIOUS
<1>4. /\ norm \in DOMAIN own => x = <<own[norm]>>
      /\ end.subtype = "mac" => y = Lookup(byMac, norm)
  BY LookupIs
<1> HIDE DEF V
<1>5. x = <<>> \/ \E v \in V : x = <<v>>
  BY <1>2, <1>3
<1>6. z = <<>> \/ \E v \in V : z = <<v>>
  BY <1>2, <1>3
<1>7. y = <<>> \/ \E v \in V : y = <<v>>
  <2>1. \/ y = Lookup(byMac, norm)
        \/ y = Lookup(byAddr, AddrOf[norm])
        \/ y = <<>>
    OBVIOUS
  <2> HIDE DEF y
  <2>2. CASE y = Lookup(byMac, norm)
    BY <1>2, <1>3, <2>2
  <2>3. CASE y = Lookup(byAddr, AddrOf[norm])
    BY <1>2, <1>3, <2>3
  <2> QED BY <2>1, <2>2, <2>3
<1> HIDE DEF x, y, z
<1>8. x \in Seq(V) /\ y \in Seq(V) /\ z \in Seq(V)
  <2>1. <<>> \in Seq(V) /\ \A v \in V : <<v>> \in Seq(V)
    OBVIOUS
  <2> QED BY <1>5, <1>6, <1>7, <2>1
<1>9. /\ j = <<>> <=> x = <<>> /\ y = <<>> /\ z = <<>>
      /\ x # <<>> => j[1] = x[1]
      /\ x = <<>> /\ y # <<>> => j[1] = y[1]
      /\ x = <<>> /\ y = <<>> /\ z # <<>> => j[1] = z[1]
  BY <1>8, FirstOfJoined
<1>10. \A v, w : w = <<v>> => w # <<>> /\ w[1] = v
  OBVIOUS
<1> HIDE DEF j, id
<1>11. id = <<>> \/ \E v \in V : id = <<v>>
  BY <1>1, <1>5, <1>6, <1>7, <1>9, <1>10
<1>12. norm \in DOMAIN own => id = <<own[norm]>>
  BY <1>1, <1>4, <1>9, <1>10
<1>13. id = <<>> /\ end.subtype = "mac" => norm \notin DOMAIN byMac
  <2> SUFFICES ASSUME id = <<>>, end.subtype = "mac", norm \in DOMAIN byMac PROVE FALSE
    OBVIOUS
  <2>1. j = <<>>
    BY <1>1, <1>10
  <2>2. Lookup(byMac, norm) = <<>>
    BY <1>4, <1>9, <2>1
  <2> QED BY <1>10, <2>2, LookupIs
<1> QED BY <1>11, <1>12, <1>13 DEF id, V

\* Every address that reported something answers to a record.
Covered ==
  /\ \A i \in DOMAIN lldpSeen : lldpSeen[i].ip \in DOMAIN byAddr
  /\ \A i \in DOMAIN gnmiSeen : gnmiSeen[i].ip \in DOMAIN byAddr

\* Every probed device's own chassis is known, by the record of an address it
\* was probed at.
LEMMA OwnChassis ==
  ASSUME LldpOK, Covered
  PROVE  LET own == ChassisToIdentity
         IN  /\ DOMAIN own = {Calls(i) : i \in DOMAIN lldpSeen} \ {Blank}
             /\ \A a \in DOMAIN own : \E i \in DOMAIN lldpSeen :
                  Calls(i) = a /\ own[a] = byAddr[lldpSeen[i].ip]
<1> DEFINE own == ChassisToIdentity
           D == {Calls(i) : i \in DOMAIN lldpSeen} \ {Blank}
           Naming(key) == {i \in DOMAIN lldpSeen : Calls(i) = key}
<1>1. DOMAIN lldpSeen \subseteq Nat
  BY DEF LldpOK
<1>2. {i \in DOMAIN lldpSeen : lldpSeen[i].ip \in DOMAIN byAddr} = DOMAIN lldpSeen
  BY DEF Covered
<1>3. own = [key \in D |-> byAddr[lldpSeen[Min(Naming(key))].ip]]
  BY <1>2 DEF ChassisToIdentity
<1>4. ASSUME NEW a \in D PROVE Min(Naming(a)) \in Naming(a)
  <2>1. Naming(a) # {} /\ Naming(a) \in SUBSET Nat
    BY <1>1
  <2> HIDE DEF Naming
  <2> QED BY <2>1, MinIsFirst
<1>5. DOMAIN own = D /\ \A a \in D : own[a] = byAddr[lldpSeen[Min(Naming(a))].ip]
  BY <1>3
<1> HIDE DEF own
<1> QED BY <1>4, <1>5 DEF own

\* What finish makes of a pair of chassis.
LEMMA LinkIs ==
  /\ DOMAIN FinishLinks = {EdgeKey(x) : x \in ToSet(Reports)}
  /\ \A pair \in DOMAIN FinishLinks :
       LET link == FinishLinks[pair]
           about == {x \in ToSet(Reports) : EdgeKey(x) = pair}
       IN  /\ \A norm \in pair :
                link.ends[norm] = Endpoint(norm, MergedEnd(Reports, pair, norm), ChassisToIdentity)
           /\ link.discovered_via = {x.via : x \in about}
           /\ link.observed_at = Latest({x.at : x \in about})
<1> DEFINE rs == Reports
           own == ChassisToIdentity
           Of(pair) == {i \in DOMAIN rs : EdgeKey(rs[i]) = pair}
           D == {EdgeKey(rs[i]) : i \in DOMAIN rs}
           L == [pair \in D |->
                  [ends |-> [norm \in pair |-> Endpoint(norm, MergedEnd(rs, pair, norm), own)],
                   discovered_via |-> {rs[i].via : i \in Of(pair)},
                   observed_at |-> Latest({rs[i].at : i \in Of(pair)})]]
<1>1. FinishLinks = L
  BY DEF FinishLinks
<1> HIDE DEF rs, own
<1>2. DOMAIN L = D
  OBVIOUS
<1>3. D = {EdgeKey(x) : x \in ToSet(rs)}
  BY DEF ToSet
<1>4. ASSUME NEW pair \in D
      PROVE  LET link == L[pair]
                 about == {x \in ToSet(rs) : EdgeKey(x) = pair}
             IN  /\ \A norm \in pair : link.ends[norm] = Endpoint(norm, MergedEnd(rs, pair, norm), own)
                 /\ link.discovered_via = {x.via : x \in about}
                 /\ link.observed_at = Latest({x.at : x \in about})
  <2> DEFINE about == {x \in ToSet(rs) : EdgeKey(x) = pair}
             ends == [norm \in pair |-> Endpoint(norm, MergedEnd(rs, pair, norm), own)]
             vias == {rs[i].via : i \in Of(pair)}
             ats == {rs[i].at : i \in Of(pair)}
  <2>1. L[pair] = [ends |-> ends, discovered_via |-> vias, observed_at |-> Latest(ats)]
    OBVIOUS
  <2>2. vias = {x.via : x \in about} /\ ats = {x.at : x \in about}
    BY DEF ToSet
  <2>3. \A norm \in pair : ends[norm] = Endpoint(norm, MergedEnd(rs, pair, norm), own)
    OBVIOUS
  <2> HIDE DEF ends, vias, ats, about, L
  <2> QED BY <2>1, <2>2, <2>3 DEF about
<1> HIDE DEF L, D
<1> QED BY <1>1, <1>2, <1>3, <1>4 DEF rs, own

\* The indexes answer with the identities of emitted records.
LEMMA IndexAnswers ==
  ASSUME IndexesExact
  PROVE  /\ \A v \in Range(byMac) \cup Range(byAddr) \cup Range(byName) :
              \E e \in DOMAIN emitted : emitted[e].identity_key = v
         /\ \A address \in DOMAIN byAddr : \E e \in OwnersOf(address) :
              byAddr[address] = emitted[e].identity_key
         /\ \A e \in DOMAIN emitted : AddrKeys(emitted[e]) \subseteq DOMAIN byAddr
         /\ \A e \in DOMAIN emitted : MacKeys(emitted[e]) \subseteq DOMAIN byMac
<1>1. ASSUME NEW index, NEW keys, FirstClaimWins(index, emitted, keys)
      PROVE  /\ \A key \in DOMAIN index : \E e \in DOMAIN emitted :
                  key \in keys[e] /\ index[key] = emitted[e].identity_key
             /\ \A e \in DOMAIN emitted : keys[e] \subseteq DOMAIN index
  BY <1>1 DEF FirstClaimWins
<1> DEFINE A == [e \in DOMAIN emitted |-> AddrKeys(emitted[e])]
           B == [e \in DOMAIN emitted |-> MacKeys(emitted[e])]
           C == [e \in DOMAIN emitted |-> NameKeys(emitted[e])]
<1>2. /\ FirstClaimWins(byAddr, emitted, A)
      /\ FirstClaimWins(byMac, emitted, B)
      /\ FirstClaimWins(byName, emitted, C)
  BY DEF IndexesExact
<1>3. \A e \in DOMAIN emitted : A[e] = AddrKeys(emitted[e]) /\ B[e] = MacKeys(emitted[e])
  OBVIOUS
<1> HIDE DEF A, B, C
<1>4. /\ \A key \in DOMAIN byAddr : \E e \in DOMAIN emitted :
              key \in A[e] /\ byAddr[key] = emitted[e].identity_key
      /\ \A e \in DOMAIN emitted : A[e] \subseteq DOMAIN byAddr
  BY <1>1, <1>2
<1>5. /\ \A key \in DOMAIN byMac : \E e \in DOMAIN emitted : byMac[key] = emitted[e].identity_key
      /\ \A e \in DOMAIN emitted : B[e] \subseteq DOMAIN byMac
  BY <1>1, <1>2
<1>6. \A key \in DOMAIN byName : \E e \in DOMAIN emitted : byName[key] = emitted[e].identity_key
  BY <1>1, <1>2
<1>7. \A v \in Range(byMac) \cup Range(byAddr) \cup Range(byName) :
              \E e \in DOMAIN emitted : emitted[e].identity_key = v
  BY <1>4, <1>5, <1>6 DEF Range
<1>8. \A address \in DOMAIN byAddr : \E e \in OwnersOf(address) :
              byAddr[address] = emitted[e].identity_key
  BY <1>3, <1>4 DEF OwnersOf
<1> QED BY <1>3, <1>4, <1>5, <1>7, <1>8

\* What was said of a on its link with b, as ports.
LEMMA PortsOfEnd ==
  ASSUME LldpOK, NEW a, NEW b, a # b, a # Blank, b # Blank,
         Sightings(a, b) \cup Sightings(b, a) # {}
  PROVE  LET mine == {lldpSeen[s[1]].neighbors[s[2]].local_port : s \in Sightings(a, b)} \ {Blank}
             theirs == {lldpSeen[s[1]].neighbors[s[2]].port : s \in Sightings(b, a)} \ {Blank}
             end == MergedEnd(Reports, {a, b}, a)
         IN  /\ end.port \in IF mine # {} THEN mine ELSE IF theirs # {} THEN theirs ELSE {Blank}
             /\ \/ Sightings(a, b) # {}
                \/ \E s \in Sightings(b, a) : end.subtype = lldpSeen[s[1]].neighbors[s[2]].subtype
<1> DEFINE mine == {lldpSeen[s[1]].neighbors[s[2]].local_port : s \in Sightings(a, b)} \ {Blank}
           theirs == {lldpSeen[s[1]].neighbors[s[2]].port : s \in Sightings(b, a)} \ {Blank}
           end == MergedEnd(Reports, {a, b}, a)
           q == Said(Reports, {a, b}, a)
           m == Len(q)
<1>1. PICK M : q \in Seq(M)
  BY SaidAre
<1>2. \A y : y \in ToSet(q)
         <=> \/ \E s \in Sightings(a, b) : y = ReportAt(s[1], s[2]).local
             \/ \E s \in Sightings(b, a) : y = ReportAt(s[1], s[2]).remote
  BY SaidAre
<1>3. end = FoldLeft(MergeEnd, NewEnd(q[1]), q)
  BY Zenon DEF MergedEnd
<1> HIDE DEF q, end
<1>4. m \in Nat /\ DOMAIN q = 1 .. m
  BY <1>1
<1>5. \A y : y \in ToSet(q) <=> \E j \in 1 .. m : y = q[j]
  BY <1>4 DEF ToSet
<1>6. \A s : /\ ReportAt(s[1], s[2]).local.own = TRUE /\ ReportAt(s[1], s[2]).remote.own = FALSE
             /\ ReportAt(s[1], s[2]).local.port = lldpSeen[s[1]].neighbors[s[2]].local_port
             /\ ReportAt(s[1], s[2]).remote.port = lldpSeen[s[1]].neighbors[s[2]].port
             /\ ReportAt(s[1], s[2]).remote.subtype = lldpSeen[s[1]].neighbors[s[2]].subtype
  BY DEF ReportAt, Report
<1>7. \A y \in ToSet(q) : y.own \in BOOLEAN
  <2> SUFFICES ASSUME NEW y \in ToSet(q) PROVE y.own = TRUE \/ y.own = FALSE
    OBVIOUS
  <2>1. CASE \E s \in Sightings(a, b) : y = ReportAt(s[1], s[2]).local
    <3>1. PICK s \in Sightings(a, b) : y = ReportAt(s[1], s[2]).local
      BY <2>1
    <3>2. ReportAt(s[1], s[2]).local.own = TRUE
      BY <1>6
    <3> QED BY <3>1, <3>2, Zenon
  <2>2. CASE \E s \in Sightings(b, a) : y = ReportAt(s[1], s[2]).remote
    <3>1. PICK s \in Sightings(b, a) : y = ReportAt(s[1], s[2]).remote
      BY <2>2
    <3>2. ReportAt(s[1], s[2]).remote.own = FALSE
      BY <1>6
    <3> QED BY <3>1, <3>2, Zenon
  <2> QED BY <1>2, <2>1, <2>2
<1>8. m > 0
  <2>1. \E y : y \in ToSet(q)
    BY <1>2
  <2> QED BY <1>4, <1>5, <2>1
<1>9. ASSUME NEW who
      PROVE  PortsSaid(q, m, who)
               = {y.port : y \in {x \in ToSet(q) : (x.own <=> who = "self") /\ x.port # Blank}}
  BY <1>5 DEF PortsSaid
<1>10. PortsSaid(q, m, "self") = mine
  <2>1. \A p : p \in PortsSaid(q, m, "self")
                 <=> \E y \in ToSet(q) : y.own /\ y.port # Blank /\ p = y.port
    BY <1>9
  <2>2. \A p : p \in mine <=> \E s \in Sightings(a, b) :
                 p = ReportAt(s[1], s[2]).local.port /\ p # Blank
    BY <1>6
  <2> HIDE DEF mine
  <2>3. ASSUME NEW y \in ToSet(q), y.own
        PROVE  \E s \in Sightings(a, b) : y = ReportAt(s[1], s[2]).local
    BY <1>2, <1>6, <2>3
  <2>4. ASSUME NEW s \in Sightings(a, b)
        PROVE  /\ ReportAt(s[1], s[2]).local \in ToSet(q)
               /\ ReportAt(s[1], s[2]).local.own
    BY <1>2, <1>6
  <2>5. \A p : p \in PortsSaid(q, m, "self") => p \in mine
    BY <2>1, <2>2, <2>3
  <2>6. \A p : p \in mine => p \in PortsSaid(q, m, "self")
    BY <2>1, <2>2, <2>4
  <2> QED BY <2>5, <2>6
<1>11. PortsSaid(q, m, "peer") = theirs
  <2>1. \A p : p \in PortsSaid(q, m, "peer")
                 <=> \E y \in ToSet(q) : ~y.own /\ y.port # Blank /\ p = y.port
    BY <1>9
  <2>2. \A p : p \in theirs <=> \E s \in Sightings(b, a) :
                 p = ReportAt(s[1], s[2]).remote.port /\ p # Blank
    BY <1>6
  <2> HIDE DEF theirs
  <2>3. ASSUME NEW y \in ToSet(q), ~y.own
        PROVE  \E s \in Sightings(b, a) : y = ReportAt(s[1], s[2]).remote
    BY <1>2, <1>6, <2>3
  <2>4. ASSUME NEW s \in Sightings(b, a)
        PROVE  /\ ReportAt(s[1], s[2]).remote \in ToSet(q)
               /\ ~ReportAt(s[1], s[2]).remote.own
    BY <1>2, <1>6
  <2>5. \A p : p \in PortsSaid(q, m, "peer") => p \in theirs
    BY <2>1, <2>2, <2>3
  <2>6. \A p : p \in theirs => p \in PortsSaid(q, m, "peer")
    BY <2>1, <2>2, <2>4
  <2> QED BY <2>5, <2>6
<1>12. /\ PortRight(end, PortsSaid(q, m, "self"), PortsSaid(q, m, "peer"))
       /\ \E x \in ToSet(q) : end.subtype = x.subtype
  BY <1>1, <1>3, <1>7, <1>8, EndMerged
<1> HIDE DEF mine, theirs, m
<1>13. end.port \in IF mine # {} THEN mine ELSE IF theirs # {} THEN theirs ELSE {Blank}
  BY <1>10, <1>11, <1>12 DEF PortRight
<1>14. \/ Sightings(a, b) # {}
       \/ \E s \in Sightings(b, a) : end.subtype = lldpSeen[s[1]].neighbors[s[2]].subtype
  <2>1. PICK x \in ToSet(q) : end.subtype = x.subtype
    BY <1>12
  <2>2. CASE \E s \in Sightings(a, b) : x = ReportAt(s[1], s[2]).local
    BY <2>2
  <2>3. CASE \E s \in Sightings(b, a) : x = ReportAt(s[1], s[2]).remote
    <3>1. PICK s \in Sightings(b, a) : x = ReportAt(s[1], s[2]).remote
      BY <2>3
    <3>2. ReportAt(s[1], s[2]).remote.subtype = lldpSeen[s[1]].neighbors[s[2]].subtype
      BY <1>6
    <3> QED BY <2>1, <3>1, <3>2
  <2> QED BY <1>2, <2>2, <2>3
<1> QED BY <1>13, <1>14 DEF mine, theirs, end

\* Who an end of the link between a and b is said to be.
LEMMA EndIdentity ==
  ASSUME LldpOK, Covered, IndexesExact, NEW a, NEW b, a # Blank,
         NEW end,
         \/ Sightings(a, b) # {}
         \/ \E s \in Sightings(b, a) : end.subtype = lldpSeen[s[1]].neighbors[s[2]].subtype
  PROVE  LET id == ResolveIdentity(a, end, ChassisToIdentity)
             probedAt == {lldpSeen[i].ip : i \in {j \in DOMAIN lldpSeen : Calls(j) = a}}
         IN  /\ \A k \in DOMAIN id : \E e \in DOMAIN emitted : emitted[e].identity_key = id[k]
             /\ probedAt # {} =>
                  \E address \in probedAt : \E e \in OwnersOf(address) : id = <<emitted[e].identity_key>>
             /\ (/\ id = <<>>
                 /\ \A s \in Sightings(b, a) : lldpSeen[s[1]].neighbors[s[2]].subtype = "mac")
                  => \A e \in DOMAIN emitted : a \notin MacKeys(emitted[e])
<1> DEFINE own == ChassisToIdentity
           id == ResolveIdentity(a, end, own)
           probedAt == {lldpSeen[i].ip : i \in {j \in DOMAIN lldpSeen : Calls(j) = a}}
           V == Range(own) \cup Range(byMac) \cup Range(byAddr) \cup Range(byName)
<1>1. /\ DOMAIN own = {Calls(i) : i \in DOMAIN lldpSeen} \ {Blank}
      /\ \A x \in DOMAIN own : \E i \in DOMAIN lldpSeen :
           Calls(i) = x /\ own[x] = byAddr[lldpSeen[i].ip]
  BY OwnChassis
<1> HIDE DEF own
<1>2. /\ id = <<>> \/ \E v \in V : id = <<v>>
      /\ a \in DOMAIN own => id = <<own[a]>>
      /\ id = <<>> /\ end.subtype = "mac" => a \notin DOMAIN byMac
  BY Resolved
<1> HIDE DEF id
<1>3. Range(own) \subseteq Range(byAddr)
  <2> SUFFICES ASSUME NEW x \in DOMAIN own PROVE own[x] \in Range(byAddr)
    BY DEF Range
  <2>1. PICK i \in DOMAIN lldpSeen : own[x] = byAddr[lldpSeen[i].ip]
    BY <1>1
  <2>2. lldpSeen[i].ip \in DOMAIN byAddr
    BY DEF Covered
  <2> QED BY <2>1, <2>2 DEF Range
<1>4. \A v \in V : \E e \in DOMAIN emitted : emitted[e].identity_key = v
  BY <1>3, IndexAnswers
<1> HIDE DEF V
<1>5. \A k \in DOMAIN id : \E e \in DOMAIN emitted : emitted[e].identity_key = id[k]
  <2>1. CASE id = <<>>
    BY <2>1
  <2>2. ASSUME NEW v \in V, id = <<v>>
        PROVE  \A k \in DOMAIN id : \E e \in DOMAIN emitted : emitted[e].identity_key = id[k]
    <3>1. \A k \in DOMAIN id : id[k] = v
      BY <2>2
    <3> QED BY <1>4, <3>1
  <2> QED BY <1>2, <2>1, <2>2
<1>6. ASSUME NEW i \in DOMAIN lldpSeen, Calls(i) = a
      PROVE  /\ id = <<own[a]>>
             /\ \E address \in probedAt : \E e \in OwnersOf(address) : id = <<emitted[e].identity_key>>
  <2>1. a \in DOMAIN own
    BY <1>1, <1>6
  <2>2. PICK j \in DOMAIN lldpSeen : Calls(j) = a /\ own[a] = byAddr[lldpSeen[j].ip]
    BY <1>1, <2>1
  <2> DEFINE address == lldpSeen[j].ip
  <2>3. address \in DOMAIN byAddr /\ address \in probedAt
    BY <2>2 DEF Covered
  <2> HIDE DEF address, probedAt
  <2>4. PICK e \in OwnersOf(address) : byAddr[address] = emitted[e].identity_key
    BY <2>3, IndexAnswers
  <2>5. id = <<emitted[e].identity_key>>
    BY <1>2, <2>1, <2>2, <2>4 DEF address
  <2> QED BY <1>2, <2>1, <2>3, <2>5
<1>7. probedAt # {} =>
        \E address \in probedAt : \E e \in OwnersOf(address) : id = <<emitted[e].identity_key>>
  <2> SUFFICES ASSUME probedAt # {}
               PROVE  \E address \in probedAt : \E e \in OwnersOf(address) : id = <<emitted[e].identity_key>>
    OBVIOUS
  <2>1. PICK i \in DOMAIN lldpSeen : Calls(i) = a
    OBVIOUS
  <2> HIDE DEF probedAt
  <2> QED BY <1>6, <2>1
<1>8. ASSUME id = <<>>, \A s \in Sightings(b, a) : lldpSeen[s[1]].neighbors[s[2]].subtype = "mac"
      PROVE  \A e \in DOMAIN emitted : a \notin MacKeys(emitted[e])
  <2>1. Sightings(a, b) = {}
    <3> SUFFICES ASSUME NEW s \in Sightings(a, b) PROVE FALSE
      OBVIOUS
    <3>1. PICK i \in DOMAIN lldpSeen : Calls(i) = a
      BY SightingsAre
    <3>2. id = <<own[a]>>
      BY <1>6, <3>1
    <3> QED BY <1>8, <3>2
  <2>2. end.subtype = "mac"
    BY <1>8, <2>1
  <2>3. a \notin DOMAIN byMac
    BY <1>2, <1>8, <2>2
  <2> QED BY <2>3, IndexAnswers
<1> QED BY <1>5, <1>7, <1>8 DEF id, own

\* Both ends of every link.
LEMMA EndsAreRight ==
  ASSUME LldpOK, Covered, IndexesExact, links = FinishLinks,
         NEW a, NEW b, a # b, a # Blank, b # Blank,
         Sightings(a, b) \cup Sightings(b, a) # {}, {a, b} \in DOMAIN links
  PROVE  EndRight(a, b)
<1> DEFINE merged == MergedEnd(Reports, {a, b}, a)
           end == links[{a, b}].ends[a]
<1>1. end = Endpoint(a, merged, ChassisToIdentity)
  <2> DEFINE pair == {a, b}
  <2>1. a \in pair /\ pair \in DOMAIN FinishLinks
    OBVIOUS
  <2> HIDE DEF pair
  <2>2. FinishLinks[pair].ends[a] = Endpoint(a, MergedEnd(Reports, pair, a), ChassisToIdentity)
    BY <2>1, LinkIs
  <2> QED BY <2>2 DEF pair
<1> DEFINE mine == {lldpSeen[s[1]].neighbors[s[2]].local_port : s \in Sightings(a, b)} \ {Blank}
           theirs == {lldpSeen[s[1]].neighbors[s[2]].port : s \in Sightings(b, a)} \ {Blank}
<1>2. /\ merged.port \in IF mine # {} THEN mine ELSE IF theirs # {} THEN theirs ELSE {Blank}
      /\ \/ Sightings(a, b) # {}
         \/ \E s \in Sightings(b, a) : merged.subtype = lldpSeen[s[1]].neighbors[s[2]].subtype
  BY PortsOfEnd
<1> HIDE DEF merged, end
<1>3. end.port = merged.port /\ end.identity_key = ResolveIdentity(a, merged, ChassisToIdentity)
  BY <1>1 DEF Endpoint
<1> DEFINE id == ResolveIdentity(a, merged, ChassisToIdentity)
           probedAt == {lldpSeen[i].ip : i \in {j \in DOMAIN lldpSeen : Calls(j) = a}}
<1>4. /\ \A k \in DOMAIN id : \E e \in DOMAIN emitted : emitted[e].identity_key = id[k]
      /\ probedAt # {} =>
           \E address \in probedAt : \E e \in OwnersOf(address) : id = <<emitted[e].identity_key>>
      /\ (/\ id = <<>>
          /\ \A s \in Sightings(b, a) : lldpSeen[s[1]].neighbors[s[2]].subtype = "mac")
           => \A e \in DOMAIN emitted : a \notin MacKeys(emitted[e])
  BY <1>2, EndIdentity
<1> HIDE DEF mine, theirs, id, probedAt
<1>5. /\ end.port \in IF mine # {} THEN mine ELSE IF theirs # {} THEN theirs ELSE {Blank}
      /\ end.identity_key = id
  BY <1>2, <1>3 DEF id
<1>6. /\ \A k \in DOMAIN end.identity_key :
           \E e \in DOMAIN emitted : emitted[e].identity_key = end.identity_key[k]
      /\ probedAt # {} =>
           \E address \in probedAt : \E e \in OwnersOf(address) :
             end.identity_key = <<emitted[e].identity_key>>
      /\ (/\ end.identity_key = <<>>
          /\ \A s \in Sightings(b, a) : lldpSeen[s[1]].neighbors[s[2]].subtype = "mac")
           => \A e \in DOMAIN emitted : a \notin MacKeys(emitted[e])
  BY <1>4, <1>5
<1> QED BY <1>5, <1>6 DEF EndRight, end, mine, theirs, probedAt

\* A link for every two chassis of which one was seen to have the other.
LEMMA LinkedPairs ==
  ASSUME LldpOK
  PROVE  DOMAIN FinishLinks =
           {{p[1], p[2]} : p \in {q \in Chassis \X Chassis : q[1] # q[2] /\ Sightings(q[1], q[2]) # {}}}
<1> DEFINE P == {q \in Chassis \X Chassis : q[1] # q[2] /\ Sightings(q[1], q[2]) # {}}
           D == {{p[1], p[2]} : p \in P}
<1>1. \A pair : pair \in DOMAIN FinishLinks <=> \E x \in ToSet(Reports) : pair = EdgeKey(x)
  BY LinkIs
<1>2. \A pair : pair \in D <=> \E a, b \in Chassis : /\ a # b /\ Sightings(a, b) # {}
                                                    /\ pair = {a, b}
  <2>1. ASSUME NEW a \in Chassis, NEW b \in Chassis, a # b, Sightings(a, b) # {}
        PROVE  {a, b} \in D
    <3> DEFINE p == <<a, b>>
    <3>1. p \in Chassis \X Chassis /\ p[1] = a /\ p[2] = b
      OBVIOUS
    <3> HIDE DEF p
    <3>2. p \in P /\ {p[1], p[2]} = {a, b}
      BY <2>1, <3>1
    <3> QED BY <3>2
  <2>2. ASSUME NEW pair \in D
        PROVE  \E a, b \in Chassis : a # b /\ Sightings(a, b) # {} /\ pair = {a, b}
    <3>1. PICK p \in P : pair = {p[1], p[2]}
      OBVIOUS
    <3>2. p[1] \in Chassis /\ p[2] \in Chassis /\ p[1] # p[2] /\ Sightings(p[1], p[2]) # {}
      OBVIOUS
    <3> QED BY <3>1, <3>2
  <2> HIDE DEF D
  <2> QED BY <2>1, <2>2
<1> HIDE DEF P, D
<1>3. ASSUME NEW pair \in DOMAIN FinishLinks PROVE pair \in D
  <2>1. PICK x \in ToSet(Reports) : pair = EdgeKey(x)
    BY <1>1
  <2>2. PICK i \in DOMAIN lldpSeen : \E k \in DOMAIN lldpSeen[i].neighbors :
               x = ReportAt(i, k) /\ IsLink(x)
    BY <2>1, ReportsAre
  <2>3. PICK k \in DOMAIN lldpSeen[i].neighbors : x = ReportAt(i, k) /\ IsLink(x)
    BY <2>2
  <2> DEFINE a == Calls(i)
             b == NeighborAt(i, k)
  <2>4. a # Blank /\ b # Blank /\ a # b /\ pair = {a, b}
    BY <2>1, <2>3, ReportHas
  <2>5. a \in Chassis /\ b \in Chassis
    BY <2>4 DEF Chassis
  <2>6. <<i, k>> \in Sightings(a, b)
    BY SightingsAre
  <2> HIDE DEF a, b
  <2> QED BY <1>2, <2>4, <2>5, <2>6
<1>4. ASSUME NEW pair \in D PROVE pair \in DOMAIN FinishLinks
  <2>1. PICK a \in Chassis, b \in Chassis : a # b /\ Sightings(a, b) # {} /\ pair = {a, b}
    BY <1>2
  <2>2. a # Blank /\ b # Blank
    BY DEF Chassis
  <2>3. PICK s : s \in Sightings(a, b)
    BY <2>1
  <2>4. ReportAt(s[1], s[2]) \in ToSet(Reports) /\ EdgeKey(ReportAt(s[1], s[2])) = {a, b}
    BY <2>1, <2>2, <2>3, ReportsOfLink
  <2> QED BY <1>1, <2>1, <2>4
<1> QED BY <1>3, <1>4 DEF D, P

\* So the links are right, all of them.
LEMMA LinksAreRight ==
  ASSUME LldpOK, Covered, IndexesExact, links = FinishLinks
  PROVE  LinksRight
<1>1. DOMAIN links =
        {{p[1], p[2]} : p \in {q \in Chassis \X Chassis : q[1] # q[2] /\ Sightings(q[1], q[2]) # {}}}
  BY LinkedPairs
<1>2. ASSUME NEW a \in Chassis, NEW b \in Chassis, {a, b} \in DOMAIN links
      PROVE  LET seen == Sightings(a, b) \cup Sightings(b, a)
             IN  /\ EndRight(a, b)
                 /\ links[{a, b}].discovered_via = {lldpSeen[s[1]].via : s \in seen}
                 /\ links[{a, b}].observed_at = Latest({lldpSeen[s[1]].at : s \in seen})
  <2> DEFINE pair == {a, b}
             seen == Sightings(a, b) \cup Sightings(b, a)
             about == {x \in ToSet(Reports) : EdgeKey(x) = pair}
  <2>1. a # Blank /\ b # Blank
    BY DEF Chassis
  <2>2. PICK x \in ToSet(Reports) : EdgeKey(x) = pair
    BY <1>2, LinkIs
  <2>3. a # b
    <3>1. PICK i \in DOMAIN lldpSeen : \E k \in DOMAIN lldpSeen[i].neighbors :
                 x = ReportAt(i, k) /\ IsLink(x)
      BY <2>2, ReportsAre
    <3>2. PICK k \in DOMAIN lldpSeen[i].neighbors : x = ReportAt(i, k) /\ IsLink(x)
      BY <3>1
    <3>3. Calls(i) # NeighborAt(i, k) /\ {Calls(i), NeighborAt(i, k)} = {a, b}
      BY <2>2, <3>2, ReportHas
    <3> QED BY <3>3
  <2>4. \A y : y \in ToSet(Reports) /\ EdgeKey(y) = pair
                 <=> \E s \in seen : y = ReportAt(s[1], s[2])
    BY <2>1, <2>3, ReportsOfLink
  <2>5. seen # {}
    BY <2>2, <2>4
  <2>6. EndRight(a, b)
    BY <1>2, <2>1, <2>3, <2>5, EndsAreRight
  <2>7. \A s : /\ ReportAt(s[1], s[2]).via = lldpSeen[s[1]].via
               /\ ReportAt(s[1], s[2]).at = lldpSeen[s[1]].at
    BY DEF ReportAt, Report
  <2> HIDE DEF seen
  <2>8. {y.via : y \in about} = {lldpSeen[s[1]].via : s \in seen}
    <3> DEFINE A == {y.via : y \in about}
               B == {lldpSeen[s[1]].via : s \in seen}
    <3>1. \A v : v \in A <=> \E s \in seen : v = ReportAt(s[1], s[2]).via
      BY <2>4
    <3>2. \A v : v \in B <=> \E s \in seen : v = ReportAt(s[1], s[2]).via
      BY <2>7
    <3> HIDE DEF A, B
    <3>3. \A v : v \in A <=> v \in B
      BY <3>1, <3>2
    <3>4. A = B
      BY <3>3
    <3> QED BY <3>4 DEF A, B
  <2>9. {y.at : y \in about} = {lldpSeen[s[1]].at : s \in seen}
    <3> DEFINE A == {y.at : y \in about}
               B == {lldpSeen[s[1]].at : s \in seen}
    <3>1. \A v : v \in A <=> \E s \in seen : v = ReportAt(s[1], s[2]).at
      BY <2>4
    <3>2. \A v : v \in B <=> \E s \in seen : v = ReportAt(s[1], s[2]).at
      BY <2>7
    <3> HIDE DEF A, B
    <3>3. \A v : v \in A <=> v \in B
      BY <3>1, <3>2
    <3>4. A = B
      BY <3>3
    <3> QED BY <3>4 DEF A, B
  <2>10. /\ links[pair].discovered_via = {y.via : y \in about}
         /\ links[pair].observed_at = Latest({y.at : y \in about})
    <3>1. pair \in DOMAIN FinishLinks
      BY <1>2
    <3> HIDE DEF pair
    <3> QED BY <3>1, LinkIs
  <2> HIDE DEF about
  <2> QED BY <2>6, <2>8, <2>9, <2>10 DEF seen
<1> QED BY <1>1, <1>2 DEF LinksRight

-----------------------------------------------------------------------------
(* The profiles *)

\* The gNMI observations are a sequence, with sequences of encodings.
GnmiOK ==
  /\ \E S : gnmiSeen \in Seq(S)
  /\ \A i \in DOMAIN gnmiSeen : gnmiSeen[i].encodings \in Seq(ToSet(gnmiSeen[i].encodings))

\* The encoding recommended is one the device offers, or the default.
LEMMA EncodingIsAdvertised ==
  ASSUME NEW q, q \in Seq(ToSet(q))
  PROVE  RecommendedEncoding(q) \in ToSet(q) \cup {"JSON_IETF"}
<1> DEFINE usable == {i \in DOMAIN q : q[i] \in Renderable}
<1>1. CASE Contains(q, "JSON_IETF") \/ usable = {}
  BY <1>1 DEF RecommendedEncoding
<1>2. CASE ~(Contains(q, "JSON_IETF") \/ usable = {})
  <2>1. usable \in SUBSET Nat /\ usable # {}
    BY <1>2
  <2>2. RecommendedEncoding(q) = q[Min(usable)]
    BY <1>2 DEF RecommendedEncoding
  <2>3. usable \subseteq DOMAIN q
    OBVIOUS
  <2> HIDE DEF usable
  <2>4. Min(usable) \in usable
    BY <2>1, MinIsFirst
  <2> QED BY <2>2, <2>3, <2>4 DEF ToSet
<1> QED BY <1>1, <1>2

\* So the profiles are right, all of them.
LEMMA ProfilesAreRight ==
  ASSUME GnmiOK, Covered, IndexesExact, profiles = FinishProfiles
  PROVE  ProfilesRight
<1> DEFINE KeyOf(i) == <<byAddr[gnmiSeen[i].ip], gnmiSeen[i].ip>>
           D == {KeyOf(i) : i \in DOMAIN gnmiSeen}
           Of(key) == {i \in DOMAIN gnmiSeen : KeyOf(i) = key}
<1>1. {i \in DOMAIN gnmiSeen : gnmiSeen[i].ip \in DOMAIN byAddr} = DOMAIN gnmiSeen
  BY DEF Covered
<1>2. profiles = [key \in D |-> Profile(gnmiSeen[Min(Of(key))])]
  BY <1>1 DEF FinishProfiles
<1>3. DOMAIN profiles = D /\ \A key \in D : profiles[key] = Profile(gnmiSeen[Min(Of(key))])
  BY <1>2
<1>4. DOMAIN gnmiSeen \subseteq Nat
  BY DEF GnmiOK
<1>5. \A i : KeyOf(i)[1] = byAddr[gnmiSeen[i].ip] /\ KeyOf(i)[2] = gnmiSeen[i].ip
  OBVIOUS
<1>6. \A i, j : gnmiSeen[i].ip = gnmiSeen[j].ip => KeyOf(i) = KeyOf(j)
  OBVIOUS
<1>7. ASSUME NEW key \in D PROVE Min(Of(key)) \in DOMAIN gnmiSeen /\ KeyOf(Min(Of(key))) = key
  <2>1. Of(key) # {} /\ Of(key) \in SUBSET Nat
    BY <1>4
  <2>2. \A i \in Of(key) : i \in DOMAIN gnmiSeen /\ KeyOf(i) = key
    OBVIOUS
  <2> HIDE DEF Of
  <2>3. Min(Of(key)) \in Of(key)
    BY <2>1, MinIsFirst
  <2> QED BY <2>2, <2>3
<1> HIDE DEF Of
<1>8. \A key : key \in D <=> \E i \in DOMAIN gnmiSeen : key = KeyOf(i)
  OBVIOUS
<1> HIDE DEF KeyOf, D
<1>9. {key[2] : key \in DOMAIN profiles} = {gnmiSeen[i].ip : i \in DOMAIN gnmiSeen}
  <2> DEFINE A == {key[2] : key \in D}
             B == {gnmiSeen[i].ip : i \in DOMAIN gnmiSeen}
  <2>1. \A v : v \in A <=> \E i \in DOMAIN gnmiSeen : v = KeyOf(i)[2]
    BY <1>8
  <2>2. \A v : v \in B <=> \E i \in DOMAIN gnmiSeen : v = KeyOf(i)[2]
    BY <1>5
  <2> HIDE DEF A, B
  <2>3. A = B
    BY <2>1, <2>2
  <2> QED BY <1>3, <2>3 DEF A, B
<1>10. ASSUME NEW key \in DOMAIN profiles, NEW other \in DOMAIN profiles, key[2] = other[2]
       PROVE  key = other
  <2>1. PICK i \in DOMAIN gnmiSeen : key = KeyOf(i)
    BY <1>3, <1>8
  <2>2. PICK j \in DOMAIN gnmiSeen : other = KeyOf(j)
    BY <1>3, <1>8
  <2> QED BY <1>5, <1>6, <1>10, <2>1, <2>2
<1>11. ASSUME NEW key \in DOMAIN profiles
       PROVE  /\ \E e \in OwnersOf(key[2]) : emitted[e].identity_key = key[1]
              /\ \E i \in DOMAIN gnmiSeen :
                   /\ gnmiSeen[i].ip = key[2]
                   /\ gnmiSeen[i].models = profiles[key].models
                   /\ profiles[key].encoding \in ToSet(gnmiSeen[i].encodings) \cup {"JSON_IETF"}
  <2> DEFINE i == Min(Of(key))
  <2>1. i \in DOMAIN gnmiSeen /\ KeyOf(i) = key /\ profiles[key] = Profile(gnmiSeen[i])
    BY <1>3, <1>7
  <2> HIDE DEF i
  <2>2. key[1] = byAddr[gnmiSeen[i].ip] /\ key[2] = gnmiSeen[i].ip
    BY <1>5, <2>1
  <2>3. gnmiSeen[i].ip \in DOMAIN byAddr
    BY <2>1 DEF Covered
  <2>4. \E e \in OwnersOf(key[2]) : emitted[e].identity_key = key[1]
    BY <2>2, <2>3, IndexAnswers
  <2>5. /\ Profile(gnmiSeen[i]).models = gnmiSeen[i].models
        /\ Profile(gnmiSeen[i]).encoding = RecommendedEncoding(gnmiSeen[i].encodings)
    BY DEF Profile
  <2>6. gnmiSeen[i].encodings \in Seq(ToSet(gnmiSeen[i].encodings))
    BY <2>1 DEF GnmiOK
  <2>7. RecommendedEncoding(gnmiSeen[i].encodings) \in ToSet(gnmiSeen[i].encodings) \cup {"JSON_IETF"}
    <3> DEFINE q == gnmiSeen[i].encodings
    <3>1. q \in Seq(ToSet(q))
      BY <2>6
    <3> HIDE DEF q
    <3>2. RecommendedEncoding(q) \in ToSet(q) \cup {"JSON_IETF"}
      BY <3>1, EncodingIsAdvertised
    <3> QED BY <3>2 DEF q
  <2> QED BY <2>1, <2>2, <2>4, <2>5, <2>7
<1> QED BY <1>9, <1>10, <1>11 DEF ProfilesRight

-----------------------------------------------------------------------------
(* What the streams hold while a scan runs *)

\* The fields the streams read a record by.
Shaped(r) == {"mgmt_ip", "alt_ips", "signals"} \subseteq DOMAIN r

\* A target one of whose probes was answered has a record.
LEMMA AnsweredHasRecord ==
  ASSUME NEW target \in Targets, NEW i \in DOMAIN target.outcomes, target.outcomes[i].reachable
  PROVE  \E r : FuseOne(target) = <<r>> /\ r.mgmt_ip = target.ip
<1> DEFINE os == target.outcomes
<1>1. os \in Seq(ToSet(os))
  BY TargetsAssumption
<1>2. os # <<>>
  BY <1>1
<1>3. \E j \in DOMAIN os : os[j].reachable
  OBVIOUS
<1> DEFINE r == FuseOne(target)[1]
<1>4. FuseOne(target) = <<r>> /\ r.mgmt_ip = target.ip
  BY <1>2, <1>3 DEF FuseOne
<1> HIDE DEF r
<1> QED BY <1>4

\* enrich leaves the address alone.
LEMMA EnrichKeeps ==
  ASSUME NEW r, RecordOK(r)
  PROVE  Enrich(r).mgmt_ip = r.mgmt_ip
<1>1. "mgmt_ip" \in DOMAIN r
  BY DEF RecordOK
<1>2. Enrich(r) = r \/ \E v : Enrich(r) = [r EXCEPT !.manufacturer = v]
  BY DEF Enrich
<1>3. \A v : [r EXCEPT !.manufacturer = v].mgmt_ip = r.mgmt_ip
  BY <1>1
<1> QED BY <1>2, <1>3

\* The buffer b after a target: it holds what it held, and the target's
\* record.
Holds(b, target) == b \o [i \in DOMAIN FuseOne(target) |-> Enrich(FuseOne(target)[i])]

LEMMA BufferHears ==
  ASSUME NEW S, NEW b \in Seq(S), NEW target \in Targets
  PROVE  LET c == Holds(b, target)
         IN  /\ \A k \in DOMAIN b : k \in DOMAIN c /\ c[k] = b[k]
             /\ (\E i \in DOMAIN target.outcomes : target.outcomes[i].reachable)
                  => \E k \in DOMAIN c : c[k].mgmt_ip = target.ip
<1> DEFINE c == Holds(b, target)
           fused == FuseOne(target)
           added == [i \in DOMAIN fused |-> Enrich(fused[i])]
<1>1. fused = <<>> \/ \E r : RecordOK(r) /\ fused = <<r>>
  BY FusedOK
<1>2. (\E i \in DOMAIN target.outcomes : target.outcomes[i].reachable)
        => \E r : fused = <<r>> /\ r.mgmt_ip = target.ip
  BY AnsweredHasRecord
<1> HIDE DEF fused
<1>3. c = b \o added
  BY DEF fused, Holds
<1> HIDE DEF c
<1>4. CASE fused = <<>>
  <2>1. added = <<>>
    BY <1>4
  <2> HIDE DEF added
  <2>2. c = b
    BY <1>3, <2>1
  <2>3. ~\E r : fused = <<r>>
    BY <1>4
  <2> QED BY <1>2, <2>2, <2>3 DEF c
<1>5. ASSUME NEW r, RecordOK(r), fused = <<r>>
      PROVE  /\ \A k \in DOMAIN b : k \in DOMAIN c /\ c[k] = b[k]
             /\ (\E i \in DOMAIN target.outcomes : target.outcomes[i].reachable)
                  => \E k \in DOMAIN c : c[k].mgmt_ip = target.ip
  <2> DEFINE e == Enrich(r)
             T == S \cup {e}
  <2>1. added = <<e>>
    BY <1>5
  <2>2. e.mgmt_ip = r.mgmt_ip
    BY <1>5, EnrichKeeps
  <2> HIDE DEF added, e
  <2>3. b \in Seq(T) /\ e \in T
    OBVIOUS
  <2> HIDE DEF T
  <2>4. /\ Len(b) \in Nat /\ DOMAIN c = 1 .. Len(b) + 1 /\ DOMAIN b = 1 .. Len(b)
        /\ c[Len(b) + 1] = e /\ \A k \in 1 .. Len(b) : c[k] = b[k]
    <3>1. b \o <<e>> = Append(b, e)
      BY <2>3
    <3>2. c = Append(b, e)
      BY <1>3, <2>1, <3>1
    <3> QED BY <2>3, <3>2
  <2>5. \A k \in DOMAIN b : k \in DOMAIN c /\ c[k] = b[k]
    BY <2>4
  <2>6. ASSUME NEW x, fused = <<x>> PROVE x = r
    BY <1>5, <2>6
  <2>7. ASSUME \E i \in DOMAIN target.outcomes : target.outcomes[i].reachable
        PROVE  c[Len(b) + 1].mgmt_ip = target.ip /\ Len(b) + 1 \in DOMAIN c
    <3>1. r.mgmt_ip = target.ip
      BY <1>2, <2>6, <2>7
    <3> QED BY <2>2, <2>4, <3>1
  <2> QED BY <2>5, <2>7
<1> QED BY <1>1, <1>4, <1>5 DEF c

\* What TopologyAssembler keeps of a target.
LEMMA LldpOfTarget ==
  ASSUME NEW target \in Targets
  PROVE  /\ \E M : LldpOf(target) \in Seq(M)
         /\ \A x \in ToSet(LldpOf(target)) :
              /\ x.ip = target.ip
              /\ x.neighbors \in Seq(ToSet(x.neighbors))
              /\ \E i \in DOMAIN target.outcomes : target.outcomes[i].reachable
<1> DEFINE os == target.outcomes
           m == Len(os)
           f == [i \in 1 .. m |-> LldpSeen(target.ip, os[i])]
           A == {i \in 1 .. m : os[i].lldp # <<>>}
           M == {LldpSeen(target.ip, os[i]) : i \in 1 .. m}
           g == [i \in DOMAIN os |-> IF os[i].lldp # <<>> THEN <<LldpSeen(target.ip, os[i])>> ELSE <<>>]
<1>1. os \in Seq(ToSet(os))
  BY TargetsAssumption
<1>2. m \in Nat /\ DOMAIN os = 1 .. m
  BY <1>1
<1>3. ASSUME NEW i \in A
      PROVE  /\ f[i].ip = target.ip
             /\ f[i].neighbors \in Seq(ToSet(f[i].neighbors))
             /\ i \in DOMAIN os /\ os[i].reachable
  <2>1. i \in DOMAIN os /\ os[i].lldp # <<>> /\ f[i] = LldpSeen(target.ip, os[i])
    BY <1>2
  <2>2. os[i] \in ToSet(os)
    BY <2>1 DEF ToSet
  <2>3. os[i].reachable /\ os[i].lldp[1].neighbors \in Seq(ToSet(os[i].lldp[1].neighbors))
    BY <2>1, <2>2, ObservationsAssumption
  <2>4. f[i].ip = target.ip /\ f[i].neighbors = os[i].lldp[1].neighbors
    BY <2>1 DEF LldpSeen
  <2> HIDE DEF f
  <2> QED BY <2>1, <2>3, <2>4
<1>4. f \in [1 .. m -> M] /\ A \in SUBSET (1 .. m)
  OBVIOUS
<1>5. g = Picks(f, A)
  BY <1>2 DEF Picks
<1>6. LldpOf(target) = Flatten(g)
  BY DEF LldpOf
<1> HIDE DEF os, m, f, A, M, g
<1>7. Flatten(Picks(f, A)) \in Seq(M) /\ ToSet(Flatten(Picks(f, A))) = {f[i] : i \in A}
  <2>1. m \in Nat
    BY <1>2
  <2>2. f \in [1 .. m -> M]
    BY <1>4
  <2>3. A \in SUBSET (1 .. m)
    BY <1>4
  <2> QED BY <2>1, <2>2, <2>3, FlattenPicks
<1>8. ASSUME NEW x \in ToSet(LldpOf(target))
      PROVE  /\ x.ip = target.ip
             /\ x.neighbors \in Seq(ToSet(x.neighbors))
             /\ \E i \in DOMAIN target.outcomes : target.outcomes[i].reachable
  <2>1. PICK i \in A : x = f[i]
    BY <1>5, <1>6, <1>7
  <2> QED BY <1>3, <2>1 DEF os
<1> QED BY <1>5, <1>6, <1>7, <1>8

\* What CollectionProfileAssembler keeps of a target.
LEMMA GnmiOfTarget ==
  ASSUME NEW target \in Targets
  PROVE  /\ \E M : GnmiOf(target) \in Seq(M)
         /\ \A x \in ToSet(GnmiOf(target)) :
              /\ x.ip = target.ip
              /\ x.encodings \in Seq(ToSet(x.encodings))
              /\ \E i \in DOMAIN target.outcomes : target.outcomes[i].reachable
<1> DEFINE os == target.outcomes
           m == Len(os)
           Kept(o) == /\ o.kind = "Gnmi" /\ o.gnmi # <<>>
                      /\ HasCapability(GnmiSeen(target.ip, o))
           f == [i \in 1 .. m |-> GnmiSeen(target.ip, os[i])]
           A == {i \in 1 .. m : Kept(os[i])}
           M == {GnmiSeen(target.ip, os[i]) : i \in 1 .. m}
           g == [i \in DOMAIN os |-> IF Kept(os[i]) THEN <<GnmiSeen(target.ip, os[i])>> ELSE <<>>]
<1>1. os \in Seq(ToSet(os))
  BY TargetsAssumption
<1>2. m \in Nat /\ DOMAIN os = 1 .. m
  BY <1>1
<1>6. GnmiOf(target) = Flatten(g)
  BY DEF GnmiOf
<1>3. ASSUME NEW i \in A
      PROVE  /\ f[i].ip = target.ip
             /\ f[i].encodings \in Seq(ToSet(f[i].encodings))
             /\ i \in DOMAIN os /\ os[i].reachable
  <2>1. i \in DOMAIN os /\ os[i].gnmi # <<>> /\ f[i] = GnmiSeen(target.ip, os[i])
    BY <1>2
  <2>2. os[i] \in ToSet(os)
    BY <2>1 DEF ToSet
  <2>3. os[i].reachable /\ os[i].gnmi[1].encodings \in Seq(ToSet(os[i].gnmi[1].encodings))
    BY <2>1, <2>2, ObservationsAssumption
  <2>4. f[i].ip = target.ip /\ f[i].encodings = os[i].gnmi[1].encodings
    BY <2>1 DEF GnmiSeen
  <2> HIDE DEF f
  <2> QED BY <2>1, <2>3, <2>4
<1> HIDE DEF Kept
<1>4. f \in [1 .. m -> M] /\ A \in SUBSET (1 .. m)
  OBVIOUS
<1>5. g = Picks(f, A)
  BY <1>2 DEF Picks
<1> HIDE DEF os, m, f, A, M, g
<1>7. Flatten(Picks(f, A)) \in Seq(M) /\ ToSet(Flatten(Picks(f, A))) = {f[i] : i \in A}
  <2>1. m \in Nat
    BY <1>2
  <2>2. f \in [1 .. m -> M]
    BY <1>4
  <2>3. A \in SUBSET (1 .. m)
    BY <1>4
  <2> QED BY <2>1, <2>2, <2>3, FlattenPicks
<1>8. ASSUME NEW x \in ToSet(GnmiOf(target))
      PROVE  /\ x.ip = target.ip
             /\ x.encodings \in Seq(ToSet(x.encodings))
             /\ \E i \in DOMAIN target.outcomes : target.outcomes[i].reachable
  <2>1. PICK i \in A : x = f[i]
    BY <1>5, <1>6, <1>7
  <2> QED BY <1>3, <2>1 DEF os
<1> QED BY <1>5, <1>6, <1>7, <1>8

\* What is in two joined sequences.
LEMMA Joining ==
  ASSUME NEW S, NEW s \in Seq(S), NEW T, NEW q \in Seq(T)
  PROVE  /\ s \o q \in Seq(S \cup T)
         /\ \A i \in DOMAIN (s \o q) :
              (i \in DOMAIN s /\ (s \o q)[i] = s[i]) \/ (s \o q)[i] \in ToSet(q)
<1> DEFINE V == S \cup T
           j == s \o q
<1>1. s \in Seq(V) /\ q \in Seq(V)
  OBVIOUS
<1> HIDE DEF V
<1>2. /\ j \in Seq(V) /\ Len(s) \in Nat /\ Len(q) \in Nat
      /\ DOMAIN s = 1 .. Len(s) /\ DOMAIN q = 1 .. Len(q) /\ DOMAIN j = 1 .. Len(s) + Len(q)
      /\ \A i \in 1 .. Len(s) : j[i] = s[i]
      /\ \A i \in 1 .. Len(s) + Len(q) : i > Len(s) => i - Len(s) \in 1 .. Len(q) /\ j[i] = q[i - Len(s)]
  BY <1>1
<1> HIDE DEF j
<1>3. ASSUME NEW i \in DOMAIN j
      PROVE  (i \in DOMAIN s /\ j[i] = s[i]) \/ j[i] \in ToSet(q)
  <2>1. CASE i <= Len(s)
    BY <1>2, <2>1
  <2>2. CASE i > Len(s)
    <3>1. i - Len(s) \in DOMAIN q /\ j[i] = q[i - Len(s)]
      BY <1>2, <2>2
    <3> QED BY <3>1 DEF ToSet
  <2> QED BY <1>2, <2>1, <2>2
<1> QED BY <1>2, <1>3 DEF j, V

\* An address a record is held for.
Heard(address) ==
  \/ \E k \in DOMAIN buffer : buffer[k].mgmt_ip = address
  \/ \E k \in DOMAIN records : records[k].mgmt_ip = address
  \/ records = <<>> /\ \E k \in DOMAIN out : out[k].mgmt_ip = address

HeardOf ==
  /\ \A i \in DOMAIN lldpSeen : Heard(lldpSeen[i].ip)
  /\ \A i \in DOMAIN gnmiSeen : Heard(gnmiSeen[i].ip)

OutOK ==
  /\ \E S : out \in Seq(S)
  /\ \A k \in DOMAIN out : Shaped(out[k])

EmittedOK ==
  /\ flow = "fuse" => emitted = <<>>
  /\ flow # "fuse" => stage = "done"
  /\ \E S : emitted \in Seq(S)
  /\ Len(emitted) <= Len(out)
  /\ \A k \in DOMAIN emitted : emitted[k] = Classify(out[k])

\* What the streams hold while a scan runs: every observation is of an
\* address a record is held for, until the records are out; what is emitted
\* is what the fuser returned, classified; and what was flushed was
\* assembled from all of it.
JoinInv ==
  /\ LldpOK /\ GnmiOK
  /\ HeardOf
  /\ stage # "ingest" => buffer = <<>>
  /\ OutOK
  /\ EmittedOK
  /\ flow = "flushed" => /\ Len(emitted) = Len(out)
                         /\ links = FinishLinks /\ profiles = FinishProfiles

\* Links and profiles depend on nothing but the observations and the indexes.
LEMMA FinishKept ==
  ASSUME UNCHANGED <<lldpSeen, gnmiSeen, byMac, byName, byAddr>>
  PROVE  FinishLinks' = FinishLinks /\ FinishProfiles' = FinishProfiles
<1>1. Reports' = Reports
  BY DEF Reports
<1>2. ChassisToIdentity' = ChassisToIdentity
  BY DEF ChassisToIdentity, Calls
<1>3. FinishLinks' = FinishLinks
  BY <1>1, <1>2 DEF FinishLinks, Endpoint, ResolveIdentity
<1>4. FinishProfiles' = FinishProfiles
  BY DEF FinishProfiles
<1> QED BY <1>3, <1>4

\* What EmitGroup appends has the fields of a record.
LEMMA EmitShaped ==
  ASSUME RecordsOK, NEW i \in Nodes, NEW members, members = InOrder(Members(i))
  PROVE  /\ Len(members) = 1 => \A peers : Shaped(Single(members[1], peers))
         /\ Shaped(MergeGroup(members))
<1> DEFINE S == Members(i)
<1>1. n \in Nat \ {0} /\ \A j \in Nodes : RecordOK(records[j])
  BY DEF RecordsOK
<1>2. S \in SUBSET Nat /\ IsFiniteSet(S) /\ S \subseteq Nodes
  BY <1>1, GroupsByFirst
<1> HIDE DEF S
<1>3. members \in Seq(S)
  BY <1>2, InOrderSorts DEF S
<1>4. ASSUME Len(members) = 1, NEW peers PROVE Shaped(Single(members[1], peers))
  <2>1. members[1] \in Nodes
    <3>1. members[1] \in S
      BY <1>3, <1>4
    <3> QED BY <1>2, <3>1
  <2> DEFINE r == records[members[1]]
  <2>2. Shaped(r)
    BY <1>1, <2>1 DEF RecordOK, Shaped
  <2>3. DOMAIN Single(members[1], peers) = DOMAIN r
    BY DEF Single
  <2> QED BY <2>2, <2>3 DEF Shaped
<1>5. Shaped(MergeGroup(members))
  BY DEF Shaped, MergeGroup
<1> QED BY <1>4, <1>5

\* Every record under correlation is covered by one that finish returned.
LEMMA GroupCovers ==
  ASSUME RecordsOK, OutRight, Len(out) = Len(Groups), NEW i \in Nodes
  PROVE  \E g \in DOMAIN out : records[i].mgmt_ip \in AddrKeys(out[g])
<1> DEFINE S == Members(i)
           F == {f \in Nodes : \A j \in Members(f) : f <= j}
<1>1. n \in Nat \ {0}
  BY DEF RecordsOK
<1>2. S \in SUBSET Nat /\ i \in S /\ S \subseteq Nodes
  BY <1>1, GroupsByFirst
<1>3. PICK f \in S : \A j \in S : f <= j
  <2> HIDE DEF S
  <2> QED BY <1>2, LeastNat
<1>4. f \in Nodes /\ Members(f) = S
  <2>1. f \in Nodes /\ comp[f] = comp[i]
    BY DEF Members
  <2> QED BY <2>1 DEF Members
<1>5. f \in F
  BY <1>3, <1>4
<1>6. F \in SUBSET Nat /\ IsFiniteSet(F)
  <2>1. IsFiniteSet(Nodes) /\ Nodes \in SUBSET Nat
    <3>1. 1 \in Int /\ n \in Int
      BY <1>1
    <3>2. IsFiniteSet(1 .. n)
      BY <3>1, FS_Interval
    <3> QED BY <3>2 DEF Nodes
  <2>2. F \subseteq Nodes
    OBVIOUS
  <2> HIDE DEF F
  <2> QED BY <2>1, <2>2, FS_Subset
<1>7. ToSet(Firsts) = F
  <2>1. Firsts = InOrder(F)
    BY DEF Firsts
  <2> HIDE DEF F
  <2> QED BY <1>6, <2>1, InOrderSorts
<1>8. PICK g \in DOMAIN Firsts : Firsts[g] = f
  <2>1. f \in ToSet(Firsts)
    BY <1>5, <1>7
  <2> QED BY <2>1 DEF ToSet
<1>9. /\ DOMAIN Firsts = 1 .. Len(Firsts) /\ Len(Groups) = Len(Firsts)
  BY <1>1, GroupsByFirst
<1>10. g \in 1 .. Len(out) /\ g \in DOMAIN out
  <2>1. \E T : out \in Seq(T)
    BY DEF OutRight
  <2>2. DOMAIN out = 1 .. Len(out)
    BY <2>1
  <2> QED BY <1>8, <1>9, <2>2
<1>11. Right(out[g], f)
  BY <1>8, <1>10 DEF OutRight
<1> DEFINE r == out[g]
           a == records[i].mgmt_ip
<1> HIDE DEF r, F
<1>12. CASE S = {f}
  <2>1. i = f
    BY <1>2, <1>12
  <2>2. r.mgmt_ip = a
    BY <1>4, <1>11, <1>12, <2>1 DEF Right, r
  <2> QED BY <1>10, <2>2 DEF AddrKeys, r
<1>13. CASE S # {f}
  <2>1. MergedRight(r, S)
    BY <1>4, <1>11, <1>13 DEF Right, r
  <2>2. {r.alt_ips[k].address : k \in DOMAIN r.alt_ips} = {records[j].mgmt_ip : j \in S} \ {r.mgmt_ip}
    BY <2>1 DEF MergedRight
  <2>3. a \in {records[j].mgmt_ip : j \in S}
    BY <1>2
  <2>4. a \in AddrKeys(r)
    BY <2>2, <2>3 DEF AddrKeys
  <2> QED BY <1>10, <2>4 DEF r
<1> QED BY <1>12, <1>13

\* So when the streams are flushed every observation has a record.
LEMMA AllCovered ==
  ASSUME MergeInv, JoinInv, IndexesExact, flow = "flushed"
  PROVE  Covered
<1>1. /\ stage = "done" /\ buffer = <<>> /\ OutOK /\ Len(emitted) = Len(out)
      /\ \E S : emitted \in Seq(S)
      /\ \A k \in DOMAIN emitted : emitted[k] = Classify(out[k])
  BY DEF JoinInv, EmittedOK
<1>2. DOMAIN emitted = DOMAIN out
  <2>1. DOMAIN out = 1 .. Len(out)
    BY <1>1 DEF OutOK
  <2>2. DOMAIN emitted = 1 .. Len(emitted)
    BY <1>1
  <2> QED BY <1>1, <2>1, <2>2
<1>3. ASSUME NEW k \in DOMAIN out, NEW address \in AddrKeys(out[k]) PROVE address \in DOMAIN byAddr
  <2>1. Shaped(out[k])
    BY <1>1 DEF OutOK
  <2>2. emitted[k] = Classify(out[k]) /\ k \in DOMAIN emitted
    BY <1>1, <1>2
  <2>3. emitted[k].mgmt_ip = out[k].mgmt_ip /\ emitted[k].alt_ips = out[k].alt_ips
    BY <2>1, <2>2, ClassifyKeeps DEF Shaped
  <2>4. AddrKeys(emitted[k]) = AddrKeys(out[k])
    BY <2>3 DEF AddrKeys
  <2> QED BY <2>2, <2>4, IndexAnswers
<1>4. ASSUME NEW address, Heard(address) PROVE address \in DOMAIN byAddr
  <2>1. CASE \E k \in DOMAIN records : records[k].mgmt_ip = address
    <3>1. PICK k \in DOMAIN records : records[k].mgmt_ip = address
      BY <2>1
    <3>2. Correlated
      BY <1>1, <3>1 DEF Correlated
    <3>3. RecordsOK /\ OutRight /\ Len(out) = Len(Groups)
      BY <3>2 DEF MergeInv
    <3>4. k \in Nodes
      BY <3>1, <3>3 DEF RecordsOK
    <3>5. PICK g \in DOMAIN out : address \in AddrKeys(out[g])
      BY <3>1, <3>3, <3>4, GroupCovers
    <3> QED BY <1>3, <3>5
  <2>2. CASE \E k \in DOMAIN out : out[k].mgmt_ip = address
    <3>1. PICK k \in DOMAIN out : address \in AddrKeys(out[k])
      BY <2>2 DEF AddrKeys
    <3> QED BY <1>3, <3>1
  <2>3. ~\E k \in DOMAIN buffer : buffer[k].mgmt_ip = address
    BY <1>1
  <2> QED BY <1>4, <2>1, <2>2, <2>3 DEF Heard
<1> QED BY <1>4 DEF JoinInv, HeardOf, Covered

\* So the invariant is enough.
LEMMA JoinInvSuffices == MergeInv /\ JoinInv /\ IndexesExact => StreamsJoin
<1> SUFFICES ASSUME MergeInv, JoinInv, IndexesExact, flow = "flushed"
             PROVE  /\ LinksRight /\ ProfilesRight
                    /\ \A e \in DOMAIN emitted : ClassifiedRight(emitted[e])
  BY DEF StreamsJoin
<1>1. Covered
  BY AllCovered
<1>2. /\ LldpOK /\ GnmiOK /\ links = FinishLinks /\ profiles = FinishProfiles
      /\ OutOK /\ EmittedOK /\ Len(emitted) = Len(out)
  BY DEF JoinInv
<1>3. LinksRight
  BY <1>1, <1>2, LinksAreRight
<1>4. ProfilesRight
  BY <1>1, <1>2, ProfilesAreRight
<1>5. ASSUME NEW e \in DOMAIN emitted PROVE ClassifiedRight(emitted[e])
  <2>1. e \in DOMAIN out /\ emitted[e] = Classify(out[e])
    <3>1. DOMAIN out = 1 .. Len(out)
      BY <1>2 DEF OutOK
    <3>2. DOMAIN emitted = 1 .. Len(emitted)
      BY <1>2 DEF EmittedOK
    <3> QED BY <1>2, <3>1, <3>2 DEF EmittedOK
  <2>2. Shaped(out[e])
    BY <1>2, <2>1 DEF OutOK
  <2>3. {"mgmt_ip", "alt_ips", "signals"} \subseteq DOMAIN out[e]
    BY <2>2 DEF Shaped
  <2> QED BY <2>1, <2>3, ClassifyRight
<1> QED BY <1>3, <1>4, <1>5

\* A scan starts with nothing observed.
LEMMA JoinInit == StreamsInit => JoinInv
<1> SUFFICES ASSUME StreamsInit PROVE JoinInv
  OBVIOUS
<1>1. /\ lldpSeen \in Seq({}) /\ gnmiSeen \in Seq({}) /\ out \in Seq({}) /\ emitted \in Seq({})
      /\ DOMAIN lldpSeen = {} /\ DOMAIN gnmiSeen = {} /\ DOMAIN out = {} /\ DOMAIN emitted = {}
      /\ Len(emitted) = 0 /\ Len(out) = 0
  BY DEF StreamsInit, Init
<1>2. flow = "fuse" /\ stage = "ingest" /\ emitted = <<>>
  BY DEF StreamsInit, Init
<1>3. LldpOK /\ GnmiOK /\ HeardOf /\ OutOK
  BY <1>1 DEF LldpOK, GnmiOK, HeardOf, OutOK
<1>4. EmittedOK
  BY <1>1, <1>2 DEF EmittedOK
<1> QED BY <1>2, <1>3, <1>4 DEF JoinInv

\* A target's outcomes are observed and its record is held.
LEMMA EmitTargetJoins == MergeInv /\ JoinInv /\ EmitTargetRecords => JoinInv'
<1> SUFFICES ASSUME MergeInv, JoinInv, EmitTargetRecords PROVE JoinInv'
  OBVIOUS
<1>1. PICK target \in Targets : /\ lldpSeen' = lldpSeen \o LldpOf(target)
                                /\ gnmiSeen' = gnmiSeen \o GnmiOf(target)
                                /\ IngestTarget(target)
  BY DEF EmitTargetRecords
<1>2. /\ stage = "ingest" /\ stage' = stage /\ records' = records /\ out' = out
      /\ buffer' = buffer \o [i \in DOMAIN FuseOne(target) |-> Enrich(FuseOne(target)[i])]
      /\ flow' = flow /\ emitted' = emitted
  BY <1>1 DEF IngestTarget, EmitTargetRecords
<1>3. flow = "fuse" /\ emitted = <<>>
  BY <1>2 DEF JoinInv, EmittedOK
<1>4. PICK S : buffer \in Seq(S)
  BY <1>2 DEF MergeInv, BufferOK
<1>5. /\ \A k \in DOMAIN buffer : k \in DOMAIN buffer' /\ buffer'[k] = buffer[k]
      /\ (\E i \in DOMAIN target.outcomes : target.outcomes[i].reachable)
           => \E k \in DOMAIN buffer' : buffer'[k].mgmt_ip = target.ip
  <2>1. buffer' = Holds(buffer, target)
    BY <1>2 DEF Holds
  <2> QED BY <1>4, <2>1, BufferHears
<1>6. ASSUME NEW address, Heard(address) PROVE Heard(address)'
  BY <1>2, <1>5, <1>6 DEF Heard
<1>7. (\E i \in DOMAIN target.outcomes : target.outcomes[i].reachable) => Heard(target.ip)'
  BY <1>5 DEF Heard
<1>8. LldpOK' /\ \A i \in DOMAIN lldpSeen' : Heard(lldpSeen[i].ip)'
  <2> DEFINE more == LldpOf(target)
  <2>1. PICK M : more \in Seq(M)
    BY LldpOfTarget
  <2>2. \A x \in ToSet(more) : /\ x.ip = target.ip
                               /\ x.neighbors \in Seq(ToSet(x.neighbors))
                               /\ \E i \in DOMAIN target.outcomes : target.outcomes[i].reachable
    BY LldpOfTarget
  <2> HIDE DEF more
  <2>3. PICK L : lldpSeen \in Seq(L)
    BY DEF JoinInv, LldpOK
  <2>4. /\ lldpSeen' \in Seq(L \cup M)
        /\ \A i \in DOMAIN lldpSeen' : \/ i \in DOMAIN lldpSeen /\ lldpSeen'[i] = lldpSeen[i]
                                       \/ lldpSeen'[i] \in ToSet(more)
    BY <1>1, <2>1, <2>3, Joining DEF more
  <2>5. ASSUME NEW i \in DOMAIN lldpSeen'
        PROVE  /\ lldpSeen'[i].neighbors \in Seq(ToSet(lldpSeen'[i].neighbors))
               /\ Heard(lldpSeen[i].ip)'
    <3>1. PICK x : x = lldpSeen'[i]
      OBVIOUS
    <3>2. PICK address : address = x.ip
      OBVIOUS
    <3>3. CASE i \in DOMAIN lldpSeen /\ x = lldpSeen[i]
      <4>1. x.neighbors \in Seq(ToSet(x.neighbors)) /\ Heard(address)
        BY <3>2, <3>3 DEF JoinInv, LldpOK, HeardOf
      <4>2. Heard(address)'
        BY <1>6, <4>1
      <4> QED BY <3>1, <3>2, <4>1, <4>2
    <3>4. CASE x \in ToSet(more)
      <4>1. x.neighbors \in Seq(ToSet(x.neighbors)) /\ address = target.ip
        BY <2>2, <3>2, <3>4
      <4>2. Heard(target.ip)'
        BY <1>7, <2>2, <3>4
      <4> QED BY <3>1, <3>2, <4>1, <4>2
    <3> QED BY <2>4, <3>1, <3>3, <3>4
  <2> QED BY <2>4, <2>5 DEF LldpOK
<1>9. GnmiOK' /\ \A i \in DOMAIN gnmiSeen' : Heard(gnmiSeen[i].ip)'
  <2> DEFINE more == GnmiOf(target)
  <2>1. PICK M : more \in Seq(M)
    BY GnmiOfTarget
  <2>2. \A x \in ToSet(more) : /\ x.ip = target.ip
                               /\ x.encodings \in Seq(ToSet(x.encodings))
                               /\ \E i \in DOMAIN target.outcomes : target.outcomes[i].reachable
    BY GnmiOfTarget
  <2> HIDE DEF more
  <2>3. PICK L : gnmiSeen \in Seq(L)
    BY DEF JoinInv, GnmiOK
  <2>4. /\ gnmiSeen' \in Seq(L \cup M)
        /\ \A i \in DOMAIN gnmiSeen' : \/ i \in DOMAIN gnmiSeen /\ gnmiSeen'[i] = gnmiSeen[i]
                                       \/ gnmiSeen'[i] \in ToSet(more)
    BY <1>1, <2>1, <2>3, Joining DEF more
  <2>5. ASSUME NEW i \in DOMAIN gnmiSeen'
        PROVE  /\ gnmiSeen'[i].encodings \in Seq(ToSet(gnmiSeen'[i].encodings))
               /\ Heard(gnmiSeen[i].ip)'
    <3>1. PICK x : x = gnmiSeen'[i]
      OBVIOUS
    <3>2. PICK address : address = x.ip
      OBVIOUS
    <3>3. CASE i \in DOMAIN gnmiSeen /\ x = gnmiSeen[i]
      <4>1. x.encodings \in Seq(ToSet(x.encodings)) /\ Heard(address)
        BY <3>2, <3>3 DEF JoinInv, GnmiOK, HeardOf
      <4>2. Heard(address)'
        BY <1>6, <4>1
      <4> QED BY <3>1, <3>2, <4>1, <4>2
    <3>4. CASE x \in ToSet(more)
      <4>1. x.encodings \in Seq(ToSet(x.encodings)) /\ address = target.ip
        BY <2>2, <3>2, <3>4
      <4>2. Heard(target.ip)'
        BY <1>7, <2>2, <3>4
      <4> QED BY <3>1, <3>2, <4>1, <4>2
    <3> QED BY <2>4, <3>1, <3>3, <3>4
  <2> QED BY <2>4, <2>5 DEF GnmiOK
<1>10. OutOK' /\ EmittedOK'
  BY <1>2, <1>3 DEF JoinInv, OutOK, EmittedOK
<1> QED BY <1>2, <1>3, <1>8, <1>9, <1>10 DEF JoinInv, HeardOf

\* The fuser finishes: the records move on, and each keeps its address.
LEMMA FinishJoins == MergeInv /\ JoinInv /\ FuserFinish => JoinInv'
<1> SUFFICES ASSUME MergeInv, JoinInv, FuserFinish PROVE JoinInv'
  OBVIOUS
<1>1. /\ UNCHANGED <<lldpSeen, gnmiSeen, emitted>>
      /\ flow' = IF stage' = "done" THEN "records" ELSE flow
  BY DEF FuserFinish
<1>2. stage # "done"
  BY DEF FuserFinish, FinishFew, FinishMany, Unite, EmitGroup
<1>3. flow = "fuse" /\ emitted = <<>>
  BY <1>2 DEF JoinInv, EmittedOK
<1>4. /\ \A address : Heard(address) => Heard(address)'
      /\ OutOK'
      /\ stage' # "ingest" /\ buffer' = <<>>
  <2>1. CASE FinishFew
    <3>1. /\ stage = "ingest" /\ out' = buffer /\ buffer' = <<>> /\ stage' = "done" /\ records' = records
      BY <2>1 DEF FinishFew
    <3>2. BufferOK /\ records = <<>> /\ out = <<>>
      BY <3>1 DEF MergeInv
    <3>3. PICK S : buffer \in Seq(S) /\ \A r \in S : RecordOK(r)
      BY <3>2 DEF BufferOK
    <3>4. \A k \in DOMAIN buffer : buffer[k] \in S
      BY <3>3
    <3>5. \A k \in DOMAIN buffer : Shaped(buffer[k])
      BY <3>3, <3>4 DEF RecordOK, Shaped
    <3>6. OutOK'
      BY <3>1, <3>3, <3>5 DEF OutOK, Shaped
    <3>7. \A address : Heard(address) => Heard(address)'
      BY <3>1, <3>2 DEF Heard
    <3> QED BY <3>1, <3>6, <3>7
  <2>2. CASE FinishMany
    <3>1. /\ stage = "ingest" /\ out' = out /\ buffer' = <<>> /\ stage' = "unite" /\ records' = buffer
      BY <2>2 DEF FinishMany
    <3>2. records = <<>> /\ out = <<>>
      BY <3>1 DEF MergeInv
    <3>3. \A address : Heard(address) => Heard(address)'
      BY <3>1, <3>2 DEF Heard
    <3>4. OutOK'
      BY <3>1 DEF JoinInv, OutOK, Shaped
    <3> QED BY <3>1, <3>3, <3>4
  <2>3. CASE Unite
    <3>1. /\ stage = "unite" /\ UNCHANGED <<buffer, records, out>> /\ stage' # "ingest"
      BY <2>3 DEF Unite
    <3>2. \A address : Heard(address) => Heard(address)'
      BY <3>1 DEF Heard
    <3>3. OutOK' /\ buffer = <<>>
      BY <3>1 DEF JoinInv, OutOK, Shaped
    <3> QED BY <3>1, <3>2, <3>3
  <2>4. CASE EmitGroup
    <3>1. stage = "merge" /\ UNCHANGED <<buffer, records>> /\ stage' # "ingest"
      BY <2>4 DEF EmitGroup
    <3>2. /\ RecordsOK /\ OutRight /\ (out = <<>> \/ Len(out) < Len(Groups))
      BY <3>1 DEF MergeInv
    <3>3. records # <<>> /\ buffer = <<>>
      <4>1. n \in Nat \ {0} /\ DOMAIN records = 1 .. n
        BY <3>2 DEF RecordsOK, Nodes
      <4>2. DOMAIN records # {}
        BY <4>1
      <4> QED BY <3>1, <4>2 DEF JoinInv
    <3>4. \A address : Heard(address) => Heard(address)'
      BY <3>1, <3>3 DEF Heard
    <3> DEFINE m == Len(out)
               first == Firsts[m + 1]
               members == Groups[m + 1]
    <3>5. PICK S : out \in Seq(S)
      BY <3>2 DEF OutRight
    <3>6. /\ Len(Groups) = Len(Firsts) /\ Len(Firsts) \in Nat \ {0}
          /\ \A g \in 1 .. Len(Firsts) : Firsts[g] \in Nodes
          /\ \A g \in 1 .. Len(Firsts) : Groups[g] = InOrder(Members(Firsts[g]))
      BY <3>2, GroupsByFirst DEF RecordsOK
    <3>7. m \in Nat /\ m + 1 \in 1 .. Len(Firsts)
      BY <3>2, <3>5, <3>6
    <3>8. first \in Nodes /\ members = InOrder(Members(first))
      BY <3>6, <3>7
    <3>9. PICK r : out' = Append(out, r) /\ Shaped(r)
      <4>1. \/ /\ Len(members) = 1
               /\ \E peers \in SetToSeqs(MediumPeers(members[1])) :
                    out' = Append(out, Single(members[1], peers))
            \/ Len(members) > 1 /\ out' = Append(out, MergeGroup(members))
        BY <2>4 DEF EmitGroup
      <4> HIDE DEF members, first
      <4>2. /\ Len(members) = 1 => \A peers : Shaped(Single(members[1], peers))
            /\ Shaped(MergeGroup(members))
        BY <3>2, <3>8, EmitShaped
      <4> QED BY <4>1, <4>2
    <3>10. /\ out' \in Seq(S \cup {r})
           /\ \A k \in DOMAIN out' : (k \in DOMAIN out /\ out'[k] = out[k]) \/ out'[k] = r
      <4>1. out \in Seq(S \cup {r}) /\ r \in S \cup {r}
        BY <3>5
      <4> QED BY <3>9, <4>1
    <3>11. \A k \in DOMAIN out' : Shaped(out'[k])
      BY <3>9, <3>10 DEF JoinInv, OutOK
    <3>12. OutOK'
      BY <3>10, <3>11 DEF OutOK, Shaped
    <3> QED BY <3>1, <3>3, <3>4, <3>12
  <2> QED BY <2>1, <2>2, <2>3, <2>4 DEF FuserFinish
<1>5. HeardOf'
  <2>1. ASSUME NEW i \in DOMAIN lldpSeen PROVE Heard(lldpSeen[i].ip)'
    <3>1. PICK address : address = lldpSeen[i].ip
      OBVIOUS
    <3>2. Heard(address)'
      BY <1>4, <3>1 DEF JoinInv, HeardOf
    <3> QED BY <1>1, <3>1, <3>2
  <2>2. ASSUME NEW i \in DOMAIN gnmiSeen PROVE Heard(gnmiSeen[i].ip)'
    <3>1. PICK address : address = gnmiSeen[i].ip
      OBVIOUS
    <3>2. Heard(address)'
      BY <1>4, <3>1 DEF JoinInv, HeardOf
    <3> QED BY <1>1, <3>1, <3>2
  <2> QED BY <1>1, <2>1, <2>2 DEF HeardOf
<1>6. EmittedOK'
  <2>1. emitted' \in Seq({}) /\ Len(emitted') = 0 /\ DOMAIN emitted' = {}
    BY <1>1, <1>3
  <2>2. Len(out') \in Nat
    BY <1>4 DEF OutOK
  <2> QED BY <1>1, <1>3, <2>1, <2>2 DEF EmittedOK
<1>7. LldpOK' /\ GnmiOK'
  BY <1>1 DEF JoinInv, LldpOK, GnmiOK
<1> QED BY <1>1, <1>3, <1>4, <1>5, <1>6, <1>7 DEF JoinInv

\* One more record is classified and emitted.
LEMMA EmitRecordJoins == JoinInv /\ EmitRecord => JoinInv'
<1> SUFFICES ASSUME JoinInv, EmitRecord PROVE JoinInv'
  OBVIOUS
<1>1. /\ flow = "records" /\ Len(emitted) < Len(out) /\ flow' = flow
      /\ emitted' = Append(emitted, Classify(out[Len(emitted) + 1]))
      /\ UNCHANGED <<stage, buffer, records, out, lldpSeen, gnmiSeen>>
  BY DEF EmitRecord, vars, fuserVars
<1>2. LldpOK' /\ GnmiOK' /\ HeardOf' /\ OutOK' /\ (stage # "ingest" => buffer = <<>>)'
  BY <1>1 DEF JoinInv, LldpOK, GnmiOK, HeardOf, Heard, OutOK, Shaped
<1>3. EmittedOK'
  <2> DEFINE r == Classify(out[Len(emitted) + 1])
  <2>1. PICK S : emitted \in Seq(S)
    BY DEF JoinInv, EmittedOK
  <2>2. /\ emitted' = Append(emitted, r)
    BY <1>1
  <2> HIDE DEF r
  <2>3. emitted \in Seq(S \cup {r}) /\ r \in S \cup {r}
    BY <2>1
  <2>4. /\ emitted' \in Seq(S \cup {r}) /\ Len(emitted) \in Nat /\ Len(emitted') = Len(emitted) + 1
        /\ DOMAIN emitted = 1 .. Len(emitted) /\ DOMAIN emitted' = 1 .. Len(emitted) + 1
        /\ emitted'[Len(emitted) + 1] = r
        /\ \A k \in 1 .. Len(emitted) : emitted'[k] = emitted[k]
    BY <2>2, <2>3
  <2>5. Len(out) \in Nat
    BY DEF JoinInv, OutOK
  <2>6. ASSUME NEW k \in DOMAIN emitted' PROVE emitted'[k] = Classify(out[k])
    <3>1. CASE k = Len(emitted) + 1
      BY <2>4, <3>1 DEF r
    <3>2. CASE k \in 1 .. Len(emitted)
      BY <2>4, <3>2 DEF JoinInv, EmittedOK
    <3> QED BY <2>4, <3>1, <3>2
  <2>7. \A k : Classify(out[k])' = Classify(out[k])
    BY <1>1 
  <2>8. stage' = "done" /\ flow' = "records"
    BY <1>1 DEF JoinInv, EmittedOK
  <2>9. \A k \in DOMAIN emitted' : emitted'[k] = Classify(out[k])'
    BY <2>6, <2>7
  <2> QED BY <1>1, <2>4, <2>5, <2>8, <2>9 DEF EmittedOK
<1> QED BY <1>1, <1>2, <1>3 DEF JoinInv

\* The streams are flushed.
LEMMA FlushJoins == JoinInv /\ FlushStreams => JoinInv'
<1> SUFFICES ASSUME JoinInv, FlushStreams PROVE JoinInv'
  OBVIOUS
<1>1. /\ flow = "records" /\ Len(emitted) = Len(out) /\ flow' = "flushed"
      /\ links' = FinishLinks /\ profiles' = FinishProfiles
      /\ UNCHANGED <<stage, buffer, records, out, lldpSeen, gnmiSeen, emitted, byMac, byName, byAddr>>
  BY DEF FlushStreams, vars, fuserVars
<1>2. LldpOK' /\ GnmiOK' /\ HeardOf' /\ OutOK' /\ (stage # "ingest" => buffer = <<>>)'
  BY <1>1 DEF JoinInv, LldpOK, GnmiOK, HeardOf, Heard, OutOK, Shaped
<1>3. EmittedOK'
  BY <1>1 DEF JoinInv, EmittedOK
<1>4. FinishLinks' = FinishLinks /\ FinishProfiles' = FinishProfiles
  BY <1>1, FinishKept
<1> QED BY <1>1, <1>2, <1>3, <1>4 DEF JoinInv

\* Nothing happens.
LEMMA StutterJoins == JoinInv /\ UNCHANGED allVars => JoinInv'
<1> SUFFICES ASSUME JoinInv, UNCHANGED allVars PROVE JoinInv'
  OBVIOUS
<1>1. UNCHANGED <<stage, buffer, records, out, flow, lldpSeen, gnmiSeen, emitted, byMac, byName,
                  byAddr, links, profiles>>
  BY DEF allVars, streamVars, vars, fuserVars
<1>2. LldpOK' /\ GnmiOK' /\ HeardOf' /\ OutOK' /\ (stage # "ingest" => buffer = <<>>)'
  BY <1>1 DEF JoinInv, LldpOK, GnmiOK, HeardOf, Heard, OutOK, Shaped
<1>3. EmittedOK'
  BY <1>1 DEF JoinInv, EmittedOK
<1>4. FinishLinks' = FinishLinks /\ FinishProfiles' = FinishProfiles
  BY <1>1, FinishKept
<1> QED BY <1>1, <1>2, <1>3, <1>4 DEF JoinInv

\* Each step keeps the invariant.
LEMMA JoinStep == MergeInv /\ JoinInv /\ [StreamsNext]_allVars => JoinInv'
BY EmitTargetJoins, FinishJoins, EmitRecordJoins, FlushJoins, StutterJoins DEF StreamsNext, Flushed

\* StreamsAlwaysJoin: StreamsJoin for every scan, table and rule: whatever
\* order the targets came in and however the fuser merged them, every link
\* and every profile names the record of the device it is about, and every
\* record carries what the first matching rules say (TopologyAssembler and
\* CollectionProfileAssembler::finish, RulesClassifier::classify).
THEOREM StreamsAlwaysJoin == StreamsSpec => []StreamsJoin
<1>1. StreamsSpec => []MergeInv
  BY StreamsDriveTheFuser, MergeInvAlways, PTL
<1>2. StreamsSpec => []JoinInv
  BY <1>1, JoinInit, JoinStep, PTL DEF StreamsSpec
<1> QED BY <1>1, <1>2, IndexesAlwaysExact, JoinInvSuffices, PTL
=============================================================================
