------------------------------ MODULE MC_Plan ------------------------------
(***************************************************************************)
(* Instances of TargetPlan for TLC.  Addresses are four bits wide, usize   *)
(* is three, so IPv6 counts saturate and wrap.  Two kinds of input: every  *)
(* network and every range between boundary addresses as a single target,  *)
(* under every allow-list of up to two networks; and lists of up to three  *)
(* targets that touch, nest, repeat and include names.                     *)
(***************************************************************************)
EXTENDS TargetPlan

V4 == FALSE
V6 == TRUE

Cidr(v6, lo, hi) == [kind |-> "cidr", v6 |-> v6, lo |-> lo, hi |-> hi]
Ip(v6, a) == [kind |-> "ip", ip |-> <<v6, a>>]
Range4(a, b) == [kind |-> "range", start |-> <<V4, a>>, end |-> <<V4, b>>]
Range6(a, b) == [kind |-> "range", start |-> <<V6, a>>, end |-> <<V6, b>>]
Dns(n) == [kind |-> "dns", name |-> n]
Net(v6, lo, hi) == [v6 |-> v6, lo |-> lo, hi |-> hi]

\* Every network of a family.
AllCidrs(v6) ==
  UNION {{Cidr(v6, size * k, size * k + size - 1) : k \in 0 .. (16 \div size) - 1} :
           size \in {1, 2, 4, 8, 16}}

Edges == {0, 1, 3, 4, 7, 8, 14, 15}

Singles ==
  AllCidrs(V4) \cup AllCidrs(V6)
    \cup {Range4(a, b) : a, b \in Edges}
    \cup {Range6(a, b) : a, b \in Edges}
    \cup {[kind |-> "range", start |-> <<V4, 1>>, end |-> <<V6, 2>>]}

AllowNets ==
  {Net(V4, 0, 15), Net(V4, 0, 7), Net(V4, 8, 15), Net(V4, 4, 7), Net(V4, 2, 3),
   Net(V4, 15, 15), Net(V6, 0, 15), Net(V6, 8, 11)}

Lists ==
  {Ip(V4, 3), Cidr(V4, 0, 3), Range4(2, 5), Range4(5, 6), Range6(13, 15),
   Cidr(V6, 0, 15), Dns("a"), Dns("b")}

SeqsUpTo(S, n) == UNION {[1 .. k -> S] : k \in 1 .. n}

MCInputs ==
  {[targets |-> <<t>>, guarded |-> TRUE, nets |-> nets, capped |-> TRUE] :
     t \in Singles, nets \in SeqsUpTo(AllowNets, 2)}
  \cup
  {[targets |-> ts, guarded |-> g, nets |-> <<Net(V6, 0, 15), Net(V4, 0, 7)>>, capped |-> c] :
     ts \in SeqsUpTo(Lists, 3), g \in BOOLEAN, c \in BOOLEAN}

Failed == [ok |-> FALSE, none |-> FALSE]
NoRecords == [ok |-> FALSE, none |-> TRUE]

MCAnswers6 == {Failed, NoRecords, [ok |-> TRUE, ips |-> <<<<V6, 15>>>>]}
MCAnswers4 ==
  {Failed, NoRecords, [ok |-> TRUE, ips |-> <<<<V4, 3>>, <<V4, 9>>, <<V4, 3>>>>]}
=============================================================================
