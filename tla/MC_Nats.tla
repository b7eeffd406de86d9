------------------------------- MODULE MC_Nats -------------------------------
(* Instances of NatsSink for TLC: two scans share the sink. *)
EXTENDS NatsSink

CONSTANTS a, b

\* Scan a ends with a link; scan b has a record that fills a batch of 2 bytes
\* by itself.
MCLoad ==
  (a :> <<[kind |-> "device", size |-> 1], [kind |-> "device", size |-> 1],
          [kind |-> "link", size |-> 2]>>)
  @@ (b :> <<[kind |-> "device", size |-> 2], [kind |-> "profile", size |-> 1]>>)

PerRecord == [threshold |-> 0, attempts |-> 0, dlq |-> FALSE]
Batched == [threshold |-> 2, attempts |-> 1, dlq |-> FALSE]
BatchedDlq == [threshold |-> 2, attempts |-> 2, dlq |-> TRUE]

MCConfigs == {PerRecord, Batched, BatchedDlq}
MCBatched == {Batched}
=============================================================================
