------------------------------ MODULE MC_Kafka ------------------------------
(* Instances of KafkaSink for TLC: two scans share the sink. *)
EXTENDS KafkaSink

CONSTANTS a, b

MCLoad ==
  (a :> <<[kind |-> "device", size |-> 1], [kind |-> "device", size |-> 1],
          [kind |-> "link", size |-> 2]>>)
  @@ (b :> <<[kind |-> "device", size |-> 2], [kind |-> "device", size |-> 1],
             [kind |-> "profile", size |-> 1]>>)

PerRecord == [threshold |-> 0, attempts |-> 0, dlq |-> FALSE]
BatchedDlq == [threshold |-> 2, attempts |-> 2, dlq |-> TRUE]

MCConfigs == {PerRecord, BatchedDlq}
MCBatchedDlq == {BatchedDlq}
=============================================================================
