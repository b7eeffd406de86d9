----------------------------- MODULE BrokerSink -----------------------------
(***************************************************************************)
(* What the broker sinks of rastreo-server have in common, and the scans   *)
(* that share one: the PendingBuffer of each record stream (sink/          *)
(* pending.rs), the retry budget (sink/retry.rs), TeeSink with a shared    *)
(* child (sink/tee.rs) and POST /scans (rastreo-server/src/routes/         *)
(* scans.rs).  NatsSink and KafkaSink add how a stream is published.       *)
(*                                                                         *)
(* Every scan writes its records one call at a time and then closes the    *)
(* sink; each call holds the mutex of the shared sink until it returns.    *)
(* The request timeout may drop a scan's future at any await, which drops  *)
(* the call it is in and gives the mutex back.  The in-memory capture that *)
(* is the other child of the TeeSink never fails and is left out.          *)
(*                                                                         *)
(* A record is its place in the order of all writes to the sink, log.      *)
(***************************************************************************)
EXTENDS Integers, Sequences, FiniteSets, SequencesExt

CONSTANTS
  Scans,          \* requests served by one process
  Load,           \* Load[s]: what s emits, a sequence of [kind, size]
  Configs,        \* the sink configurations considered, see Configurations
  MaxTimeouts,    \* bound on requests dropped by the request timeout
  NoScan          \* nobody holds the sink

Kinds == {"device", "link", "profile"}
Entries == [kind : Kinds, size : Nat \ {0}]

(***************************************************************************)
(* threshold: threshold_bytes of the flush mode, 1 for per_record;         *)
(* attempts: SinkRetry.max_attempts; dlq: a dead-letter destination is     *)
(* configured.                                                             *)
(***************************************************************************)
Configurations == [threshold : Nat, attempts : Nat, dlq : BOOLEAN]

ASSUME LoadAssumption == Load \in [Scans -> Seq(Entries)]
ASSUME ConfigAssumption == Configs \subseteq Configurations
ASSUME MaxTimeoutsAssumption == MaxTimeouts \in Nat
ASSUME NoScanAssumption == NoScan \notin Scans

VARIABLES
  config,        \* the configuration of the sink
  status,        \* status[s]: where the scan s is
  written,       \* written[s]: records s has handed to the sink
  credited,      \* credited[s]: attribution of the TeeSink of s
  holder,        \* the scan that holds the sink's mutex
  op,            \* what the call in progress does
  pc,            \* where it is; a kind: at the front of that stream
  attempt,       \* attempt of retry_with_backoff
  errs,          \* streams that failed in this call
  before,        \* dlq_records_by_class when the call began
  buffer,        \* buffer[k]: the PendingBuffer of stream k
  bytes,         \* its byte count
  lastDelivered, \* last_write_delivered
  dlqDelivered,  \* dlq_delivered
  dlqTotal,      \* rastreo_server_dlq_records_total
  log,           \* history: all writes, in order
  accepted,      \* records the primary destination acknowledged
  quarantined,   \* records the dead-letter destination acknowledged
  timeouts       \* requests dropped so far

scanVars == <<config, status, written, credited, dlqTotal, timeouts>>
callVars == <<holder, op, pc, attempt, errs, before>>
sinkVars == <<buffer, bytes, lastDelivered, dlqDelivered>>
brokerVars == <<log, accepted, quarantined>>
baseVars == <<scanVars, callVars, sinkVars, brokerVars>>

Records == 1 .. Len(log)
Ended == {"ok", "failed", "timedout"}

\* The part of the type invariant the sinks share; PCs are theirs.
BaseTypeOK(PCs) ==
  /\ config \in Configs
  /\ status \in [Scans -> {"writing", "failing"} \cup Ended]
  /\ \A s \in Scans : written[s] \in 0 .. Len(Load[s])
  /\ credited \in [Scans -> Nat]
  /\ holder \in Scans \cup {NoScan}
  /\ op \in {"hold", "batch", "publish", "flush"}
  /\ pc \in Kinds \cup PCs \cup {"idle", "return"}
  /\ attempt \in Nat \ {0}
  /\ errs \subseteq Kinds
  /\ before \in Nat
  /\ buffer \in [Kinds -> Seq(Records)]
  /\ bytes \in [Kinds -> Nat]
  /\ lastDelivered \in BOOLEAN
  /\ dlqDelivered \in Nat
  /\ dlqTotal \in Nat
  /\ log \in Seq([scan : Scans, kind : Kinds, size : Nat \ {0}])
  /\ accepted \subseteq Records
  /\ quarantined \subseteq Records
  /\ timeouts \in 0 .. MaxTimeouts
  /\ holder = NoScan <=> pc = "idle"

BaseInit ==
  /\ config \in Configs
  /\ status = [s \in Scans |-> "writing"]
  /\ written = [s \in Scans |-> 0]
  /\ credited = [s \in Scans |-> 0]
  /\ holder = NoScan
  /\ op = "hold"
  /\ pc = "idle"
  /\ attempt = 1
  /\ errs = {}
  /\ before = 0
  /\ buffer = [k \in Kinds |-> <<>>]
  /\ bytes = [k \in Kinds |-> 0]
  /\ lastDelivered = FALSE
  /\ dlqDelivered = 0
  /\ dlqTotal = 0
  /\ log = <<>>
  /\ accepted = {}
  /\ quarantined = {}
  /\ timeouts = 0

-----------------------------------------------------------------------------
(* PendingBuffer and retry_with_backoff *)

\* clamp_threshold
BufferThreshold == IF config.threshold = 0 THEN 1 ELSE config.threshold

\* retry.max_attempts.max(1)
Budget == IF config.attempts = 0 THEN 1 ELSE config.attempts

SizeOf(seq) == FoldSeq(LAMBDA r, sum : log[r].size + sum, 0, seq)

\* settle_front with the destination's acceptance
SettleFront(k) ==
  /\ buffer' = [buffer EXCEPT ![k] = Tail(@)]
  /\ bytes' = [bytes EXCEPT ![k] = @ - log[Head(buffer[k])].size]

\* settle_all with the destination's acceptance
SettleAll(k) ==
  /\ buffer' = [buffer EXCEPT ![k] = <<>>]
  /\ bytes' = [bytes EXCEPT ![k] = 0]

\* Mutant: the refused entries go behind what was written since.
RestoreFrontMutant(k, batch) ==
  /\ buffer' = [buffer EXCEPT ![k] = @ \o batch]
  /\ bytes' = [bytes EXCEPT ![k] = @ + SizeOf(batch)]

\* restore_front
RestoreFront(k, batch) ==
  /\ buffer' = [buffer EXCEPT ![k] = batch \o @]
  /\ bytes' = [bytes EXCEPT ![k] = @ + SizeOf(batch)]

\* Mutant: the attempts start over instead of running out.
RetryMutant == attempt' = (attempt % Budget) + 1

\* An attempt failed and the budget has another.
Retry == attempt < Budget /\ attempt' = attempt + 1

\* The last attempt failed.
GiveUp == attempt = Budget /\ attempt' = 1

-----------------------------------------------------------------------------
(* The calls of the scans *)

\* A write publishes one stream; flush goes on to the next.
AfterStream(k) ==
  IF op # "flush" \/ k = "profile" THEN "return"
  ELSE IF k = "device" THEN "link" ELSE "profile"

\* Stream k is done with in this call.
StreamEnds(k, failed) ==
  /\ errs' = IF failed THEN errs \cup {k} ELSE errs
  /\ pc' = AfterStream(k)

\* TeeChild::Shared: the mutex is taken and the DLQ count read.
Acquire(s) ==
  /\ holder = NoScan
  /\ holder' = s
  /\ before' = dlqDelivered
  /\ errs' = {}
  /\ attempt' = 1

(***************************************************************************)
(* write_kind: the record is pushed, and the stream published once the     *)
(* threshold is reached.  The kinds in pipelined are published without     *)
(* waiting for their acks.                                                 *)
(***************************************************************************)
WriteRecord(s, pipelined) ==
  /\ status[s] = "writing"
  /\ written[s] < Len(Load[s])
  /\ Acquire(s)
  /\ LET e == Load[s][written[s] + 1]
         full == bytes[e.kind] + e.size >= BufferThreshold
     IN /\ log' = Append(log, [scan |-> s, kind |-> e.kind, size |-> e.size])
        /\ buffer' = [buffer EXCEPT ![e.kind] = Append(@, Len(log) + 1)]
        /\ bytes' = [bytes EXCEPT ![e.kind] = @ + e.size]
        /\ op' = IF ~full THEN "hold"
                 ELSE IF e.kind \in pipelined THEN "batch" ELSE "publish"
        /\ pc' = IF full THEN e.kind ELSE "return"
  /\ lastDelivered' = FALSE
  /\ written' = [written EXCEPT ![s] = @ + 1]
  /\ UNCHANGED <<config, status, credited, dlqTotal, timeouts, dlqDelivered, accepted,
                 quarantined>>

\* The pipeline closes the sink after its last record, or after a failed one.
CloseSink(s) ==
  /\ \/ status[s] = "writing" /\ written[s] = Len(Load[s])
     \/ status[s] = "failing"
  /\ Acquire(s)
  /\ op' = "flush"
  /\ pc' = "device"
  /\ UNCHANGED <<scanVars, sinkVars, brokerVars>>

\* Mutant: a write that only buffered reports its record as delivered.
DeliveredMutant == IF op = "batch" THEN lastDelivered ELSE errs = {}

\* last_write_delivered as the call leaves it.
Delivered ==
  CASE op = "flush" -> errs = {}
    [] op = "publish" /\ errs = {} -> TRUE
    [] OTHER -> lastDelivered

\* What a returned call means for the scan: emit_err, or its result.
Outcome(s) ==
  CASE op # "flush" /\ errs = {} -> status[s]
    [] op # "flush" /\ errs # {} -> "failing"
    [] op = "flush" /\ errs = {} /\ status[s] = "writing" -> "ok"
    [] OTHER -> "failed"

\* credit_attribution: what the DLQ count grew by during the call.
Credit(s) == credited[s] + (dlqDelivered - before)

(***************************************************************************)
(* The call returns and the mutex is released.  A scan that completes adds *)
(* its attribution to the server's metric; one that fails does not.        *)
(***************************************************************************)
Return ==
  /\ pc = "return"
  /\ lastDelivered' = Delivered
  /\ status' = [status EXCEPT ![holder] = Outcome(holder)]
  /\ credited' = [credited EXCEPT ![holder] = Credit(holder)]
  /\ dlqTotal' = IF status'[holder] = "ok"
                 THEN dlqTotal + credited'[holder] ELSE dlqTotal
  /\ holder' = NoScan
  /\ pc' = "idle"
  /\ UNCHANGED <<config, written, timeouts, op, attempt, errs, before, buffer, bytes,
                 dlqDelivered, brokerVars>>

\* TimeoutLayer drops the request of s.
DropRequest(s) ==
  /\ timeouts < MaxTimeouts
  /\ status[s] \notin Ended
  /\ timeouts' = timeouts + 1
  /\ status' = [status EXCEPT ![s] = "timedout"]
  /\ UNCHANGED <<config, written, credited, dlqTotal, op, attempt, errs, before,
                 lastDelivered, dlqDelivered, log, quarantined>>

-----------------------------------------------------------------------------
(* Properties; held is the set of records the sink still has *)

Taken == accepted \cup quarantined

(***************************************************************************)
(* The failure model of docs/site/docs/discover/sinks.md: a record that    *)
(* was written is at a destination or kept for the next flush; no failure  *)
(* of the broker, of the dead-letter queue or of an ack loses it.          *)
(***************************************************************************)
KeptOrTaken(held) == Records \subseteq Taken \cup held

(***************************************************************************)
(* A scan that reports success has every record it wrote at a destination, *)
(* whatever the scans it shares the sink with wrote, published or refused. *)
(***************************************************************************)
OkMeansTaken ==
  \A r \in Records : status[log[r].scan] = "ok" => r \in Taken

(***************************************************************************)
(* Sink::last_write_delivered (sink/mod.rs): "true only once the bytes of  *)
(* the most recent write / write_kind have been accepted by the            *)
(* destination".                                                           *)
(***************************************************************************)
DeliveredIsHonest(reported) ==
  holder = NoScan /\ reported /\ log # <<>> => Len(log) \in Taken

(***************************************************************************)
(* Flush publishes all three streams whatever any one of them does: a      *)
(* stream it leaves records in is one that failed in this very call.       *)
(***************************************************************************)
FlushReachesEveryStream ==
  pc = "return" /\ op = "flush" =>
    \A k \in Kinds : buffer[k] # <<>> => k \in errs

(***************************************************************************)
(* PendingBuffer: "the count and the contents cannot disagree", over       *)
(* pushes, settles and the restore of refused entries.                     *)
(***************************************************************************)
BytesAgree == \A k \in Kinds : bytes[k] = SizeOf(buffer[k])

(***************************************************************************)
(* As long as no request times out, each record the dead-letter queue took *)
(* is counted once and credited to exactly one scan.                       *)
(***************************************************************************)
QuarantineCounted ==
  holder = NoScan /\ timeouts = 0 =>
    /\ dlqDelivered = Cardinality(quarantined)
    /\ dlqDelivered = FoldFunction(+, 0, credited)

(***************************************************************************)
(* Comment of TeeSink.attribution (sink/tee.rs): "only writes issued       *)
(* through THIS Tee credit it, so overlapping scans against a shared child *)
(* never cross-credit each other".                                         *)
(***************************************************************************)
NeverCrossCredit ==
  \A s \in Scans :
    credited[s] <= Cardinality({r \in quarantined : log[r].scan = s})

(***************************************************************************)
(* docs/site/docs/discover/sinks.md: "Each successful Kafka DLQ delivery   *)
(* increments rastreo_server_dlq_records_total".                           *)
(***************************************************************************)
MetricCountsEveryQuarantine ==
  (\A s \in Scans : status[s] \in Ended) => dlqTotal = Cardinality(quarantined)

(***************************************************************************)
(* Every scan ends: no call waits forever for the mutex, for a permit or   *)
(* in a retry loop.                                                        *)
(***************************************************************************)
EveryScanEnds == \A s \in Scans : <>(status[s] \in Ended)
=============================================================================
