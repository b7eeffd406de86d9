----------------------------- MODULE KafkaSink ------------------------------
(***************************************************************************)
(* KafkaSink (rastreo-core/src/sink/kafka.rs) shared by concurrent scans.  *)
(*                                                                         *)
(* A stream is produced as one batch: the buffer is settled as a whole     *)
(* when the broker, or for devices the dead-letter topic, has taken it.    *)
(* The clients of the link and profile topics are connected on first use   *)
(* and taken out of the sink while a produce is in progress.               *)
(***************************************************************************)
EXTENDS BrokerSink

VARIABLE connected  \* second streams whose client the sink has

vars == <<baseVars, connected>>

Seconds == {"link", "profile"}

TypeOK ==
  /\ BaseTypeOK({"dlq"})
  /\ connected \subseteq Seconds

Init ==
  /\ BaseInit
  /\ connected = {}

BeginCall(s) ==
  /\ WriteRecord(s, {}) \/ CloseSink(s)
  /\ UNCHANGED connected

\* take_links_client, take_profiles_client: the connect is bounded in time.
Connect(k) ==
  /\ pc = k
  /\ buffer[k] # <<>>
  /\ k \notin connected
  /\ \/ connected' = connected \cup {k} /\ UNCHANGED <<pc, errs>>
     \/ StreamEnds(k, TRUE) /\ UNCHANGED connected
  /\ UNCHANGED <<scanVars, holder, op, attempt, before, sinkVars, brokerVars>>

\* The client the batch of stream k goes to is there.
CanProduce(k) ==
  /\ pc = k
  /\ buffer[k] # <<>>
  /\ k \in connected \cup {"device"}

Produced(k) ==
  /\ CanProduce(k)
  /\ accepted' = accepted \cup Range(buffer[k])
  /\ SettleAll(k)
  /\ attempt' = 1
  /\ StreamEnds(k, FALSE)
  /\ UNCHANGED <<scanVars, holder, op, before, lastDelivered, dlqDelivered, log,
                 quarantined, connected>>

\* One attempt fails: again, then the dead-letter topic for devices.
ProduceFails(k) ==
  /\ CanProduce(k)
  /\ \/ Retry /\ UNCHANGED <<pc, errs>>
     \/ GiveUp /\ k = "device" /\ config.dlq /\ pc' = "dlq" /\ UNCHANGED errs
     \/ GiveUp /\ ~(k = "device" /\ config.dlq) /\ StreamEnds(k, TRUE)
  /\ UNCHANGED <<scanVars, holder, op, before, sinkVars, brokerVars, connected>>

\* Mutant: a refused dead-letter produce passes for a delivery.
QuarantineMutant ==
  /\ pc = "dlq"
  /\ \/ /\ quarantined' = quarantined \cup Range(buffer["device"])
        /\ dlqDelivered' = dlqDelivered + Len(buffer["device"])
        /\ SettleAll("device")
     \/ UNCHANGED <<quarantined, dlqDelivered, buffer, bytes>>
  /\ StreamEnds("device", FALSE)
  /\ UNCHANGED <<scanVars, holder, op, attempt, before, lastDelivered, log,
                 accepted, connected>>

\* The dead-letter topic takes the whole batch, or the batch stays.
Quarantine ==
  /\ pc = "dlq"
  /\ \/ /\ quarantined' = quarantined \cup Range(buffer["device"])
        /\ dlqDelivered' = dlqDelivered + Len(buffer["device"])
        /\ SettleAll("device")
        /\ StreamEnds("device", FALSE)
     \/ /\ StreamEnds("device", TRUE)
        /\ UNCHANGED <<quarantined, dlqDelivered, buffer, bytes>>
  /\ UNCHANGED <<scanVars, holder, op, attempt, before, lastDelivered, log,
                 accepted, connected>>

NothingToProduce(k) ==
  /\ pc = k
  /\ buffer[k] = <<>>
  /\ StreamEnds(k, FALSE)
  /\ UNCHANGED <<scanVars, holder, op, attempt, before, sinkVars, brokerVars,
                 connected>>

\* Mutant: the batch is taken out of the buffer while it is produced.
DropCallMutant(s) ==
  /\ holder = s
  /\ \/ pc = "dlq"
     \/ pc \in Kinds /\ buffer[pc] # <<>>
  /\ holder' = NoScan
  /\ pc' = "idle"
  /\ SettleAll(IF pc = "dlq" THEN "device" ELSE pc)
  /\ connected' = connected \ {pc}

\* The call of s is dropped at an await, with the client it had taken.
DropCall(s) ==
  /\ holder = s
  /\ \/ pc = "dlq"
     \/ pc \in Kinds /\ buffer[pc] # <<>>
  /\ holder' = NoScan
  /\ pc' = "idle"
  /\ UNCHANGED <<buffer, bytes>>
  /\ connected' = connected \ {pc}

\* The request timeout drops scan s, and the call it may be in.
Timeout(s) ==
  /\ DropRequest(s)
  /\ \/ holder # s /\ UNCHANGED <<holder, pc, buffer, bytes, connected>>
     \/ DropCall(s)
  /\ UNCHANGED accepted

SinkStep ==
  \/ \E k \in Seconds : Connect(k)
  \/ \E k \in Kinds : Produced(k) \/ ProduceFails(k) \/ NothingToProduce(k)
  \/ Quarantine
  \/ Return /\ UNCHANGED connected

AllEnded == (\A s \in Scans : status[s] \in Ended) /\ UNCHANGED vars

Next ==
  \/ \E s \in Scans : BeginCall(s) \/ Timeout(s)
  \/ SinkStep
  \/ AllEnded

(***************************************************************************)
(* Fairness: connects and produces return (the connect has a timeout, the  *)
(* retries a budget) and the mutex is handed to a waiting scan.            *)
(***************************************************************************)
Spec ==
  /\ Init
  /\ [][Next]_vars
  /\ WF_vars(SinkStep)
  /\ \A s \in Scans : WF_vars(BeginCall(s))

-----------------------------------------------------------------------------
(* Properties *)

Held == UNION {Range(buffer[k]) : k \in Kinds}

\* KeptOrTaken over the buffers of this sink, dropped calls included.
NothingDropped == KeptOrTaken(Held)

\* DeliveredIsHonest for the flag this sink reports.
DeliveredFlagHonest == DeliveredIsHonest(lastDelivered)

-----------------------------------------------------------------------------
(***************************************************************************)
(* Inductive strengthening of the safety properties.                       *)
(***************************************************************************)
\* A record that no destination has taken is in the buffer of its stream.
KeptInv ==
  \A r \in Records : r \in Taken \/ r \in Range(buffer[log[r].kind])

\* The streams a flush at pc has done with.
Passed ==
  CASE pc = "return" -> Kinds
    [] pc = "profile" -> {"device", "link"}
    [] pc = "link" -> {"device"}
    [] OTHER -> {}

FlushInv ==
  op = "flush" => \A k \in Passed : buffer[k] = <<>> \/ k \in errs

\* A write that publishes is at the stream of the last record.
PublishInv ==
  op = "publish" /\ pc # "idle" =>
    /\ log # <<>>
    /\ pc \in Kinds => pc = log[Len(log)].kind
    /\ pc = "dlq" => log[Len(log)].kind = "device"
    /\ pc = "return" => \/ buffer[log[Len(log)].kind] = <<>>
                        \/ log[Len(log)].kind \in errs

\* The flag is honest in the middle of a call too.
FlagInv == lastDelivered /\ log # <<>> => Len(log) \in Taken

CallInv ==
  /\ op # "batch"
  /\ pc # "idle" => before <= dlqDelivered

IndInv ==
  /\ TypeOK
  /\ KeptInv
  /\ FlushInv
  /\ PublishInv
  /\ FlagInv
  /\ CallInv
  /\ OkMeansTaken

=============================================================================
