------------------------------ MODULE NatsSink ------------------------------
(***************************************************************************)
(* NatsSink (rastreo-core/src/sink/nats.rs) shared by concurrent scans.    *)
(*                                                                         *)
(* The device stream is pipelined: a record leaves the buffer when its     *)
(* publish is accepted for routing, and its ack is awaited later, in       *)
(* drain_pending_acks.  An ack that fails sends the record to the          *)
(* dead-letter stream, or back to the front of the buffer.  Links and      *)
(* profiles await each ack before the next record.                         *)
(*                                                                         *)
(* An ack that is not yet awaited holds a permit of the client, and a      *)
(* publish waits while all AckPermits are taken.                           *)
(***************************************************************************)
EXTENDS BrokerSink

CONSTANTS
  MaxPendingAcks,  \* MAX_PENDING_ACKS
  AckPermits       \* ACK_PERMIT_CAPACITY

ASSUME PermitAssumption ==
  /\ MaxPendingAcks \in Nat \ {0}
  /\ AckPermits \in Nat
  /\ AckPermits >= MaxPendingAcks

VARIABLES
  pendingAcks,  \* pending_acks: published records whose ack is not awaited
  draining,     \* what drain_pending_acks has taken and not yet awaited
  unacked,      \* what it will put back
  midWalk,      \* it was called from the loop of publish_buffer
  abandoned     \* permits of acks a dropped call left with the client

natsVars == <<pendingAcks, draining, unacked, midWalk, abandoned>>
vars == <<baseVars, natsVars>>

PCs == {"take", "drain", "dlqPublish", "dlqAck", "linkAck", "profileAck"}

TypeOK ==
  /\ BaseTypeOK(PCs)
  /\ pendingAcks \in Seq(Records)
  /\ draining \in Seq(Records)
  /\ unacked \in Seq(Records)
  /\ midWalk \in BOOLEAN
  /\ abandoned \in Nat

Init ==
  /\ BaseInit
  /\ pendingAcks = <<>>
  /\ draining = <<>>
  /\ unacked = <<>>
  /\ midWalk = FALSE
  /\ abandoned = 0

-----------------------------------------------------------------------------
(* Calls *)

\* A batched device write leaves its acks pending.
Pipelined == IF BufferThreshold = 1 THEN {} ELSE {"device"}

\* Mutant: acks are only drained by flush.
ShouldDrainMutant(pending) == FALSE

\* should_drain_pending_acks
ShouldDrain(pending) == pending >= MaxPendingAcks

BeginCall(s) ==
  /\ WriteRecord(s, Pipelined) \/ CloseSink(s)
  /\ UNCHANGED natsVars

\* A permit of the client is free.
PermitFree == Len(pendingAcks) + Len(draining) + abandoned < AckPermits

-----------------------------------------------------------------------------
(* publish_buffer *)

\* publish_buffer returns; publish_and_drain then drains in any case.
WalkEnds(failed) ==
  /\ errs' = IF failed THEN errs \cup {"device"} ELSE errs
  /\ midWalk' = FALSE
  /\ pc' = IF op = "batch" THEN "return" ELSE "take"

\* The publish of the front record is accepted; its ack stays pending.
PublishAccepted ==
  /\ pc = "device"
  /\ buffer["device"] # <<>>
  /\ PermitFree
  /\ SettleFront("device")
  /\ pendingAcks' = Append(pendingAcks, Head(buffer["device"]))
  /\ attempt' = 1
  /\ midWalk' = ShouldDrain(Len(pendingAcks'))
  /\ pc' = IF midWalk' THEN "take" ELSE "device"
  /\ UNCHANGED <<scanVars, holder, op, errs, before, lastDelivered,
                 dlqDelivered, brokerVars, draining, unacked, abandoned>>

\* It fails: once more, or quarantine, or the walk ends with the error.
PublishFails ==
  /\ pc = "device"
  /\ buffer["device"] # <<>>
  /\ PermitFree
  /\ \/ Retry /\ UNCHANGED <<pc, errs, midWalk>>
     \/ GiveUp /\ config.dlq /\ pc' = "dlqPublish" /\ UNCHANGED <<errs, midWalk>>
     \/ GiveUp /\ ~config.dlq /\ WalkEnds(TRUE)
  /\ UNCHANGED <<scanVars, holder, op, before, sinkVars, brokerVars,
                 pendingAcks, draining, unacked, abandoned>>

\* The buffer is empty.
WalkDone ==
  /\ pc = "device"
  /\ buffer["device"] = <<>>
  /\ WalkEnds(FALSE)
  /\ UNCHANGED <<scanVars, holder, op, attempt, before, sinkVars, brokerVars,
                 pendingAcks, draining, unacked, abandoned>>

\* quarantine after a failed publish; the DLQ publish is not retried.
QuarantineFront ==
  /\ pc = "dlqPublish"
  /\ PermitFree
  /\ \/ /\ quarantined' = quarantined \cup {Head(buffer["device"])}
        /\ dlqDelivered' = dlqDelivered + 1
        /\ SettleFront("device")
        /\ pc' = "device"
        /\ UNCHANGED <<errs, midWalk>>
     \/ /\ WalkEnds(TRUE)
        /\ UNCHANGED <<quarantined, dlqDelivered, buffer, bytes>>
  /\ UNCHANGED <<scanVars, holder, op, attempt, before, lastDelivered, log,
                 accepted, pendingAcks, draining, unacked, abandoned>>

-----------------------------------------------------------------------------
(* drain_pending_acks *)

\* mem::take
TakeAcks ==
  /\ pc = "take"
  /\ draining' = pendingAcks
  /\ pendingAcks' = <<>>
  /\ pc' = "drain"
  /\ UNCHANGED <<scanVars, holder, op, attempt, errs, before, sinkVars,
                 brokerVars, unacked, midWalk, abandoned>>

\* The head is not recovered and will go back.
KeepUnacked ==
  /\ unacked' = Append(unacked, Head(draining))
  /\ errs' = errs \cup {"device"}

AckArrives ==
  /\ pc = "drain"
  /\ draining # <<>>
  /\ accepted' = accepted \cup {Head(draining)}
  /\ draining' = Tail(draining)
  /\ UNCHANGED <<scanVars, callVars, sinkVars, log, quarantined, pendingAcks,
                 unacked, midWalk, abandoned>>

\* Mutant: a rejected ack is ignored.
AckFailsMutant ==
  /\ pc = "drain"
  /\ draining # <<>>
  /\ draining' = Tail(draining)
  /\ UNCHANGED <<scanVars, callVars, sinkVars, brokerVars, pendingAcks, unacked,
                 midWalk, abandoned>>

AckFails ==
  /\ pc = "drain"
  /\ draining # <<>>
  /\ \/ config.dlq /\ pc' = "dlqAck" /\ UNCHANGED <<draining, unacked, errs>>
     \/ /\ ~config.dlq
        /\ KeepUnacked
        /\ draining' = Tail(draining)
        /\ UNCHANGED pc
  /\ UNCHANGED <<scanVars, holder, op, attempt, before, sinkVars, brokerVars,
                 pendingAcks, midWalk, abandoned>>

\* quarantine after a failed ack, whose own permit is free again.
QuarantineUnacked ==
  /\ pc = "dlqAck"
  /\ Len(draining) - 1 + abandoned < AckPermits
  /\ \/ /\ quarantined' = quarantined \cup {Head(draining)}
        /\ dlqDelivered' = dlqDelivered + 1
        /\ UNCHANGED <<unacked, errs>>
     \/ KeepUnacked /\ UNCHANGED <<quarantined, dlqDelivered>>
  /\ draining' = Tail(draining)
  /\ pc' = "drain"
  /\ UNCHANGED <<scanVars, holder, op, attempt, before, buffer, bytes,
                 lastDelivered, log, accepted, pendingAcks, midWalk, abandoned>>

\* The refused records go back; an error ends the walk that called.
DrainEnds ==
  /\ pc = "drain"
  /\ draining = <<>>
  /\ RestoreFront("device", unacked)
  /\ unacked' = <<>>
  /\ \/ midWalk /\ unacked = <<>> /\ pc' = "device" /\ UNCHANGED <<errs, midWalk>>
     \/ midWalk /\ unacked # <<>> /\ WalkEnds(TRUE)
     \/ ~midWalk /\ StreamEnds("device", FALSE) /\ UNCHANGED midWalk
  /\ UNCHANGED <<scanVars, holder, op, attempt, before, lastDelivered,
                 dlqDelivered, brokerVars, pendingAcks, draining, abandoned>>

-----------------------------------------------------------------------------
(* publish_stream_buffer: links and profiles *)

AckOf(k) == IF k = "link" THEN "linkAck" ELSE "profileAck"

StreamPublish(k) ==
  /\ pc = k
  /\ buffer[k] # <<>>
  /\ PermitFree
  /\ \/ pc' = AckOf(k) /\ attempt' = 1 /\ UNCHANGED errs
     \/ Retry /\ UNCHANGED <<pc, errs>>
     \/ GiveUp /\ StreamEnds(k, TRUE)
  /\ UNCHANGED <<scanVars, holder, op, before, sinkVars, brokerVars, natsVars>>

StreamAck(k) ==
  /\ pc = AckOf(k)
  /\ \/ /\ accepted' = accepted \cup {Head(buffer[k])}
        /\ SettleFront(k)
        /\ pc' = k
        /\ UNCHANGED errs
     \/ StreamEnds(k, TRUE) /\ UNCHANGED <<accepted, buffer, bytes>>
  /\ UNCHANGED <<scanVars, holder, op, attempt, before, lastDelivered,
                 dlqDelivered, log, quarantined, natsVars>>

StreamDone(k) ==
  /\ pc = k
  /\ buffer[k] = <<>>
  /\ StreamEnds(k, FALSE)
  /\ UNCHANGED <<scanVars, holder, op, attempt, before, sinkVars, brokerVars,
                 natsVars>>

-----------------------------------------------------------------------------
(* The environment and the specification *)

\* The call of the holder is waiting for the broker.
AtAwait ==
  \/ pc \in Kinds /\ buffer[pc] # <<>>
  \/ pc = "drain" /\ draining # <<>>
  \/ pc \in {"dlqPublish", "dlqAck", "linkAck", "profileAck"}

(***************************************************************************)
(* The request timeout drops a scan, and with it the call it is in: what   *)
(* drain_pending_acks had taken is gone.  The messages are still on their  *)
(* way, and some of them are stored.                                       *)
(***************************************************************************)
Timeout(s) ==
  /\ DropRequest(s)
  /\ \/ /\ holder # s
        /\ UNCHANGED <<holder, pc, accepted, natsVars>>
     \/ /\ holder = s
        /\ AtAwait
        /\ holder' = NoScan
        /\ pc' = "idle"
        /\ \E stored \in SUBSET Range(draining) : accepted' = accepted \cup stored
        /\ draining' = <<>>
        /\ unacked' = <<>>
        /\ midWalk' = FALSE
        /\ abandoned' = abandoned + Len(draining)
             + (IF pc \in {"linkAck", "profileAck", "dlqPublish"} THEN 1 ELSE 0)
        /\ UNCHANGED pendingAcks
  /\ UNCHANGED <<buffer, bytes>>

\* The client's acker resolves or times out an ack nobody awaits.
ReleasePermit ==
  /\ abandoned > 0
  /\ abandoned' = abandoned - 1
  /\ UNCHANGED <<baseVars, pendingAcks, draining, unacked, midWalk>>

SinkStep ==
  \/ PublishAccepted
  \/ PublishFails
  \/ WalkDone
  \/ QuarantineFront
  \/ TakeAcks
  \/ AckArrives
  \/ AckFails
  \/ QuarantineUnacked
  \/ DrainEnds
  \/ \E k \in {"link", "profile"} : StreamPublish(k) \/ StreamAck(k) \/ StreamDone(k)
  \/ Return /\ UNCHANGED natsVars

AllEnded == (\A s \in Scans : status[s] \in Ended) /\ UNCHANGED vars

Next ==
  \/ \E s \in Scans : BeginCall(s) \/ Timeout(s)
  \/ SinkStep
  \/ ReleasePermit
  \/ AllEnded

(***************************************************************************)
(* Fairness: each call into the client returns (retries are bounded, acks  *)
(* time out), the mutex is handed to a waiting scan, and acks nobody       *)
(* awaits are resolved by the client.                                      *)
(***************************************************************************)
Spec ==
  /\ Init
  /\ [][Next]_vars
  /\ WF_vars(SinkStep)
  /\ WF_vars(ReleasePermit)
  /\ \A s \in Scans : WF_vars(BeginCall(s))

-----------------------------------------------------------------------------
(* Properties *)

Held ==
  Range(pendingAcks) \cup Range(draining) \cup Range(unacked)
    \cup UNION {Range(buffer[k]) : k \in Kinds}

\* KeptOrTaken over the buffers and the pending acks of this sink, as long as
\* no call is dropped.
NothingDropped == timeouts = 0 => KeptOrTaken(Held)

\* OkMeansTaken as long as no call is dropped.
OkMeansTakenUndropped == timeouts = 0 => OkMeansTaken

(***************************************************************************)
(* restore_front puts refused records "ahead of anything written since":   *)
(* what the sink still has of a stream is always in the order it was       *)
(* written, wherever a publish or a drain stopped.                         *)
(***************************************************************************)
RetainedInOrder ==
  /\ LET seq == unacked \o draining \o pendingAcks \o buffer["device"]
     IN \A i, j \in 1 .. Len(seq) : i < j => seq[i] < seq[j]
  /\ \A k \in Kinds : \A i, j \in 1 .. Len(buffer[k]) :
       i < j => buffer[k][i] < buffer[k][j]

\* last_write_delivered of NatsSink.
ReportsDelivered == lastDelivered /\ pendingAcks = <<>>

\* DeliveredIsHonest for the flag this sink reports, as long as no call is
\* dropped.
DeliveredFlagHonest == timeouts = 0 => DeliveredIsHonest(ReportsDelivered)

(***************************************************************************)
(* The permits of the sink's own acks never use up the client's, so a      *)
(* publish waits only for acks that a dropped call abandoned; a flush      *)
(* leaves no ack pending.                                                  *)
(***************************************************************************)
PermitsSuffice ==
  /\ AtAwait /\ pc # "drain" =>
       Len(pendingAcks) + Len(draining) - (IF pc = "dlqAck" THEN 1 ELSE 0)
         < AckPermits
  /\ pc = "return" /\ op = "flush" => pendingAcks = <<>>
=============================================================================
