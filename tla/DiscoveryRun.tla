---------------------------- MODULE DiscoveryRun ----------------------------
(***************************************************************************)
(* A discovery scan from process start to process end, and the processes   *)
(* that take it up again: run_discovery and stream_discovery               *)
(* (rastreo-core/src/pipeline.rs), the checkpoint file                     *)
(* (rastreo-core/src/checkpoint/mod.rs, atomic_file.rs) and the contract   *)
(* of the Sink trait (rastreo-core/src/sink/mod.rs), composed with         *)
(* run_scan (ScanScheduler).                                               *)
(*                                                                         *)
(* The consumer loop and run_scan share one task: run_scan is polled only  *)
(* at the select!, so its steps happen only while the consumer is there.   *)
(* Targets are numbered by their place in the whole plan (global); the     *)
(* scheduler and the reorder buffer number them from the run's first       *)
(* target (local), base + local = global.                                  *)
(*                                                                         *)
(* A target yields one record, or none when it is Silent (no prober        *)
(* reaches it and the fuser leaves it out).  A scenario of kind "holding"  *)
(* (identity fuser, or a prober that feeds links or collection profiles)   *)
(* keeps what it learns of a target until the scan ends; one of kind       *)
(* "volatile" writes to a sink that does not outlive the process.          *)
(*                                                                         *)
(* A sink holds records it was handed in a buffer; a write or a failed     *)
(* flush may settle any of them at the destination, a successful flush or  *)
(* close settles all.  A record in a dead-letter queue counts as settled.  *)
(* The failures are those the code handles, plus the death of the process  *)
(* between any two steps; MaxFaults bounds their number.                   *)
(***************************************************************************)
EXTENDS ScanScheduler

CONSTANTS
  Interval,    \* --checkpoint-interval
  Silent,      \* targets the fuser makes no record of
  MaxFaults    \* bound on cancels, failures and crashes together

ASSUME IntervalAssumption == Interval \in Nat
ASSUME SilentAssumption == Silent \subseteq Targets
ASSUME MaxFaultsAssumption == MaxFaults \in Nat

VARIABLES
  scenario,       \* [kind, checkpointing]: what the operator asks for
  cpc,            \* where the process is, see Phases
  base,           \* resume_base
  nextExpected,   \* next_expected (local)
  reorder,        \* targets in the reorder buffer (local)
  held,           \* targets a holding scenario has yet to write (global)
  emitErr,        \* emit_err is set
  halted,         \* halted_err is set
  closeErr,       \* close_err is set
  cancelled,      \* acc.cancelled
  lastCheckpoint, \* CheckpointWriter.last_checkpoint_at (local)
  buffered,       \* targets whose record is in the sink's buffer (global)
  durable,        \* targets whose record is at the destination (global)
  ckpt,           \* highest_flushed_index of the checkpoint file, or NoFile
  stopped,        \* history: how the processes so far ended
  faults          \* faults so far

runVars == <<base, nextExpected, reorder, held, emitErr, halted, closeErr,
             cancelled, lastCheckpoint>>
vars == <<schedVars, runVars, scenario, cpc, buffered, durable, ckpt, stopped,
          faults>>

NoFile == -1
Kinds == {"resumable", "holding", "volatile"}
Working == {"select", "drain", "flush", "persist", "tail", "close",
            "finalize"}
Phases == Working \cup {"idle", "complete", "refused"}

TypeOK ==
  /\ SchedTypeOK
  /\ scenario \in [kind : Kinds, checkpointing : BOOLEAN]
  /\ cpc \in Phases
  /\ base \in 0 .. NumTargets
  /\ nextExpected \in 0 .. NumTargets
  /\ reorder \subseteq Targets
  /\ held \subseteq Targets
  /\ emitErr \in BOOLEAN
  /\ halted \in BOOLEAN
  /\ closeErr \in BOOLEAN
  /\ cancelled \in BOOLEAN
  /\ lastCheckpoint \in 0 .. NumTargets
  /\ buffered \subseteq Targets
  /\ durable \subseteq Targets
  /\ ckpt \in Targets \cup {NoFile}
  /\ stopped \in {"never", "cancelled", "abruptly"}
  /\ faults \in 0 .. MaxFaults

-----------------------------------------------------------------------------
(* Process start *)

\* Values of a run's own state before its first step.
RunReset(b) ==
  /\ base' = b
  /\ nextExpected' = 0
  /\ reorder' = {}
  /\ held' = {}
  /\ emitErr' = FALSE
  /\ halted' = FALSE
  /\ closeErr' = FALSE
  /\ cancelled' = FALSE
  /\ lastCheckpoint' = 0
  /\ buffered' = {}

\* run_scan's state before its first poll, over len targets.
SchedReset(len) ==
  /\ streamLen' = len
  /\ cancel' = FALSE
  /\ spc' = "prime"
  /\ primed' = 0
  /\ feed' = [pulled |-> 0, pass |-> NumProbers]
  /\ inflight' = {}
  /\ live' = {}
  /\ targetMap' = {}
  /\ sending' = NoTarget
  /\ chan' = <<>>
  /\ received' = {}
  /\ rxOpen' = TRUE

Init ==
  /\ SchedInit(NumTargets)
  /\ scenario \in [kind : Kinds, checkpointing : BOOLEAN]
  /\ cpc = "idle"
  /\ base = 0
  /\ nextExpected = 0
  /\ reorder = {}
  /\ held = {}
  /\ emitErr = FALSE
  /\ halted = FALSE
  /\ closeErr = FALSE
  /\ cancelled = FALSE
  /\ lastCheckpoint = 0
  /\ buffered = {}
  /\ durable = {}
  /\ ckpt = NoFile
  /\ stopped = "never"
  /\ faults = 0

\* Mutant: an identity fuser does not block a checkpoint request.
ResumeEligibilityMutant == scenario.kind # "volatile"

\* resume_eligibility: fuser, probers and sink must all allow a resume.
ResumeEligibility == scenario.kind = "resumable"

\* run_discovery_core: where the run's target stream starts.  A resume skips
\* ckpt targets and so probes target ckpt again.
ResumeBase == IF scenario.checkpointing /\ ckpt # NoFile THEN ckpt ELSE 0

\* Number of targets the stream yields after skip(resume_base).
StreamLength == NumTargets - ResumeBase

(***************************************************************************)
(* run_discovery up to the first poll of the scan.  With a checkpoint file *)
(* in place the operator must resume (checkpoint_preflight refuses), and   *)
(* without one a resume is refused, so the file decides.                   *)
(***************************************************************************)
Start ==
  /\ cpc = "idle"
  /\ scenario.checkpointing => ResumeEligibility
  /\ cpc' = "select"
  /\ RunReset(ResumeBase)
  /\ SchedReset(StreamLength)
  /\ UNCHANGED <<scenario, durable, ckpt, stopped, faults>>

\* preflight_checkpoint_request refuses the scenario before anything is opened.
Refuse ==
  /\ cpc = "idle"
  /\ scenario.checkpointing
  /\ ~ResumeEligibility
  /\ cpc' = "refused"
  /\ UNCHANGED <<schedVars, runVars, scenario, buffered, durable, ckpt, stopped,
                 faults>>

-----------------------------------------------------------------------------
(* The sink *)

Fault == faults < MaxFaults /\ faults' = faults + 1

\* Some of the records the sink was handed settle at the destination.
Settle(handed) ==
  \E done \in SUBSET handed :
    /\ durable' = durable \cup done
    /\ buffered' = handed \ done

\* Sink::write_kind for the records S, the last of which may fail.
SinkWrite(S) ==
  \/ Settle(buffered \cup S) /\ UNCHANGED <<emitErr, faults>>
  \/ /\ Fault
     /\ emitErr' = TRUE
     /\ \E kept \in SUBSET S : Settle(buffered \cup kept)

\* Sink::flush or Sink::close succeeded.
SinkFlushed ==
  /\ durable' = durable \cup buffered
  /\ buffered' = {}

-----------------------------------------------------------------------------
(* stream_discovery: the select! loop *)

\* After a target is done: drain the next one if it is there, else poll.
AfterDrain(next, waiting) == IF next \in waiting THEN "drain" ELSE "select"

\* Mutants: the cancel is not latched, or the end of any scan looks like one.
LatchedCancelNever == FALSE
LatchedCancelAlways == TRUE

\* What the scan branch stores in acc.cancelled when run_scan returns.
LatchedCancel == cancel

\* The scan branch: run_scan makes progress.
PollScan ==
  /\ cpc = "select"
  /\ RunScanStep
  /\ cancelled' = IF spc' = "done" THEN LatchedCancel ELSE cancelled
  /\ UNCHANGED <<base, nextExpected, reorder, held, emitErr, halted, closeErr,
                 lastCheckpoint, scenario, cpc, buffered, durable, ckpt,
                 stopped, faults>>

\* The recv branch up to its drain loop.
RecvScan(t) ==
  /\ cpc = "select"
  /\ Receive(t)
  /\ reorder' = reorder \cup {t}
  /\ cpc' = AfterDrain(nextExpected, reorder')
  /\ UNCHANGED <<base, nextExpected, held, emitErr, halted, closeErr, cancelled,
                 lastCheckpoint, scenario, buffered, durable, ckpt, stopped,
                 faults>>

\* emit_target_records for target t when fusing and classifying succeed.
EmitTargetRecords(t) ==
  \/ /\ t \in Silent
     /\ UNCHANGED <<held, emitErr, buffered, durable, faults>>
  \/ /\ t \notin Silent
     /\ scenario.kind = "holding"
     /\ held' = held \cup {t}
     /\ UNCHANGED <<emitErr, buffered, durable, faults>>
  \/ /\ t \notin Silent
     /\ scenario.kind # "holding"
     /\ SinkWrite({t})
     /\ UNCHANGED held

\* CheckpointWriter::due, with the interval clamped by CheckpointWriter::new.
Due(next) ==
  next - lastCheckpoint >= IF Interval = 0 THEN 1 ELSE Interval

\* Mutant: checkpointing goes on after an emit error.
CheckpointDueMutant(next) == scenario.checkpointing /\ Due(next)

\* The loop calls maybe_checkpoint and it is due.
CheckpointDue(next) == ~emitErr' /\ scenario.checkpointing /\ Due(next)

\* One turn of the drain loop: the next target in input order is emitted,
\* unless an earlier error stopped emission.
DrainTarget ==
  /\ cpc = "drain"
  /\ nextExpected \in reorder
  /\ reorder' = reorder \ {nextExpected}
  /\ \/ ~emitErr /\ EmitTargetRecords(base + nextExpected)
     \/ emitErr /\ UNCHANGED <<held, emitErr, buffered, durable, faults>>
  /\ nextExpected' = nextExpected + 1
  /\ cpc' = IF CheckpointDue(nextExpected')
            THEN "flush" ELSE AfterDrain(nextExpected', reorder')
  /\ UNCHANGED <<schedVars, base, halted, closeErr, cancelled, lastCheckpoint,
                 scenario, ckpt, stopped>>

\* A fuser or classifier error leaves the loop for the close.
HaltInDrain ==
  /\ cpc = "drain"
  /\ ~emitErr
  /\ Fault
  /\ reorder' = reorder \ {nextExpected}
  /\ halted' = TRUE
  /\ cpc' = "close"
  /\ UNCHANGED <<schedVars, base, nextExpected, held, emitErr, closeErr,
                 cancelled, lastCheckpoint, scenario, buffered, durable, ckpt,
                 stopped>>

-----------------------------------------------------------------------------
(* CheckpointWriter *)

\* Mutant: a resumed run forgets the targets before its first one.
RecordIndexMutant(next) == next - 1

\* record_index
RecordIndex(next) == base + next - 1

\* maybe_checkpoint flushes the sink first.
FlushForCheckpoint ==
  /\ cpc = "flush"
  /\ \/ /\ SinkFlushed
        /\ cpc' = "persist"
        /\ UNCHANGED <<emitErr, faults>>
     \/ /\ Fault
        /\ Settle(buffered)
        /\ emitErr' = TRUE
        /\ cpc' = AfterDrain(nextExpected, reorder)
  /\ UNCHANGED <<schedVars, base, nextExpected, reorder, held, halted, closeErr,
                 cancelled, lastCheckpoint, scenario, ckpt, stopped>>

(***************************************************************************)
(* ... and then persists the index.  write_atomically fills a temporary    *)
(* file and renames it; only the rename changes what a later run finds, so *)
(* a process that dies in between leaves the old file.                     *)
(***************************************************************************)
PersistCheckpoint ==
  /\ cpc = "persist"
  /\ \/ /\ ckpt' = RecordIndex(nextExpected)
        /\ lastCheckpoint' = nextExpected
        /\ UNCHANGED <<emitErr, faults>>
     \/ /\ Fault
        /\ emitErr' = TRUE
        /\ UNCHANGED <<ckpt, lastCheckpoint>>
  /\ cpc' = AfterDrain(nextExpected, reorder)
  /\ UNCHANGED <<schedVars, base, nextExpected, reorder, held, halted, closeErr,
                 cancelled, scenario, buffered, durable, stopped>>

-----------------------------------------------------------------------------
(* stream_discovery: after the loop *)

\* recv yields None: run_scan has dropped its sender and the channel is empty.
LoopEnds ==
  /\ cpc = "select"
  /\ spc = "done"
  /\ chan = <<>>
  /\ cpc' = "tail"
  /\ UNCHANGED <<schedVars, runVars, scenario, buffered, durable, ckpt, stopped,
                 faults>>

\* fuser.finish, then the links and the profiles, stopped by an emit error.
EmitTail ==
  /\ cpc = "tail"
  /\ \/ /\ ~emitErr /\ held # {}
        /\ SinkWrite(held)
        /\ held' = {}
     \/ /\ emitErr \/ held = {}
        /\ UNCHANGED <<held, emitErr, buffered, durable, faults>>
  /\ cpc' = "close"
  /\ UNCHANGED <<schedVars, base, nextExpected, reorder, halted, closeErr,
                 cancelled, lastCheckpoint, scenario, ckpt, stopped>>

\* fuser.finish or a classifier fails.
HaltInTail ==
  /\ cpc = "tail"
  /\ Fault
  /\ halted' = TRUE
  /\ cpc' = "close"
  /\ UNCHANGED <<schedVars, base, nextExpected, reorder, held, emitErr, closeErr,
                 cancelled, lastCheckpoint, scenario, buffered, durable, ckpt,
                 stopped>>

\* drop(scan) aborts what is still in flight; the sink is closed in any case.
CloseSink ==
  /\ cpc = "close"
  /\ spc' = "done"
  /\ inflight' = {}
  /\ \/ /\ SinkFlushed
        /\ UNCHANGED <<closeErr, faults>>
     \/ /\ Fault
        /\ Settle(buffered)
        /\ closeErr' = TRUE
  /\ cpc' = "finalize"
  /\ UNCHANGED <<streamLen, cancel, primed, feed, live, targetMap, sending, chan,
                 received, rxOpen, base, nextExpected, reorder, held, emitErr,
                 halted, cancelled, lastCheckpoint, scenario, ckpt, stopped>>

\* The process ends without having finished the scan.
Exit(how) ==
  /\ cpc' = "idle"
  /\ stopped' = IF stopped = "abruptly" THEN stopped ELSE how
  /\ RunReset(0)
  /\ SchedReset(NumTargets)
  /\ durable' = IF scenario.kind = "volatile" THEN {} ELSE durable
  /\ UNCHANGED scenario

CleanDrain == ~halted /\ ~emitErr /\ ~closeErr

\* Some error was latched: the last good checkpoint stays as it is.
ReturnError ==
  /\ cpc = "finalize"
  /\ ~CleanDrain
  /\ Exit("abruptly")
  /\ UNCHANGED <<ckpt, faults>>

\* Mutant: a cancelled scan leaves the last checkpoint of the cadence.
FinalizeCancelledMutant ==
  /\ cpc = "finalize"
  /\ CleanDrain
  /\ cancelled
  /\ Exit("cancelled")
  /\ UNCHANGED <<ckpt, faults>>

\* finalize_checkpoint of a cancelled scan.
FinalizeCancelled ==
  /\ cpc = "finalize"
  /\ CleanDrain
  /\ cancelled
  /\ \/ /\ ckpt' = IF scenario.checkpointing /\ nextExpected > 0
                   THEN RecordIndex(nextExpected) ELSE ckpt
        /\ Exit("cancelled")
        /\ UNCHANGED faults
     \/ /\ scenario.checkpointing
        /\ nextExpected > 0
        /\ Fault
        /\ Exit("abruptly")
        /\ UNCHANGED ckpt

\* finalize_checkpoint of a finished scan: the file is deleted.
FinalizeFinished ==
  /\ cpc = "finalize"
  /\ CleanDrain
  /\ ~cancelled
  /\ \/ /\ cpc' = "complete"
        /\ ckpt' = IF scenario.checkpointing THEN NoFile ELSE ckpt
        /\ UNCHANGED <<schedVars, runVars, scenario, buffered, durable, stopped,
                       faults>>
     \/ /\ scenario.checkpointing
        /\ Fault
        /\ Exit("abruptly")
        /\ UNCHANGED ckpt

-----------------------------------------------------------------------------
(* The environment and the specification *)

\* A signal asks the running scan to stop.
CancelRun ==
  /\ cpc \in Working
  /\ Fault
  /\ RequestCancel
  /\ UNCHANGED <<runVars, scenario, cpc, buffered, durable, ckpt, stopped>>

\* The process dies; the destination and the checkpoint file remain.
Crash ==
  /\ cpc \in Working
  /\ Fault
  /\ Exit("abruptly")
  /\ UNCHANGED ckpt

Terminated ==
  /\ cpc \in {"complete", "refused"}
  /\ UNCHANGED vars

Consume ==
  \/ \E t \in Targets : RecvScan(t)
  \/ DrainTarget
  \/ HaltInDrain
  \/ FlushForCheckpoint
  \/ PersistCheckpoint
  \/ LoopEnds
  \/ EmitTail
  \/ HaltInTail
  \/ CloseSink
  \/ ReturnError
  \/ FinalizeCancelled
  \/ FinalizeFinished

Next ==
  \/ Start
  \/ Refuse
  \/ PollScan
  \/ Consume
  \/ CancelRun
  \/ Crash
  \/ Terminated

(***************************************************************************)
(* Fairness: the runtime polls the task, so run_scan and the consumer make *)
(* progress whenever they can (each probe runs under a timeout, each sink  *)
(* call returns); the operator starts an interrupted scan again.           *)
(***************************************************************************)
Spec ==
  /\ Init
  /\ [][Next]_vars
  /\ WF_vars(PollScan)
  /\ WF_vars(Consume)
  /\ WF_vars(Start \/ Refuse)

-----------------------------------------------------------------------------
(* Properties *)

\* Nothing is owed for target t: its record is at the destination, or it has
\* none.
Covered(t) == t \in durable \cup Silent

(***************************************************************************)
(* "The checkpoint never claims more progress than the sink actually       *)
(* holds" (docs/site/docs/discover/cli.md): every target up to the index   *)
(* in the checkpoint file is covered, whatever failed or crashed, so the   *)
(* prefix a resume skips is safe.                                          *)
(***************************************************************************)
CheckpointNeverAhead ==
  ckpt # NoFile => \A t \in 0 .. ckpt : Covered(t)

(***************************************************************************)
(* A scan that ends without error and without a cancel has delivered every *)
(* target of the plan, over all the processes it took, and leaves no       *)
(* checkpoint behind.                                                      *)
(***************************************************************************)
CompleteMeansDelivered ==
  cpc = "complete" => ckpt = NoFile /\ \A t \in Targets : Covered(t)

(***************************************************************************)
(* When the channel closes nothing is left in the reorder buffer: the      *)
(* drain of stragglers after the loop never finds one, cancelled or not.   *)
(***************************************************************************)
NoStragglers == cpc = "tail" => reorder = {}

(***************************************************************************)
(* Emission follows the input order without gaps: before any emit error    *)
(* each target below next_expected has been handed to the sink (or is held *)
(* by the fuser), and no other target of this run has.                     *)
(***************************************************************************)
EmittedPrefix ==
  cpc \in Working /\ ~emitErr =>
    /\ \A t \in base .. base + nextExpected - 1 :
         t \in durable \cup buffered \cup held \cup Silent
    /\ \A t \in buffered \cup held : t < base + nextExpected

(***************************************************************************)
(* A checkpoint file is replaced only by one that is at least as far, and  *)
(* removed only when the scan is complete.                                 *)
(***************************************************************************)
CheckpointMonotone ==
  [][ckpt' # ckpt => ckpt' > ckpt \/ cpc' = "complete"]_vars

(***************************************************************************)
(* When every interruption so far was a clean cancel, the checkpoint       *)
(* covers all that reached the sink, so a resume scans again only the      *)
(* boundary target.                                                        *)
(***************************************************************************)
CancelLeavesBoundary ==
  cpc = "idle" /\ stopped = "cancelled" /\ scenario.checkpointing =>
    \A t \in durable : t <= ckpt

(***************************************************************************)
(* The whole of it implements the promise of a resumable scan: targets are *)
(* delivered in any order and any number of times, the mark moves forward  *)
(* over delivered targets only, nothing marked is lost, and the scan is    *)
(* finished only when all of it is delivered.                              *)
(***************************************************************************)
Promise == INSTANCE ResumableScan WITH
  covered <- durable \cup Silent, mark <- ckpt, finished <- (cpc = "complete")
DeliversAsPromised == Promise!Spec

(***************************************************************************)
(* Every run ends, whatever the channel, the reorder buffer, the cancel    *)
(* and the errors do; and with finitely many faults the scan completes.    *)
(***************************************************************************)
ScanCompletes == <>(cpc \in {"complete", "refused"})

(***************************************************************************)
(* docs/site/docs/discover/cli.md on resuming: "exactly one target - the   *)
(* boundary - may be scanned in both runs", for any interruption.          *)
(***************************************************************************)
ResumeRescansOnlyBoundary ==
  cpc = "idle" /\ ckpt # NoFile => \A t \in durable : t <= ckpt

(***************************************************************************)
(* The doc comment of stream_discovery: backpressure keeps the pipeline    *)
(* from ever holding the whole scan; the test of the reorder buffer bounds *)
(* it by three times the cap.                                              *)
(***************************************************************************)
ReorderWithinWindow == Cardinality(reorder) <= 3 * Cap

-----------------------------------------------------------------------------
(***************************************************************************)
(* Inductive strengthening of CheckpointNeverAhead and                     *)
(* CompleteMeansDelivered.                                                 *)
(***************************************************************************)
\* run_scan's own invariant, until drop(scan) aborts it.
ScanInv == cpc \notin {"finalize", "complete"} => SchedInv

\* The run's stream is what the plan has left, and nobody closed the channel.
StreamInv ==
  /\ streamLen = NumTargets - base
  /\ rxOpen
  /\ \A t \in received : t < streamLen
  /\ cpc = "idle" => base = 0

\* The phases before halted_err can be set.
Looping == {"select", "drain", "flush", "persist", "tail"}

\* What was received is the drained prefix and the reorder buffer, unless a
\* target was dropped by halting.
ReorderInv ==
  cpc \in Looping \/ (cpc \in {"close", "finalize"} /\ ~halted) =>
    /\ received = 0 .. nextExpected - 1 \cup reorder
    /\ \A t \in reorder : t >= nextExpected
    /\ cpc = "select" => nextExpected \notin reorder
    /\ cpc = "drain" => nextExpected \in reorder
    /\ cpc \in {"flush", "persist"} => nextExpected > 0

\* run_scan has reported a prefix when it is done, all of it if not cancelled.
DoneInv ==
  spc = "done" /\ cpc \in Looping =>
    /\ \A t \in 0 .. feed.pulled - 2 : t \in Sent
    /\ ~cancelled => \A t \in 0 .. streamLen - 1 : t \in Sent

\* After the loop the whole stream was drained, unless cancelled or halted.
AfterLoopInv ==
  /\ cpc \in Looping => ~halted
  /\ cpc = "tail" => reorder = {}
  /\ cpc \in {"tail", "close", "finalize"} /\ ~halted /\ ~cancelled
       => nextExpected = streamLen

\* Only an eligible scenario runs with a checkpoint, or leaves one.
EligibleInv ==
  /\ cpc \in Working /\ scenario.checkpointing => scenario.kind = "resumable"
  /\ ckpt # NoFile => scenario = [kind |-> "resumable", checkpointing |-> TRUE]
  /\ held # {} => scenario.kind = "holding"

\* Where the records of the targets done so far are.
EmissionInv ==
  /\ \A t \in 0 .. base - 1 : Covered(t)
  /\ EmittedPrefix
  /\ cpc \in {"flush", "persist"} => ~emitErr /\ scenario.checkpointing
  /\ cpc = "persist" => buffered = {}
  /\ cpc \in {"close", "finalize"} /\ ~emitErr /\ ~halted => held = {}
  /\ cpc = "finalize" /\ ~closeErr => buffered = {}

\* The checkpoint is never ahead of the records, nor of the run that owns it.
CheckpointInv ==
  /\ CheckpointNeverAhead
  /\ cpc \in Working /\ ckpt # NoFile =>
       ckpt <= base \/ ckpt <= base + nextExpected - 1

IndInv ==
  /\ TypeOK
  /\ ScanInv
  /\ StreamInv
  /\ ReorderInv
  /\ DoneInv
  /\ AfterLoopInv
  /\ EligibleInv
  /\ EmissionInv
  /\ CheckpointInv
  /\ CompleteMeansDelivered

=============================================================================
