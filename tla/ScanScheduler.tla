--------------------------- MODULE ScanScheduler ---------------------------
(***************************************************************************)
(* BoundedScheduler::run_scan (rastreo-core/src/scheduler/mod.rs): the     *)
(* probe window of one scan and the bounded channel it reports on.         *)
(*                                                                         *)
(* A probe is a coordinate <<target_index, pass_index>>.  Feed hands out   *)
(* all the probers of one target before it pulls the next target; at most  *)
(* Cap probes are in flight; a target whose last probe was joined is sent  *)
(* on the channel, in completion order.  What a probe found is abstracted  *)
(* away: a success, a fault and a panicked task all fill their slot.       *)
(*                                                                         *)
(* The end of a probe task and its join are one step, Join: join_next      *)
(* returns finished tasks in any order, so the moment a task ends cannot   *)
(* be told from the moment it is joined.  The pacer only delays a start    *)
(* inside its task; it is part of how long a probe takes.                  *)
(***************************************************************************)
EXTENDS Integers, Sequences, FiniteSets

CONSTANTS
  NumTargets,     \* targets of the whole plan (ResolvedPlan::total_hosts)
  NumProbers,     \* probers of the scenario, in pass order
  MaxConcurrent   \* the scenario's max_concurrent

ASSUME NumTargetsAssumption == NumTargets \in Nat
\* DiscoverScenarioConfig::validate refuses a scenario without probers.
ASSUME NumProbersAssumption == NumProbers \in Nat \ {0}
ASSUME MaxConcurrentAssumption == MaxConcurrent \in Nat

VARIABLES
  streamLen,   \* number of targets the run's target iterator yields
  cancel,      \* value of the cancel watch channel
  spc,         \* where run_scan is: "prime", "join", "send" or "done"
  primed,      \* iterations of the prime loop done
  feed,        \* Feed: targets pulled so far, next pass of the last one
  inflight,    \* probes spawned and not joined (JoinSet and coord_by_id)
  live,        \* probes joined, their target not yet complete (live)
  targetMap,   \* targets pulled and not complete (target_map)
  sending,     \* target whose TargetScan waits for the channel, or NoTarget
  chan,        \* the mpsc channel of TargetScans
  received,    \* targets taken off the channel by the consumer
  rxOpen       \* the receiving half of the channel exists

schedVars == <<streamLen, cancel, spc, primed, feed, inflight, live, targetMap,
               sending, chan, received, rxOpen>>

Targets == 0 .. NumTargets - 1
Passes == 0 .. NumProbers - 1
Probes == Targets \X Passes
NoTarget == -1

\* BoundedScheduler::new: a cap of 0 is coerced to 1.
Cap == IF MaxConcurrent = 0 THEN 1 ELSE MaxConcurrent

SchedTypeOK ==
  /\ streamLen \in 0 .. NumTargets
  /\ cancel \in BOOLEAN
  /\ spc \in {"prime", "join", "send", "done"}
  /\ primed \in 0 .. Cap
  /\ feed \in [pulled : 0 .. NumTargets, pass : 0 .. NumProbers]
  /\ inflight \subseteq Probes
  /\ live \subseteq Probes
  /\ targetMap \subseteq Targets
  /\ sending \in Targets \cup {NoTarget}
  /\ chan \in Seq(Targets)
  /\ received \subseteq Targets
  /\ rxOpen \in BOOLEAN

-----------------------------------------------------------------------------
(* Feed *)

\* Feed::next has something to hand out.
FeedNonEmpty == feed.pass < NumProbers \/ feed.pulled < streamLen

\* The probe Feed::next hands out: the next pass of the current target, or
\* the first pass of a freshly pulled one.
FeedProbe ==
  IF feed.pass < NumProbers THEN <<feed.pulled - 1, feed.pass>>
                            ELSE <<feed.pulled, 0>>

\* Feed's own state after that hand-out.
FeedAdvance ==
  IF feed.pass < NumProbers THEN [feed EXCEPT !.pass = @ + 1]
                            ELSE [pulled |-> feed.pulled + 1, pass |-> 1]

-----------------------------------------------------------------------------
(* run_scan *)

SchedInit(len) ==
  /\ streamLen = len
  /\ cancel = FALSE
  /\ spc = "prime"
  /\ primed = 0
  /\ feed = [pulled |-> 0, pass |-> NumProbers]
  /\ inflight = {}
  /\ live = {}
  /\ targetMap = {}
  /\ sending = NoTarget
  /\ chan = <<>>
  /\ received = {}
  /\ rxOpen = TRUE

\* One iteration of the prime loop that spawns a probe.
PrimeSpawn ==
  /\ spc = "prime"
  /\ primed < Cap
  /\ ~cancel
  /\ FeedNonEmpty
  /\ primed' = primed + 1
  /\ feed' = FeedAdvance
  /\ inflight' = inflight \cup {FeedProbe}
  /\ targetMap' = targetMap \cup {FeedProbe[1]}
  /\ UNCHANGED <<streamLen, cancel, spc, live, sending, chan, received, rxOpen>>

\* The prime loop is over: the window is full, a cancel was seen or the feed
\* ran dry.
PrimeEnd ==
  /\ spc = "prime"
  /\ primed = Cap \/ cancel \/ ~FeedNonEmpty
  /\ spc' = "join"
  /\ UNCHANGED <<streamLen, cancel, primed, feed, inflight, live, targetMap,
                 sending, chan, received, rxOpen>>

\* Slots of target t that are filled once probe c has been recorded.
SlotsOf(t, joined) == {c \in joined : c[1] = t}

\* Mutant: a target counts as complete with its first outcome.
CompleteMutant(t, joined) == \E p \in Passes : <<t, p>> \in joined

\* entry.completed == num_probers
Complete(t, joined) == \A p \in Passes : <<t, p>> \in joined

\* target_map without a target that is complete.
TargetsLeft(t, joined) ==
  IF Complete(t, joined) THEN targetMap \ {t} ELSE targetMap

\* Mutant: the refill only finishes the current target.
RefillsMutant == ~cancel /\ feed.pass < NumProbers

\* The refill of the join loop starts a probe.
Refills == ~cancel /\ FeedNonEmpty

(***************************************************************************)
(* One turn of the join loop up to its only await, the send: record the    *)
(* joined probe, refill the window (unless a cancel is seen), and, when    *)
(* the target is complete, take its outcomes out of live for sending.      *)
(***************************************************************************)
Join(c) ==
  LET joined == live \cup {c}
      t      == c[1]
      ready  == Complete(t, joined)
  IN
  /\ spc = "join"
  /\ c \in inflight
  /\ \/ /\ Refills
        /\ feed' = FeedAdvance
        /\ inflight' = (inflight \ {c}) \cup {FeedProbe}
        /\ targetMap' = TargetsLeft(t, joined) \cup {FeedProbe[1]}
     \/ /\ ~Refills
        /\ feed' = feed
        /\ inflight' = inflight \ {c}
        /\ targetMap' = TargetsLeft(t, joined)
  /\ \/ /\ ready
        /\ live' = joined \ SlotsOf(t, joined)
        /\ sending' = t
        /\ spc' = "send"
     \/ /\ ~ready
        /\ live' = joined
        /\ UNCHANGED <<sending, spc>>
  /\ UNCHANGED <<streamLen, cancel, primed, chan, received, rxOpen>>

\* results.send: waits while the channel holds Cap scans.
Send ==
  /\ spc = "send"
  /\ rxOpen
  /\ Len(chan) < Cap
  /\ chan' = Append(chan, sending)
  /\ sending' = NoTarget
  /\ spc' = "join"
  /\ UNCHANGED <<streamLen, cancel, primed, feed, inflight, live, targetMap,
                 received, rxOpen>>

\* The receiver is gone: run_scan breaks out and its JoinSet aborts the rest.
SendFails ==
  /\ spc = "send"
  /\ ~rxOpen
  /\ spc' = "done"
  /\ inflight' = {}
  /\ sending' = NoTarget
  /\ UNCHANGED <<streamLen, cancel, primed, feed, live, targetMap, chan,
                 received, rxOpen>>

\* Mutant: a cancel returns at once instead of draining the probes in flight.
ScanReturnsOnCancel ==
  /\ spc = "join"
  /\ inflight = {} \/ cancel
  /\ spc' = "done"
  /\ UNCHANGED <<streamLen, cancel, primed, feed, inflight, live, targetMap,
                 sending, chan, received, rxOpen>>

\* Mutant: an empty window is primed again instead of ending the scan.
ScanReturnsToPrime ==
  /\ spc = "join"
  /\ inflight = {}
  /\ spc' = "prime"
  /\ UNCHANGED <<streamLen, cancel, primed, feed, inflight, live, targetMap,
                 sending, chan, received, rxOpen>>

\* join_next returns None: no probe is in flight any more.
ScanReturns ==
  /\ spc = "join"
  /\ inflight = {}
  /\ spc' = "done"
  /\ UNCHANGED <<streamLen, cancel, primed, feed, inflight, live, targetMap,
                 sending, chan, received, rxOpen>>

RunScanStep ==
  \/ PrimeSpawn
  \/ PrimeEnd
  \/ \E c \in inflight : Join(c)
  \/ Send
  \/ ScanReturns

-----------------------------------------------------------------------------
(* The other ends of the channels *)

\* rx.recv() yields the oldest scan on the channel.
Receive(t) ==
  /\ chan # <<>>
  /\ t = Head(chan)
  /\ chan' = Tail(chan)
  /\ received' = received \cup {t}
  /\ UNCHANGED <<streamLen, cancel, spc, primed, feed, inflight, live,
                 targetMap, sending, rxOpen>>

\* The signal handler sends true on the cancel watch; nothing ever resets it.
RequestCancel ==
  /\ ~cancel
  /\ cancel' = TRUE
  /\ UNCHANGED <<streamLen, spc, primed, feed, inflight, live, targetMap,
                 sending, chan, received, rxOpen>>

DropReceiver ==
  /\ rxOpen
  /\ rxOpen' = FALSE
  /\ chan' = <<>>
  /\ UNCHANGED <<streamLen, cancel, spc, primed, feed, inflight, live,
                 targetMap, sending, received>>

-----------------------------------------------------------------------------
(***************************************************************************)
(* run_scan alone, against any consumer: one that takes scans at its own   *)
(* pace or drops the receiver.                                             *)
(***************************************************************************)
SchedNext ==
  \/ RunScanStep
  \/ SendFails
  \/ \E t \in Targets : Receive(t)
  \/ RequestCancel
  \/ DropReceiver
  \/ spc = "done" /\ UNCHANGED schedVars

\* run_scan is polled, every probe ends (each one runs under a timeout), and
\* the consumer keeps receiving.
SchedSpec ==
  /\ \E len \in 0 .. NumTargets : SchedInit(len)
  /\ [][SchedNext]_schedVars
  /\ WF_schedVars(RunScanStep \/ SendFails)
  /\ WF_schedVars(\E t \in Targets : Receive(t))

-----------------------------------------------------------------------------
(* Properties *)

\* Targets whose TargetScan reached the channel.
Sent == received \cup {chan[i] : i \in DOMAIN chan}

\* Feed has handed probe c out.
HandedOut(c) ==
  \/ c[1] < feed.pulled - 1
  \/ c[1] = feed.pulled - 1 /\ c[2] < feed.pass

\* The targets with at least one outcome in live.
LiveTargets == {c[1] : c \in live}

(***************************************************************************)
(* In-flight probes, stored targets and live slots never outgrow the cap,  *)
(* whatever the number of targets (the comments on target_map and live).   *)
(***************************************************************************)
WindowBounded ==
  /\ Cardinality(inflight) <= Cap
  /\ Cardinality(targetMap) <= Cap
  /\ Cardinality(LiveTargets) <= Cap

(***************************************************************************)
(* The refill comes before the send, so backpressure never drops the       *)
(* window below the cap: while there is work left and no cancel, exactly   *)
(* Cap probes are in flight, also when run_scan waits for the channel.     *)
(***************************************************************************)
WindowStaysFull ==
  spc \in {"join", "send"} /\ ~cancel /\ FeedNonEmpty
    => Cardinality(inflight) = Cap

(***************************************************************************)
(* Conservation of outcomes: as long as the consumer listens, every probe  *)
(* handed out is in flight, or recorded in live, or its target is on its   *)
(* way to the consumer, and in exactly one of these.                       *)
(***************************************************************************)
OutcomesConserved ==
  rxOpen =>
    \A c \in Probes :
      LET places == { inflight, live, (Sent \cup {sending}) \X Passes } IN
      /\ HandedOut(c) <=> \E S \in places : c \in S
      /\ \A S \in places, R \in places : c \in S /\ c \in R => S = R

(***************************************************************************)
(* A scan that ends reports a contiguous prefix of its targets: all of     *)
(* them without a cancel, all but at most the last one started with one    *)
(* (stream_discovery's stragglers comment relies on it).                   *)
(***************************************************************************)
SentIsPrefix ==
  spc = "done" /\ rxOpen =>
    /\ ~cancel => Sent = 0 .. streamLen - 1
    /\ \E n \in {feed.pulled - 1, feed.pulled} : Sent = 0 .. n - 1

(***************************************************************************)
(* A target is reported once: what waits in the channel or for it was not  *)
(* received before and waits there only once.                              *)
(***************************************************************************)
ReportedOnce ==
  /\ \A i \in DOMAIN chan : chan[i] \notin received \cup {sending}
  /\ \A i \in DOMAIN chan, j \in DOMAIN chan : chan[i] = chan[j] => i = j
  /\ sending \notin received

(***************************************************************************)
(* Backpressure and cancellation never wedge run_scan: it ends.            *)
(***************************************************************************)
ScanEnds == <>(spc = "done")

(***************************************************************************)
(* The comment in the join loop: on a cancel "a target that already        *)
(* started still reports every prober's outcome".                          *)
(***************************************************************************)
StartedTargetsReport ==
  spc = "done" /\ rxOpen => \A t \in 0 .. feed.pulled - 1 : t \in Sent

-----------------------------------------------------------------------------
(***************************************************************************)
(* Inductive strengthening.  FeedInv: all is inside what the feed gave;    *)
(* PlacesInv: a probe handed out has exactly one place; QueueInv: the      *)
(* channel holds each scan once; WindowInv: the window is not empty while  *)
(* there is work to start.                                                 *)
(***************************************************************************)
FeedBound ==
  /\ feed.pulled <= streamLen
  /\ feed.pulled = 0 => feed.pass = NumProbers

FeedInv ==
  /\ FeedBound
  /\ \A c \in inflight \cup live : HandedOut(c)
  /\ \A c \in Probes : c[1] \in Sent \cup {sending} => HandedOut(c)

PlacesInv ==
  /\ inflight \cap live = {}
  /\ \A c \in inflight \cup live : c[1] \notin Sent \cup {sending}
  /\ \A c \in Probes :
       HandedOut(c) =>
         c \in inflight \cup live \/ c[1] \in Sent \cup {sending}
  /\ \A t \in Targets : ~Complete(t, live)

QueueInv ==
  /\ ReportedOnce
  /\ spc = "send" <=> sending # NoTarget

WindowInv ==
  /\ spc = "prime" /\ primed > 0 => inflight # {}
  /\ spc \in {"join", "send"} /\ ~cancel /\ FeedNonEmpty => inflight # {}

SchedInv == FeedInv /\ PlacesInv /\ QueueInv /\ WindowInv

=============================================================================
