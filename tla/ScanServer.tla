----------------------------- MODULE ScanServer -----------------------------
(***************************************************************************)
(* The server process: the scan routes (ScanRoutes), the background task   *)
(* that builds and probes the configured sink (sink_probe.rs), the cached  *)
(* verdict and stamps /readyz judges (state.rs, routes/health.rs), and the *)
(* shutdown of main.rs.                                                    *)
(*                                                                         *)
(* Time is discrete.  Clock lets one unit pass (a ReadStep in a read that  *)
(* hangs), which ages every stamp and every running timer, after what      *)
(* the runtime does at once: a timer that elapsed, a ticker that is due, a *)
(* shutdown the idle task sees.  A sink that is up or down answers the     *)
(* probe task at once, a hung one answers nobody until it changes, and so  *)
(* do the files a build reads; a scan's sink call takes as long as it      *)
(* likes.  The sink lock is tokio's FIFO mutex: lockQ is its queue, the    *)
(* head holds it.  A stamp that was never taken gates nothing, like one    *)
(* that is older than its quarantine.                                      *)
(*                                                                         *)
(* A build reads the config file ("reading") and builds the sink           *)
(* ("building") under one deadline of ProbeTimeout, but parse_sink_config  *)
(* between the two ("parsing") reads the !file paths with std::fs: no      *)
(* timer ends that, and the task is not polled meanwhile.                  *)
(***************************************************************************)
EXTENDS ScanRoutes, SequencesExt

CONSTANTS
  Interval,      \* SinkProbeConfig::probe_interval
  ProbeTimeout,  \* SinkProbeConfig::probe_timeout
  Quarantine,    \* sink_error_quarantine and scan_error_quarantine
  HardTimeout,   \* ShutdownConfig::timeout
  ReadSteps      \* bound: lengths of time a hung !file read is watched for

ASSUME TimesAssumption ==
  /\ Interval \in Nat \ {0}
  /\ ProbeTimeout \in Nat \ {0}
  /\ HardTimeout \in Nat \ {0}
  /\ Quarantine \in Nat
  /\ ReadSteps \subseteq Nat \ {0}

VARIABLES
  sink,        \* the external destination: "up", "down" or "hung"
  files,       \* the config file and its !file paths: "good", "bad", "hung"
  sees,        \* requests whose ScanSink holds the server's sink
  lockQ,       \* queue of the SharedSink mutex, holder first
  slot,        \* the SinkSlot is filled
  probe,       \* where the probe task is
  booted,      \* spawn_sink_probe returned and the server accepts requests
  await,       \* time since the probe task's current timeout was armed
  parseTime,   \* history: time the cycle spent in parse_sink_config
  phase,       \* time since the ticker's last grid point
  due,         \* a grid point passed and its tick was not taken
  reachable,   \* SinkReachability::reachable
  tickAge,     \* age of SinkReachability::last_tick
  sinkErrAge,  \* age of ReadinessState::last_sink_error, at most Quarantine
  scanErrAge,  \* age of ReadinessState::last_scan_error, at most Quarantine
  drain,       \* main: "serving", "draining", "joining" or "exited"
  drainAge     \* time since the shutdown signal

probeVars == <<slot, probe, booted, await, parseTime, due, reachable, tickAge>>
clockVars == <<phase, sinkErrAge, scanErrAge, drainAge>>
outside == <<sink, files>>
vars == <<routeVars, outside, sees, lockQ, probeVars, clockVars, drain>>

Probe == "probe"          \* the probe task's entry in lockQ

ASSUME ProbeAssumption == Probe \notin Requests

\* Longest time between two ticks that health.rs calls legitimate.
LongestLegitimateCycle == Interval + 3 * ProbeTimeout

\* probe_stale_after_secs
StaleAfter == 3 * LongestLegitimateCycle

\* The steps of load_and_construct_sink, and all places of the task.
BuildStates == {"reading", "parsing", "building"}
ProbeStates == BuildStates \cup {"locking", "probing", "idle", "exited"}

TypeOK ==
  /\ RouteTypeOK
  /\ sink \in {"up", "down", "hung"}
  /\ files \in {"good", "bad", "hung"}
  /\ sees \subseteq Requests
  /\ lockQ \in Seq(Requests \cup {Probe})
  /\ slot \in BOOLEAN /\ booted \in BOOLEAN /\ due \in BOOLEAN
  /\ reachable \in BOOLEAN
  /\ probe \in ProbeStates
  /\ await \in 0 .. ProbeTimeout
  /\ parseTime \in Nat
  /\ phase \in 0 .. Interval - 1
  /\ tickAge \in Nat
  /\ sinkErrAge \in 0 .. Quarantine
  /\ scanErrAge \in 0 .. Quarantine
  /\ drain \in {"serving", "draining", "joining", "exited"}
  /\ drainAge \in Nat

Init ==
  /\ RouteInit
  /\ sink \in {"up", "down", "hung"}
  /\ files \in {"good", "bad", "hung"}
  /\ sees = {}
  /\ lockQ = <<>>
  /\ slot = FALSE
  /\ probe = "reading"
  /\ booted = FALSE
  /\ await = 0
  /\ parseTime = 0
  /\ phase = 0
  /\ due = FALSE
  /\ reachable = FALSE
  /\ tickAge = 0
  /\ sinkErrAge = Quarantine
  /\ scanErrAge = Quarantine
  /\ drain = "serving"
  /\ drainAge = 0

-----------------------------------------------------------------------------
(* The scan routes in this process *)

\* The routes run once the server serves and until the process exits.  What
\* they begin while draining arrived before the signal; that clients then
\* send no more is not used.
Serving == booted /\ drain \in {"serving", "draining"}

\* A route step that touches neither the sink nor the readiness stamps.
PlainRoute(r) ==
  /\ Serving
  /\ \/ RefuseInvalid(r)
     \/ RollBack(r)
     \/ DropOutcomeGuard(r)
     \/ DropInflightGuard(r)
     \/ LoggerExits(r)
     \/ Recycle(r)
  /\ UNCHANGED <<outside, sees, lockQ, probeVars, clockVars, drain>>

\* run_scan starts: an admitted scan's ScanSink::build takes the sink the
\* slot holds now.
StartScan(r) ==
  /\ Serving
  /\ TryAcquire(r)
  /\ sees' = IF slot /\ ~OverLimit(inflight) THEN sees \cup {r} ELSE sees
  /\ UNCHANGED <<outside, lockQ, probeVars, clockVars, drain>>

InQueue(p) == \E i \in DOMAIN lockQ : lockQ[i] = p
Holds(p) == lockQ # <<>> /\ Head(lockQ) = p

\* Mutant: a waiter that is dropped leaves its entry in the queue.
LeaveQueueMutant(p) == IF Holds(p) THEN Tail(lockQ) ELSE lockQ

\* The mutex without p: unlocked by its guard's Drop, or the wait given up.
LeaveQueue(p) ==
  IF InQueue(p)
    THEN RemoveAt(lockQ, CHOOSE i \in DOMAIN lockQ : lockQ[i] = p)
    ELSE lockQ

\* A dry run asks its ScanSink for the destinations: TeeSink locks the
\* server's sink for that, if the slot is filled.
StartPlan(r) ==
  /\ Serving
  /\ BeginPlan(r)
  /\ sees' = IF slot THEN sees \cup {r} ELSE sees
  /\ lockQ' = IF slot THEN Append(lockQ, r) ELSE lockQ
  /\ UNCHANGED <<outside, probeVars, clockVars, drain>>

\* It got the lock and its answer, or was dropped while it waited.  That the
\* answer takes no time is not used: it may hold the lock like a sink call.
PlanEnds(r) ==
  /\ Serving
  /\ EndPlan(r)
  /\ sees' = sees \ {r}
  /\ lockQ' = LeaveQueue(r)
  /\ UNCHANGED <<outside, probeVars, clockVars, drain>>

\* The scan calls write, flush, close or a query of the shared sink.
SinkCall(r) ==
  /\ Serving
  /\ req[r] = "running" /\ r \in sees /\ ~InQueue(r)
  /\ lockQ' = Append(lockQ, r)
  /\ UNCHANGED <<routeVars, outside, sees, probeVars, clockVars, drain>>

\* That call returns and unlocks.
SinkReturns(r) ==
  /\ Serving
  /\ req[r] = "running" /\ Holds(r) /\ sink # "hung"
  /\ lockQ' = LeaveQueue(r)
  /\ UNCHANGED <<routeVars, outside, sees, probeVars, clockVars, drain>>

\* run_discovery returns Ok.
ScanCompletes(r) ==
  /\ Serving
  /\ ~InQueue(r)
  /\ Complete(r)
  /\ sees' = sees \ {r}
  /\ UNCHANGED <<outside, lockQ, probeVars, clockVars, drain>>

\* run_discovery returns an error of class c.  Only a status of 500 and up
\* stamps the readiness state (record_scan_failure, status_for).
ScanFails(r, c) ==
  /\ Serving
  /\ ~InQueue(r)
  /\ c = "sink" => r \in sees
  /\ Fail(r)
  /\ scanErrAge' = IF c = "client" THEN scanErrAge ELSE 0
  /\ sinkErrAge' = IF c = "sink" THEN 0 ELSE sinkErrAge
  /\ sees' = sees \ {r}
  /\ UNCHANGED <<outside, lockQ, probeVars, phase, drainAge, drain>>

\* The request timeout drops the handler wherever it awaits.
ScanDropped(r) ==
  /\ Serving
  /\ DropFuture(r)
  /\ lockQ' = LeaveQueue(r)
  /\ sees' = sees \ {r}
  /\ UNCHANGED <<outside, probeVars, clockVars, drain>>

-----------------------------------------------------------------------------
(* The probe task *)

Alive == drain # "exited"

\* The end of spawn_sink_probe: record_tick, a fresh ticker.
Boot ==
  /\ booted' = TRUE
  /\ phase' = 0
  /\ due' = FALSE
  /\ tickAge' = 0
  /\ parseTime' = 0

\* The cycle is over; the first one is the startup's own.
EndCycle ==
  /\ probe' = "idle"
  /\ await' = 0
  /\ IF booted THEN UNCHANGED <<booted, phase, due, tickAge, parseTime>>
               ELSE Boot

\* Mutant: the task has no arm for the shutdown channel.
ShutdownSeenMutant == FALSE

\* shutdown.changed() of the biased select.
ShutdownSeen == drain # "serving"

\* Mutant: a sink that failed to build at startup is not rebuilt.
FirstAwaitMutant == IF slot THEN "locking" ELSE "idle"

\* probe_tick's match on slot.get().
FirstAwait == IF slot THEN "locking" ELSE "reading"

\* The ticker fires and the task begins a cycle: record_tick, then rebuild
\* the sink or queue for its lock.
BeginCycle ==
  /\ Alive
  /\ probe = "idle" /\ due /\ ~ShutdownSeen
  /\ due' = FALSE
  /\ tickAge' = 0
  /\ await' = 0
  /\ parseTime' = 0
  /\ probe' = FirstAwait
  /\ lockQ' = IF FirstAwait = "locking" THEN Append(lockQ, Probe) ELSE lockQ
  /\ UNCHANGED <<routeVars, outside, sees, slot, booted, reachable,
                 clockVars, drain>>

\* timeout_at(deadline, read_to_string(path)) returned the config's text.
ConfigRead ==
  /\ Alive
  /\ probe = "reading" /\ files = "good"
  /\ probe' = "parsing"
  /\ UNCHANGED <<routeVars, outside, sees, lockQ, slot, booted, await,
                 parseTime, due, reachable, tickAge, clockVars, drain>>

\* parse_sink_config returned: every !file path was read.
Parsed ==
  /\ Alive
  /\ probe = "parsing" /\ files = "good"
  /\ probe' = "building"
  /\ UNCHANGED <<routeVars, outside, sees, lockQ, slot, booted, await,
                 parseTime, due, reachable, tickAge, clockVars, drain>>

\* create_sink returned a sink: attach it and queue to probe it.  Some sinks
\* build without their destination.
Built ==
  /\ Alive
  /\ probe = "building" /\ sink # "hung"
  /\ slot' = TRUE
  /\ probe' = "locking"
  /\ await' = 0
  /\ lockQ' = Append(lockQ, Probe)
  /\ UNCHANGED <<routeVars, outside, sees, booted, parseTime, due, reachable,
                 tickAge, clockVars, drain>>

\* load_and_construct_sink fails: a file or the destination is no good, or
\* the deadline elapsed.  Only the first and the last of its waits have the
\* deadline, and the last may find it in the past.
BuildFails ==
  \/ probe = "reading" /\ (files = "bad" \/ (files = "hung" /\ await = ProbeTimeout))
  \/ probe = "parsing" /\ files = "bad"
  \/ probe = "building" /\ (sink = "down" \/ await = ProbeTimeout)

\* Construction failed: unreachable.
NotBuilt ==
  /\ Alive
  /\ BuildFails
  /\ reachable' = FALSE
  /\ EndCycle
  /\ UNCHANGED <<routeVars, outside, sees, lockQ, slot, sinkErrAge,
                 scanErrAge, drainAge, drain>>

Lock ==
  /\ Alive
  /\ probe = "locking" /\ Holds(Probe)
  /\ probe' = "probing"
  /\ await' = 0
  /\ UNCHANGED <<routeVars, outside, sees, lockQ, slot, booted, parseTime, due,
                 reachable, tickAge, clockVars, drain>>

\* Mutant: the lock is awaited without a timeout.
LockTimedOutMutant == FALSE

\* timeout(timeout_dur, sink.lock()) elapsed.
LockTimedOut == await = ProbeTimeout

\* A scan held the lock for the whole timeout: skip, keep the verdict.
SkipProbe ==
  /\ Alive
  /\ probe = "locking" /\ ~Holds(Probe)
  /\ LockTimedOut
  /\ lockQ' = LeaveQueue(Probe)
  /\ EndCycle
  /\ UNCHANGED <<routeVars, outside, sees, slot, reachable, sinkErrAge,
                 scanErrAge, drainAge, drain>>

\* Mutant: a probe that timed out keeps the cached verdict.
ProbeVerdictMutant == IF sink = "hung" THEN reachable ELSE sink = "up"

\* What probe() measured: Ok only from a sink that answers.
ProbeVerdict == sink = "up"

\* probe() answered, or its timeout elapsed; the lock is dropped.
ProbeEnds ==
  /\ Alive
  /\ probe = "probing"
  /\ sink # "hung" \/ await = ProbeTimeout
  /\ reachable' = ProbeVerdict
  /\ lockQ' = LeaveQueue(Probe)
  /\ EndCycle
  /\ UNCHANGED <<routeVars, outside, sees, slot, sinkErrAge, scanErrAge,
                 drainAge, drain>>

\* A tick panics as its call begins or its sink answers: guard_panics ends
\* it, its lock guard drops, the verdict of an earlier tick stays.
CyclePanics ==
  /\ Alive
  /\ booted
  /\ probe \in {"building", "probing"}
  /\ await = 0 \/ sink # "hung"
  /\ lockQ' = LeaveQueue(Probe)
  /\ EndCycle
  /\ UNCHANGED <<routeVars, outside, sees, slot, reachable, sinkErrAge,
                 scanErrAge, drainAge, drain>>

\* The biased select looks at the shutdown before the ticker.
ProbeTaskExits ==
  /\ Alive
  /\ probe = "idle" /\ ShutdownSeen
  /\ probe' = "exited"
  /\ UNCHANGED <<routeVars, outside, sees, lockQ, slot, booted, await,
                 parseTime, due, reachable, tickAge, clockVars, drain>>

-----------------------------------------------------------------------------
(* Shutdown *)

Signal ==
  /\ booted /\ drain = "serving"
  /\ drain' = "draining"
  /\ UNCHANGED <<routeVars, outside, sees, lockQ, probeVars, clockVars>>

Idle(r) == req[r] \in {"free", "answered"}

\* axum::serve returns once no request is left: the select is decided and
\* only the probe task is awaited.
GracefulDone ==
  /\ drain = "draining"
  /\ \A r \in Requests : Idle(r)
  /\ drain' = "joining"
  /\ UNCHANGED <<routeVars, outside, sees, lockQ, probeVars, clockVars>>

ProbeJoined ==
  /\ drain = "joining" /\ probe = "exited"
  /\ drain' = "exited"
  /\ UNCHANGED <<routeVars, outside, sees, lockQ, probeVars, clockVars>>

\* process::exit(0) from the other arm of the select, once the sleep that
\* starts at the signal is over.
ForceExit ==
  /\ drain = "draining" /\ drainAge >= HardTimeout
  /\ drain' = "exited"
  /\ UNCHANGED <<routeVars, outside, sees, lockQ, probeVars, clockVars>>

-----------------------------------------------------------------------------
(* The environment and the clock *)

SinkChanges(s) ==
  /\ Alive /\ s # sink
  /\ sink' = s
  /\ UNCHANGED <<routeVars, files, sees, lockQ, probeVars, clockVars, drain>>

\* Someone edits, breaks or repairs the files, or their filesystem stops or
\* starts to answer.  Only a build reads them: what they are while the sink
\* is built from a parsed config, or attached, is of no consequence.
FilesChange(f) ==
  /\ Alive /\ f # files
  /\ ~slot /\ probe # "building"
  /\ files' = f
  /\ UNCHANGED <<routeVars, sink, sees, lockQ, probeVars, clockVars, drain>>

\* What the runtime does before any time passes.
Urgent ==
  \/ probe \in {"reading", "parsing"} /\ files # "hung"
  \/ probe \in {"building", "probing"} /\ sink # "hung"
  \/ probe \in {"reading", "building", "probing"} /\ await = ProbeTimeout
  \/ probe = "locking" /\ (LockTimedOut \/ Holds(Probe))
  \/ probe = "idle" /\ (due \/ ShutdownSeen)
  \/ drain = "draining" /\ drainAge >= HardTimeout
  \/ drain = "joining" /\ probe = "exited"

\* An age after d more units, as far as anything tells it apart.
Older(age, d, limit) == IF age + d < limit THEN age + d ELSE limit

\* MissedTickBehavior::Skip keeps the ticker on its grid.
NextPhase(d) == (phase + d) % Interval

Elapse(d) ==
  /\ await' = IF probe \in {"idle", "exited"} THEN await
                                             ELSE Older(await, d, ProbeTimeout)
  /\ parseTime' = IF probe = "parsing" THEN Older(parseTime, d, StaleAfter + 1)
                                       ELSE parseTime
  /\ phase' = IF booted THEN NextPhase(d) ELSE phase
  /\ due' = (due \/ (booted /\ phase + d >= Interval /\ probe # "exited"))
  /\ tickAge' = IF booted THEN Older(tickAge, d, StaleAfter + 1) ELSE tickAge
  /\ sinkErrAge' = Older(sinkErrAge, d, Quarantine)
  /\ scanErrAge' = Older(scanErrAge, d, Quarantine)
  /\ drainAge' = IF drain = "serving" THEN 0
                                      ELSE Older(drainAge, d, HardTimeout + 1)

Clock ==
  /\ Alive
  /\ ~Urgent
  /\ \E d \in IF probe = "parsing" THEN ReadSteps ELSE {1} : Elapse(d)
  /\ UNCHANGED <<routeVars, outside, sees, lockQ, slot, probe, booted,
                 reachable, drain>>

Exited == drain = "exited" /\ UNCHANGED vars

-----------------------------------------------------------------------------
ScanStep(r) ==
  \/ PlainRoute(r) \/ StartPlan(r) \/ PlanEnds(r)
  \/ StartScan(r) \/ SinkCall(r) \/ SinkReturns(r)
  \/ ScanCompletes(r) \/ ScanDropped(r)
  \/ \E c \in {"client", "server", "sink"} : ScanFails(r, c)

ProbeStep ==
  \/ BeginCycle \/ ConfigRead \/ Parsed \/ Built \/ NotBuilt
  \/ Lock \/ SkipProbe \/ ProbeEnds \/ CyclePanics \/ ProbeTaskExits

ShutdownStep == Signal \/ GracefulDone \/ ProbeJoined \/ ForceExit

Next ==
  \/ \E r \in Requests : ScanStep(r)
  \/ ProbeStep
  \/ ShutdownStep
  \/ \E s \in {"up", "down", "hung"} : SinkChanges(s)
  \/ \E f \in {"good", "bad", "hung"} : FilesChange(f)
  \/ Clock
  \/ Exited

(***************************************************************************)
(* Fairness: time passes, however fast a sink or a file comes and goes     *)
(* (hence SF); the runtime polls a task that can run; the request timeout  *)
(* drops every handler that is left waiting.  Clients may stop or send for *)
(* ever, a scan may last until it is dropped, the sink may change or stay  *)
(* as it is, a read that hangs may never return, and the signal may never  *)
(* come: none of them is fair.                                             *)
(***************************************************************************)
RouteProgress(r) ==
  /\ Serving
  /\ \/ RollBack(r)
     \/ DropOutcomeGuard(r) \/ DropInflightGuard(r)
  /\ UNCHANGED <<outside, sees, lockQ, probeVars, clockVars, drain>>

LoggerProgress(r) ==
  /\ Serving
  /\ LoggerExits(r)
  /\ UNCHANGED <<outside, sees, lockQ, probeVars, clockVars, drain>>

ProbeProgress ==
  \/ BeginCycle \/ ConfigRead \/ Parsed \/ Built \/ NotBuilt
  \/ Lock \/ SkipProbe \/ ProbeEnds \/ ProbeTaskExits

Fairness ==
  /\ SF_vars(Clock)
  /\ WF_vars(ProbeProgress)
  /\ WF_vars(GracefulDone) /\ WF_vars(ProbeJoined) /\ WF_vars(ForceExit)
  /\ \A r \in Requests : /\ WF_vars(RouteProgress(r))
                         /\ WF_vars(ScanDropped(r))
                         /\ WF_vars(PlanEnds(r))
                         /\ WF_vars(LoggerProgress(r))

Spec == Init /\ [][Next]_vars /\ Fairness

-----------------------------------------------------------------------------
(* GET /readyz *)

ProbeStalled == tickAge > StaleAfter
InQuarantine(age) == age \in 0 .. Quarantine - 1

\* classify: the reason the server is not ready, or "ready".
ReadyReason ==
  CASE MaxInflight > 0 /\ inflight >= MaxInflight -> "inflight_scan_limit_exceeded"
    [] OTHER ->
  CASE ProbeStalled -> "sink_probe_stalled"
    [] OTHER ->
  CASE ~reachable -> "sink_unreachable"
    [] OTHER ->
  CASE InQuarantine(sinkErrAge) -> "sink_error_within_quarantine"
    [] OTHER ->
  CASE InQuarantine(scanErrAge) -> "scan_error_within_quarantine"
    [] OTHER -> "ready"

-----------------------------------------------------------------------------
(* Properties *)

\* No lock held by a scan or a dry run, no hung sink, hung config file, slow
\* build or panic makes two ticks of a live task lie further apart than
\* longest_legitimate_cycle_secs, and only the !file reads of a build can:
\* by as long as they take.  So /readyz calls a live task stalled only after
\* a parse_sink_config of more than two such cycles, and, because an attached
\* sink is never built again, not once such a cycle is over (probe_tick,
\* load_and_construct_sink, run_probe, sink_probe_is_stalled).
StallsOnlyInFileReads ==
  probe # "exited" =>
    /\ tickAge <= LongestLegitimateCycle + parseTime
    /\ ReadyReason = "sink_probe_stalled" => parseTime > 2 * LongestLegitimateCycle
    /\ slot => probe \notin BuildStates

\* The lock is never held or awaited by someone who is gone: every entry is
\* a scan or a dry run that sees the sink and still runs, or the probe task
\* inside run_probe.
LockOwnersAlive ==
  \A i \in DOMAIN lockQ :
    /\ \/ lockQ[i] = Probe /\ probe \in {"locking", "probing"}
       \/ lockQ[i] \in sees /\ req[lockQ[i]] \in {"running", "planning"}
    /\ \A j \in DOMAIN lockQ : lockQ[i] = lockQ[j] => i = j

\* Once the sink stays up, its config readable until it is built, and the
\* clients quiet, the server is eventually ready for good, whatever failed,
\* hung, panicked or was dropped before, unless it is shutting down.  With
\* clients that go on, the in-flight limit and the error stamps may keep it
\* from being so, and so may ticks that panic for ever, each before it could
\* correct the verdict.
ReadyAgain ==
  <>[](/\ sink = "up"
       /\ slot \/ files = "good"
       /\ \A r \in Requests : Idle(r)
       /\ drain = "serving")
    => <>[](ReadyReason = "ready") \/ []<><<CyclePanics /\ ~reachable>>_vars

\* Once the sink stays unusable, /readyz eventually stops saying ready: the
\* verdict cached while it was up does not survive (run_probe, record_failure).
\* What keeps it is requests that keep the probe from the sink's lock for a
\* whole timeout again and again, so that probes are skipped for ever, or
\* ticks that panic for ever.
OutageReported ==
  <>[](sink # "up" /\ drain = "serving")
    => \/ <>[](ReadyReason # "ready")
       \/ []<><<SkipProbe \/ (CyclePanics /\ reachable)>>_vars

\* After the signal the process ends, whatever scans and the sink do, unless
\* a build's file reads hang for good: main then awaits the probe task for
\* ever, once the requests are gone.
ExitsAfterSignal ==
  <>[](slot \/ files # "hung") => ((drain = "draining") ~> (drain = "exited"))

\* A progress logger ends with its scan, also when abort() was never reached.
LoggersEnd ==
  \A r \in Requests :
    (logger[r] = "live") ~> (logger[r] = "none" \/ drain \in {"joining", "exited"})

\* What state.rs says of RASTREO_SHUTDOWN_TIMEOUT_SECS: a hard cap on the
\* drain window, after which the server force-exits.
DrainHardCapped == drainAge <= HardTimeout \/ drain = "exited"
=============================================================================
