----------------------------- MODULE ScanRoutes -----------------------------
(***************************************************************************)
(* POST /scans (rastreo-server/src/routes/scans.rs): admission against the *)
(* in-flight limit, the one outcome counted for every scan, and the guards *)
(* that return the slot and count the outcome when the request timeout or  *)
(* a closed connection drops the handler at an await.                      *)
(*                                                                         *)
(* A step is the code between two accesses to shared state: fetch_add and  *)
(* the comparison of its result are one step, the fetch_sub that rolls a   *)
(* refusal back is another one.  Guards drop in reverse order, the outcome *)
(* guard before the in-flight guard.  Nothing a request awaits before      *)
(* try_acquire has an effect, so its arrival is the step that handles it.  *)
(* run_discovery is one await here; its steps are DiscoveryRun's.          *)
(*                                                                         *)
(* Clients never stop: an id is "free" until a request takes it, and again *)
(* once that request is answered and its logger gone.  A body that does    *)
(* not parse is answered without a trace, no metric included: no step.     *)
(***************************************************************************)
EXTENDS Integers, FiniteSets

CONSTANTS
  Requests,     \* ids of the requests that are there at the same time
  MaxInflight   \* ReadinessConfig::max_inflight_scans; 0 means no limit

ASSUME RequestsAssumption == IsFiniteSet(Requests)
ASSUME MaxInflightAssumption == MaxInflight \in Nat

VARIABLES
  req,         \* where each request is in create_scan and run_scan
  armed,       \* the request has a ScanOutcomeGuard and it is armed
  logger,      \* the request's progress logger task is "live" or there is "none"
  inflight,    \* ReadinessState::inflight_scans
  counted      \* what the request added to Metrics::scans_total_success,
               \* scans_total_error and scans_total_cancelled together

routeVars == <<req, armed, logger, inflight, counted>>

ReqStates == {"free", "planning", "refusing", "running", "unwinding",
              "releasing", "answered"}

RouteTypeOK ==
  /\ req \in [Requests -> ReqStates]
  /\ armed \in [Requests -> BOOLEAN]
  /\ logger \in [Requests -> {"none", "live"}]
  /\ inflight \in Nat
  /\ counted \in [Requests -> Nat]

RouteInit ==
  /\ req = [r \in Requests |-> "free"]
  /\ armed = [r \in Requests |-> FALSE]
  /\ logger = [r \in Requests |-> "none"]
  /\ inflight = 0
  /\ counted = [r \in Requests |-> 0]

Goto(r, s) == req' = [req EXCEPT ![r] = s]
Count(r) == counted' = [counted EXCEPT ![r] = @ + 1]

\* The request is over and the next one may take its id.
Recycle(r) ==
  /\ req[r] = "answered" /\ logger[r] = "none"
  /\ Goto(r, "free")
  /\ counted' = [counted EXCEPT ![r] = 0]
  /\ UNCHANGED <<armed, logger, inflight>>

-----------------------------------------------------------------------------
(* create_scan *)

\* dry_run_plan resolved the targets and asks the scan's sink, which the
\* server's may be part of, for its destinations.
BeginPlan(r) ==
  /\ req[r] = "free"
  /\ Goto(r, "planning")
  /\ UNCHANGED <<armed, logger, inflight, counted>>

\* The plan or an error answers it, or its future is dropped: no metric.
EndPlan(r) ==
  /\ req[r] = "planning"
  /\ Goto(r, "free")
  /\ UNCHANGED <<armed, logger, inflight, counted>>

\* A scenario validate() refuses counts as a scan error, without a slot.
RefuseInvalid(r) ==
  /\ req[r] = "free"
  /\ Count(r)
  /\ Goto(r, "answered")
  /\ UNCHANGED <<armed, logger, inflight>>

-----------------------------------------------------------------------------
(* InflightGuard::try_acquire *)

\* Mutant: the comparison reads the gauge before its own increment.
OverLimitMutant(prior) == MaxInflight > 0 /\ prior > MaxInflight

\* prior is what fetch_add returned.
OverLimit(prior) == MaxInflight > 0 /\ prior + 1 > MaxInflight

\* fetch_add, and what the handler does until its next shared access: start
\* the scan with its guards and its progress logger, or turn to refuse.
TryAcquire(r) ==
  /\ req[r] = "free"
  /\ inflight' = inflight + 1
  /\ IF OverLimit(inflight)
       THEN Goto(r, "refusing") /\ UNCHANGED <<armed, logger>>
       ELSE /\ Goto(r, "running")
            /\ armed' = [armed EXCEPT ![r] = TRUE]
            /\ logger' = [logger EXCEPT ![r] = "live"]
  /\ UNCHANGED counted

\* Mutant: a refused request keeps its speculative increment.
RolledBackMutant == inflight

RolledBack == inflight - 1

\* The fetch_sub of a refused request, then 429.
RollBack(r) ==
  /\ req[r] = "refusing"
  /\ inflight' = RolledBack
  /\ Goto(r, "free")
  /\ UNCHANGED <<armed, logger, counted>>

-----------------------------------------------------------------------------
(* run_scan *)

\* Mutant: the arm that records the outcome forgets disarm().
DisarmMutant(r) == armed

Disarm(r) == [armed EXCEPT ![r] = FALSE]

\* run_discovery returned Ok: record_scan_completion and disarm.  The server
\* passes no cancel channel, so summary.cancelled is never set.
Complete(r) ==
  /\ req[r] = "running"
  /\ Count(r)
  /\ armed' = Disarm(r)
  /\ logger' = [logger EXCEPT ![r] = "none"]
  /\ Goto(r, "unwinding")
  /\ UNCHANGED inflight

\* run_discovery returned Err: record_scan_failure and disarm.
Fail(r) ==
  /\ req[r] = "running"
  /\ Count(r)
  /\ armed' = Disarm(r)
  /\ logger' = [logger EXCEPT ![r] = "none"]
  /\ Goto(r, "unwinding")
  /\ UNCHANGED inflight

\* TimeoutLayer, a closed connection or a panic drops the future while it
\* awaits run_discovery: nothing is recorded and abort() is not reached.
DropFuture(r) ==
  /\ req[r] = "running"
  /\ Goto(r, "unwinding")
  /\ UNCHANGED <<armed, logger, inflight, counted>>

\* Drop for ScanOutcomeGuard: an armed guard counts a cancelled scan.
DropOutcomeGuard(r) ==
  /\ req[r] = "unwinding"
  /\ IF armed[r] THEN Count(r) ELSE UNCHANGED counted
  /\ armed' = [armed EXCEPT ![r] = FALSE]
  /\ Goto(r, "releasing")
  /\ UNCHANGED <<logger, inflight>>

\* Drop for InflightGuard, after which the response (if anyone is left to
\* read it) goes out.
DropInflightGuard(r) ==
  /\ req[r] = "releasing"
  /\ inflight' = inflight - 1
  /\ Goto(r, "answered")
  /\ UNCHANGED <<armed, logger, counted>>

\* Mutant: the logger does not look at its channel and outlives a scan that
\* was dropped before abort().
SenderGoneMutant(r) == FALSE

\* rx.has_changed().is_err(): the sender went with run_discovery's future.
SenderGone(r) == req[r] # "running"

\* A turn of the progress logger that finds its sender gone.
LoggerExits(r) ==
  /\ logger[r] = "live"
  /\ SenderGone(r)
  /\ logger' = [logger EXCEPT ![r] = "none"]
  /\ UNCHANGED <<req, armed, inflight, counted>>

-----------------------------------------------------------------------------
RouteStep(r) ==
  \/ RefuseInvalid(r) \/ BeginPlan(r) \/ EndPlan(r)
  \/ TryAcquire(r) \/ RollBack(r)
  \/ Complete(r) \/ Fail(r) \/ DropFuture(r)
  \/ DropOutcomeGuard(r) \/ DropInflightGuard(r)
  \/ LoggerExits(r) \/ Recycle(r)

RouteNext == \E r \in Requests : RouteStep(r)

\* The routes by themselves, without the sink and the clock of ScanServer.
RouteSpec == RouteInit /\ [][RouteNext]_routeVars

-----------------------------------------------------------------------------
(* Properties *)

\* Requests that own a slot: their scan runs or their guards are dropping.
Admitted == {r \in Requests : req[r] \in {"running", "unwinding", "releasing"}}

\* Requests that count in the gauge: the admitted ones and the refused ones
\* whose speculative increment is not rolled back yet.
InGauge == Admitted \cup {r \in Requests : req[r] = "refusing"}

\* However increments, comparisons and rollbacks interleave, no more scans
\* run at once than max_inflight_scans allows (InflightGuard::try_acquire).
AdmissionBounded == MaxInflight > 0 => Cardinality(Admitted) <= MaxInflight

\* No slot leaks on any path out of the handler: the gauge is exactly the
\* requests that hold a slot or are about to roll one back, so it returns to
\* zero (InflightGuard and its Drop).
GaugeExact == inflight = Cardinality(InGauge)

\* Requests whose one outcome is in the metrics.
Counted ==
  {r \in Requests : \/ req[r] \in {"releasing", "answered"}
                    \/ req[r] = "unwinding" /\ ~armed[r]}

\* A scan that was accepted or refused by validate() is in exactly one of
\* the scan counters by the time it is answered, also when its handler is
\* dropped half-way (ScanOutcomeGuard, record_scan_failure), and no other
\* request is in any.
OutcomeCountedOnce ==
  \A r \in Requests : counted[r] = IF r \in Counted THEN 1 ELSE 0
=============================================================================
