---------------------------- MODULE ServerProofs ----------------------------
(***************************************************************************)
(* Proofs about ScanRoutes and ScanServer, for every finite set of         *)
(* requests and every limit: slots are counted exactly, the limit holds,   *)
(* and every scan is in the metrics once.  The argument is made over the   *)
(* steps of the routes alone and carried over to the whole server, whose   *)
(* every step is a step of the routes or leaves their state alone.         *)
(***************************************************************************)
EXTENDS ScanServer, FiniteSetTheorems, SequenceTheorems, TLAPS

\* A handler that awaits run_discovery has an armed outcome guard.
RunningArmed == \A r \in Requests : req[r] = "running" => armed[r]

\* The inductive invariant.  The limit needs the exact gauge, the exact
\* count needs RunningArmed: a dropped future must find its guard armed.
RouteInv ==
  /\ RouteTypeOK
  /\ RunningArmed
  /\ GaugeExact
  /\ AdmissionBounded
  /\ OutcomeCountedOnce

-----------------------------------------------------------------------------
(* Cardinalities of the two sets *)

\* Subsets of Requests are finite, so their cardinalities are numbers.
LEMMA SetsFinite ==
  /\ IsFiniteSet(Admitted) /\ Cardinality(Admitted) \in Nat
  /\ IsFiniteSet(InGauge) /\ Cardinality(InGauge) \in Nat
  /\ Cardinality(Admitted) <= Cardinality(InGauge)
<1>1. Admitted \subseteq Requests BY DEF Admitted
<1>2. InGauge \subseteq Requests BY <1>1 DEF InGauge
<1>3. Admitted \subseteq InGauge BY DEF InGauge
<1>4. IsFiniteSet(Admitted) /\ IsFiniteSet(InGauge)
  BY <1>1, <1>2, RequestsAssumption, FS_Subset
<1>5. Cardinality(Admitted) <= Cardinality(InGauge)
  BY <1>3, <1>4, FS_Subset
<1> QED BY <1>4, <1>5, FS_CardinalityType

\* A set of requests that gains a new member gains one element.
LEMMA GainsOne ==
  ASSUME NEW S, IsFiniteSet(S), NEW T, NEW x, x \notin S, T = S \cup {x}
  PROVE  Cardinality(T) = Cardinality(S) + 1
BY FS_AddElement

\* A set of requests that loses a member loses one element.
LEMMA LosesOne ==
  ASSUME NEW S, IsFiniteSet(S), NEW T, NEW x, x \in S, T = S \ {x}
  PROVE  Cardinality(T) = Cardinality(S) - 1
BY FS_RemoveElement

\* What Goto does to the control state of the requests.
LEMMA GotoChangesOne ==
  ASSUME RouteTypeOK, NEW r \in Requests, NEW s \in ReqStates, Goto(r, s)
  PROVE  /\ req' \in [Requests -> ReqStates]
         /\ req'[r] = s
         /\ \A q \in Requests \ {r} : req'[q] = req[q]
BY DEF RouteTypeOK, Goto

\* Membership of one request, before and after a step.
LEMMA Membership ==
  ASSUME NEW r \in Requests
  PROVE  /\ r \in Admitted <=> req[r] \in {"running", "unwinding", "releasing"}
         /\ r \in InGauge <=> req[r] \in {"refusing", "running", "unwinding", "releasing"}
         /\ r \in Counted <=> \/ req[r] \in {"releasing", "answered"}
                              \/ req[r] = "unwinding" /\ ~armed[r]
         /\ r \in Admitted' <=> req'[r] \in {"running", "unwinding", "releasing"}
         /\ r \in InGauge' <=> req'[r] \in {"refusing", "running", "unwinding", "releasing"}
         /\ r \in Counted' <=> \/ req'[r] \in {"releasing", "answered"}
                               \/ req'[r] = "unwinding" /\ ~armed'[r]
<1>1. r \in Admitted <=> req[r] \in {"running", "unwinding", "releasing"}
  BY DEF Admitted
<1>2. r \in InGauge <=> req[r] \in {"refusing", "running", "unwinding", "releasing"}
  BY <1>1 DEF InGauge
<1>3. r \in Counted <=> \/ req[r] \in {"releasing", "answered"}
                        \/ req[r] = "unwinding" /\ ~armed[r]
  BY DEF Counted
<1>4. r \in Admitted' <=> req'[r] \in {"running", "unwinding", "releasing"}
  BY DEF Admitted
<1>5. r \in InGauge' <=> req'[r] \in {"refusing", "running", "unwinding", "releasing"}
  BY <1>4 DEF InGauge
<1>6. r \in Counted' <=> \/ req'[r] \in {"releasing", "answered"}
                         \/ req'[r] = "unwinding" /\ ~armed'[r]
  BY DEF Counted
<1> QED BY <1>1, <1>2, <1>3, <1>4, <1>5, <1>6

\* A step that changes only request r leaves the other members alone.
LEMMA OthersStay ==
  ASSUME NEW r \in Requests,
         \A q \in Requests \ {r} : req'[q] = req[q] /\ armed'[q] = armed[q]
  PROVE  /\ Admitted' \ {r} = Admitted \ {r}
         /\ InGauge' \ {r} = InGauge \ {r}
<1>1. Admitted' \ {r} = Admitted \ {r} BY DEF Admitted
<1>2. InGauge' \ {r} = InGauge \ {r} BY DEF InGauge, Admitted
<1> QED BY <1>1, <1>2

\* So the cardinalities move by one, by how r itself moves.
LEMMA CardinalitiesMove ==
  ASSUME NEW r \in Requests,
         \A q \in Requests \ {r} : req'[q] = req[q] /\ armed'[q] = armed[q]
  PROVE  /\ Cardinality(Admitted') = Cardinality(Admitted)
              + (IF r \in Admitted' /\ r \notin Admitted THEN 1 ELSE 0)
              - (IF r \in Admitted /\ r \notin Admitted' THEN 1 ELSE 0)
         /\ Cardinality(InGauge') = Cardinality(InGauge)
              + (IF r \in InGauge' /\ r \notin InGauge THEN 1 ELSE 0)
              - (IF r \in InGauge /\ r \notin InGauge' THEN 1 ELSE 0)
<1>1. ASSUME NEW S, NEW T, IsFiniteSet(S), T \ {r} = S \ {r}
      PROVE  Cardinality(T) = Cardinality(S)
              + (IF r \in T /\ r \notin S THEN 1 ELSE 0)
              - (IF r \in S /\ r \notin T THEN 1 ELSE 0)
  <2>0. Cardinality(S) \in Nat BY <1>1, FS_CardinalityType
  <2>1. CASE r \in S <=> r \in T
    <3>1. T = S BY <1>1, <2>1
    <3> QED BY <2>0, <2>1, <3>1
  <2>2. CASE r \in T /\ r \notin S
    <3>1. T = S \cup {r} BY <1>1, <2>2
    <3> QED BY <1>1, <2>0, <2>2, <3>1, GainsOne
  <2>3. CASE r \in S /\ r \notin T
    <3>1. T = S \ {r} BY <1>1, <2>3
    <3> QED BY <1>1, <2>0, <2>3, <3>1, LosesOne
  <2> QED BY <2>1, <2>2, <2>3
<1>2. IsFiniteSet(Admitted) /\ IsFiniteSet(InGauge)
  BY SetsFinite
<1> HIDE DEF Admitted, InGauge
<1>3. /\ Admitted' \ {r} = Admitted \ {r}
      /\ InGauge' \ {r} = InGauge \ {r}
  BY OthersStay
<1>4. Cardinality(Admitted') = Cardinality(Admitted)
              + (IF r \in Admitted' /\ r \notin Admitted THEN 1 ELSE 0)
              - (IF r \in Admitted /\ r \notin Admitted' THEN 1 ELSE 0)
  BY <1>1, <1>2, <1>3
<1>5. Cardinality(InGauge') = Cardinality(InGauge)
              + (IF r \in InGauge' /\ r \notin InGauge THEN 1 ELSE 0)
              - (IF r \in InGauge /\ r \notin InGauge' THEN 1 ELSE 0)
  BY <1>1, <1>2, <1>3
<1> QED BY <1>4, <1>5

-----------------------------------------------------------------------------
(* Steps *)

\* The invariant holds before the first request.
LEMMA RouteInvInit ==
  ASSUME RouteInit PROVE RouteInv
<1>1. RouteTypeOK BY DEF RouteInit, RouteTypeOK, ReqStates
<1>2. RunningArmed BY DEF RouteInit, RunningArmed
<1>3. Admitted = {} /\ InGauge = {} /\ Counted = {}
  BY DEF RouteInit, Admitted, InGauge, Counted
<1>4. Cardinality({}) = 0 BY FS_EmptySet
<1>5. GaugeExact BY <1>3, <1>4 DEF RouteInit, GaugeExact
<1>6. AdmissionBounded
  BY <1>3, <1>4, MaxInflightAssumption DEF AdmissionBounded
<1>7. OutcomeCountedOnce BY <1>3 DEF RouteInit, OutcomeCountedOnce
<1> QED BY <1>1, <1>2, <1>5, <1>6, <1>7 DEF RouteInv

\* What every step of a request has in common: types, and the frame that
\* CardinalitiesMove needs.
LEMMA RouteStepFrame ==
  ASSUME RouteInv, NEW r \in Requests, RouteStep(r)
  PROVE  /\ req' \in [Requests -> ReqStates]
         /\ armed' \in [Requests -> BOOLEAN]
         /\ logger' \in [Requests -> {"none", "live"}]
         /\ counted' \in [Requests -> Nat]
         /\ \A q \in Requests \ {r} : /\ req'[q] = req[q]
                                      /\ armed'[q] = armed[q]
                                      /\ counted'[q] = counted[q]
<1> USE DEF RouteInv, RouteTypeOK, Goto, Count, ReqStates
<1>1. CASE BeginPlan(r) \/ EndPlan(r) BY <1>1 DEF BeginPlan, EndPlan
<1>2. CASE RefuseInvalid(r) BY <1>2 DEF RefuseInvalid
<1>3. CASE TryAcquire(r)
  <2>1. CASE OverLimit(inflight) BY <1>3, <2>1 DEF TryAcquire
  <2>2. CASE ~OverLimit(inflight) BY <1>3, <2>2 DEF TryAcquire
  <2> QED BY <2>1, <2>2
<1>4. CASE RollBack(r) BY <1>4 DEF RollBack
<1>5. CASE Complete(r) BY <1>5 DEF Complete, Disarm
<1>6. CASE Fail(r) BY <1>6 DEF Fail, Disarm
<1>7. CASE DropFuture(r) BY <1>7 DEF DropFuture
<1>8. CASE DropOutcomeGuard(r)
  <2>1. CASE armed[r] BY <1>8, <2>1 DEF DropOutcomeGuard
  <2>2. CASE ~armed[r] BY <1>8, <2>2 DEF DropOutcomeGuard
  <2> QED BY <2>1, <2>2
<1>9. CASE DropInflightGuard(r) BY <1>9 DEF DropInflightGuard
<1>10. CASE LoggerExits(r) BY <1>10 DEF LoggerExits
<1>11. CASE Recycle(r) BY <1>11 DEF Recycle
<1> QED
  BY <1>1, <1>2, <1>3, <1>4, <1>5, <1>6, <1>7, <1>8, <1>9, <1>10, <1>11
  DEF RouteStep

\* A started scan is armed until its outcome is recorded.
LEMMA RunningArmedStep ==
  ASSUME RouteInv, NEW r \in Requests, RouteStep(r)
  PROVE  RunningArmed'
<1>1. \A q \in Requests \ {r} : req'[q] = req[q] /\ armed'[q] = armed[q]
  BY RouteStepFrame
<1>2. req'[r] = "running" => armed'[r]
  BY DEF RouteInv, RouteTypeOK, RunningArmed, RouteStep, BeginPlan, EndPlan,
    RefuseInvalid, TryAcquire, RollBack, Complete, Fail, DropFuture,
    DropOutcomeGuard, DropInflightGuard, LoggerExits, Recycle, Goto, Disarm
<1> QED BY <1>1, <1>2 DEF RouteInv, RunningArmed

\* A step of request r moves the gauge exactly as far as r moves in the set
\* it counts, and counts r in the metrics exactly when r comes to be Counted.
LEMMA RouteStepCounts ==
  ASSUME RouteInv, NEW r \in Requests, RouteStep(r)
  PROVE  /\ inflight' \in Int
         /\ inflight' - inflight =
              Cardinality(InGauge') - Cardinality(InGauge)
         /\ counted'[r] = IF r \in Counted' THEN 1 ELSE 0
<1>1. \A q \in Requests \ {r} : req'[q] = req[q] /\ armed'[q] = armed[q]
  BY RouteStepFrame
<1>2. /\ Cardinality(InGauge) \in Nat
      /\ Cardinality(InGauge') = Cardinality(InGauge)
              + (IF r \in InGauge' /\ r \notin InGauge THEN 1 ELSE 0)
              - (IF r \in InGauge /\ r \notin InGauge' THEN 1 ELSE 0)
  BY <1>1, CardinalitiesMove, SetsFinite
<1>3. /\ req \in [Requests -> ReqStates] /\ armed \in [Requests -> BOOLEAN]
      /\ counted \in [Requests -> Nat] /\ inflight \in Nat
  BY DEF RouteInv, RouteTypeOK
<1>4. counted[r] = IF r \in Counted THEN 1 ELSE 0
  BY DEF RouteInv, OutcomeCountedOnce
<1> USE DEF Goto, Count
<1>a. CASE BeginPlan(r)
  <2>1. req[r] = "free" /\ req'[r] = "planning"
    BY <1>a, <1>3 DEF BeginPlan
  <2> QED BY <1>a, <1>2, <1>3, <1>4, <2>1, Membership DEF BeginPlan
<1>b. CASE EndPlan(r)
  <2>1. req[r] = "planning" /\ req'[r] = "free"
    BY <1>b, <1>3 DEF EndPlan
  <2> QED BY <1>b, <1>2, <1>3, <1>4, <2>1, Membership DEF EndPlan
<1>c. CASE RefuseInvalid(r)
  <2>1. /\ req[r] = "free" /\ req'[r] = "answered"
        /\ counted'[r] = counted[r] + 1 /\ inflight' = inflight
    BY <1>c, <1>3 DEF RefuseInvalid
  <2>2. r \notin InGauge /\ r \notin InGauge' /\ r \notin Counted /\ r \in Counted'
    BY <2>1, Membership
  <2> QED BY <1>2, <1>3, <1>4, <2>1, <2>2
<1>d. CASE TryAcquire(r)
  <2>1. req[r] = "free" /\ req'[r] \in {"refusing", "running"}
    BY <1>d, <1>3 DEF TryAcquire
  <2> QED BY <1>d, <1>2, <1>3, <1>4, <2>1, Membership DEF TryAcquire
<1>e. CASE RollBack(r)
  <2>1. req[r] = "refusing" /\ req'[r] = "free"
    BY <1>e, <1>3 DEF RollBack
  <2> QED BY <1>e, <1>2, <1>3, <1>4, <2>1, Membership DEF RollBack, RolledBack
<1>f. CASE Complete(r) \/ Fail(r)
  <2>1. /\ req[r] = "running" /\ req'[r] = "unwinding" /\ armed'[r] = FALSE
        /\ counted'[r] = counted[r] + 1 /\ inflight' = inflight
    BY <1>f, <1>3 DEF Complete, Fail, Disarm
  <2>2. r \in InGauge /\ r \in InGauge' /\ r \notin Counted /\ r \in Counted'
    BY <2>1, Membership
  <2> QED BY <1>2, <1>3, <1>4, <2>1, <2>2
<1>g. CASE DropFuture(r)
  <2>1. req[r] = "running" /\ req'[r] = "unwinding" /\ armed'[r] = TRUE
    BY <1>g, <1>3 DEF DropFuture, RouteInv, RunningArmed
  <2> QED BY <1>g, <1>2, <1>3, <1>4, <2>1, Membership DEF DropFuture
<1>h. CASE DropOutcomeGuard(r)
  <2>1. req[r] = "unwinding" /\ req'[r] = "releasing" /\ inflight' = inflight
    BY <1>h, <1>3 DEF DropOutcomeGuard
  <2>2. CASE armed[r]
    <3>1. counted'[r] = counted[r] + 1 BY <1>h, <1>3, <2>2 DEF DropOutcomeGuard
    <3>2. r \in InGauge /\ r \in InGauge' /\ r \notin Counted /\ r \in Counted'
      BY <2>1, <2>2, Membership
    <3> QED BY <1>2, <1>3, <1>4, <2>1, <3>1, <3>2
  <2>3. CASE ~armed[r]
    <3>1. counted'[r] = counted[r] BY <1>h, <2>3 DEF DropOutcomeGuard
    <3>2. r \in InGauge /\ r \in InGauge' /\ r \in Counted /\ r \in Counted'
      BY <2>1, <2>3, Membership
    <3> QED BY <1>2, <1>3, <1>4, <2>1, <3>1, <3>2
  <2> QED BY <2>2, <2>3
<1>i. CASE DropInflightGuard(r)
  <2>1. req[r] = "releasing" /\ req'[r] = "answered"
    BY <1>i, <1>3 DEF DropInflightGuard
  <2> QED BY <1>i, <1>2, <1>3, <1>4, <2>1, Membership DEF DropInflightGuard
<1>j. CASE LoggerExits(r)
  <2>1. req'[r] = req[r] /\ armed'[r] = armed[r]
    BY <1>j DEF LoggerExits
  <2> QED BY <1>j, <1>2, <1>3, <1>4, <2>1, Membership DEF LoggerExits
<1>k. CASE Recycle(r)
  <2>1. /\ req[r] = "answered" /\ req'[r] = "free"
        /\ counted'[r] = 0 /\ inflight' = inflight
    BY <1>k, <1>3 DEF Recycle
  <2> QED BY <1>2, <1>3, <2>1, Membership
<1> QED
  BY <1>a, <1>b, <1>c, <1>d, <1>e, <1>f, <1>g, <1>h, <1>i, <1>j, <1>k
  DEF RouteStep

\* The limit: a scan is admitted only below it, and the gauge it was
\* compared with is at least the number of admitted scans.
LEMMA AdmissionStep ==
  ASSUME RouteInv, NEW r \in Requests, RouteStep(r)
  PROVE  AdmissionBounded'
<1>1. \A q \in Requests \ {r} : req'[q] = req[q] /\ armed'[q] = armed[q]
  BY RouteStepFrame
<1>2. /\ Cardinality(Admitted) \in Nat /\ Cardinality(InGauge) \in Nat
      /\ Cardinality(Admitted) <= Cardinality(InGauge)
      /\ Cardinality(Admitted') = Cardinality(Admitted)
              + (IF r \in Admitted' /\ r \notin Admitted THEN 1 ELSE 0)
              - (IF r \in Admitted /\ r \notin Admitted' THEN 1 ELSE 0)
  BY <1>1, CardinalitiesMove, SetsFinite
<1>3. CASE r \in Admitted' /\ r \notin Admitted
  <2>1. req[r] \notin {"running", "unwinding", "releasing"}
        /\ req'[r] \in {"running", "unwinding", "releasing"}
    BY <1>3, Membership
  <2>2. TryAcquire(r) /\ ~OverLimit(inflight)
    BY <2>1 DEF RouteStep, BeginPlan, EndPlan, RefuseInvalid, TryAcquire,
      RollBack, Complete, Fail, DropFuture, DropOutcomeGuard, Recycle,
      DropInflightGuard, LoggerExits, Goto, RouteInv, RouteTypeOK, ReqStates
  <2>3. MaxInflight > 0 => inflight + 1 <= MaxInflight
    BY <2>2, MaxInflightAssumption DEF OverLimit, RouteInv, RouteTypeOK
  <2>4. inflight = Cardinality(InGauge) BY DEF RouteInv, GaugeExact
  <2> QED BY <1>2, <1>3, <2>3, <2>4, MaxInflightAssumption DEF AdmissionBounded
<1>4. CASE ~(r \in Admitted' /\ r \notin Admitted)
  BY <1>2, <1>4, MaxInflightAssumption DEF RouteInv, AdmissionBounded
<1> QED BY <1>3, <1>4

\* Every step of the routes preserves the invariant.
LEMMA RouteInvStep ==
  ASSUME RouteInv, [RouteNext]_routeVars
  PROVE  RouteInv'
<1>1. CASE UNCHANGED routeVars
  <2>1. Admitted' = Admitted /\ InGauge' = InGauge /\ Counted' = Counted
    BY <1>1 DEF routeVars, Admitted, InGauge, Counted
  <2> QED
    BY <1>1, <2>1 DEF routeVars, RouteInv, RouteTypeOK, RunningArmed,
      GaugeExact, AdmissionBounded, OutcomeCountedOnce
<1>2. CASE RouteNext
  <2>1. PICK r \in Requests : RouteStep(r) BY <1>2 DEF RouteNext
  <2>2. /\ inflight' \in Int
        /\ inflight' - inflight = Cardinality(InGauge') - Cardinality(InGauge)
        /\ counted'[r] = IF r \in Counted' THEN 1 ELSE 0
    BY <2>1, RouteStepCounts
  <2>3. Cardinality(InGauge) \in Nat /\ Cardinality(InGauge') \in Nat
    <3>1. Cardinality(InGauge) \in Nat
      BY SetsFinite
    <3>2. InGauge' \subseteq Requests
      BY DEF InGauge, Admitted
    <3>3. IsFiniteSet(InGauge')
      BY <3>2, RequestsAssumption, FS_Subset
    <3> QED BY <3>1, <3>3, FS_CardinalityType
  <2>4. inflight' = Cardinality(InGauge')
    BY <2>2, <2>3 DEF RouteInv, RouteTypeOK, GaugeExact
  <2>5. OutcomeCountedOnce'
    <3> SUFFICES ASSUME NEW q \in Requests
                 PROVE  counted'[q] = IF q \in Counted' THEN 1 ELSE 0
      BY DEF OutcomeCountedOnce
    <3>1. CASE q = r BY <2>2, <3>1
    <3>2. CASE q # r
      <4>1. req'[q] = req[q] /\ armed'[q] = armed[q] /\ counted'[q] = counted[q]
        BY <2>1, <3>2, RouteStepFrame
      <4>2. q \in Counted' <=> q \in Counted
        BY <4>1, Membership
      <4> QED BY <4>1, <4>2 DEF RouteInv, OutcomeCountedOnce
    <3> QED BY <3>1, <3>2
  <2>6. RouteTypeOK'
    BY <2>1, <2>3, <2>4, RouteStepFrame DEF RouteTypeOK
  <2> QED
    BY <2>1, <2>4, <2>5, <2>6, RunningArmedStep, AdmissionStep
    DEF RouteInv, GaugeExact
<1> QED BY <1>1, <1>2

\* Every step of the server is a step of the routes or leaves them alone.
LEMMA ServerStepsAreRouteSteps ==
  ASSUME [Next]_vars
  PROVE  [RouteNext]_routeVars
<1>1. CASE UNCHANGED vars BY <1>1 DEF vars
<1>2. ASSUME NEW r \in Requests, ScanStep(r)
      PROVE  [RouteNext]_routeVars
  <2>1. CASE PlainRoute(r) BY <1>2, <2>1 DEF PlainRoute, RouteNext, RouteStep
  <2>2. CASE StartScan(r) \/ StartPlan(r) \/ PlanEnds(r)
    BY <1>2, <2>2 DEF StartScan, StartPlan, PlanEnds, RouteNext, RouteStep
  <2>3. CASE SinkCall(r) \/ SinkReturns(r)
    BY <1>2, <2>3 DEF SinkCall, SinkReturns
  <2>4. CASE ScanCompletes(r) BY <1>2, <2>4 DEF ScanCompletes, RouteNext, RouteStep
  <2>5. CASE ScanDropped(r) BY <1>2, <2>5 DEF ScanDropped, RouteNext, RouteStep
  <2>6. CASE \E c \in {"client", "server", "sink"} : ScanFails(r, c)
    BY <1>2, <2>6 DEF ScanFails, RouteNext, RouteStep
  <2> QED BY <1>2, <2>1, <2>2, <2>3, <2>4, <2>5, <2>6 DEF ScanStep
<1>3. CASE ProbeStep
  BY <1>3 DEF ProbeStep, BeginCycle, ConfigRead, Parsed, Built, NotBuilt, Lock,
    SkipProbe, ProbeEnds, CyclePanics, ProbeTaskExits
<1>4. CASE ShutdownStep
  BY <1>4 DEF ShutdownStep, Signal, GracefulDone, ProbeJoined, ForceExit
<1>5. CASE \E s \in {"up", "down", "hung"} : SinkChanges(s)
  BY <1>5 DEF SinkChanges
<1>6. CASE \E f \in {"good", "bad", "hung"} : FilesChange(f)
  BY <1>6 DEF FilesChange
<1>7. CASE Clock BY <1>7 DEF Clock
<1>8. CASE Exited BY <1>8 DEF Exited, vars
<1> QED BY <1>1, <1>2, <1>3, <1>4, <1>5, <1>6, <1>7, <1>8 DEF Next

-----------------------------------------------------------------------------
(* Theorems *)

\* The inductive invariant holds of the whole server, whatever the sink, the
\* probe task, the clock and the shutdown do.
THEOREM RouteInvariant == Spec => []RouteInv
<1>1. Init => RouteInv BY RouteInvInit DEF Init
<1>2. RouteInv /\ [Next]_vars => RouteInv'
  BY RouteInvStep, ServerStepsAreRouteSteps
<1> QED BY <1>1, <1>2, PTL DEF Spec

\* No interleaving of speculative increments, rollbacks, releases and
\* dropped handlers lets more than max_inflight_scans scans run.
THEOREM LimitHolds == Spec => []AdmissionBounded
<1>1. RouteInv => AdmissionBounded BY DEF RouteInv
<1> QED BY <1>1, RouteInvariant, PTL

\* The in-flight gauge is exact at every moment: no path leaks a slot.
THEOREM NoSlotLeaks == Spec => []GaugeExact
<1>1. RouteInv => GaugeExact BY DEF RouteInv
<1> QED BY <1>1, RouteInvariant, PTL

\* The scan counters hold every accepted or invalid scan exactly once, also
\* one whose handler the request timeout dropped.
THEOREM CountedExactlyOnce == Spec => []OutcomeCountedOnce
<1>1. RouteInv => OutcomeCountedOnce BY DEF RouteInv
<1> QED BY <1>1, RouteInvariant, PTL

-----------------------------------------------------------------------------
(* The probe task and its stamp *)

(***************************************************************************)
(* How old the tick stamp can be at each place of a cycle: the bounded     *)
(* awaits of a cycle and its unbounded parse add up, and a ticker that is  *)
(* not due has not passed a grid point since the last tick, so the stamp   *)
(* is no older than the phase.  The age saturates where parseTime does.    *)
(***************************************************************************)
TickTypes ==
  /\ due \in BOOLEAN
  /\ booted \in BOOLEAN
  /\ probe \in ProbeStates
  /\ slot => probe \notin BuildStates

TickAges ==
  /\ await \in 0 .. ProbeTimeout
  /\ phase \in 0 .. Interval - 1
  /\ tickAge \in 0 .. StaleAfter + 1
  /\ parseTime \in Nat
  /\ ~booted => tickAge = 0
  /\ probe = "idle" => booted
  /\ probe # "exited" /\ ~due => tickAge <= phase
  /\ probe \in BuildStates => tickAge <= await + parseTime
  /\ probe = "locking" => tickAge <= ProbeTimeout + await + parseTime
  /\ probe = "probing" => tickAge <= 2 * ProbeTimeout + await + parseTime
  /\ probe = "idle" => tickAge <= 3 * ProbeTimeout + parseTime \/ tickAge <= Interval

TickInv == TickTypes /\ TickAges

\* The constants as numbers.
LEMMA TimesAreNumbers ==
  /\ Interval \in Nat /\ Interval > 0
  /\ ProbeTimeout \in Nat /\ ProbeTimeout > 0
  /\ LongestLegitimateCycle \in Nat /\ StaleAfter \in Nat
  /\ LongestLegitimateCycle = Interval + 3 * ProbeTimeout
  /\ StaleAfter = 3 * LongestLegitimateCycle
BY TimesAssumption DEF LongestLegitimateCycle, StaleAfter

\* The startup begins with its build and no stamp.
LEMMA TickInvInit ==
  ASSUME Init PROVE TickInv
<1>1. /\ due = FALSE /\ booted = FALSE /\ probe = "reading" /\ slot = FALSE
      /\ await = 0 /\ phase = 0 /\ tickAge = 0 /\ parseTime = 0
  BY DEF Init
<1>2. TickTypes BY <1>1 DEF TickTypes, ProbeStates, BuildStates
<1>3. TickAges BY <1>1, TimesAreNumbers DEF TickAges, BuildStates
<1> QED BY <1>2, <1>3 DEF TickInv

\* The first await of a cycle starts with a fresh stamp.
LEMMA TickInvBegin ==
  ASSUME TickInv, BeginCycle PROVE TickInv'
<1>1. probe' = IF slot THEN "locking" ELSE "reading" BY DEF BeginCycle, FirstAwait
<1>2. /\ tickAge' = 0 /\ await' = 0 /\ due' = FALSE /\ booted' = booted
      /\ parseTime' = 0 /\ phase' = phase /\ slot' = slot
  BY DEF BeginCycle, clockVars
<1>3. TickTypes' BY <1>1, <1>2 DEF TickInv, TickTypes, ProbeStates, BuildStates
<1>4. TickAges' BY <1>1, <1>2, TimesAreNumbers DEF TickInv, TickAges, BuildStates
<1> QED BY <1>3, <1>4 DEF TickInv

\* One wait of a cycle follows another.
LEMMA TickInvNextAwait ==
  ASSUME TickInv, ConfigRead \/ Parsed \/ Built \/ Lock PROVE TickInv'
<1>1. CASE ConfigRead \/ Parsed
  <2>1. /\ probe \in BuildStates /\ probe' \in BuildStates
        /\ await' = await /\ parseTime' = parseTime /\ tickAge' = tickAge
        /\ due' = due /\ booted' = booted /\ phase' = phase /\ slot' = slot
    BY <1>1 DEF ConfigRead, Parsed, BuildStates, clockVars
  <2>2. TickTypes' BY <2>1 DEF TickInv, TickTypes, ProbeStates
  <2>3. TickAges' BY <2>1, TimesAreNumbers DEF TickInv, TickAges, BuildStates
  <2> QED BY <2>2, <2>3 DEF TickInv
<1>2. CASE Built
  <2>1. /\ probe = "building" /\ probe' = "locking" /\ await' = 0
        /\ parseTime' = parseTime /\ tickAge' = tickAge
        /\ due' = due /\ booted' = booted /\ phase' = phase
    BY <1>2 DEF Built, clockVars
  <2>2. TickTypes' BY <2>1 DEF TickInv, TickTypes, ProbeStates, BuildStates
  <2>3. TickAges' BY <2>1, TimesAreNumbers DEF TickInv, TickAges, BuildStates
  <2> QED BY <2>2, <2>3 DEF TickInv
<1>3. CASE Lock
  <2>1. /\ probe = "locking" /\ probe' = "probing" /\ await' = 0
        /\ parseTime' = parseTime /\ tickAge' = tickAge
        /\ due' = due /\ booted' = booted /\ phase' = phase
    BY <1>3 DEF Lock, clockVars
  <2>2. TickTypes' BY <2>1 DEF TickInv, TickTypes, ProbeStates, BuildStates
  <2>3. TickAges' BY <2>1, TimesAreNumbers DEF TickInv, TickAges, BuildStates
  <2> QED BY <2>2, <2>3 DEF TickInv
<1> QED BY <1>1, <1>2, <1>3

\* A cycle ends within three timeouts and its parse, or ends the startup.
LEMMA TickInvEnd ==
  ASSUME TickInv, probe \in BuildStates \cup {"locking", "probing"}, EndCycle
  PROVE  TickInv'
<1>1. tickAge <= 3 * ProbeTimeout + parseTime
  BY TimesAreNumbers DEF TickInv, TickAges, BuildStates
<1>2. CASE booted
  <2>1. /\ probe' = "idle" /\ await' = 0 /\ booted' = booted /\ phase' = phase
        /\ due' = due /\ tickAge' = tickAge /\ parseTime' = parseTime
    BY <1>2 DEF EndCycle
  <2>2. TickTypes' BY <2>1 DEF TickInv, TickTypes, ProbeStates, BuildStates
  <2>3. TickAges'
    BY <1>1, <1>2, <2>1, TimesAreNumbers DEF TickInv, TickAges, BuildStates
  <2> QED BY <2>2, <2>3 DEF TickInv
<1>3. CASE ~booted
  <2>1. /\ probe' = "idle" /\ await' = 0 /\ booted' = TRUE /\ phase' = 0
        /\ due' = FALSE /\ tickAge' = 0 /\ parseTime' = 0
    BY <1>3 DEF EndCycle, Boot
  <2>2. TickTypes' BY <2>1 DEF TickInv, TickTypes, ProbeStates, BuildStates
  <2>3. TickAges' BY <2>1, TimesAreNumbers DEF TickInv, TickAges, BuildStates
  <2> QED BY <2>2, <2>3 DEF TickInv
<1> QED BY <1>2, <1>3

\* An age grows by d or to its limit.
LEMMA OlderBounds ==
  ASSUME NEW limit \in Nat, NEW age \in 0 .. limit, NEW d \in Nat
  PROVE  /\ Older(age, d, limit) \in 0 .. limit
         /\ age <= Older(age, d, limit) /\ Older(age, d, limit) <= age + d
         /\ Older(age, d, limit) < limit => Older(age, d, limit) = age + d
BY DEF Older

\* A phase that does not reach the end of the interval just grows.
LEMMA PhaseMoves ==
  ASSUME phase \in 0 .. Interval - 1, NEW d \in Nat
  PROVE  /\ NextPhase(d) \in 0 .. Interval - 1
         /\ phase + d < Interval => NextPhase(d) = phase + d
BY TimesAreNumbers DEF NextPhase

\* Time passes only while no await has reached its timeout and the idle
\* task has no tick to take; in a parse it passes without such a limit.
LEMMA TickInvClock ==
  ASSUME TickInv, Clock PROVE TickInv'
<1>1. /\ probe' = probe /\ booted' = booted /\ slot' = slot
      /\ await \in 0 .. ProbeTimeout /\ phase \in 0 .. Interval - 1
      /\ tickAge \in 0 .. StaleAfter + 1 /\ parseTime \in Nat
  BY DEF Clock, TickInv, TickAges
<1>2. PICK d \in Nat : (probe # "parsing" => d = 1) /\ Elapse(d)
  BY TimesAssumption DEF Clock
<1>3. d \in Nat /\ (probe # "parsing" => d = 1)
  BY <1>2
<1>4. /\ tickAge' \in 0 .. StaleAfter + 1 /\ tickAge' <= tickAge + d
      /\ ~booted => tickAge' = 0
  <2>1. StaleAfter + 1 \in Nat BY TimesAreNumbers
  <2>2. CASE booted
    <3>1. tickAge' = Older(tickAge, d, StaleAfter + 1) BY <1>2, <2>2 DEF Elapse
    <3> QED BY <1>1, <1>3, <2>1, <2>2, <3>1, OlderBounds
  <2>3. CASE ~booted
    <3>1. tickAge' = tickAge /\ tickAge = 0
      BY <1>2, <2>3 DEF Elapse, TickInv, TickAges
    <3> QED BY <1>1, <1>3, <3>1
  <2> QED BY <2>2, <2>3
<1>5. TickTypes'
  <2>1. due' \in BOOLEAN BY <1>2 DEF Elapse
  <2> QED BY <1>1, <2>1 DEF TickInv, TickTypes
<1>6. /\ phase' \in 0 .. Interval - 1
      /\ booted /\ phase + d < Interval => phase' = phase + d
      /\ ~booted => phase' = phase
  BY <1>1, <1>2, <1>3, PhaseMoves DEF Elapse
<1>7. ~due' => ~due /\ (booted /\ probe # "exited" => ~(phase + d >= Interval))
  BY <1>2 DEF Elapse
<1>8. probe' # "exited" /\ ~due' => tickAge' <= phase'
  BY <1>1, <1>3, <1>4, <1>6, <1>7, TimesAreNumbers DEF TickInv, TickAges
<1>a. CASE probe \in {"reading", "building", "locking", "probing"}
  <2>1. await # ProbeTimeout
    BY <1>a DEF Clock, Urgent, LockTimedOut
  <2>2. await' = await + 1 /\ await' \in 0 .. ProbeTimeout /\ parseTime' = parseTime
    BY <1>1, <1>2, <1>3, <1>a, <2>1, TimesAreNumbers DEF Elapse, Older
  <2>3. TickAges'
    BY <1>1, <1>3, <1>4, <1>6, <1>8, <1>a, <2>2, TimesAreNumbers
    DEF TickInv, TickAges, BuildStates
  <2> QED BY <1>5, <2>3 DEF TickInv
<1>b. CASE probe = "parsing"
  <2>1. await' \in 0 .. ProbeTimeout /\ await <= await'
    BY <1>1, <1>2, <1>3, <1>b, TimesAreNumbers, OlderBounds DEF Elapse
  <2>2. /\ parseTime' \in Nat
        /\ parseTime' = parseTime + d \/ parseTime' = StaleAfter + 1
    BY <1>1, <1>2, <1>3, <1>b, TimesAreNumbers DEF Elapse, Older
  <2>3. tickAge <= await + parseTime
    BY <1>b DEF TickInv, TickAges, BuildStates
  <2>4. tickAge' <= await' + parseTime'
    <3>1. PICK t \in Nat, w \in Nat, p \in Nat :
            t = tickAge' /\ w = await' /\ p = parseTime'
      BY <1>4, <2>1, <2>2, TimesAreNumbers
    <3>2. /\ t <= tickAge + d /\ t <= StaleAfter + 1 /\ await <= w
          /\ p = parseTime + d \/ p = StaleAfter + 1
      BY <1>4, <2>1, <2>2, <3>1
    <3>3. t <= w + p
      BY <1>1, <1>3, <2>3, <3>2, TimesAreNumbers
    <3> QED BY <3>1, <3>3
  <2>5. TickAges'
    BY <1>1, <1>4, <1>6, <1>8, <1>b, <2>1, <2>2, <2>4 DEF TickInv, TickAges, BuildStates
  <2> QED BY <1>5, <2>5 DEF TickInv
<1>c. CASE probe = "idle"
  <2>1. ~due BY <1>c DEF Clock, Urgent
  <2>2. await' = await /\ parseTime' = parseTime BY <1>2, <1>c DEF Elapse
  <2>3. tickAge <= Interval - 1
    BY <1>1, <1>c, <2>1, TimesAreNumbers DEF TickInv, TickAges
  <2>4. TickAges'
    BY <1>1, <1>3, <1>4, <1>6, <1>8, <1>c, <2>2, <2>3, TimesAreNumbers
    DEF TickInv, TickAges, BuildStates
  <2> QED BY <1>5, <2>4 DEF TickInv
<1>d. CASE probe = "exited"
  <2>1. await' = await /\ parseTime' = parseTime BY <1>2, <1>d DEF Elapse
  <2>2. TickAges'
    BY <1>1, <1>4, <1>6, <1>d, <2>1 DEF TickInv, TickAges, BuildStates
  <2> QED BY <1>5, <2>2 DEF TickInv
<1> QED BY <1>a, <1>b, <1>c, <1>d DEF TickInv, TickTypes, ProbeStates, BuildStates

\* Steps that leave the probe task and the clock alone.
LEMMA TickInvFrame ==
  ASSUME TickInv,
         UNCHANGED <<slot, probe, booted, await, parseTime, phase, due, tickAge>>
  PROVE  TickInv'
<1>1. TickTypes' BY DEF TickInv, TickTypes
<1>2. TickAges' BY DEF TickInv, TickAges
<1> QED BY <1>1, <1>2 DEF TickInv

\* Every step of the server preserves the bound on the stamp's age.
LEMMA TickInvStep ==
  ASSUME TickInv, [Next]_vars
  PROVE  TickInv'
<1> DEFINE Frame == UNCHANGED <<slot, probe, booted, await, parseTime, phase, due,
                                tickAge>>
<1>1. CASE UNCHANGED vars
  <2>1. Frame BY <1>1 DEF vars, probeVars, clockVars
  <2> QED BY <2>1, TickInvFrame
<1>2. ASSUME NEW r \in Requests, ScanStep(r) PROVE TickInv'
  <2>1. Frame
    BY <1>2 DEF ScanStep, PlainRoute, StartPlan, PlanEnds, StartScan, SinkCall,
      SinkReturns, ScanCompletes, ScanDropped, ScanFails, probeVars, clockVars
  <2> QED BY <2>1, TickInvFrame
<1>3. CASE ProbeStep
  <2>1. CASE BeginCycle BY <2>1, TickInvBegin
  <2>2. CASE ConfigRead \/ Parsed \/ Built \/ Lock BY <2>2, TickInvNextAwait
  <2>3. CASE NotBuilt \/ SkipProbe \/ ProbeEnds \/ CyclePanics
    <3>1. probe \in BuildStates \cup {"locking", "probing"} /\ EndCycle
      BY <2>3 DEF NotBuilt, BuildFails, SkipProbe, ProbeEnds, CyclePanics, BuildStates
    <3> QED BY <3>1, TickInvEnd
  <2>4. CASE ProbeTaskExits
    <3>1. /\ probe' = "exited"
          /\ UNCHANGED <<slot, booted, await, parseTime, phase, due, tickAge>>
      BY <2>4 DEF ProbeTaskExits, clockVars
    <3>2. TickTypes' BY <3>1 DEF TickInv, TickTypes, ProbeStates, BuildStates
    <3>3. TickAges' BY <3>1 DEF TickInv, TickAges, BuildStates
    <3> QED BY <3>2, <3>3 DEF TickInv
  <2> QED BY <1>3, <2>1, <2>2, <2>3, <2>4 DEF ProbeStep
<1>4. CASE ShutdownStep
  <2>1. Frame
    BY <1>4 DEF ShutdownStep, Signal, GracefulDone, ProbeJoined, ForceExit,
      probeVars, clockVars
  <2> QED BY <2>1, TickInvFrame
<1>5. CASE \E s \in {"up", "down", "hung"} : SinkChanges(s)
  <2>1. Frame BY <1>5 DEF SinkChanges, probeVars, clockVars
  <2> QED BY <2>1, TickInvFrame
<1>6. CASE \E f \in {"good", "bad", "hung"} : FilesChange(f)
  <2>1. Frame BY <1>6 DEF FilesChange, probeVars, clockVars
  <2> QED BY <2>1, TickInvFrame
<1>7. CASE Clock BY <1>7, TickInvClock
<1>8. CASE Exited
  <2>1. Frame BY <1>8 DEF Exited, vars, probeVars, clockVars
  <2> QED BY <2>1, TickInvFrame
<1> QED BY <1>1, <1>2, <1>3, <1>4, <1>5, <1>6, <1>7, <1>8 DEF Next

\* For every interval, every timeout and reads of any length: whoever holds
\* the sink lock, whatever hangs or panics, only the !file reads of a build
\* delay a tick beyond the longest legitimate cycle, by no more than they
\* take, and an attached sink is never built again.
THEOREM StallsOnlyInReads == Spec => []StallsOnlyInFileReads
<1>1. Init => TickInv BY TickInvInit
<1>2. TickInv /\ [Next]_vars => TickInv' BY TickInvStep
<1>3. TickInv => StallsOnlyInFileReads
  <2> SUFFICES ASSUME TickInv, probe # "exited"
               PROVE  /\ tickAge <= LongestLegitimateCycle + parseTime
                      /\ ReadyReason = "sink_probe_stalled" =>
                           parseTime > 2 * LongestLegitimateCycle
                      /\ slot => probe \notin BuildStates
    BY DEF StallsOnlyInFileReads
  <2>1. tickAge \in Nat /\ parseTime \in Nat
    BY TimesAreNumbers DEF TickInv, TickAges
  <2>2. tickAge <= LongestLegitimateCycle + parseTime
    BY <2>1, TimesAreNumbers DEF TickInv, TickTypes, TickAges, ProbeStates, BuildStates
  <2>3. ProbeStalled => parseTime > 2 * LongestLegitimateCycle
    BY <2>1, <2>2, TimesAreNumbers DEF ProbeStalled
  <2>4. ReadyReason = "sink_probe_stalled" => ProbeStalled
    BY DEF ReadyReason
  <2>5. slot => probe \notin BuildStates
    BY DEF TickInv, TickTypes
  <2> QED BY <2>2, <2>3, <2>4, <2>5
<1> QED BY <1>1, <1>2, <1>3, PTL DEF Spec

-----------------------------------------------------------------------------
(* The queue of the sink lock *)

(***************************************************************************)
(* Who is in the queue, and that the probe task is at its head while it    *)
(* probes: a scan that leaves the queue from behind must not unseat it.    *)
(***************************************************************************)
LockInv ==
  /\ lockQ \in Seq(Requests \cup {Probe})
  /\ req \in [Requests -> ReqStates]
  /\ sees \subseteq Requests
  /\ LockOwnersAlive
  /\ probe = "probing" => Holds(Probe)

\* A request that may be in the queue.
MayQueue(state, r) == state[r] \in {"running", "planning"}

\* Who owns entry i, and that nobody is queued twice, as two facts.
Owned(q, seen, state, at) ==
  \A i \in DOMAIN q : \/ q[i] = Probe /\ at \in {"locking", "probing"}
                      \/ q[i] \in seen /\ MayQueue(state, q[i])
Distinct(q) == \A i, j \in DOMAIN q : q[i] = q[j] => i = j

LEMMA OwnersAsFacts ==
  /\ LockOwnersAlive <=> Owned(lockQ, sees, req, probe) /\ Distinct(lockQ)
  /\ LockOwnersAlive' <=> Owned(lockQ', sees', req', probe') /\ Distinct(lockQ')
  BY DEF LockOwnersAlive, Owned, Distinct, MayQueue

\* What joining the queue does.
LEMMA Joined ==
  ASSUME NEW S, NEW q \in Seq(S), NEW p \in S
  PROVE  /\ Append(q, p) \in Seq(S)
         /\ Len(q) \in Nat /\ DOMAIN q = 1 .. Len(q)
         /\ DOMAIN Append(q, p) = 1 .. (Len(q) + 1)
         /\ Append(q, p)[Len(q) + 1] = p
         /\ \A i \in 1 .. Len(q) : Append(q, p)[i] = q[i]
         /\ q # <<>> => Append(q, p) # <<>> /\ Head(Append(q, p)) = Head(q)
  OBVIOUS

\* What leaving it from place n does.
LEMMA RemovedAt ==
  ASSUME NEW S, NEW q \in Seq(S), NEW n \in 1 .. Len(q)
  PROVE  LET t == RemoveAt(q, n)
         IN /\ t \in Seq(S) /\ Len(q) \in Nat /\ DOMAIN q = 1 .. Len(q)
            /\ DOMAIN t = 1 .. (Len(q) - 1)
            /\ \A i \in 1 .. (Len(q) - 1) : t[i] = IF i < n THEN q[i] ELSE q[i + 1]
  <1> DEFINE m == Len(q)
             a == SubSeq(q, 1, n - 1)
             b == SubSeq(q, n + 1, m)
  <1>1. /\ m \in Nat /\ n \in Nat /\ 1 <= n /\ n <= m /\ DOMAIN q = 1 .. m
        /\ \A i \in 1 .. m : q[i] \in S
    OBVIOUS
  <1>2. /\ a \in Seq(S) /\ Len(a) = n - 1 /\ \A i \in 1 .. (n - 1) : a[i] = q[i]
    <2>1. n - 1 \in Int /\ 1 \in Int /\ \A i \in 1 .. (n - 1) : q[i] \in S
      BY <1>1
    <2>2. /\ a \in Seq(S)
          /\ Len(a) = IF 1 <= n - 1 THEN (n - 1) - 1 + 1 ELSE 0
          /\ \A i \in 1 .. ((n - 1) - 1 + 1) : a[i] = q[1 + i - 1]
      BY <2>1, SubSeqProperties
    <2> HIDE DEF a
    <2> QED BY <1>1, <2>2
  <1>3. /\ b \in Seq(S) /\ Len(b) = m - n /\ \A i \in 1 .. (m - n) : b[i] = q[n + i]
    <2>1. n + 1 \in Int /\ m \in Int /\ \A i \in (n + 1) .. m : q[i] \in S
      BY <1>1
    <2>2. /\ b \in Seq(S)
          /\ Len(b) = IF n + 1 <= m THEN m - (n + 1) + 1 ELSE 0
          /\ \A i \in 1 .. (m - (n + 1) + 1) : b[i] = q[(n + 1) + i - 1]
      BY <2>1, SubSeqProperties
    <2> HIDE DEF b, m
    <2>3. \A i \in 1 .. (m - n) : i \in 1 .. (m - (n + 1) + 1) /\ (n + 1) + i - 1 = n + i
      BY <1>1
    <2> QED BY <1>1, <2>2, <2>3
  <1>4. RemoveAt(q, n) = a \o b
    BY DEF RemoveAt
  <1> HIDE DEF a, b, m
  <1>5. /\ a \o b \in Seq(S) /\ Len(a \o b) = (n - 1) + (m - n)
        /\ \A i \in 1 .. (n - 1) : (a \o b)[i] = a[i]
        /\ \A i \in 1 .. (m - n) : (a \o b)[(n - 1) + i] = b[i]
        /\ DOMAIN (a \o b) = 1 .. Len(a \o b)
    <2> DEFINE c == a \o b
    <2>1. /\ c \in Seq(S) /\ Len(c) = Len(a) + Len(b)
          /\ \A i \in 1 .. Len(a) + Len(b) : c[i] = IF i <= Len(a) THEN a[i] ELSE b[i - Len(a)]
      BY <1>2, <1>3, ConcatProperties
    <2> HIDE DEF c
    <2>4. DOMAIN c = 1 .. Len(c)
      BY <2>1
    <2>2. \A i \in 1 .. (n - 1) : i \in 1 .. Len(a) + Len(b) /\ i <= Len(a)
      BY <1>1, <1>2, <1>3
    <2>3. \A i \in 1 .. (m - n) : /\ (n - 1) + i \in 1 .. Len(a) + Len(b)
                                  /\ ~((n - 1) + i <= Len(a)) /\ (n - 1) + i - Len(a) = i
      BY <1>1, <1>2, <1>3
    <2> QED BY <1>2, <1>3, <2>1, <2>2, <2>3, <2>4 DEF c
  <1>6. ASSUME NEW i \in 1 .. (m - 1)
        PROVE  (a \o b)[i] = IF i < n THEN q[i] ELSE q[i + 1]
    <2>1. CASE i < n
      BY <1>1, <1>2, <1>5, <2>1
    <2>2. CASE ~(i < n)
      <3>1. i - n + 1 \in 1 .. (m - n) /\ (n - 1) + (i - n + 1) = i /\ n + (i - n + 1) = i + 1
        BY <1>1, <2>2
      <3> QED BY <1>3, <1>5, <2>2, <3>1
    <2> QED BY <2>1, <2>2
  <1> QED BY <1>1, <1>4, <1>5, <1>6 DEF m

\* LeaveQueue takes out exactly the entry of p.
LEMMA LeftQueue ==
  ASSUME NEW S, lockQ \in Seq(S), Distinct(lockQ), NEW p
  PROVE  /\ LeaveQueue(p) \in Seq(S) /\ Distinct(LeaveQueue(p))
         /\ \A i \in DOMAIN LeaveQueue(p) :
              LeaveQueue(p)[i] # p /\ \E j \in DOMAIN lockQ : LeaveQueue(p)[i] = lockQ[j]
         /\ lockQ # <<>> /\ Head(lockQ) # p =>
              LeaveQueue(p) # <<>> /\ Head(LeaveQueue(p)) = Head(lockQ)
  <1>1. CASE ~InQueue(p)
    BY <1>1 DEF LeaveQueue, InQueue
  <1>2. CASE InQueue(p)
    <2> DEFINE n == CHOOSE i \in DOMAIN lockQ : lockQ[i] = p
               t == RemoveAt(lockQ, n)
               m == Len(lockQ)
    <2>1. n \in DOMAIN lockQ /\ lockQ[n] = p
      BY <1>2 DEF InQueue
    <2>2. LeaveQueue(p) = t
      BY <1>2 DEF LeaveQueue
    <2>3. DOMAIN lockQ = 1 .. m /\ m \in Nat
      OBVIOUS
    <2> HIDE DEF n
    <2>4. /\ t \in Seq(S) /\ DOMAIN t = 1 .. (m - 1)
          /\ \A i \in 1 .. (m - 1) : t[i] = IF i < n THEN lockQ[i] ELSE lockQ[i + 1]
      BY <2>1, <2>3, RemovedAt
    <2> HIDE DEF t, m
    <2> DEFINE from(i) == IF i < n THEN i ELSE i + 1
    <2>5. \A i \in DOMAIN t : from(i) \in DOMAIN lockQ /\ from(i) # n /\ t[i] = lockQ[from(i)]
      BY <2>1, <2>3, <2>4
    <2>6. \A i, j \in DOMAIN t : from(i) = from(j) => i = j
      BY <2>1, <2>3, <2>4
    <2>7. lockQ # <<>> /\ Head(lockQ) # p => t # <<>> /\ Head(t) = Head(lockQ)
      <3> SUFFICES ASSUME lockQ # <<>>, Head(lockQ) # p
                   PROVE  t # <<>> /\ Head(t) = Head(lockQ)
        OBVIOUS
      <3>1. Head(lockQ) = lockQ[1]
        OBVIOUS
      <3>2. n # 1 /\ n \in 1 .. m
        BY <2>1, <2>3, <3>1
      <3>3. 1 \in DOMAIN t /\ t[1] = lockQ[1]
        BY <2>3, <2>4, <3>2
      <3>4. t # <<>>
        BY <3>3
      <3>5. Head(t) = t[1]
        BY <2>4, <3>4
      <3> QED BY <3>1, <3>3, <3>4, <3>5
    <2> HIDE DEF from
    <2>8. Distinct(t)
      BY <2>5, <2>6 DEF Distinct
    <2>9. \A i \in DOMAIN t : t[i] # p /\ \E j \in DOMAIN lockQ : t[i] = lockQ[j]
      BY <2>1, <2>5 DEF Distinct
    <2> QED BY <2>2, <2>4, <2>7, <2>8, <2>9
  <1> QED BY <1>1, <1>2

LEMMA LockInvInit ==
  ASSUME Init PROVE LockInv
<1>1. /\ lockQ = <<>> /\ sees = {} /\ probe = "reading"
      /\ req = [r \in Requests |-> "free"]
  BY DEF Init, RouteInit
<1> QED BY <1>1 DEF LockInv, LockOwnersAlive, ReqStates

\* Steps that leave the queue alone: nobody in it stops running or seeing.
LEMMA QueueStays ==
  ASSUME LockInv, lockQ' = lockQ, req' \in [Requests -> ReqStates],
         sees' \subseteq Requests,
         \A r \in sees : MayQueue(req, r) /\ InQueue(r) => r \in sees' /\ MayQueue(req', r),
         \/ probe' = probe
         \/ probe = "locking" /\ probe' = "probing" /\ Holds(Probe)
         \/ probe \notin {"locking", "probing"} /\ probe' # "probing"
  PROVE  LockInv'
<1>1. Owned(lockQ, sees, req, probe) /\ Distinct(lockQ)
  BY OwnersAsFacts DEF LockInv
<1>2. Owned(lockQ', sees', req', probe')
  <2> SUFFICES ASSUME NEW i \in DOMAIN lockQ
               PROVE  \/ lockQ[i] = Probe /\ probe' \in {"locking", "probing"}
                      \/ lockQ[i] \in sees' /\ MayQueue(req', lockQ[i])
    BY DEF Owned, MayQueue
  <2>1. InQueue(lockQ[i])
    BY DEF InQueue
  <2> QED BY <1>1, <2>1 DEF Owned, MayQueue
<1>3. probe' = "probing" => Holds(Probe)'
  BY DEF LockInv, Holds
<1> QED BY <1>1, <1>2, <1>3, OwnersAsFacts DEF LockInv, Distinct

\* A scan or the probe task joins the queue; it is not in it yet.
LEMMA QueueJoined ==
  ASSUME LockInv, NEW p \in Requests \cup {Probe}, ~InQueue(p),
         lockQ' = Append(lockQ, p),
         req' \in [Requests -> ReqStates], sees' \subseteq Requests,
         \A r \in sees \ {p} : r \in sees' /\ req'[r] = req[r],
         \/ p \in sees' /\ MayQueue(req', p) /\ probe' = probe
         \/ p = Probe /\ probe \notin {"locking", "probing"} /\ probe' = "locking"
  PROVE  LockInv'
<1> DEFINE n == Len(lockQ) + 1
<1>1. Owned(lockQ, sees, req, probe) /\ Distinct(lockQ)
  BY OwnersAsFacts DEF LockInv
<1>2. /\ lockQ' \in Seq(Requests \cup {Probe}) /\ Len(lockQ) \in Nat
      /\ DOMAIN lockQ = 1 .. Len(lockQ) /\ DOMAIN lockQ' = 1 .. (Len(lockQ) + 1)
      /\ lockQ'[n] = p
      /\ \A i \in 1 .. Len(lockQ) : lockQ'[i] = lockQ[i]
      /\ lockQ # <<>> => lockQ' # <<>> /\ Head(lockQ') = Head(lockQ)
  BY Joined DEF LockInv
<1>3. DOMAIN lockQ' = DOMAIN lockQ \cup {n} /\ n \notin DOMAIN lockQ
  BY <1>2
<1> HIDE DEF n
<1>4. Owned(lockQ', sees', req', probe')
  <2> SUFFICES ASSUME NEW i \in DOMAIN lockQ'
               PROVE  \/ lockQ'[i] = Probe /\ probe' \in {"locking", "probing"}
                      \/ lockQ'[i] \in sees' /\ MayQueue(req', lockQ'[i])
    BY DEF Owned, MayQueue
  <2>1. CASE i = n
    BY <1>2, <2>1
  <2>2. CASE i \in DOMAIN lockQ
    <3>1. lockQ'[i] = lockQ[i] /\ lockQ[i] # p
      BY <1>2, <2>2 DEF InQueue
    <3> QED BY <1>1, <2>2, <3>1 DEF Owned, MayQueue
  <2> QED BY <1>3, <2>1, <2>2
<1>5. Distinct(lockQ')
  <2>1. \A i \in DOMAIN lockQ : lockQ'[i] = lockQ[i] /\ lockQ[i] # p
    BY <1>2 DEF InQueue
  <2> QED BY <1>1, <1>2, <1>3, <2>1 DEF Distinct
<1>6. probe' = "probing" => Holds(Probe)'
  BY <1>2 DEF LockInv, Holds
<1> QED BY <1>2, <1>4, <1>5, <1>6, OwnersAsFacts DEF LockInv

\* Its guard drops, or its wait is given up.
LEMMA QueueLeft ==
  ASSUME LockInv, NEW p \in Requests \cup {Probe}, lockQ' = LeaveQueue(p),
         req' \in [Requests -> ReqStates], sees' \subseteq Requests,
         \A r \in sees \ {p} : r \in sees' /\ (MayQueue(req, r) => MayQueue(req', r)),
         \/ p = Probe /\ probe' # "probing"
         \/ p # Probe /\ probe' = probe
  PROVE  LockInv'
<1>1. Owned(lockQ, sees, req, probe) /\ Distinct(lockQ)
  BY OwnersAsFacts DEF LockInv
<1>2. /\ lockQ' \in Seq(Requests \cup {Probe}) /\ Distinct(lockQ')
      /\ \A i \in DOMAIN lockQ' : lockQ'[i] # p /\ \E j \in DOMAIN lockQ : lockQ'[i] = lockQ[j]
      /\ lockQ # <<>> /\ Head(lockQ) # p => lockQ' # <<>> /\ Head(lockQ') = Head(lockQ)
  BY <1>1, LeftQueue DEF LockInv
<1>3. Owned(lockQ', sees', req', probe')
  <2> SUFFICES ASSUME NEW i \in DOMAIN lockQ'
               PROVE  \/ lockQ'[i] = Probe /\ probe' \in {"locking", "probing"}
                      \/ lockQ'[i] \in sees' /\ MayQueue(req', lockQ'[i])
    BY DEF Owned, MayQueue
  <2>1. PICK j \in DOMAIN lockQ : lockQ'[i] = lockQ[j]
    BY <1>2
  <2>2. lockQ[j] # p
    BY <1>2, <2>1
  <2> QED BY <1>1, <2>1, <2>2 DEF Owned, MayQueue
<1>4. probe' = "probing" => Holds(Probe)'
  BY <1>2 DEF LockInv, Holds
<1> QED BY <1>2, <1>3, <1>4, OwnersAsFacts DEF LockInv

\* The probe task is in the queue only between Append and LeaveQueue.
LEMMA ProbeAway ==
  ASSUME LockInv, probe \notin {"locking", "probing"}
  PROVE  ~InQueue(Probe)
BY ProbeAssumption DEF LockInv, LockOwnersAlive, InQueue

\* A request is in the queue only while it runs or plans.
LEMMA RequestAway ==
  ASSUME LockInv, NEW r \in Requests, ~MayQueue(req, r)
  PROVE  ~InQueue(r)
BY ProbeAssumption DEF LockInv, LockOwnersAlive, InQueue, MayQueue

LEMMA LockInvScan ==
  ASSUME LockInv, NEW r \in Requests, ScanStep(r)
  PROVE  LockInv'
<1>1. req \in [Requests -> ReqStates] /\ sees \subseteq Requests
  BY DEF LockInv
<1>2. r # Probe
  BY ProbeAssumption
<1>3. CASE PlainRoute(r)
  <2>1. /\ UNCHANGED <<sees, lockQ, probe>>
        /\ \/ UNCHANGED req
           \/ ~MayQueue(req, r) /\ \E s \in ReqStates : req' = [req EXCEPT ![r] = s]
    BY <1>3 DEF PlainRoute, RefuseInvalid, RollBack, DropOutcomeGuard, MayQueue,
      DropInflightGuard, LoggerExits, Recycle, Goto, ReqStates, probeVars
  <2> QED BY <1>1, <2>1, QueueStays DEF MayQueue
<1>4. CASE StartScan(r)
  <2>1. /\ UNCHANGED <<lockQ, probe>> /\ sees \subseteq sees' /\ sees' \subseteq Requests
        /\ ~MayQueue(req, r) /\ \E s \in ReqStates : req' = [req EXCEPT ![r] = s]
    BY <1>1, <1>4 DEF StartScan, TryAcquire, Goto, ReqStates, probeVars, MayQueue
  <2> QED BY <1>1, <2>1, QueueStays DEF MayQueue
<1>p. CASE StartPlan(r)
  <2>1. /\ ~MayQueue(req, r) /\ probe' = probe
        /\ req' = [req EXCEPT ![r] = "planning"]
        /\ \/ sees' = sees \cup {r} /\ lockQ' = Append(lockQ, r)
           \/ UNCHANGED <<sees, lockQ>>
    BY <1>p DEF StartPlan, BeginPlan, Goto, probeVars, MayQueue
  <2>2. /\ req' \in [Requests -> ReqStates] /\ MayQueue(req', r)
        /\ \A q \in Requests \ {r} : req'[q] = req[q]
    BY <1>1, <2>1 DEF ReqStates, MayQueue
  <2>3. ~InQueue(r) BY <2>1, RequestAway
  <2>4. CASE sees' = sees \cup {r} /\ lockQ' = Append(lockQ, r)
    BY <1>1, <2>1, <2>2, <2>3, <2>4, QueueJoined
  <2>5. CASE UNCHANGED <<sees, lockQ>>
    BY <1>1, <2>1, <2>2, <2>3, <2>5, QueueStays DEF MayQueue
  <2> QED BY <2>1, <2>4, <2>5
<1>q. CASE PlanEnds(r)
  <2>1. /\ lockQ' = LeaveQueue(r) /\ UNCHANGED probe /\ sees' = sees \ {r}
        /\ req' = [req EXCEPT ![r] = "free"]
    BY <1>q DEF PlanEnds, EndPlan, Goto, probeVars
  <2>2. req' \in [Requests -> ReqStates] /\ \A q \in Requests \ {r} : req'[q] = req[q]
    BY <1>1, <2>1 DEF ReqStates
  <2> QED BY <1>1, <1>2, <2>1, <2>2, QueueLeft DEF MayQueue
<1>5. CASE SinkCall(r)
  <2>1. /\ req[r] = "running" /\ r \in sees /\ ~InQueue(r)
        /\ lockQ' = Append(lockQ, r) /\ UNCHANGED <<req, sees, probe>>
    BY <1>5 DEF SinkCall, routeVars, probeVars
  <2> QED BY <1>1, <2>1, QueueJoined DEF MayQueue
<1>6. CASE SinkReturns(r)
  <2>1. lockQ' = LeaveQueue(r) /\ UNCHANGED <<req, sees, probe>>
    BY <1>6 DEF SinkReturns, routeVars, probeVars
  <2> QED BY <1>1, <1>2, <2>1, QueueLeft
<1>7. CASE ScanCompletes(r) \/ \E c \in {"client", "server", "sink"} : ScanFails(r, c)
  <2>1. /\ ~InQueue(r) /\ UNCHANGED <<lockQ, probe>> /\ sees' = sees \ {r}
        /\ req' = [req EXCEPT ![r] = "unwinding"]
    BY <1>7 DEF ScanCompletes, ScanFails, Complete, Fail, Goto, probeVars
  <2>2. req' \in [Requests -> ReqStates] /\ \A q \in Requests \ {r} : req'[q] = req[q]
    BY <1>1, <2>1 DEF ReqStates
  <2> QED BY <1>1, <2>1, <2>2, QueueStays DEF MayQueue
<1>8. CASE ScanDropped(r)
  <2>1. /\ lockQ' = LeaveQueue(r) /\ UNCHANGED probe /\ sees' = sees \ {r}
        /\ req' = [req EXCEPT ![r] = "unwinding"]
    BY <1>8 DEF ScanDropped, DropFuture, Goto, probeVars
  <2>2. req' \in [Requests -> ReqStates] /\ \A q \in Requests \ {r} : req'[q] = req[q]
    BY <1>1, <2>1 DEF ReqStates
  <2> QED BY <1>1, <1>2, <2>1, <2>2, QueueLeft DEF MayQueue
<1> QED BY <1>3, <1>4, <1>p, <1>q, <1>5, <1>6, <1>7, <1>8 DEF ScanStep

LEMMA LockInvProbe ==
  ASSUME LockInv, ProbeStep
  PROVE  LockInv'
<1>1. UNCHANGED <<req, sees>> /\ req \in [Requests -> ReqStates] /\ sees \subseteq Requests
  BY DEF ProbeStep, BeginCycle, ConfigRead, Parsed, Built, NotBuilt, Lock, SkipProbe,
    ProbeEnds, CyclePanics, ProbeTaskExits, routeVars, LockInv
<1>2. CASE BeginCycle
  <2>1. /\ probe = "idle"
        /\ \/ probe' = "locking" /\ lockQ' = Append(lockQ, Probe)
           \/ probe' = "reading" /\ lockQ' = lockQ
    BY <1>2 DEF BeginCycle, FirstAwait
  <2> QED BY <1>1, <2>1, ProbeAway, QueueJoined, QueueStays
<1>3. CASE Built
  <2>1. probe = "building" /\ probe' = "locking" /\ lockQ' = Append(lockQ, Probe)
    BY <1>3 DEF Built
  <2> QED BY <1>1, <2>1, ProbeAway, QueueJoined
<1>4. CASE ConfigRead \/ Parsed \/ NotBuilt \/ ProbeTaskExits
  <2>1. /\ probe \in BuildStates \cup {"idle"} /\ lockQ' = lockQ
        /\ probe' \in BuildStates \cup {"idle", "exited"}
    BY <1>4 DEF ConfigRead, Parsed, NotBuilt, BuildFails, ProbeTaskExits, EndCycle,
      BuildStates
  <2> QED BY <1>1, <2>1, QueueStays DEF BuildStates
<1>5. CASE Lock
  <2>1. probe = "locking" /\ Holds(Probe) /\ probe' = "probing" /\ lockQ' = lockQ
    BY <1>5 DEF Lock
  <2> QED BY <1>1, <2>1, QueueStays
<1>6. CASE SkipProbe \/ ProbeEnds \/ CyclePanics
  <2>1. probe' = "idle" /\ lockQ' = LeaveQueue(Probe)
    BY <1>6 DEF SkipProbe, ProbeEnds, CyclePanics, EndCycle
  <2> QED BY <1>1, <2>1, QueueLeft
<1> QED BY <1>2, <1>3, <1>4, <1>5, <1>6 DEF ProbeStep

\* Every step of the server keeps the queue.
LEMMA LockInvStep ==
  ASSUME LockInv, [Next]_vars
  PROVE  LockInv'
<1> DEFINE Frame == UNCHANGED <<req, sees, lockQ, probe>>
<1>1. ASSUME Frame PROVE LockInv'
  BY <1>1 DEF LockInv, LockOwnersAlive, Holds
<1>2. ASSUME NEW r \in Requests, ScanStep(r) PROVE LockInv'
  BY <1>2, LockInvScan
<1>3. CASE ProbeStep
  BY <1>3, LockInvProbe
<1>4. CASE ShutdownStep
  <2>1. Frame
    BY <1>4 DEF ShutdownStep, Signal, GracefulDone, ProbeJoined, ForceExit, probeVars,
      routeVars
  <2> QED BY <2>1, <1>1
<1>5. CASE \E s \in {"up", "down", "hung"} : SinkChanges(s)
  <2>1. Frame BY <1>5 DEF SinkChanges, probeVars, routeVars
  <2> QED BY <2>1, <1>1
<1>6. CASE \E f \in {"good", "bad", "hung"} : FilesChange(f)
  <2>1. Frame BY <1>6 DEF FilesChange, probeVars, routeVars
  <2> QED BY <2>1, <1>1
<1>7. CASE Clock
  <2>1. Frame BY <1>7 DEF Clock, routeVars
  <2> QED BY <2>1, <1>1
<1>8. CASE UNCHANGED vars
  <2>1. Frame BY <1>8 DEF vars, probeVars, routeVars
  <2> QED BY <2>1, <1>1
<1> QED BY <1>2, <1>3, <1>4, <1>5, <1>6, <1>7, <1>8 DEF Next, Exited

\* For every set of requests: the lock is only ever held or awaited by a scan
\* or a dry run that sees the sink, or by the probe task, each at most once, so
\* neither a dropped handler nor a panic nor a lock timeout leaves it taken.
THEOREM LockNeverOrphaned == Spec => []LockOwnersAlive
<1>1. Init => LockInv BY LockInvInit
<1>2. LockInv /\ [Next]_vars => LockInv' BY LockInvStep
<1>3. LockInv => LockOwnersAlive BY DEF LockInv
<1> QED BY <1>1, <1>2, <1>3, PTL DEF Spec

\* The probe task calls probe() only while it holds the lock, however many
\* scans queue behind it and are dropped from the queue meanwhile.
THEOREM ProbesUnderLock == Spec => [](probe = "probing" => Holds(Probe))
<1>1. Init => LockInv BY LockInvInit
<1>2. LockInv /\ [Next]_vars => LockInv' BY LockInvStep
<1>3. LockInv => (probe = "probing" => Holds(Probe)) BY DEF LockInv
<1> QED BY <1>1, <1>2, <1>3, PTL DEF Spec
=============================================================================
