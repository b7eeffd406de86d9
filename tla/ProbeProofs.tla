----------------------------- MODULE ProbeProofs -----------------------------
(***************************************************************************)
(* The shared probe engines, for any number of probes, addresses, echoes,  *)
(* retries and deadlines: whatever the probes, the reader, the network and *)
(* the clock do between two locks of the demux, no awaited waiter of an    *)
(* uncontested key is forgotten, no waiter outlives its probe, and the     *)
(* death of the reader is never reported as absence.                       *)
(*                                                                         *)
(* The invariant follows one waiter from the slot that is still fresh,     *)
(* through the map, to the mail it gets.  A registered waiter has an owner *)
(* and an empty channel; a slot that is fresh was never in the map; and a  *)
(* waiter that was told of the reader's death keeps that mail until its    *)
(* probe has turned it into a fault.                                       *)
(***************************************************************************)
EXTENDS ProbeEngine, WellFoundedInduction, TLAPS

\* Where a probe can be, and the slots of its echoes.
SlotInv ==
  \A p \in Probes :
    /\ proto = "link" => pc[p] \in {"idle", "send", "wait", "leave", "done"}
    /\ proto = "icmp" =>
         /\ pc[p] # "wait"
         /\ \A n \in pend[p] : n < tries[p]
         /\ pc[p] \in {"send", "leave", "pause"} => tries[p] < Count
         /\ pc[p] = "drop" => pend[p] # {}
         /\ pc[p] = "done" => pend[p] = {}
         /\ pc[p] \in {"idle", "send", "pause"} => ~broken[p]
    /\ pc[p] = "idle" => tries[p] = 0 /\ pend[p] = {}
    /\ pc[p] # "done" => verdict[p] = "none"

\* The slot of w was not registered yet.
Fresh(w) ==
  \/ proto = "link" /\ w[2] # 0
  \/ pc[w[1]] = "idle"
  \/ pc[w[1]] = "send" /\ w[2] > tries[w[1]]
  \/ pc[w[1]] = "pause" /\ w[2] >= tries[w[1]]

\* The echo of w is being sent or taken back.
InHand(w) == proto = "icmp" /\ pc[w[1]] \in {"send", "leave"} /\ w[2] = tries[w[1]]

\* The echo of w was sent and is to be collected.
Pending(w) == proto = "icmp" /\ w[2] \in pend[w[1]]

\* The probe of w goes on to wait for it; unlike Awaited also while it takes
\* out another waiter.
Expected(w) ==
  \/ proto = "link" /\ w[2] = 0 /\ pc[w[1]] \in {"send", "wait"}
  \/ Pending(w)
  \/ InHand(w) /\ pc[w[1]] = "send"

\* A waiter in the map has an owner.
Owned(w) ==
  \/ proto = "link" /\ w[2] = 0 /\ pc[w[1]] \in {"send", "wait", "leave"}
  \/ Pending(w)
  \/ InHand(w)

WaiterInv ==
  \A w \in Waiters :
    /\ w \in waiters => mail[w] = "none" /\ Owned(w)
    /\ Fresh(w) => w \notin waiters /\ mail[w] = "none" /\ w \notin struck

HeardInv ==
  \A w \in Waiters : Expected(w) /\ Alone(w[1]) =>
    w \in waiters \/ mail[w] \in {"reached", "failed"}

\* What became of the news that the reader is dead.
StruckInv ==
  \A w \in struck :
    /\ mail[w] = "failed"
    /\ \/ pc[w[1]] = "done" /\ verdict[w[1]] # "absent"
       \/ pc[w[1]] # "done" /\ broken[w[1]]
       \/ Expected(w) /\ (pc[w[1]] = "drop" => w[2] # Collecting(w[1]))
       \/ InHand(w)

ProbeInv == TypeOK /\ SlotInv /\ WaiterInv /\ HeardInv /\ StruckInv

-----------------------------------------------------------------------------
(* The operators of the model *)

\* The larger and the smaller of two numbers.
LEMMA MaxMinOfTwo ==
  ASSUME NEW a \in Nat, NEW b \in Nat
  PROVE  /\ Max({a, b}) \in {a, b} /\ Max({a, b}) >= a /\ Max({a, b}) >= b
         /\ Min({a, b}) \in {a, b} /\ Min({a, b}) <= a /\ Min({a, b}) <= b
  BY DEF Max, Min

\* A set of numbers that is not empty has a least one.
LEMMA MinOfNats ==
  ASSUME NEW S \in SUBSET Nat, S # {}
  PROVE  Min(S) \in S /\ \A n \in S : Min(S) <= n
  <1> DEFINE less == {ss \in Nat \X Nat : ss[1] < ss[2]}
  <1>1. IsWellFoundedOn(less, Nat)
    BY NatLessThanWellFounded DEF OpToRel
  <1>2. PICK m \in S : \A n \in S : ~(<<n, m>> \in less)
    <2> HIDE DEF less
    <2> QED BY <1>1, WFMin
  <1>3. \A n \in S : m <= n
    <2> SUFFICES ASSUME NEW n \in S PROVE m <= n
      OBVIOUS
    <2>1. <<n, m>> \in Nat \X Nat /\ n \in Nat /\ m \in Nat
      OBVIOUS
    <2> QED BY <1>2, <2>1
  <1> QED BY <1>3 DEF Min

LEMMA CollectingIsPending ==
  ASSUME TypeOK, NEW p \in Probes, pend[p] # {}
  PROVE  Collecting(p) \in pend[p] /\ Collecting(p) \in Slots
  <1>1. pend[p] \subseteq Slots /\ Slots \subseteq Nat
    BY EngineAssumption DEF TypeOK, Slots
  <1> QED BY <1>1, MinOfNats DEF Collecting

LEMMA PerAttemptIsNat == PerAttempt \in Nat
  <1>1. Timeout \div (Retries + 1) \in Nat
    BY EngineAssumption
  <1> QED BY <1>1, MaxMinOfTwo DEF PerAttempt

LEMMA SlotsAreNats == \A n \in Slots : n \in Nat
  BY EngineAssumption DEF Slots

LEMMA WaiterIsPair ==
  /\ \A w \in Waiters : w[1] \in Probes /\ w[2] \in Slots /\ w[2] \in Nat /\ w = <<w[1], w[2]>>
  /\ \A p \in Probes, n \in Slots : <<p, n>> \in Waiters
  /\ 0 \in Slots
  BY EngineAssumption DEF Waiters, Slots

-----------------------------------------------------------------------------
(* What the demux does to one waiter *)

Kept(v) == (v \in waiters' <=> v \in waiters) /\ mail'[v] = mail[v]
Answered(v) == v \in waiters /\ v \notin waiters' /\ mail'[v] \in {"reached", "failed"}
Closed(v) == v \in waiters /\ v \notin waiters' /\ mail'[v] = "closed"

\* The type of the demux after any of its operations.
DemuxTyped ==
  /\ waiters' \subseteq Waiters
  /\ mail' \in [Waiters -> {"none", "reached", "failed", "closed"}]
  /\ struck' \subseteq Waiters

LEMMA RegisterFacts ==
  ASSUME TypeOK, NEW w \in Waiters, Register(w), w \notin waiters
  PROVE  /\ DemuxTyped
         /\ \A v \in Waiters \ {w} : Kept(v) \/ Answered(v)
         /\ \/ w \in waiters' /\ mail'[w] = mail[w]
            \/ w \notin waiters' /\ mail'[w] = "failed"
         /\ struck \subseteq struck' /\ struck' \subseteq struck \cup {w}
         /\ w \in struck' \ struck => mail'[w] = "failed"
  BY DEF Register, TypeOK, AtOnce, SameKey, Kept, Answered, DemuxTyped

LEMMA DispatchFacts ==
  ASSUME TypeOK, NEW w \in Waiters, Dispatch(w)
  PROVE  DemuxTyped /\ struck' = struck /\ \A v \in Waiters : Kept(v) \/ Answered(v)
  BY DEF Dispatch, TypeOK, SameKey, Kept, Answered, DemuxTyped

LEMMA DeregisterFacts ==
  ASSUME TypeOK, NEW w \in Waiters, Deregister(w)
  PROVE  /\ DemuxTyped /\ struck' = struck
         /\ w \notin waiters'
         /\ \A v \in Waiters : Kept(v) \/ Closed(v)
         /\ \A v \in Waiters : Closed(v) =>
              IF proto = "link" THEN addrOf[v[1]] = addrOf[w[1]] ELSE v = w
  BY DEF Deregister, TypeOK, SameKey, Kept, Closed, DemuxTyped

LEMMA PoisonFacts ==
  ASSUME TypeOK, Poison
  PROVE  /\ DemuxTyped /\ waiters' = {}
         /\ \A v \in Waiters : Kept(v) \/ (Answered(v) /\ mail'[v] = "failed")
         /\ \A v \in struck' : v \in struck
              \/ (v \in waiters /\ mail'[v] = "failed" /\ pc[v[1]] \notin {"leave", "drop"})
  BY DEF Poison, TypeOK, Kept, Answered, DemuxTyped

-----------------------------------------------------------------------------
(* Steps of a probe that leave the demux alone *)

LEMMA LocalFaultStep ==
  ASSUME ProbeInv, NEW p \in Probes, LocalFault(p)
  PROVE  ProbeInv'
  <1> USE DEF ProbeInv, LocalFault, End, scanVars, engineVars, netVars, demuxVars
  <1>1. TypeOK'
    BY EngineAssumption DEF TypeOK
  <1>2. SlotInv'
    BY DEF SlotInv, TypeOK
  <1>3. WaiterInv'
    BY WaiterIsPair DEF WaiterInv, SlotInv, TypeOK, Fresh, Owned, Pending, InHand
  <1>4. HeardInv'
    BY WaiterIsPair DEF HeardInv, WaiterInv, SlotInv, TypeOK, Expected, Pending, InHand, Alone
  <1>5. StruckInv'
    BY WaiterIsPair DEF StruckInv, WaiterInv, SlotInv, TypeOK, Expected, Pending, InHand, Collecting
  <1> QED BY <1>1, <1>2, <1>3, <1>4, <1>5

LEMMA OpenFailsStep ==
  ASSUME ProbeInv, NEW p \in Probes, OpenFails(p)
  PROVE  ProbeInv'
  <1> USE DEF ProbeInv, OpenFails, End, scanVars, engineVars, netVars, demuxVars
  <1>1. TypeOK'
    BY EngineAssumption DEF TypeOK
  <1>2. SlotInv'
    BY DEF SlotInv, TypeOK
  <1>3. WaiterInv'
    BY WaiterIsPair DEF WaiterInv, SlotInv, TypeOK, Fresh, Owned, Pending, InHand
  <1>4. HeardInv'
    BY WaiterIsPair DEF HeardInv, WaiterInv, SlotInv, TypeOK, Expected, Pending, InHand, Alone
  <1>5. StruckInv'
    BY WaiterIsPair DEF StruckInv, WaiterInv, SlotInv, TypeOK, Expected, Pending, InHand, Collecting
  <1> QED BY <1>1, <1>2, <1>3, <1>4, <1>5

LEMMA LinkSendStep ==
  ASSUME ProbeInv, NEW p \in Probes, LinkSend(p)
  PROVE  ProbeInv'
  <1> USE DEF ProbeInv, LinkSend, scanVars, engineVars, netVars, demuxVars
  <1>a. Min({PerAttempt, left[p]}) \in Nat
    BY PerAttemptIsNat, MaxMinOfTwo, EngineAssumption DEF TypeOK
  <1>1. TypeOK'
    BY EngineAssumption, <1>a DEF TypeOK
  <1>2. SlotInv'
    BY DEF SlotInv, TypeOK
  <1>3. WaiterInv'
    BY WaiterIsPair DEF WaiterInv, SlotInv, TypeOK, Fresh, Owned, Pending, InHand
  <1>4. HeardInv'
    BY WaiterIsPair DEF HeardInv, WaiterInv, SlotInv, TypeOK, Expected, Pending, InHand, Alone
  <1>5. StruckInv'
    BY WaiterIsPair DEF StruckInv, WaiterInv, SlotInv, TypeOK, Expected, Pending, InHand, Collecting
  <1> QED BY <1>1, <1>2, <1>3, <1>4, <1>5

LEMMA LinkSendFailsStep ==
  ASSUME ProbeInv, NEW p \in Probes, LinkSendFails(p)
  PROVE  ProbeInv'
  <1> USE DEF ProbeInv, LinkSendFails, scanVars, engineVars, netVars, demuxVars
  <1>1. TypeOK'
    BY EngineAssumption DEF TypeOK
  <1>2. SlotInv'
    BY DEF SlotInv, TypeOK
  <1>3. WaiterInv'
    BY WaiterIsPair DEF WaiterInv, SlotInv, TypeOK, Fresh, Owned, Pending, InHand
  <1>4. HeardInv'
    BY WaiterIsPair DEF HeardInv, WaiterInv, SlotInv, TypeOK, Expected, Pending, InHand, Alone
  <1>5. StruckInv'
    BY WaiterIsPair DEF StruckInv, WaiterInv, SlotInv, TypeOK, Expected, Pending, InHand, Collecting
  <1> QED BY <1>1, <1>2, <1>3, <1>4, <1>5

LEMMA LinkReceiveStep ==
  ASSUME ProbeInv, NEW p \in Probes, LinkReceive(p)
  PROVE  ProbeInv'
  <1> USE DEF ProbeInv, LinkReceive, End, scanVars, engineVars, netVars, demuxVars
  <1>a. \A w \in Waiters : w[1] = p /\ w[2] = 0 => w = <<p, 0>>
    BY WaiterIsPair
  <1>b. \A w \in waiters : w[1] # p
    BY <1>a, WaiterIsPair DEF WaiterInv, Fresh, TypeOK
  <1>c. \A w \in struck : w[1] = p => mail[<<p, 0>>] = "failed"
    BY <1>a, WaiterIsPair DEF WaiterInv, StruckInv, Fresh, TypeOK
  <1>d. mail[<<p, 0>>] = "failed" => verdict'[p] = "fault"
    BY DEF TypeOK
  <1>e. \A q \in Probes : Collecting(q)' = Collecting(q)
    BY DEF Collecting
  <1>1. TypeOK'
    BY EngineAssumption DEF TypeOK
  <1>2. SlotInv'
    BY DEF SlotInv, TypeOK
  <1>3. WaiterInv'
    BY WaiterIsPair, <1>b DEF WaiterInv, SlotInv, TypeOK, Fresh, Owned, Pending, InHand
  <1>4. HeardInv'
    BY WaiterIsPair DEF HeardInv, WaiterInv, SlotInv, TypeOK, Expected, Pending, InHand, Alone
  <1>5. StruckInv'
    <2> SUFFICES ASSUME NEW w \in struck'
                 PROVE  /\ mail'[w] = "failed"
                        /\ \/ pc'[w[1]] = "done" /\ verdict'[w[1]] # "absent"
                           \/ pc'[w[1]] # "done" /\ broken'[w[1]]
                           \/ Expected(w)' /\ (pc'[w[1]] = "drop" => w[2] # Collecting(w[1])')
                           \/ InHand(w)'
      BY DEF StruckInv
    <2>1. w \in struck /\ w \in Waiters /\ w[1] \in Probes
      BY WaiterIsPair DEF TypeOK
    <2>2. CASE w[1] = p
      BY <2>1, <2>2, <1>c, <1>d DEF TypeOK, StruckInv
    <2>3. CASE w[1] # p
      BY <2>1, <2>3, <1>e DEF TypeOK, SlotInv, StruckInv, WaiterInv, Fresh, Expected, Pending, InHand
    <2> QED BY <2>2, <2>3
  <1> QED BY <1>1, <1>2, <1>3, <1>4, <1>5

LEMMA LinkElapsedStep ==
  ASSUME ProbeInv, NEW p \in Probes, LinkElapsed(p)
  PROVE  ProbeInv'
  <1> USE DEF ProbeInv, LinkElapsed, scanVars, engineVars, netVars, demuxVars
  <1>a. \A w \in Waiters : w[1] = p /\ w[2] = 0 => w = <<p, 0>>
    BY WaiterIsPair
  <1>b. \A w \in struck : w[1] # p
    BY <1>a, WaiterIsPair DEF WaiterInv, StruckInv, Fresh, TypeOK
  <1>1. TypeOK'
    BY EngineAssumption DEF TypeOK
  <1>2. SlotInv'
    BY DEF SlotInv, TypeOK
  <1>3. WaiterInv'
    BY WaiterIsPair DEF WaiterInv, SlotInv, TypeOK, Fresh, Owned, Pending, InHand
  <1>4. HeardInv'
    BY WaiterIsPair DEF HeardInv, WaiterInv, SlotInv, TypeOK, Expected, Pending, InHand, Alone
  <1>5. StruckInv'
    BY WaiterIsPair, <1>b DEF StruckInv, WaiterInv, SlotInv, TypeOK, Expected, Pending, InHand, Collecting
  <1> QED BY <1>1, <1>2, <1>3, <1>4, <1>5

LEMMA EchoSentStep ==
  ASSUME ProbeInv, NEW p \in Probes, EchoSent(p)
  PROVE  ProbeInv'
  <1> USE DEF ProbeInv, EchoSent, scanVars, engineVars, netVars, demuxVars
  <1>a. tries[p] \in Slots /\ tries[p] \in Nat /\ tries[p] < Count
    BY EngineAssumption DEF SlotInv, TypeOK, Slots
  <1>b. /\ pc' = [pc EXCEPT ![p] = pc'[p]] /\ pc'[p] \in {"pause", "collect"}
        /\ pc'[p] = "pause" => tries[p] + 1 < Count
        /\ slice' \in [Probes -> Nat]
    BY EngineAssumption DEF TypeOK
  <1>1. TypeOK'
    BY EngineAssumption, <1>a, <1>b DEF TypeOK
  <1>2. SlotInv'
    BY <1>a, <1>b, SlotsAreNats DEF SlotInv, TypeOK
  <1>3. WaiterInv'
    BY WaiterIsPair DEF WaiterInv, SlotInv, TypeOK, Fresh, Owned, Pending, InHand
  <1>4. HeardInv'
    BY WaiterIsPair DEF HeardInv, WaiterInv, SlotInv, TypeOK, Expected, Pending, InHand, Alone
  <1>5. StruckInv'
    BY WaiterIsPair DEF StruckInv, WaiterInv, SlotInv, TypeOK, Expected, Pending, InHand, Collecting
  <1> QED BY <1>1, <1>2, <1>3, <1>4, <1>5

LEMMA EchoFailsStep ==
  ASSUME ProbeInv, NEW p \in Probes, EchoFails(p)
  PROVE  ProbeInv'
  <1> USE DEF ProbeInv, EchoFails, scanVars, engineVars, netVars, demuxVars
  <1>1. TypeOK'
    BY EngineAssumption DEF TypeOK
  <1>2. SlotInv'
    BY DEF SlotInv, TypeOK
  <1>3. WaiterInv'
    BY WaiterIsPair DEF WaiterInv, SlotInv, TypeOK, Fresh, Owned, Pending, InHand
  <1>4. HeardInv'
    BY WaiterIsPair DEF HeardInv, WaiterInv, SlotInv, TypeOK, Expected, Pending, InHand, Alone
  <1>5. StruckInv'
    BY WaiterIsPair DEF StruckInv, WaiterInv, SlotInv, TypeOK, Expected, Pending, InHand, Collecting
  <1> QED BY <1>1, <1>2, <1>3, <1>4, <1>5

LEMMA EchoElapsedStep ==
  ASSUME ProbeInv, NEW p \in Probes, EchoElapsed(p)
  PROVE  ProbeInv'
  <1> USE DEF ProbeInv, EchoElapsed, scanVars, engineVars, netVars, demuxVars
  <1>1. TypeOK'
    BY EngineAssumption DEF TypeOK
  <1>2. SlotInv'
    BY DEF SlotInv, TypeOK
  <1>3. WaiterInv'
    BY WaiterIsPair DEF WaiterInv, SlotInv, TypeOK, Fresh, Owned, Pending, InHand
  <1>4. HeardInv'
    BY WaiterIsPair DEF HeardInv, WaiterInv, SlotInv, TypeOK, Expected, Pending, InHand, Alone
  <1>5. StruckInv'
    BY WaiterIsPair DEF StruckInv, WaiterInv, SlotInv, TypeOK, Expected, Pending, InHand, Collecting
  <1> QED BY <1>1, <1>2, <1>3, <1>4, <1>5

LEMMA CollectStep ==
  ASSUME ProbeInv, NEW p \in Probes, Collect(p)
  PROVE  ProbeInv'
  <1> USE DEF ProbeInv, Collect, scanVars, engineVars, netVars, demuxVars
  <1>a. Collecting(p) \in pend[p] /\ Collecting(p) \in Slots
    BY CollectingIsPending
  <1>b. \A w \in Waiters : w[1] = p /\ w[2] = Collecting(p) => w = <<p, Collecting(p)>>
    BY WaiterIsPair
  <1>1. TypeOK'
    BY EngineAssumption DEF TypeOK
  <1>2. SlotInv'
    BY DEF SlotInv, TypeOK
  <1>3. WaiterInv'
    BY WaiterIsPair, <1>a, <1>b DEF WaiterInv, SlotInv, TypeOK, Fresh, Owned, Pending, InHand
  <1>4. HeardInv'
    BY WaiterIsPair, <1>a, <1>b DEF HeardInv, WaiterInv, SlotInv, TypeOK, Expected, Pending, InHand, Alone
  <1>5. StruckInv'
    <2> SUFFICES ASSUME NEW w \in struck'
                 PROVE  /\ mail'[w] = "failed"
                        /\ \/ pc'[w[1]] = "done" /\ verdict'[w[1]] # "absent"
                           \/ pc'[w[1]] # "done" /\ broken'[w[1]]
                           \/ Expected(w)' /\ (pc'[w[1]] = "drop" => w[2] # Collecting(w[1])')
                           \/ InHand(w)'
      BY DEF StruckInv
    <2>1. w \in struck /\ w \in Waiters /\ mail[w] = "failed"
      BY DEF StruckInv, TypeOK
    <2>2. CASE w[1] = p
      <3>1. CASE w[2] = Collecting(p)
        BY <2>1, <2>2, <3>1, <1>b DEF TypeOK
      <3>2. CASE w[2] # Collecting(p)
        BY <2>1, <2>2, <3>2 DEF TypeOK, StruckInv, Expected, Pending, InHand
      <3> QED BY <3>1, <3>2
    <2>3. CASE w[1] # p
      <3>1. w[1] \in Probes /\ pend'[w[1]] = pend[w[1]]
        BY <2>1, <2>3, WaiterIsPair DEF TypeOK
      <3>2. Collecting(w[1])' = Collecting(w[1])
        BY <3>1 DEF Collecting
      <3> QED BY <2>1, <2>3, <3>1, <3>2 DEF TypeOK, StruckInv, Expected, Pending, InHand
    <2> QED BY <2>2, <2>3
  <1> QED BY <1>1, <1>2, <1>3, <1>4, <1>5

LEMMA CollectElapsedStep ==
  ASSUME ProbeInv, NEW p \in Probes, CollectElapsed(p)
  PROVE  ProbeInv'
  <1> USE DEF ProbeInv, CollectElapsed, scanVars, engineVars, netVars, demuxVars
  <1>a. Collecting(p) \in pend[p] /\ Collecting(p) \in Slots
    BY CollectingIsPending
  <1>b. \A w \in Waiters : w[1] = p /\ w[2] = Collecting(p) => w = <<p, Collecting(p)>>
    BY WaiterIsPair
  <1>c. \A q \in Probes : Collecting(q)' = Collecting(q)
    BY DEF Collecting
  <1>d. \A w \in struck : w[1] = p => w[2] # Collecting(p)
    BY <1>b DEF StruckInv, TypeOK
  <1>1. TypeOK'
    BY EngineAssumption DEF TypeOK
  <1>2. SlotInv'
    BY DEF SlotInv, TypeOK
  <1>3. WaiterInv'
    BY WaiterIsPair DEF WaiterInv, SlotInv, TypeOK, Fresh, Owned, Pending, InHand
  <1>4. HeardInv'
    BY WaiterIsPair DEF HeardInv, WaiterInv, SlotInv, TypeOK, Expected, Pending, InHand, Alone
  <1>5. StruckInv'
    BY WaiterIsPair, <1>c, <1>d DEF StruckInv, WaiterInv, SlotInv, TypeOK, Expected, Pending, InHand
  <1> QED BY <1>1, <1>2, <1>3, <1>4, <1>5

LEMMA IcmpEndsStep ==
  ASSUME ProbeInv, NEW p \in Probes, IcmpEnds(p)
  PROVE  ProbeInv'
  <1> USE DEF ProbeInv, IcmpEnds, End, scanVars, engineVars, netVars, demuxVars
  <1>1. TypeOK'
    BY EngineAssumption DEF TypeOK
  <1>2. SlotInv'
    BY DEF SlotInv, TypeOK
  <1>3. WaiterInv'
    BY WaiterIsPair DEF WaiterInv, SlotInv, TypeOK, Fresh, Owned, Pending, InHand
  <1>4. HeardInv'
    BY WaiterIsPair DEF HeardInv, WaiterInv, SlotInv, TypeOK, Expected, Pending, InHand, Alone
  <1>5. StruckInv'
    BY WaiterIsPair DEF StruckInv, WaiterInv, SlotInv, TypeOK, Expected, Pending, InHand, Collecting
  <1> QED BY <1>1, <1>2, <1>3, <1>4, <1>5

-----------------------------------------------------------------------------
(* Steps of a probe that use the demux *)

LEMMA StartStep ==
  ASSUME ProbeInv, NEW p \in Probes, Start(p)
  PROVE  ProbeInv'
  <1> USE DEF ProbeInv, Start, Kept, Answered, Closed, DemuxTyped, scanVars, engineVars, netVars, demuxVars
  <1>z. \A q \in Probes : pend'[q] = pend[q] => Collecting(q)' = Collecting(q)
    BY DEF Collecting
  <1>a. <<p, 0>> \in Waiters /\ <<p, 0>> \notin waiters /\ mail[<<p, 0>>] = "none"
    BY WaiterIsPair DEF WaiterInv, Fresh
  <1>f. /\ DemuxTyped
        /\ \A v \in Waiters \ {<<p, 0>>} : Kept(v) \/ Answered(v)
        /\ \/ <<p, 0>> \in waiters' /\ mail'[<<p, 0>>] = mail[<<p, 0>>]
           \/ <<p, 0>> \notin waiters' /\ mail'[<<p, 0>>] = "failed"
        /\ struck \subseteq struck' /\ struck' \subseteq struck \cup {<<p, 0>>}
        /\ <<p, 0>> \in struck' \ struck => mail'[<<p, 0>>] = "failed"
    BY <1>a, RegisterFacts
  <1>1. TypeOK'
    BY EngineAssumption, <1>f, <1>a DEF TypeOK
  <1>2. SlotInv'
    BY EngineAssumption DEF SlotInv, TypeOK
  <1>3. WaiterInv'
    <2> SUFFICES ASSUME NEW w \in Waiters
                 PROVE  /\ w \in waiters' => mail'[w] = "none" /\ Owned(w)'
                        /\ Fresh(w)' => w \notin waiters' /\ mail'[w] = "none" /\ w \notin struck'
      BY DEF WaiterInv
    <2>1. CASE w = <<p, 0>>
      BY <2>1, <1>a, <1>f, WaiterIsPair DEF WaiterInv, SlotInv, TypeOK, Fresh, Owned, Pending, InHand
    <2>2. CASE w # <<p, 0>>
      <3>1. Kept(w) \/ Answered(w)
        BY <2>2, <1>f
      <3>2. w[1] \in Probes /\ w[2] \in Nat /\ (w[1] = p => w[2] # 0)
        BY <2>2, WaiterIsPair
      <3>3. w \in struck' => w \in struck
        BY <2>2, <1>f
      <3>4. Fresh(w)' => Fresh(w)
        BY <3>2 DEF Fresh, TypeOK, SlotInv
      <3>5. Owned(w) => Owned(w)'
        BY <3>2 DEF Owned, Pending, InHand, TypeOK, SlotInv
      <3> QED BY <3>1, <3>3, <3>4, <3>5 DEF WaiterInv
    <2> QED BY <2>1, <2>2
  <1>4. HeardInv'
    <2> SUFFICES ASSUME NEW w \in Waiters, Expected(w)', Alone(w[1])'
                 PROVE  w \in waiters' \/ mail'[w] \in {"reached", "failed"}
      BY DEF HeardInv
    <2>1. CASE w = <<p, 0>>
      BY <2>1, <1>f
    <2>2. CASE w # <<p, 0>>
      <3>1. Kept(w) \/ Answered(w)
        BY <2>2, <1>f
      <3>2. w[1] \in Probes /\ w[2] \in Nat /\ (w[1] = p => w[2] # 0)
        BY <2>2, WaiterIsPair
      <3>3. Expected(w) /\ Alone(w[1])
        BY <3>2 DEF Expected, Pending, InHand, Alone, TypeOK, SlotInv
      <3> QED BY <3>1, <3>3 DEF HeardInv
    <2> QED BY <2>1, <2>2
  <1>5. StruckInv'
    <2> SUFFICES ASSUME NEW w \in struck'
                 PROVE  /\ mail'[w] = "failed"
                        /\ \/ pc'[w[1]] = "done" /\ verdict'[w[1]] # "absent"
                           \/ pc'[w[1]] # "done" /\ broken'[w[1]]
                           \/ Expected(w)' /\ (pc'[w[1]] = "drop" => w[2] # Collecting(w[1])')
                           \/ InHand(w)'
      BY DEF StruckInv
    <2>1. w \in Waiters /\ w[1] \in Probes /\ w[2] \in Nat
      BY <1>f, WaiterIsPair
    <2>2. CASE w = <<p, 0>>
      <3>1. mail'[w] = "failed"
        BY <2>2, <1>a, <1>f DEF StruckInv
      <3>2. Expected(w)' /\ pc'[w[1]] = "send"
        BY <2>2, <2>1 DEF Expected, InHand, TypeOK, SlotInv
      <3> QED BY <3>1, <3>2
    <2>3. CASE w # <<p, 0>>
      <3>1. w \in struck /\ mail[w] = "failed" /\ ~Fresh(w)
        BY <2>1, <2>3, <1>f DEF StruckInv, WaiterInv
      <3>2. mail'[w] = "failed"
        BY <2>1, <2>3, <3>1, <1>f DEF WaiterInv
      <3>3. Collecting(w[1])' = Collecting(w[1])
        BY <2>1, <1>z
      <3> QED BY <2>1, <2>3, <3>1, <3>2, <3>3, WaiterIsPair
              DEF StruckInv, SlotInv, TypeOK, Fresh, Expected, Pending, InHand
    <2> QED BY <2>2, <2>3
  <1> QED BY <1>1, <1>2, <1>3, <1>4, <1>5

LEMMA NoMoreEchoesStep ==
  ASSUME ProbeInv, NEW p \in Probes, PauseEnds(p), left[p] = 0
  PROVE  ProbeInv'
  <1> USE DEF ProbeInv, PauseEnds, NextEcho, scanVars, engineVars, netVars, demuxVars
  <1>1. TypeOK'
    BY EngineAssumption DEF TypeOK
  <1>2. SlotInv'
    BY DEF SlotInv, TypeOK
  <1>3. WaiterInv'
    BY WaiterIsPair DEF WaiterInv, SlotInv, TypeOK, Fresh, Owned, Pending, InHand
  <1>4. HeardInv'
    BY WaiterIsPair DEF HeardInv, WaiterInv, SlotInv, TypeOK, Expected, Pending, InHand, Alone
  <1>5. StruckInv'
    BY WaiterIsPair DEF StruckInv, WaiterInv, SlotInv, TypeOK, Expected, Pending, InHand, Collecting
  <1> QED BY <1>1, <1>2, <1>3, <1>4, <1>5

LEMMA NextEchoStep ==
  ASSUME ProbeInv, NEW p \in Probes, PauseEnds(p), left[p] # 0
  PROVE  ProbeInv'
  <1> USE DEF ProbeInv, PauseEnds, Kept, Answered, Closed, DemuxTyped, scanVars, engineVars, netVars, demuxVars
  <1>z. \A q \in Probes : pend'[q] = pend[q] => Collecting(q)' = Collecting(q)
    BY DEF Collecting
  <1>a. /\ <<p, tries[p]>> \in Waiters /\ <<p, tries[p]>> \notin waiters
        /\ mail[<<p, tries[p]>>] = "none"
    BY WaiterIsPair, EngineAssumption DEF WaiterInv, SlotInv, Fresh, TypeOK, Slots
  <1>b. Register(<<p, tries[p]>>) /\ pc' = [pc EXCEPT ![p] = "send"]
    BY DEF NextEcho
  <1>f. /\ DemuxTyped
        /\ \A v \in Waiters \ {<<p, tries[p]>>} : Kept(v) \/ Answered(v)
        /\ \/ <<p, tries[p]>> \in waiters' /\ mail'[<<p, tries[p]>>] = mail[<<p, tries[p]>>]
           \/ <<p, tries[p]>> \notin waiters' /\ mail'[<<p, tries[p]>>] = "failed"
        /\ struck \subseteq struck' /\ struck' \subseteq struck \cup {<<p, tries[p]>>}
        /\ <<p, tries[p]>> \in struck' \ struck => mail'[<<p, tries[p]>>] = "failed"
    BY <1>a, <1>b, RegisterFacts
  <1>1. TypeOK'
    BY <1>b, <1>f DEF TypeOK
  <1>2. SlotInv'
    BY <1>b DEF SlotInv, TypeOK
  <1>3. WaiterInv'
    <2> SUFFICES ASSUME NEW w \in Waiters
                 PROVE  /\ w \in waiters' => mail'[w] = "none" /\ Owned(w)'
                        /\ Fresh(w)' => w \notin waiters' /\ mail'[w] = "none" /\ w \notin struck'
      BY DEF WaiterInv
    <2>1. CASE w = <<p, tries[p]>>
      BY <2>1, <1>b, <1>a, <1>f, WaiterIsPair DEF WaiterInv, SlotInv, TypeOK, Fresh, Owned, Pending, InHand
    <2>2. CASE w # <<p, tries[p]>>
      <3>1. Kept(w) \/ Answered(w)
        BY <2>2, <1>f
      <3>2. w[1] \in Probes /\ w[2] \in Nat /\ (w[1] = p => w[2] # tries[p])
        BY <2>2, WaiterIsPair
      <3>3. w \in struck' => w \in struck
        BY <2>2, <1>f
      <3>4. Fresh(w)' => Fresh(w)
        BY <1>b, <3>2 DEF Fresh, TypeOK, SlotInv
      <3>5. Owned(w) => Owned(w)'
        BY <1>b, <3>2 DEF Owned, Pending, InHand, TypeOK, SlotInv
      <3> QED BY <3>1, <3>3, <3>4, <3>5 DEF WaiterInv
    <2> QED BY <2>1, <2>2
  <1>4. HeardInv'
    <2> SUFFICES ASSUME NEW w \in Waiters, Expected(w)', Alone(w[1])'
                 PROVE  w \in waiters' \/ mail'[w] \in {"reached", "failed"}
      BY DEF HeardInv
    <2>1. CASE w = <<p, tries[p]>>
      BY <2>1, <1>f
    <2>2. CASE w # <<p, tries[p]>>
      <3>1. Kept(w) \/ Answered(w)
        BY <2>2, <1>f
      <3>2. w[1] \in Probes /\ w[2] \in Nat /\ (w[1] = p => w[2] # tries[p])
        BY <2>2, WaiterIsPair
      <3>3. Expected(w) /\ Alone(w[1])
        BY <1>b, <3>2 DEF Expected, Pending, InHand, Alone, TypeOK, SlotInv
      <3> QED BY <3>1, <3>3 DEF HeardInv
    <2> QED BY <2>1, <2>2
  <1>5. StruckInv'
    <2> SUFFICES ASSUME NEW w \in struck'
                 PROVE  /\ mail'[w] = "failed"
                        /\ \/ pc'[w[1]] = "done" /\ verdict'[w[1]] # "absent"
                           \/ pc'[w[1]] # "done" /\ broken'[w[1]]
                           \/ Expected(w)' /\ (pc'[w[1]] = "drop" => w[2] # Collecting(w[1])')
                           \/ InHand(w)'
      BY DEF StruckInv
    <2>1. w \in Waiters /\ w[1] \in Probes /\ w[2] \in Nat
      BY <1>f, WaiterIsPair
    <2>2. CASE w = <<p, tries[p]>>
      <3>1. mail'[w] = "failed"
        BY <2>2, <1>a, <1>f DEF StruckInv
      <3>2. Expected(w)' /\ pc'[w[1]] = "send"
        BY <2>2, <1>b, <2>1 DEF Expected, InHand, TypeOK
      <3> QED BY <3>1, <3>2
    <2>3. CASE w # <<p, tries[p]>>
      <3>1. w \in struck /\ mail[w] = "failed" /\ ~Fresh(w)
        BY <2>1, <2>3, <1>f DEF StruckInv, WaiterInv
      <3>2. mail'[w] = "failed"
        BY <2>1, <2>3, <3>1, <1>f DEF WaiterInv
      <3>3. Collecting(w[1])' = Collecting(w[1])
        BY <2>1, <1>z
      <3> QED BY <2>1, <2>3, <3>1, <3>2, <1>b, <3>3, WaiterIsPair
              DEF StruckInv, SlotInv, TypeOK, Fresh, Expected, Pending, InHand
    <2> QED BY <2>2, <2>3
  <1> QED BY <1>1, <1>2, <1>3, <1>4, <1>5

LEMMA LinkLeaveStep ==
  ASSUME ProbeInv, NEW p \in Probes, LinkLeave(p)
  PROVE  ProbeInv'
  <1> USE DEF ProbeInv, LinkLeave, End, Kept, Answered, Closed, DemuxTyped, scanVars, engineVars, netVars, demuxVars
  <1>z. \A q \in Probes : pend'[q] = pend[q] => Collecting(q)' = Collecting(q)
    BY DEF Collecting
  <1>a. <<p, 0>> \in Waiters /\ Deregister(<<p, 0>>)
    BY WaiterIsPair DEF TakeOut
  <1>f. /\ DemuxTyped /\ struck' = struck
        /\ <<p, 0>> \notin waiters'
        /\ \A v \in Waiters : Kept(v) \/ Closed(v)
        /\ \A v \in Waiters : Closed(v) =>
              IF proto = "link" THEN addrOf[v[1]] = addrOf[p] ELSE v = <<p, 0>>
    BY <1>a, DeregisterFacts
  <1>1. TypeOK'
    BY EngineAssumption, <1>f, <1>a DEF TypeOK
  <1>2. SlotInv'
    BY <1>a DEF SlotInv, TypeOK
  <1>3. WaiterInv'
    BY WaiterIsPair, <1>f, <1>a DEF WaiterInv, SlotInv, TypeOK, Fresh, Owned, Pending, InHand
  <1>4. HeardInv'
    BY WaiterIsPair, <1>f, <1>a DEF HeardInv, WaiterInv, SlotInv, TypeOK, Expected, Pending, InHand, Alone
  <1>5. StruckInv'
    BY WaiterIsPair, <1>f, <1>a, <1>z DEF StruckInv, WaiterInv, SlotInv, TypeOK, Expected, Pending, InHand
  <1> QED BY <1>1, <1>2, <1>3, <1>4, <1>5

LEMMA EchoLeaveStep ==
  ASSUME ProbeInv, NEW p \in Probes, EchoLeave(p)
  PROVE  ProbeInv'
  <1> USE DEF ProbeInv, EchoLeave, Kept, Answered, Closed, DemuxTyped, scanVars, engineVars, netVars, demuxVars
  <1>z. \A q \in Probes : pend'[q] = pend[q] => Collecting(q)' = Collecting(q)
    BY DEF Collecting
  <1>a. <<p, tries[p]>> \in Waiters /\ Deregister(<<p, tries[p]>>)
    BY WaiterIsPair, EngineAssumption DEF TakeOut, SlotInv, TypeOK, Slots
  <1>f. /\ DemuxTyped /\ struck' = struck
        /\ <<p, tries[p]>> \notin waiters'
        /\ \A v \in Waiters : Kept(v) \/ Closed(v)
        /\ \A v \in Waiters : Closed(v) =>
              IF proto = "link" THEN addrOf[v[1]] = addrOf[p] ELSE v = <<p, tries[p]>>
    BY <1>a, DeregisterFacts
  <1>1. TypeOK'
    BY EngineAssumption, <1>f, <1>a DEF TypeOK
  <1>2. SlotInv'
    BY <1>a DEF SlotInv, TypeOK
  <1>3. WaiterInv'
    <2> SUFFICES ASSUME NEW w \in Waiters
                 PROVE  /\ w \in waiters' => mail'[w] = "none" /\ Owned(w)'
                        /\ Fresh(w)' => w \notin waiters' /\ mail'[w] = "none" /\ w \notin struck'
      BY DEF WaiterInv
    <2>1. Kept(w) \/ Closed(w)
      BY <1>f
    <2>2. w[1] \in Probes /\ w[2] \in Nat /\ (w[1] = p /\ w[2] = tries[p] => w = <<p, tries[p]>>)
      BY WaiterIsPair
    <2>3. Fresh(w)' => Fresh(w)
      BY <2>2 DEF Fresh, TypeOK
    <2>4. w \in waiters' /\ Owned(w) => Owned(w)'
      BY <2>2, <1>f DEF Owned, Pending, InHand, TypeOK
    <2> QED BY <2>1, <2>3, <2>4, <1>f DEF WaiterInv
  <1>4. HeardInv'
    BY WaiterIsPair, <1>f, <1>a DEF HeardInv, WaiterInv, SlotInv, TypeOK, Expected, Pending, InHand, Alone
  <1>5. StruckInv'
    <2> SUFFICES ASSUME NEW w \in struck'
                 PROVE  /\ mail'[w] = "failed"
                        /\ \/ pc'[w[1]] = "done" /\ verdict'[w[1]] # "absent"
                           \/ pc'[w[1]] # "done" /\ broken'[w[1]]
                           \/ Expected(w)' /\ (pc'[w[1]] = "drop" => w[2] # Collecting(w[1])')
                           \/ InHand(w)'
      BY DEF StruckInv
    <2>1. w \in struck /\ w \in Waiters /\ mail[w] = "failed"
      BY <1>f DEF StruckInv, TypeOK
    <2>2. /\ w[1] \in Probes /\ w[2] \in Nat
          /\ w[1] = p /\ w[2] = tries[p] => w = <<p, tries[p]>>
      BY <2>1, WaiterIsPair
    <2>3. mail'[w] = "failed"
      BY <2>1, <1>f DEF WaiterInv
    <2>4. Collecting(w[1])' = Collecting(w[1])
      BY <2>2, <1>z
    <2>5. CASE w = <<p, tries[p]>>
      BY <2>1, <2>3, <2>5 DEF TypeOK
    <2>6. CASE w # <<p, tries[p]>>
      <3>1. w[1] = p => ~InHand(w)
        BY <2>2, <2>6 DEF InHand
      <3>2. InHand(w) => InHand(w)'
        BY <2>2, <3>1 DEF InHand, TypeOK
      <3>3. Expected(w) => Expected(w)'
        BY <2>2, <3>1 DEF Expected, Pending, InHand, TypeOK
      <3>4. pc[w[1]] # "done" /\ broken[w[1]] => pc'[w[1]] # "done" /\ broken'[w[1]]
        BY <2>2 DEF TypeOK
      <3>5. pc'[w[1]] = "drop" => pc[w[1]] = "drop"
        BY <2>2 DEF TypeOK
      <3>6. pc[w[1]] = "done" => pc'[w[1]] = "done" /\ verdict'[w[1]] = verdict[w[1]]
        BY <2>2 DEF TypeOK
      <3> QED BY <2>1, <2>3, <2>4, <3>2, <3>3, <3>4, <3>5, <3>6 DEF StruckInv
    <2> QED BY <2>5, <2>6
  <1> QED BY <1>1, <1>2, <1>3, <1>4, <1>5

LEMMA CollectLeaveStep ==
  ASSUME ProbeInv, NEW p \in Probes, CollectLeave(p)
  PROVE  ProbeInv'
  <1> USE DEF ProbeInv, CollectLeave, Kept, Answered, Closed, DemuxTyped, scanVars, engineVars, netVars, demuxVars
  <1>z. \A q \in Probes : pend'[q] = pend[q] => Collecting(q)' = Collecting(q)
    BY DEF Collecting
  <1>c. Collecting(p) \in pend[p] /\ Collecting(p) \in Slots
    BY CollectingIsPending DEF SlotInv
  <1>a. <<p, Collecting(p)>> \in Waiters /\ Deregister(<<p, Collecting(p)>>)
    BY <1>c, WaiterIsPair DEF TakeOut
  <1>f. /\ DemuxTyped /\ struck' = struck
        /\ <<p, Collecting(p)>> \notin waiters'
        /\ \A v \in Waiters : Kept(v) \/ Closed(v)
        /\ \A v \in Waiters : Closed(v) =>
              IF proto = "link" THEN addrOf[v[1]] = addrOf[p] ELSE v = <<p, Collecting(p)>>
    BY <1>a, DeregisterFacts
  <1>1. TypeOK'
    BY EngineAssumption, <1>f, <1>a, <1>c DEF TypeOK
  <1>2. SlotInv'
    BY <1>a, <1>c DEF SlotInv, TypeOK
  <1>3. WaiterInv'
    <2> SUFFICES ASSUME NEW w \in Waiters
                 PROVE  /\ w \in waiters' => mail'[w] = "none" /\ Owned(w)'
                        /\ Fresh(w)' => w \notin waiters' /\ mail'[w] = "none" /\ w \notin struck'
      BY DEF WaiterInv
    <2>1. Kept(w) \/ Closed(w)
      BY <1>f
    <2>2. /\ w[1] \in Probes /\ w[2] \in Nat
          /\ w[1] = p /\ w[2] = Collecting(p) => w = <<p, Collecting(p)>>
      BY WaiterIsPair
    <2>3. Fresh(w)' => Fresh(w)
      BY <2>2 DEF Fresh, TypeOK
    <2>4. w \in waiters' /\ Owned(w) => Owned(w)'
      BY <2>2, <1>f DEF Owned, Pending, InHand, TypeOK
    <2> QED BY <2>1, <2>3, <2>4, <1>f DEF WaiterInv
  <1>4. HeardInv'
    BY WaiterIsPair, <1>f, <1>a, <1>c DEF HeardInv, WaiterInv, SlotInv, TypeOK, Expected, Pending, InHand, Alone
  <1>5. StruckInv'
    BY WaiterIsPair, <1>f, <1>a, <1>c, <1>z DEF StruckInv, WaiterInv, SlotInv, TypeOK, Expected, Pending, InHand
  <1> QED BY <1>1, <1>2, <1>3, <1>4, <1>5

-----------------------------------------------------------------------------
(* The reader, the network and the clock *)

LEMMA LinkFrameStep ==
  ASSUME ProbeInv, NEW u \in Waiters, LinkFrame(u)
  PROVE  ProbeInv'
  <1> USE DEF ProbeInv, LinkFrame, Kept, Answered, Closed, DemuxTyped, scanVars, engineVars, netVars, demuxVars
  <1>z. \A q \in Probes : pend'[q] = pend[q] => Collecting(q)' = Collecting(q)
    BY DEF Collecting
  <1>f. DemuxTyped /\ struck' = struck /\ \A v \in Waiters : Kept(v) \/ Answered(v)
    BY DispatchFacts
  <1>1. TypeOK'
    BY EngineAssumption, <1>f DEF TypeOK
  <1>2. SlotInv'
    BY DEF SlotInv, TypeOK
  <1>3. WaiterInv'
    BY WaiterIsPair, <1>f DEF WaiterInv, SlotInv, TypeOK, Fresh, Owned, Pending, InHand
  <1>4. HeardInv'
    BY WaiterIsPair, <1>f DEF HeardInv, WaiterInv, SlotInv, TypeOK, Expected, Pending, InHand, Alone
  <1>5. StruckInv'
    BY WaiterIsPair, <1>f, <1>z DEF StruckInv, WaiterInv, SlotInv, TypeOK, Expected, Pending, InHand
  <1> QED BY <1>1, <1>2, <1>3, <1>4, <1>5

LEMMA DispatchReplyStep ==
  ASSUME ProbeInv, DispatchReply
  PROVE  ProbeInv'
  <1> USE DEF ProbeInv, DispatchReply, Kept, Answered, Closed, DemuxTyped, scanVars, engineVars, netVars, demuxVars
  <1>z. \A q \in Probes : pend'[q] = pend[q] => Collecting(q)' = Collecting(q)
    BY DEF Collecting
  <1>f. DemuxTyped /\ struck' = struck /\ \A v \in Waiters : Kept(v) \/ Answered(v)
    BY DispatchFacts DEF TypeOK
  <1>1. TypeOK'
    BY EngineAssumption, <1>f DEF TypeOK
  <1>2. SlotInv'
    BY DEF SlotInv, TypeOK
  <1>3. WaiterInv'
    BY WaiterIsPair, <1>f DEF WaiterInv, SlotInv, TypeOK, Fresh, Owned, Pending, InHand
  <1>4. HeardInv'
    BY WaiterIsPair, <1>f DEF HeardInv, WaiterInv, SlotInv, TypeOK, Expected, Pending, InHand, Alone
  <1>5. StruckInv'
    BY WaiterIsPair, <1>f, <1>z DEF StruckInv, WaiterInv, SlotInv, TypeOK, Expected, Pending, InHand
  <1> QED BY <1>1, <1>2, <1>3, <1>4, <1>5

LEMMA ReaderDiesStep ==
  ASSUME ProbeInv, ReaderDies
  PROVE  ProbeInv'
  <1> USE DEF ProbeInv, ReaderDies, Kept, Answered, Closed, DemuxTyped, scanVars, engineVars, netVars, demuxVars
  <1>z. \A q \in Probes : pend'[q] = pend[q] => Collecting(q)' = Collecting(q)
    BY DEF Collecting
  <1>f. /\ DemuxTyped /\ waiters' = {}
        /\ \A v \in Waiters : Kept(v) \/ (Answered(v) /\ mail'[v] = "failed")
        /\ \A v \in struck' : v \in struck
             \/ (v \in waiters /\ mail'[v] = "failed" /\ pc[v[1]] \notin {"leave", "drop"})
    BY PoisonFacts
  <1>1. TypeOK'
    BY EngineAssumption, <1>f DEF TypeOK
  <1>2. SlotInv'
    BY DEF SlotInv, TypeOK
  <1>3. WaiterInv'
    BY WaiterIsPair, <1>f DEF WaiterInv, SlotInv, TypeOK, Fresh, Owned, Pending, InHand
  <1>4. HeardInv'
    BY WaiterIsPair, <1>f DEF HeardInv, WaiterInv, SlotInv, TypeOK, Expected, Pending, InHand, Alone
  <1>5. StruckInv'
    <2> SUFFICES ASSUME NEW w \in struck'
                 PROVE  /\ mail'[w] = "failed"
                        /\ \/ pc'[w[1]] = "done" /\ verdict'[w[1]] # "absent"
                           \/ pc'[w[1]] # "done" /\ broken'[w[1]]
                           \/ Expected(w)' /\ (pc'[w[1]] = "drop" => w[2] # Collecting(w[1])')
                           \/ InHand(w)'
      BY DEF StruckInv
    <2>1. w \in Waiters /\ w[1] \in Probes
      BY <1>f, WaiterIsPair
    <2>2. Collecting(w[1])' = Collecting(w[1])
      BY <2>1, <1>z
    <2>3. CASE w \in struck
      <3>1. mail'[w] = "failed"
        BY <2>1, <2>3, <1>f DEF StruckInv, WaiterInv
      <3> QED BY <2>2, <2>3, <3>1 DEF StruckInv, Expected, Pending, InHand
    <2>4. CASE w \notin struck
      <3>1. w \in waiters /\ mail'[w] = "failed" /\ pc[w[1]] \notin {"leave", "drop"}
        BY <2>4, <1>f
      <3>2. Owned(w)
        BY <2>1, <3>1 DEF WaiterInv
      <3> QED BY <3>1, <3>2 DEF Owned, Expected, Pending, InHand
    <2> QED BY <2>3, <2>4
  <1> QED BY <1>1, <1>2, <1>3, <1>4, <1>5

LEMMA HostAnswersStep ==
  ASSUME ProbeInv, NEW u \in Waiters, HostAnswers(u)
  PROVE  ProbeInv'
  <1> USE DEF ProbeInv, HostAnswers, scanVars, engineVars, netVars, demuxVars
  <1>1. TypeOK'
    BY EngineAssumption DEF TypeOK
  <1>2. SlotInv'
    BY DEF SlotInv, TypeOK
  <1>3. WaiterInv'
    BY WaiterIsPair DEF WaiterInv, SlotInv, TypeOK, Fresh, Owned, Pending, InHand
  <1>4. HeardInv'
    BY WaiterIsPair DEF HeardInv, WaiterInv, SlotInv, TypeOK, Expected, Pending, InHand, Alone
  <1>5. StruckInv'
    BY WaiterIsPair DEF StruckInv, WaiterInv, SlotInv, TypeOK, Expected, Pending, InHand, Collecting
  <1> QED BY <1>1, <1>2, <1>3, <1>4, <1>5

LEMMA TickStep ==
  ASSUME ProbeInv, Tick
  PROVE  ProbeInv'
  <1> USE DEF ProbeInv, Tick, scanVars, engineVars, netVars, demuxVars
  <1>a. \A n \in Nat : Max({n - 1, 0}) = IF n = 0 THEN 0 ELSE n - 1
    BY DEF Max
  <1>b. \A p \in Probes : left[p] \in Nat /\ slice[p] \in Nat /\ left[p] <= Timeout
    BY EngineAssumption DEF TypeOK
  <1>c. left' \in [Probes -> 0 .. Timeout] /\ slice' \in [Probes -> Nat]
    BY <1>a, <1>b, EngineAssumption DEF TypeOK
  <1>1. TypeOK'
    BY <1>c DEF TypeOK
  <1>2. SlotInv'
    BY DEF SlotInv, TypeOK
  <1>3. WaiterInv'
    BY WaiterIsPair DEF WaiterInv, SlotInv, TypeOK, Fresh, Owned, Pending, InHand
  <1>4. HeardInv'
    BY WaiterIsPair DEF HeardInv, WaiterInv, SlotInv, TypeOK, Expected, Pending, InHand, Alone
  <1>5. StruckInv'
    BY WaiterIsPair DEF StruckInv, WaiterInv, SlotInv, TypeOK, Expected, Pending, InHand, Collecting
  <1> QED BY <1>1, <1>2, <1>3, <1>4, <1>5

LEMMA CheckReplyStep ==
  ASSUME ProbeInv, NEW u \in Waiters, CheckReply(u)
  PROVE  ProbeInv'
  <1> USE DEF ProbeInv, CheckReply, scanVars, engineVars, netVars, demuxVars
  <1>1. TypeOK'
    BY EngineAssumption DEF TypeOK
  <1>2. SlotInv'
    BY DEF SlotInv, TypeOK
  <1>3. WaiterInv'
    BY WaiterIsPair DEF WaiterInv, SlotInv, TypeOK, Fresh, Owned, Pending, InHand
  <1>4. HeardInv'
    BY WaiterIsPair DEF HeardInv, WaiterInv, SlotInv, TypeOK, Expected, Pending, InHand, Alone
  <1>5. StruckInv'
    BY WaiterIsPair DEF StruckInv, WaiterInv, SlotInv, TypeOK, Expected, Pending, InHand, Collecting
  <1> QED BY <1>1, <1>2, <1>3, <1>4, <1>5

LEMMA DropEngineStep ==
  ASSUME ProbeInv, DropEngine
  PROVE  ProbeInv'
  <1> USE DEF ProbeInv, DropEngine, scanVars, engineVars, netVars, demuxVars
  <1>1. TypeOK'
    BY EngineAssumption DEF TypeOK
  <1>2. SlotInv'
    BY DEF SlotInv, TypeOK
  <1>3. WaiterInv'
    BY WaiterIsPair DEF WaiterInv, SlotInv, TypeOK, Fresh, Owned, Pending, InHand
  <1>4. HeardInv'
    BY WaiterIsPair DEF HeardInv, WaiterInv, SlotInv, TypeOK, Expected, Pending, InHand, Alone
  <1>5. StruckInv'
    BY WaiterIsPair DEF StruckInv, WaiterInv, SlotInv, TypeOK, Expected, Pending, InHand, Collecting
  <1> QED BY <1>1, <1>2, <1>3, <1>4, <1>5

-----------------------------------------------------------------------------
(* The theorems *)

LEMMA ProbeInvInit == Init => ProbeInv
  <1> SUFFICES ASSUME Init PROVE ProbeInv
    OBVIOUS
  <1>1. TypeOK
    BY EngineAssumption DEF Init, TypeOK
  <1>2. SlotInv
    BY DEF Init, SlotInv
  <1>3. WaiterInv /\ HeardInv /\ StruckInv
    BY WaiterIsPair DEF Init, WaiterInv, HeardInv, StruckInv, Expected, Pending, InHand
  <1> QED BY <1>1, <1>2, <1>3 DEF ProbeInv

LEMMA ProbeStepKeeps ==
  ASSUME ProbeInv, NEW p \in Probes, ProbeStep(p)
  PROVE  ProbeInv'
  <1>1. CASE LinkStep(p)
    BY <1>1, LinkSendStep, LinkSendFailsStep, LinkReceiveStep, LinkElapsedStep, LinkLeaveStep
       DEF LinkStep
  <1>2. CASE IcmpStep(p)
    BY <1>2, EchoSentStep, EchoFailsStep, EchoElapsedStep, EchoLeaveStep, NoMoreEchoesStep,
       NextEchoStep, CollectStep, CollectElapsedStep, CollectLeaveStep, IcmpEndsStep
       DEF IcmpStep
  <1> QED BY <1>1, <1>2, LocalFaultStep, OpenFailsStep, StartStep DEF ProbeStep

LEMMA ProbeInvStep == ProbeInv /\ [Next]_vars => ProbeInv'
  <1> SUFFICES ASSUME ProbeInv, [Next]_vars PROVE ProbeInv'
    OBVIOUS
  <1>1. CASE ReaderStep
    BY <1>1, LinkFrameStep, CheckReplyStep, DispatchReplyStep, ReaderDiesStep DEF ReaderStep
  <1>2. CASE UNCHANGED vars
    BY <1>2 DEF vars, ProbeInv, TypeOK, SlotInv, WaiterInv, HeardInv, StruckInv, Fresh, Owned,
                Expected, Pending, InHand, Alone, Collecting
  <1> QED BY <1>1, <1>2, ProbeStepKeeps, HostAnswersStep, TickStep, DropEngineStep
          DEF Next, Over

\* ProbeInvariance: the inductive invariant holds of every engine, whichever
\* prober it serves and however many probes share it (prober/demux.rs,
\* link_layer.rs, icmp.rs); TypeOK is its first part.
THEOREM ProbeInvariance == Spec => []ProbeInv
  BY ProbeInvInit, ProbeInvStep, PTL DEF Spec

\* EveryLoneProbeHeard: LoneProbeHeard for any number of probes, echoes and
\* addresses: register before send, and deregister by key, never lose the
\* reply a probe waits for.
THEOREM EveryLoneProbeHeard == Spec => []LoneProbeHeard
  <1>1. ProbeInv => LoneProbeHeard
    BY DEF ProbeInv, HeardInv, LoneProbeHeard, Awaited, Expected, Pending, InHand
  <1> QED BY <1>1, ProbeInvariance, PTL

\* WaitersNeverLeak: NoWaiterLeaks for every probe and return path of
\* link_layer.rs and icmp.rs: the shared map holds no waiter of a probe that
\* ended.
THEOREM WaitersNeverLeak == Spec => []NoWaiterLeaks
  <1>1. ProbeInv => NoWaiterLeaks
    BY WaiterIsPair
       DEF ProbeInv, TypeOK, SlotInv, WaiterInv, NoWaiterLeaks, Owned, Pending, InHand
  <1> QED BY <1>1, ProbeInvariance, PTL

\* DeathIsNeverAbsence: DeadReaderIsFault for every interleaving of the
\* reader's death (ReaderExit, poison) with registering, sending, timing out
\* and collecting.
THEOREM DeathIsNeverAbsence == Spec => []DeadReaderIsFault
  <1>1. ProbeInv => DeadReaderIsFault
    <2> SUFFICES ASSUME ProbeInv, NEW w \in struck PROVE verdict[w[1]] # "absent"
      BY DEF DeadReaderIsFault
    <2>1. w[1] \in Probes /\ w[2] \in Nat
      BY WaiterIsPair DEF ProbeInv, TypeOK
    <2>2. CASE pc[w[1]] # "done"
      BY <2>1, <2>2 DEF ProbeInv, SlotInv
    <2>3. CASE pc[w[1]] = "done"
      BY <2>1, <2>3 DEF ProbeInv, SlotInv, StruckInv, Expected, Pending, InHand
    <2> QED BY <2>2, <2>3
  <1> QED BY <1>1, ProbeInvariance, PTL
=============================================================================
