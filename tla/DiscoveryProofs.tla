-------------------------- MODULE DiscoveryProofs --------------------------
(***************************************************************************)
(* The theorems of ScanScheduler and DiscoveryRun.  First run_scan on its  *)
(* own, against any consumer: no outcome is lost, the window stays full,   *)
(* a prefix is reported.  Then the pipeline around it: its invariants, the *)
(* monotone checkpoint and the promise of a resumable scan, for every      *)
(* plan, prober count, cap, interval and number of faults.                 *)
(***************************************************************************)
EXTENDS DiscoveryRun, FiniteSetTheorems, TLAPS

USE NumTargetsAssumption, NumProbersAssumption, MaxConcurrentAssumption

\* The effective cap is positive: BoundedScheduler::new never primes nothing.
LEMMA CapPositive == Cap \in Nat /\ Cap > 0
  BY DEF Cap

\* Feed::next hands out a probe of the stream that was not handed out before,
\* and moves on by exactly that probe.
LEMMA FeedMoves ==
  ASSUME streamLen \in 0 .. NumTargets,
         feed \in [pulled : 0 .. NumTargets, pass : 0 .. NumProbers],
         FeedBound, FeedNonEmpty,
         feed' = FeedAdvance
  PROVE  /\ FeedProbe \in Probes
         /\ FeedProbe = <<FeedProbe[1], FeedProbe[2]>>
         /\ ~HandedOut(FeedProbe)
         /\ \A c \in Probes : HandedOut(c)' <=> HandedOut(c) \/ c = FeedProbe
         /\ feed' \in [pulled : 0 .. NumTargets, pass : 0 .. NumProbers]
         /\ feed.pulled <= feed'.pulled
         /\ feed'.pulled <= streamLen
         /\ feed'.pulled > 0
<1> USE DEF FeedAdvance, FeedProbe
<1>0. /\ feed \in [pulled : 0 .. NumTargets, pass : 0 .. NumProbers]
      /\ streamLen \in 0 .. NumTargets
      /\ feed.pulled <= streamLen
      /\ feed.pulled = 0 => feed.pass = NumProbers
      /\ feed.pass < NumProbers \/ feed.pulled < streamLen
  BY DEF FeedBound, FeedNonEmpty
<1>1. CASE feed.pass < NumProbers
  <2>1. /\ feed.pulled > 0
        /\ FeedProbe = <<feed.pulled - 1, feed.pass>>
        /\ feed' = [feed EXCEPT !.pass = feed.pass + 1]
    BY <1>0, <1>1
  <2>2. /\ feed'.pulled = feed.pulled
        /\ feed'.pass = feed.pass + 1
        /\ feed' \in [pulled : 0 .. NumTargets, pass : 0 .. NumProbers]
    BY <1>0, <1>1, <2>1
  <2>3. FeedProbe \in Probes /\ ~HandedOut(FeedProbe)
    BY <1>0, <1>1, <2>1 DEF Probes, Targets, Passes, HandedOut
  <2>4. ASSUME NEW c \in Probes
        PROVE  HandedOut(c)' <=> HandedOut(c) \/ c = FeedProbe
    <3>1. PICK t \in Targets, p \in Passes : c = <<t, p>>
      BY DEF Probes
    <3>2. QED
      BY <1>0, <1>1, <2>1, <2>2, <3>1 DEF HandedOut, Targets, Passes
  <2>5. QED
    BY <1>0, <2>1, <2>2, <2>3, <2>4
<1>2. CASE ~(feed.pass < NumProbers)
  <2>1. /\ feed.pass = NumProbers
        /\ feed.pulled < streamLen
        /\ FeedProbe = <<feed.pulled, 0>>
        /\ feed' = [pulled |-> feed.pulled + 1, pass |-> 1]
    BY <1>0, <1>2
  <2>2. /\ feed'.pulled = feed.pulled + 1
        /\ feed'.pass = 1
        /\ feed' \in [pulled : 0 .. NumTargets, pass : 0 .. NumProbers]
    BY <1>0, <2>1
  <2>3. FeedProbe \in Probes /\ ~HandedOut(FeedProbe)
    BY <1>0, <2>1 DEF Probes, Targets, Passes, HandedOut
  <2>4. ASSUME NEW c \in Probes
        PROVE  HandedOut(c)' <=> HandedOut(c) \/ c = FeedProbe
    <3>1. PICK t \in Targets, p \in Passes : c = <<t, p>>
      BY DEF Probes
    <3>2. QED
      BY <1>0, <2>1, <2>2, <3>1 DEF HandedOut, Targets, Passes
  <2>5. QED
    BY <1>0, <2>1, <2>2, <2>3, <2>4
<1>3. QED
  BY <1>1, <1>2

LEMMA FeedHandsOut ==
  ASSUME SchedTypeOK, FeedBound, FeedNonEmpty,
         feed' = FeedAdvance
  PROVE  /\ FeedProbe \in Probes
         /\ FeedProbe = <<FeedProbe[1], FeedProbe[2]>>
         /\ ~HandedOut(FeedProbe)
         /\ \A c \in Probes : HandedOut(c)' <=> HandedOut(c) \/ c = FeedProbe
         /\ feed' \in [pulled : 0 .. NumTargets, pass : 0 .. NumProbers]
         /\ feed.pulled <= feed'.pulled
         /\ feed'.pulled <= streamLen
         /\ feed'.pulled > 0
  BY FeedMoves DEF SchedTypeOK

\* Sending a scan adds its target to Sent.
LEMMA SentAfterSend ==
  ASSUME chan \in Seq(Targets), NEW t \in Targets,
         chan' = Append(chan, t), received' = received
  PROVE  Sent' = Sent \cup {t}
  BY DEF Sent

\* Receiving a scan leaves Sent as it is.
LEMMA SentAfterReceive ==
  ASSUME chan \in Seq(Targets), chan # <<>>,
         chan' = Tail(chan), received' = received \cup {Head(chan)}
  PROVE  Sent' = Sent
<1>1. \A i \in DOMAIN chan' : i + 1 \in DOMAIN chan /\ chan'[i] = chan[i + 1]
  OBVIOUS
<1>2. \A i \in DOMAIN chan : i = 1 \/ (i - 1 \in DOMAIN chan' /\ chan'[i - 1] = chan[i])
  OBVIOUS
<1>3. 1 \in DOMAIN chan /\ Head(chan) = chan[1]
  OBVIOUS
<1>4. Sent' \subseteq Sent
  BY <1>1, <1>3 DEF Sent
<1>5. ASSUME NEW x \in Sent PROVE x \in Sent'
  <2>1. CASE x \in received
    BY <2>1 DEF Sent
  <2>2. ASSUME NEW i \in DOMAIN chan, x = chan[i] PROVE x \in Sent'
    BY <1>2, <1>3, <2>2 DEF Sent
  <2>3. QED
    BY <2>1, <2>2 DEF Sent
<1>6. QED
  BY <1>4, <1>5

\* A fresh scan starts with the invariant.
LEMMA SchedInitInv ==
  ASSUME NEW len \in 0 .. NumTargets, SchedInit(len)
  PROVE  SchedTypeOK /\ SchedInv
<1> USE DEF SchedInit
<1>1. SchedTypeOK
  <2>1. chan \in Seq(Targets)
    OBVIOUS
  <2>2. streamLen \in 0 .. NumTargets /\ primed \in 0 .. Cap
    BY CapPositive
  <2>3. feed \in [pulled : 0 .. NumTargets, pass : 0 .. NumProbers]
    OBVIOUS
  <2>4. QED
    BY <2>1, <2>2, <2>3, Zenon DEF SchedTypeOK
<1>2. Sent = {}
  BY DEF Sent
<1>3. FeedInv
  BY <1>2 DEF FeedInv, FeedBound, NoTarget, Probes, Targets
<1>4. PlacesInv
  <2>1. \A c \in Probes : ~HandedOut(c)
    BY DEF HandedOut, Probes, Targets, Passes
  <2>2. \A t \in Targets : ~Complete(t, live)
    BY DEF Complete, Passes
  <2>3. QED
    BY <2>1, <2>2 DEF PlacesInv
<1>5. QueueInv /\ WindowInv
  BY DEF QueueInv, WindowInv, ReportedOnce
<1>6. QED
  BY <1>1, <1>3, <1>4, <1>5 DEF SchedInv

\* A step of the prime loop that spawns keeps the invariant.
LEMMA PrimeSpawnInv ==
  ASSUME SchedTypeOK, SchedInv, PrimeSpawn
  PROVE  SchedTypeOK' /\ SchedInv'
<1> USE DEF PrimeSpawn
<1>1. /\ FeedProbe \in Probes
      /\ FeedProbe[1] \in Targets
      /\ ~HandedOut(FeedProbe)
      /\ \A c \in Probes : HandedOut(c)' <=> HandedOut(c) \/ c = FeedProbe
      /\ feed' \in [pulled : 0 .. NumTargets, pass : 0 .. NumProbers]
      /\ feed.pulled <= feed'.pulled
      /\ feed'.pulled <= streamLen
      /\ feed'.pulled > 0
  BY FeedHandsOut DEF SchedInv, FeedInv, Probes
<1>2. Sent' = Sent /\ Sent \subseteq Targets
  BY DEF Sent, SchedTypeOK
<1>3. SchedTypeOK'
  BY <1>1, CapPositive DEF SchedTypeOK
<1>4. FeedInv'
  BY <1>1, <1>2 DEF SchedTypeOK, SchedInv, FeedInv, FeedBound, Targets, NoTarget
<1>5. PlacesInv'
  <2>1. FeedProbe \notin inflight \cup live /\ FeedProbe[1] \notin Sent \cup {sending}
    BY <1>1 DEF SchedInv, FeedInv, PlacesInv
  <2>2. QED
    BY <1>1, <1>2, <2>1 DEF SchedTypeOK, SchedInv, PlacesInv, Complete
<1>6. QueueInv' /\ WindowInv'
  BY <1>2 DEF SchedInv, QueueInv, WindowInv, ReportedOnce
<1>7. QED
  BY <1>3, <1>4, <1>5, <1>6 DEF SchedInv

\* The end of the prime loop keeps the invariant; the window is not empty
\* when there is work left.
LEMMA PrimeEndInv ==
  ASSUME SchedTypeOK, SchedInv, PrimeEnd
  PROVE  SchedTypeOK' /\ SchedInv'
<1> USE DEF PrimeEnd
<1>1. Sent' = Sent
  BY DEF Sent
<1>2. SchedTypeOK'
  BY DEF SchedTypeOK
<1>3. FeedInv' /\ PlacesInv'
  BY <1>1 DEF SchedInv, FeedInv, FeedBound, PlacesInv, Complete, HandedOut
<1>4. QueueInv'
  BY DEF SchedInv, QueueInv, ReportedOnce
<1>5. WindowInv'
  BY CapPositive DEF WindowInv, FeedNonEmpty, SchedInv
<1>6. QED
  BY <1>2, <1>3, <1>4, <1>5 DEF SchedInv

\* One turn of the join loop keeps the invariant: the outcome moves from the
\* window to live, or with its whole target to the send, and the refill adds
\* a probe nobody has handed out before.
LEMMA JoinInv ==
  ASSUME SchedTypeOK, SchedInv, NEW c \in inflight, Join(c)
  PROVE  SchedTypeOK' /\ SchedInv'
<1> DEFINE t == c[1]
           joined == live \cup {c}
           new == IF Refills THEN {FeedProbe} ELSE {}
           ready == Complete(t, joined)
<1>1. /\ spc = "join"
      /\ inflight' = (inflight \ {c}) \cup new
      /\ feed' = IF Refills THEN FeedAdvance ELSE feed
      /\ targetMap' = IF Refills THEN TargetsLeft(t, joined) \cup {FeedProbe[1]}
                                 ELSE TargetsLeft(t, joined)
      /\ IF ready THEN /\ live' = joined \ SlotsOf(t, joined)
                       /\ sending' = t
                       /\ spc' = "send"
                  ELSE /\ live' = joined
                       /\ sending' = sending
                       /\ spc' = spc
      /\ UNCHANGED <<streamLen, cancel, primed, chan, received, rxOpen>>
  BY DEF Join
<1>2. /\ c \in Probes
      /\ t \in Targets
      /\ sending = NoTarget
      /\ c \notin live
      /\ t \notin Sent
  BY <1>1 DEF SchedTypeOK, Probes, SchedInv, QueueInv, PlacesInv
<1>3. /\ new \subseteq Probes
      /\ \A d \in new : ~HandedOut(d) /\ d[1] \in Targets
      /\ \A d \in Probes : HandedOut(d)' <=> HandedOut(d) \/ d \in new
      /\ feed' \in [pulled : 0 .. NumTargets, pass : 0 .. NumProbers]
      /\ FeedBound'
  <2>1. CASE Refills
    <3>1. /\ FeedProbe \in Probes
          /\ ~HandedOut(FeedProbe)
          /\ \A d \in Probes : HandedOut(d)' <=> HandedOut(d) \/ d = FeedProbe
          /\ feed' \in [pulled : 0 .. NumTargets, pass : 0 .. NumProbers]
          /\ feed'.pulled <= streamLen
          /\ feed'.pulled > 0
      BY <1>1, <2>1, FeedHandsOut DEF Refills, SchedInv, FeedInv
    <3>2. QED
      BY <1>1, <2>1, <3>1 DEF FeedBound, Probes
  <2>2. CASE ~Refills
    BY <1>1, <2>2 DEF SchedTypeOK, SchedInv, FeedInv, FeedBound, HandedOut
  <2>3. QED
    BY <2>1, <2>2
<1>4. /\ joined \subseteq Probes
      /\ \A d \in joined \cup inflight : HandedOut(d)
      /\ live' \subseteq joined
      /\ inflight' \subseteq Probes
  BY <1>1, <1>2, <1>3 DEF SchedTypeOK, SchedInv, FeedInv
<1>5. Sent' = Sent /\ Sent \subseteq Targets
  BY <1>1 DEF Sent, SchedTypeOK
<1>6. SchedTypeOK'
  <2>1. targetMap' \subseteq Targets
    BY <1>1, <1>2, <1>3 DEF TargetsLeft, SchedTypeOK
  <2>2. sending' \in Targets \cup {NoTarget} /\ spc' \in {"prime", "join", "send", "done"}
    BY <1>1, <1>2
  <2>3. QED
    BY <1>1, <1>3, <1>4, <2>1, <2>2 DEF SchedTypeOK
<1>7. ASSUME NEW d \in Probes, d[1] = t, ready
      PROVE  d \in joined
  BY <1>7 DEF Complete, Probes
<1>8. FeedInv'
  <2>1. \A d \in inflight' \cup live' : HandedOut(d)'
    BY <1>1, <1>3, <1>4
  <2>2. ASSUME NEW d \in Probes, d[1] \in Sent \cup {sending'}
        PROVE  HandedOut(d)'
    <3>1. CASE d[1] \in Sent
      BY <1>3, <3>1 DEF SchedInv, FeedInv
    <3>2. CASE d[1] = sending' /\ ready
      BY <1>1, <1>3, <1>4, <1>7, <3>2
    <3>3. CASE d[1] = sending' /\ ~ready
      BY <1>1, <1>2, <3>3 DEF Probes, Targets, NoTarget
    <3>4. QED
      BY <2>2, <3>1, <3>2, <3>3
  <2>3. QED
    BY <1>3, <1>5, <2>1, <2>2 DEF FeedInv
<1>9. PlacesInv'
  <2>1. inflight' \cap live' = {}
    <3>1. new \cap joined = {}
      BY <1>3, <1>4
    <3>2. (inflight \ {c}) \cap joined = {}
      BY DEF SchedInv, PlacesInv
    <3>3. QED
      BY <1>1, <1>4, <3>1, <3>2
  <2>2. ASSUME NEW d \in inflight' \cup live'
        PROVE  d[1] \notin Sent \cup {sending'}
    <3>1. d \in Probes /\ d[1] \in Targets
      BY <1>4 DEF Probes
    <3>2. d[1] \notin Sent
      <4>1. CASE d \in inflight \cup joined
        BY <1>2, <4>1 DEF SchedInv, PlacesInv
      <4>2. CASE d \in new
        BY <1>3, <3>1, <4>2 DEF SchedInv, FeedInv
      <4>3. QED
        BY <1>1, <1>4, <4>1, <4>2
    <3>3. CASE ready
      <4>1. d \in live' => d[1] # t
        BY <1>1, <3>3 DEF SlotsOf
      <4>2. d \in inflight \ {c} => d \notin joined
        BY DEF SchedInv, PlacesInv
      <4>3. d \in new => d \notin joined
        BY <1>3, <1>4
      <4>4. d[1] # t
        BY <1>1, <1>7, <3>1, <3>3, <4>1, <4>2, <4>3
      <4>5. QED
        BY <1>1, <3>2, <3>3, <4>4
    <3>4. CASE ~ready
      BY <1>1, <1>2, <3>1, <3>2, <3>4 DEF Targets, NoTarget
    <3>5. QED
      BY <3>3, <3>4
  <2>3. ASSUME NEW d \in Probes, HandedOut(d)'
        PROVE  d \in inflight' \cup live' \/ d[1] \in Sent \cup {sending'}
    <3>1. CASE d \in new
      BY <1>1, <3>1
    <3>2. CASE HandedOut(d)
      <4>1. d \in inflight \cup live \/ d[1] \in Sent \cup {sending}
        BY <3>2 DEF SchedInv, PlacesInv
      <4>2. d[1] # sending
        BY <1>2 DEF Probes, Targets, NoTarget
      <4>3. CASE d \in joined
        BY <1>1, <4>3 DEF SlotsOf
      <4>4. CASE d \in inflight \ {c} \/ d[1] \in Sent
        BY <1>1, <4>4
      <4>5. QED
        BY <4>1, <4>2, <4>3, <4>4
    <3>3. QED
      BY <1>3, <2>3, <3>1, <3>2
  <2>4. ASSUME NEW u \in Targets
        PROVE  ~Complete(u, live')
    <3>0. 0 \in Passes
      BY DEF Passes
    <3>1. CASE u = t /\ ready
      <4>1. <<u, 0>>[1] = u
        OBVIOUS
      <4>2. <<u, 0>> \notin live'
        BY <1>1, <3>1, <4>1 DEF SlotsOf
      <4>3. QED
        BY <3>0, <4>2 DEF Complete
    <3>2. CASE u = t /\ ~ready
      BY <1>1, <3>2
    <3>3. CASE u # t
      <4>1. PICK p \in Passes : <<u, p>> \notin live
        BY DEF SchedInv, PlacesInv, Complete
      <4>2. <<u, p>> # c
        BY <3>3
      <4>3. QED
        BY <1>4, <4>1, <4>2 DEF Complete
    <3>4. QED
      BY <3>1, <3>2, <3>3
  <2>5. QED
    BY <1>5, <2>1, <2>2, <2>3, <2>4 DEF PlacesInv
<1>10. QueueInv'
  <2>1. \A i \in DOMAIN chan : chan[i] \in Sent
    BY DEF Sent
  <2>2. received \subseteq Sent
    BY DEF Sent
  <2>3. t # NoTarget
    BY <1>2 DEF Targets, NoTarget
  <2>4. CASE ready
    BY <1>1, <1>2, <2>1, <2>2, <2>3, <2>4 DEF SchedInv, QueueInv, ReportedOnce
  <2>5. CASE ~ready
    BY <1>1, <2>5 DEF SchedInv, QueueInv, ReportedOnce
  <2>6. QED
    BY <2>4, <2>5
<1>11. WindowInv'
  <2>1. ASSUME ~cancel, FeedNonEmpty'
        PROVE  inflight' # {}
    <3>1. FeedNonEmpty
      BY <1>1, <2>1 DEF FeedNonEmpty, Refills
    <3>2. QED
      BY <1>1, <2>1, <3>1 DEF Refills
  <2>2. QED
    BY <1>1, <2>1 DEF WindowInv
<1>12. QED
  BY <1>6, <1>8, <1>9, <1>10, <1>11 DEF SchedInv

\* Handing a scan to the channel keeps the invariant.
LEMMA SendInv ==
  ASSUME SchedTypeOK, SchedInv, Send
  PROVE  SchedTypeOK' /\ SchedInv'
<1> USE DEF Send
<1>1. sending \in Targets
  BY DEF SchedTypeOK, SchedInv, QueueInv, NoTarget
<1>2. Sent' = Sent \cup {sending}
  BY <1>1, SentAfterSend DEF SchedTypeOK
<1>3. SchedTypeOK'
  BY <1>1 DEF SchedTypeOK
<1>4. \A c \in Probes : c[1] # NoTarget
  BY DEF Probes, Targets, NoTarget
<1>5. FeedInv'
  BY <1>2, <1>4 DEF SchedInv, FeedInv, FeedBound, HandedOut
<1>6. PlacesInv'
  <2>1. \A c \in inflight \cup live : c \in Probes
    BY DEF SchedTypeOK
  <2>2. QED
    BY <1>2, <1>4, <2>1 DEF SchedInv, PlacesInv, Complete, HandedOut
<1>7. QueueInv'
  <2>1. /\ chan' = Append(chan, sending)
        /\ chan \in Seq(Targets)
        /\ \A i \in DOMAIN chan : chan[i] \in Targets /\ chan[i] # sending /\ chan[i] \notin received
        /\ \A i \in DOMAIN chan, j \in DOMAIN chan : chan[i] = chan[j] => i = j
        /\ sending \notin received
    BY DEF SchedTypeOK, SchedInv, QueueInv, ReportedOnce
  <2>2. /\ DOMAIN chan' = 1 .. Len(chan) + 1
        /\ DOMAIN chan = 1 .. Len(chan)
        /\ Len(chan) \in Nat
        /\ \A i \in DOMAIN chan : chan'[i] = chan[i]
        /\ chan'[Len(chan) + 1] = sending
    BY <1>1, <2>1
  <2>3. \A i \in DOMAIN chan' : chan'[i] \notin received \cup {NoTarget}
    BY <1>1, <2>1, <2>2 DEF Targets, NoTarget
  <2>4. \A i \in DOMAIN chan', j \in DOMAIN chan' : chan'[i] = chan'[j] => i = j
    BY <2>1, <2>2
  <2>5. NoTarget \notin received
    BY DEF SchedTypeOK, Targets, NoTarget
  <2>6. QED
    BY <2>3, <2>4, <2>5 DEF QueueInv, ReportedOnce
<1>8. WindowInv'
  BY DEF SchedInv, WindowInv, FeedNonEmpty
<1>9. QED
  BY <1>3, <1>5, <1>6, <1>7, <1>8 DEF SchedInv

\* The end of run_scan keeps the invariant.
LEMMA ScanReturnsInv ==
  ASSUME SchedTypeOK, SchedInv, ScanReturns
  PROVE  SchedTypeOK' /\ SchedInv'
<1> USE DEF ScanReturns
<1>1. Sent' = Sent
  BY DEF Sent
<1>2. SchedTypeOK'
  BY DEF SchedTypeOK
<1>3. FeedInv' /\ PlacesInv'
  BY <1>1 DEF SchedInv, FeedInv, FeedBound, PlacesInv, Complete, HandedOut
<1>4. QueueInv' /\ WindowInv'
  BY DEF SchedInv, QueueInv, ReportedOnce, WindowInv
<1>5. QED
  BY <1>2, <1>3, <1>4 DEF SchedInv

\* Any poll of run_scan keeps the invariant.
LEMMA RunScanStepInv ==
  ASSUME SchedTypeOK, SchedInv, RunScanStep
  PROVE  SchedTypeOK' /\ SchedInv'
  BY PrimeSpawnInv, PrimeEndInv, JoinInv, SendInv, ScanReturnsInv DEF RunScanStep

\* The consumer's receive keeps the invariant.
LEMMA ReceiveInv ==
  ASSUME SchedTypeOK, SchedInv, NEW t \in Targets, Receive(t)
  PROVE  SchedTypeOK' /\ SchedInv' /\ Sent' = Sent /\ t \notin received /\ t \in Sent
<1> USE DEF Receive
<1>1. Sent' = Sent
  BY SentAfterReceive DEF SchedTypeOK
<1>2. /\ chan' = Tail(chan)
      /\ chan \in Seq(Targets)
      /\ chan # <<>>
      /\ t = Head(chan)
      /\ received' = received \cup {t}
      /\ sending' = sending
  BY DEF SchedTypeOK
<1>3. /\ chan' \in Seq(Targets)
      /\ 1 \in DOMAIN chan
      /\ t = chan[1]
      /\ \A i \in DOMAIN chan' : i + 1 \in DOMAIN chan /\ i + 1 # 1 /\ i \in Int /\ chan'[i] = chan[i + 1]
  BY <1>2
<1>4. SchedTypeOK'
  BY <1>3 DEF SchedTypeOK
<1>5. FeedInv' /\ PlacesInv'
  BY <1>1 DEF SchedInv, FeedInv, FeedBound, PlacesInv, Complete, HandedOut
<1>6. QueueInv'
  <2>1. /\ \A i \in DOMAIN chan : chan[i] \notin received \cup {sending}
        /\ \A i \in DOMAIN chan, j \in DOMAIN chan : chan[i] = chan[j] => i = j
        /\ sending \notin received
    BY DEF SchedInv, QueueInv, ReportedOnce
  <2>2. \A i \in DOMAIN chan' : chan'[i] \notin received' \cup {sending'}
    BY <1>2, <1>3, <2>1
  <2>3. \A i \in DOMAIN chan', j \in DOMAIN chan' : chan'[i] = chan'[j] => i = j
    BY <1>3, <2>1
  <2>4. sending' \notin received'
    BY <1>2, <1>3, <2>1
  <2>5. QED
    BY <2>2, <2>3, <2>4 DEF SchedInv, QueueInv, ReportedOnce
<1>7. WindowInv'
  BY DEF SchedInv, WindowInv, FeedNonEmpty
<1>8. t \notin received /\ t \in Sent
  BY <1>3 DEF SchedInv, QueueInv, ReportedOnce, Sent
<1>9. QED
  BY <1>1, <1>4, <1>5, <1>6, <1>7, <1>8 DEF SchedInv

\* A cancel keeps the invariant.
LEMMA RequestCancelInv ==
  ASSUME SchedTypeOK, SchedInv, RequestCancel
  PROVE  SchedTypeOK' /\ SchedInv' /\ Sent' = Sent
<1> USE DEF RequestCancel
<1>1. Sent' = Sent
  BY DEF Sent
<1>2. SchedTypeOK'
  BY DEF SchedTypeOK
<1>3. FeedInv' /\ PlacesInv'
  BY <1>1 DEF SchedInv, FeedInv, FeedBound, PlacesInv, Complete, HandedOut
<1>4. QueueInv' /\ WindowInv'
  BY DEF SchedInv, QueueInv, ReportedOnce, WindowInv
<1>5. QED
  BY <1>1, <1>2, <1>3, <1>4 DEF SchedInv

\* When run_scan returns it has reported every target but perhaps the last
\* one pulled, and every target of the stream if no cancel was seen.
LEMMA ScanReturnsComplete ==
  ASSUME SchedTypeOK, SchedInv, ScanReturns
  PROVE  /\ \A t \in 0 .. feed.pulled - 2 : t \in Sent
         /\ ~cancel => \A t \in 0 .. streamLen - 1 : t \in Sent
<1> USE DEF ScanReturns
<1>0. /\ feed \in [pulled : 0 .. NumTargets, pass : 0 .. NumProbers]
      /\ streamLen \in 0 .. NumTargets
      /\ feed.pulled <= streamLen
      /\ sending = NoTarget
  BY DEF SchedTypeOK, SchedInv, FeedInv, FeedBound, QueueInv
<1>1. ASSUME NEW t \in Targets, \A p \in Passes : HandedOut(<<t, p>>)
      PROVE  t \in Sent
  <2>1. PICK p \in Passes : <<t, p>> \notin live
    BY DEF SchedInv, PlacesInv, Complete
  <2>2. <<t, p>> \in Probes /\ <<t, p>>[1] = t
    BY DEF Probes
  <2>3. t \in Sent \cup {sending}
    BY <1>1, <2>1, <2>2 DEF SchedInv, PlacesInv
  <2>4. QED
    BY <1>0, <2>3 DEF Targets, NoTarget
<1>2. ASSUME NEW t \in 0 .. feed.pulled - 2
      PROVE  t \in Sent
  <2>1. t \in Targets /\ \A p \in Passes : HandedOut(<<t, p>>)
    BY <1>0 DEF Targets, HandedOut
  <2>2. QED
    BY <1>1, <2>1
<1>3. ASSUME ~cancel, NEW t \in 0 .. streamLen - 1
      PROVE  t \in Sent
  <2>1. feed.pulled = streamLen /\ feed.pass = NumProbers
    BY <1>0, <1>3 DEF SchedInv, WindowInv, FeedNonEmpty
  <2>2. t \in Targets /\ \A p \in Passes : HandedOut(<<t, p>>)
    BY <1>0, <2>1 DEF Targets, HandedOut, Passes
  <2>3. QED
    BY <1>1, <2>2
<1>4. QED
  BY <1>2, <1>3

\* While the consumer listens, run_scan is inside its invariant.
ListenedInv == rxOpen => SchedTypeOK /\ SchedInv

\* Every step against any consumer keeps it: a receiver that is gone never comes back.
LEMMA ListenedStep ==
  ASSUME ListenedInv, [SchedNext]_schedVars
  PROVE  ListenedInv'
<1> SUFFICES ASSUME rxOpen' PROVE SchedTypeOK' /\ SchedInv'
  BY DEF ListenedInv
<1>1. CASE RunScanStep
  <2>1. rxOpen
    BY <1>1 DEF RunScanStep, PrimeSpawn, PrimeEnd, Join, Send, ScanReturns
  <2> QED BY <1>1, <2>1, RunScanStepInv DEF ListenedInv
<1>2. CASE SendFails
  BY <1>2 DEF SendFails
<1>3. CASE \E t \in Targets : Receive(t)
  <2>1. PICK t \in Targets : Receive(t)
    BY <1>3
  <2>2. rxOpen
    BY <2>1 DEF Receive
  <2> QED BY <2>1, <2>2, ReceiveInv DEF ListenedInv
<1>4. CASE RequestCancel
  <2>1. rxOpen
    BY <1>4 DEF RequestCancel
  <2> QED BY <1>4, <2>1, RequestCancelInv DEF ListenedInv
<1>5. CASE DropReceiver
  BY <1>5 DEF DropReceiver
<1>6. CASE UNCHANGED schedVars
  <2>1. rxOpen
    BY <1>6 DEF schedVars
  <2>2. Sent' = Sent
    BY <1>6 DEF schedVars, Sent
  <2>3. SchedTypeOK /\ SchedInv
    BY <2>1 DEF ListenedInv
  <2>4. SchedTypeOK'
    BY <1>6, <2>3 DEF schedVars, SchedTypeOK
  <2>5. FeedInv' /\ PlacesInv'
    BY <1>6, <2>2, <2>3 DEF schedVars, SchedInv, FeedInv, FeedBound, PlacesInv, Complete, HandedOut
  <2>6. QueueInv' /\ WindowInv'
    BY <1>6, <2>3 DEF schedVars, SchedInv, QueueInv, ReportedOnce, WindowInv, FeedNonEmpty
  <2> QED BY <2>4, <2>5, <2>6 DEF SchedInv
<1> QED BY <1>1, <1>2, <1>3, <1>4, <1>5, <1>6 DEF SchedNext

\* The invariant says where every probe is.
LEMMA PlacesConserve ==
  ASSUME SchedTypeOK, SchedInv
  PROVE  OutcomesConserved
<1> SUFFICES ASSUME NEW c \in Probes
             PROVE  LET places == { inflight, live, (Sent \cup {sending}) \X Passes } IN
                    /\ HandedOut(c) <=> \E S \in places : c \in S
                    /\ \A S \in places, R \in places : c \in S /\ c \in R => S = R
  BY DEF OutcomesConserved
<1>1. c \in Targets \X Passes
  BY DEF Probes
<1>2. c \in (Sent \cup {sending}) \X Passes <=> c[1] \in Sent \cup {sending}
  BY <1>1
<1>3. HandedOut(c) => c \in inflight \/ c \in live \/ c[1] \in Sent \cup {sending}
  BY DEF SchedInv, PlacesInv
<1>4. c \in inflight \/ c \in live \/ c[1] \in Sent \cup {sending} => HandedOut(c)
  BY DEF SchedInv, FeedInv
<1>5. /\ ~(c \in inflight /\ c \in live)
      /\ c \in inflight \/ c \in live => c[1] \notin Sent \cup {sending}
  BY DEF SchedInv, PlacesInv
<1> HIDE DEF Sent
<1> QED BY <1>2, <1>3, <1>4, <1>5

(***************************************************************************)
(* run_scan neither loses nor duplicates an outcome, for every number of   *)
(* targets, probers and probe slots, whenever the cancel comes and at      *)
(* whatever pace the consumer takes the scans.                             *)
(***************************************************************************)
THEOREM RunScanConserves == SchedSpec => []OutcomesConserved
<1>1. (\E len \in 0 .. NumTargets : SchedInit(len)) => ListenedInv
  BY SchedInitInv DEF ListenedInv
<1>2. ListenedInv /\ [SchedNext]_schedVars => ListenedInv'
  BY ListenedStep
<1>3. ListenedInv => OutcomesConserved
  <2>1. CASE rxOpen
    BY <2>1, PlacesConserve DEF ListenedInv
  <2>2. CASE ~rxOpen
    BY <2>2 DEF OutcomesConserved
  <2> QED BY <2>1, <2>2
<1> QED BY <1>1, <1>2, <1>3, PTL DEF SchedSpec

\* What run_scan left behind when it returned.
EndedInv ==
  spc = "done" =>
    /\ \A t \in 0 .. feed.pulled - 2 : t \in Sent
    /\ ~cancel => \A t \in 0 .. streamLen - 1 : t \in Sent

ReturnedInv == rxOpen => SchedTypeOK /\ SchedInv /\ EndedInv

LEMMA ReturnedStep ==
  ASSUME ReturnedInv, [SchedNext]_schedVars
  PROVE  ReturnedInv'
<1>0. ListenedInv'
  BY ListenedStep DEF ListenedInv, ReturnedInv
<1> SUFFICES ASSUME rxOpen', spc' = "done" PROVE EndedInv'
  BY <1>0 DEF ListenedInv, ReturnedInv, EndedInv
<1>1. CASE RunScanStep
  <2>1. rxOpen
    BY <1>1 DEF RunScanStep, PrimeSpawn, PrimeEnd, Join, Send, ScanReturns
  <2>2. ScanReturns
    BY <1>1 DEF RunScanStep, PrimeSpawn, PrimeEnd, Join, Send
  <2>3. Sent' = Sent /\ feed' = feed /\ cancel' = cancel /\ streamLen' = streamLen
    BY <2>2 DEF ScanReturns, Sent
  <2> QED BY <2>1, <2>2, <2>3, ScanReturnsComplete DEF ReturnedInv, EndedInv
<1>2. CASE SendFails
  BY <1>2 DEF SendFails
<1>3. CASE \E t \in Targets : Receive(t)
  <2>1. PICK t \in Targets : Receive(t)
    BY <1>3
  <2>2. rxOpen /\ spc = "done" /\ feed' = feed /\ cancel' = cancel /\ streamLen' = streamLen
    BY <2>1 DEF Receive
  <2>3. Sent' = Sent
    BY <2>1, <2>2, ReceiveInv DEF ReturnedInv
  <2> QED BY <2>2, <2>3 DEF ReturnedInv, EndedInv
<1>4. CASE RequestCancel
  <2>1. rxOpen /\ spc = "done" /\ feed' = feed /\ cancel' /\ streamLen' = streamLen
    BY <1>4 DEF RequestCancel
  <2>2. Sent' = Sent
    BY <1>4 DEF RequestCancel, Sent
  <2> QED BY <2>1, <2>2 DEF ReturnedInv, EndedInv
<1>5. CASE DropReceiver
  BY <1>5 DEF DropReceiver
<1>6. CASE UNCHANGED schedVars
  <2>1. Sent' = Sent
    BY <1>6 DEF schedVars, Sent
  <2> QED BY <1>6, <2>1 DEF schedVars, ReturnedInv, EndedInv
<1> QED BY <1>1, <1>2, <1>3, <1>4, <1>5, <1>6 DEF SchedNext

\* Nothing beyond what the feed gave out is ever sent.
LEMMA ReturnedPrefix ==
  ASSUME ReturnedInv
  PROVE  SentIsPrefix
<1> SUFFICES ASSUME spc = "done", rxOpen
             PROVE  /\ ~cancel => Sent = 0 .. streamLen - 1
                    /\ \E n \in {feed.pulled - 1, feed.pulled} : Sent = 0 .. n - 1
  BY DEF SentIsPrefix
<1>0. SchedTypeOK /\ SchedInv /\ EndedInv
  BY DEF ReturnedInv
<1>1. /\ feed.pulled \in 0 .. NumTargets
      /\ streamLen \in 0 .. NumTargets
      /\ feed.pulled <= streamLen
  BY <1>0 DEF SchedTypeOK, SchedInv, FeedInv, FeedBound
<1>2. Sent \subseteq Targets
  BY <1>0 DEF SchedTypeOK, Sent
<1>3. ASSUME NEW t \in Sent PROVE t \in 0 .. feed.pulled - 1
  <2>1. t \in Targets /\ 0 \in Passes
    BY <1>2, <1>3 DEF Passes
  <2>2. <<t, 0>> \in Probes
    BY <2>1 DEF Probes
  <2>3. HandedOut(<<t, 0>>)
    BY <1>0, <1>3, <2>2 DEF SchedInv, FeedInv
  <2> QED BY <1>1, <2>1, <2>3 DEF HandedOut, Targets
<1>4. /\ \A t \in 0 .. feed.pulled - 2 : t \in Sent
      /\ ~cancel => \A t \in 0 .. streamLen - 1 : t \in Sent
  BY <1>0 DEF EndedInv
<1> HIDE DEF Sent
<1>5. ASSUME ~cancel PROVE Sent = 0 .. streamLen - 1
  <2>1. \A t \in Sent : t \in 0 .. streamLen - 1
    BY <1>1, <1>3
  <2> QED BY <1>4, <1>5, <2>1
<1>6. Sent = 0 .. feed.pulled - 2 \/ Sent = 0 .. feed.pulled - 1
  <2>1. CASE feed.pulled - 1 \in Sent
    <3>1. \A t \in 0 .. feed.pulled - 1 : t \in Sent
      BY <1>1, <1>4, <2>1
    <3> QED BY <1>3, <3>1
  <2>2. CASE feed.pulled - 1 \notin Sent
    <3>1. \A t \in Sent : t \in 0 .. feed.pulled - 2
      BY <1>1, <1>3, <2>2
    <3> QED BY <1>4, <3>1
  <2> QED BY <2>1, <2>2
<1>7. \E n \in {feed.pulled - 1, feed.pulled} : Sent = 0 .. n - 1
  BY <1>1, <1>6
<1> QED BY <1>5, <1>7

(***************************************************************************)
(* When run_scan returns to a listening consumer it has reported a         *)
(* contiguous prefix of the targets: all of them without a cancel, all but *)
(* at most the last one started with one.                                  *)
(***************************************************************************)
THEOREM ReportsPrefix == SchedSpec => []SentIsPrefix
<1>1. (\E len \in 0 .. NumTargets : SchedInit(len)) => ReturnedInv
  BY SchedInitInv DEF ReturnedInv, EndedInv, SchedInit
<1>2. ReturnedInv /\ [SchedNext]_schedVars => ReturnedInv'
  BY ReturnedStep
<1>3. ReturnedInv => SentIsPrefix
  BY ReturnedPrefix
<1> QED BY <1>1, <1>2, <1>3, PTL DEF SchedSpec

-----------------------------------------------------------------------------
(* The window, whether or not the consumer listens *)

\* The probes in flight are counted by the prime loop, stay in number through
\* a refill (a probe that is handed out was not in flight) and are never more
\* than the cap.
WindowCount ==
  /\ streamLen \in 0 .. NumTargets
  /\ feed \in [pulled : 0 .. NumTargets, pass : 0 .. NumProbers]
  /\ primed \in 0 .. Cap
  /\ FeedBound
  /\ IsFiniteSet(inflight)
  /\ inflight \subseteq Probes
  /\ \A c \in inflight : HandedOut(c)
  /\ Cardinality(inflight) <= Cap
  /\ spc = "prime" => Cardinality(inflight) = primed
  /\ WindowStaysFull

LEMMA WindowCountInit ==
  ASSUME NEW len \in 0 .. NumTargets, SchedInit(len)
  PROVE  WindowCount
<1>1. /\ streamLen = len /\ spc = "prime" /\ primed = 0 /\ inflight = {}
      /\ feed = [pulled |-> 0, pass |-> NumProbers]
  BY DEF SchedInit
<1>2. IsFiniteSet(inflight) /\ Cardinality(inflight) = 0
  BY <1>1, FS_EmptySet
<1> QED BY <1>1, <1>2, CapPositive DEF WindowCount, FeedBound, WindowStaysFull

\* A probe is spawned, in place of a joined one or on top.
LEMMA WindowGrows ==
  ASSUME WindowCount, FeedNonEmpty, feed' = FeedAdvance, streamLen' = streamLen,
         NEW gone \in SUBSET inflight,
         inflight' = (inflight \ gone) \cup {FeedProbe}
  PROVE  /\ feed' \in [pulled : 0 .. NumTargets, pass : 0 .. NumProbers] /\ FeedBound'
         /\ IsFiniteSet(inflight') /\ inflight' \subseteq Probes
         /\ \A c \in inflight' : HandedOut(c)'
         /\ Cardinality(inflight') = Cardinality(inflight \ gone) + 1
<1>1. /\ FeedProbe \in Probes /\ ~HandedOut(FeedProbe)
      /\ \A c \in Probes : HandedOut(c)' <=> HandedOut(c) \/ c = FeedProbe
      /\ feed' \in [pulled : 0 .. NumTargets, pass : 0 .. NumProbers]
      /\ feed'.pulled <= streamLen /\ feed'.pulled > 0
  BY FeedMoves DEF WindowCount
<1>2. FeedProbe \notin inflight \ gone /\ IsFiniteSet(inflight \ gone)
  BY <1>1, FS_Subset DEF WindowCount
<1>3. IsFiniteSet(inflight') /\ Cardinality(inflight') = Cardinality(inflight \ gone) + 1
  BY <1>2, FS_AddElement
<1>4. FeedBound'
  BY <1>1 DEF FeedBound
<1>5. \A c \in inflight' : c \in Probes /\ HandedOut(c)'
  BY <1>1 DEF WindowCount
<1> QED BY <1>1, <1>3, <1>4, <1>5

\* Every step of run_scan, and of the two channels it hangs on, keeps the
\* count.
LEMMA WindowStep ==
  ASSUME WindowCount, [SchedNext]_schedVars
  PROVE  WindowCount'
<1>0. Cardinality(inflight) \in Nat /\ Cap \in Nat /\ Cap > 0
  BY CapPositive, FS_CardinalityType DEF WindowCount
<1>1. CASE PrimeSpawn
  <2>1. /\ spc = "prime" /\ primed < Cap /\ primed' = primed + 1 /\ FeedNonEmpty
        /\ feed' = FeedAdvance /\ inflight' = (inflight \ {}) \cup {FeedProbe}
        /\ UNCHANGED <<streamLen, cancel, spc>>
    BY <1>1 DEF PrimeSpawn
  <2>2. /\ feed' \in [pulled : 0 .. NumTargets, pass : 0 .. NumProbers] /\ FeedBound'
        /\ IsFiniteSet(inflight') /\ inflight' \subseteq Probes
        /\ \A c \in inflight' : HandedOut(c)'
        /\ Cardinality(inflight') = Cardinality(inflight \ {}) + 1
    BY <2>1, WindowGrows
  <2>3. inflight \ {} = inflight
    OBVIOUS
  <2> QED BY <1>0, <2>1, <2>2, <2>3 DEF WindowCount, WindowStaysFull
<1>2. CASE PrimeEnd
  <2>1. /\ spc = "prime" /\ spc' = "join"
        /\ primed = Cap \/ cancel \/ ~FeedNonEmpty
        /\ UNCHANGED <<streamLen, cancel, primed, feed, inflight>>
    BY <1>2 DEF PrimeEnd
  <2> QED BY <2>1 DEF WindowCount, WindowStaysFull, FeedBound, FeedNonEmpty, HandedOut
<1>3. ASSUME NEW c \in inflight, Join(c) PROVE WindowCount'
  <2>1. /\ spc = "join" /\ spc' \in {"join", "send"}
        /\ UNCHANGED <<streamLen, cancel, primed>>
    BY <1>3 DEF Join
  <2>2. IsFiniteSet(inflight \ {c}) /\ Cardinality(inflight \ {c}) = Cardinality(inflight) - 1
    BY FS_RemoveElement DEF WindowCount
  <2>3. CASE Refills /\ feed' = FeedAdvance /\ inflight' = (inflight \ {c}) \cup {FeedProbe}
    <3>1. FeedNonEmpty /\ ~cancel
      BY <2>3 DEF Refills
    <3>2. /\ feed' \in [pulled : 0 .. NumTargets, pass : 0 .. NumProbers] /\ FeedBound'
          /\ IsFiniteSet(inflight') /\ inflight' \subseteq Probes
          /\ \A d \in inflight' : HandedOut(d)'
          /\ Cardinality(inflight') = Cardinality(inflight \ {c}) + 1
      BY <2>1, <2>3, <3>1, WindowGrows
    <3>3. Cardinality(inflight') = Cap
      BY <1>0, <2>1, <2>2, <3>1, <3>2 DEF WindowCount, WindowStaysFull
    <3> QED BY <1>0, <2>1, <3>2, <3>3 DEF WindowCount, WindowStaysFull
  <2>4. CASE ~Refills /\ feed' = feed /\ inflight' = inflight \ {c}
    <3>1. cancel' \/ ~FeedNonEmpty'
      BY <2>1, <2>4 DEF Refills, FeedNonEmpty
    <3>2. Cardinality(inflight') <= Cap
      BY <1>0, <2>2, <2>4 DEF WindowCount
    <3> QED BY <2>1, <2>2, <2>4, <3>1, <3>2 DEF WindowCount, WindowStaysFull, FeedBound, HandedOut
  <2> QED BY <1>3, <2>3, <2>4 DEF Join
<1>4. CASE SendFails
  <2>1. spc' = "done" /\ inflight' = {} /\ UNCHANGED <<streamLen, primed, feed>>
    BY <1>4 DEF SendFails
  <2>2. IsFiniteSet(inflight') /\ Cardinality(inflight') = 0
    BY <2>1, FS_EmptySet
  <2> QED BY <1>0, <2>1, <2>2 DEF WindowCount, WindowStaysFull, FeedBound
<1>5. CASE Send \/ ScanReturns \/ RequestCancel \/ DropReceiver \/ UNCHANGED schedVars
           \/ \E t \in Targets : Receive(t)
  <2>1. /\ UNCHANGED <<streamLen, primed, feed, inflight>>
        /\ spc' = spc \/ (spc = "send" /\ spc' = "join") \/ spc' = "done"
        /\ cancel' = cancel \/ cancel'
    BY <1>5 DEF Send, ScanReturns, RequestCancel, DropReceiver, Receive, schedVars
  <2> QED BY <2>1 DEF WindowCount, WindowStaysFull, FeedBound, FeedNonEmpty, HandedOut
<1> QED BY <1>1, <1>2, <1>3, <1>4, <1>5 DEF SchedNext, RunScanStep

(***************************************************************************)
(* For every cap and whatever the consumer does: as long as the feed has a *)
(* probe and no cancel was seen, exactly Cap probes are in flight, also    *)
(* while run_scan waits to send.                                           *)
(***************************************************************************)
THEOREM WindowFull == SchedSpec => []WindowStaysFull
<1>1. (\E len \in 0 .. NumTargets : SchedInit(len)) => WindowCount
  BY WindowCountInit
<1>2. WindowCount /\ [SchedNext]_schedVars => WindowCount'
  BY WindowStep
<1>3. WindowCount => WindowStaysFull
  BY DEF WindowCount
<1> QED BY <1>1, <1>2, <1>3, PTL DEF SchedSpec
-----------------------------------------------------------------------------
(* Facts shared by the actions *)

\* A step that leaves run_scan alone leaves its invariant alone.
LEMMA SchedUnchanged ==
  ASSUME UNCHANGED schedVars
  PROVE  /\ SchedTypeOK' <=> SchedTypeOK
         /\ SchedInv' <=> SchedInv
         /\ Sent' = Sent
<1> USE DEF schedVars
<1>1. Sent' = Sent
  BY DEF Sent
<1>2. SchedTypeOK' <=> SchedTypeOK
  BY DEF SchedTypeOK
<1>3. FeedInv' <=> FeedInv
  BY <1>1 DEF FeedInv, FeedBound, HandedOut
<1>4. PlacesInv' <=> PlacesInv
  BY <1>1 DEF PlacesInv, HandedOut, Complete
<1>5. QueueInv' <=> QueueInv
  BY DEF QueueInv, ReportedOnce
<1>6. WindowInv' <=> WindowInv
  BY DEF WindowInv, FeedNonEmpty
<1>7. QED
  BY <1>1, <1>2, <1>3, <1>4, <1>5, <1>6 DEF SchedInv

\* A process starts run_scan in a state that satisfies its invariant.
LEMMA SchedResetInv ==
  ASSUME NEW len \in 0 .. NumTargets, SchedReset(len)
  PROVE  SchedTypeOK' /\ SchedInv' /\ Sent' = {}
<1>0. /\ streamLen' = len
      /\ cancel' = FALSE
      /\ spc' = "prime"
      /\ primed' = 0
      /\ feed' = [pulled |-> 0, pass |-> NumProbers]
      /\ inflight' = {}
      /\ live' = {}
      /\ targetMap' = {}
      /\ sending' = NoTarget
      /\ chan' = <<>>
      /\ received' = {}
      /\ rxOpen' = TRUE
  BY DEF SchedReset
<1>1. SchedTypeOK'
  <2>1. chan' \in Seq(Targets)
    BY <1>0
  <2>2. streamLen' \in 0 .. NumTargets /\ primed' \in 0 .. Cap
    BY <1>0, CapPositive
  <2>3. feed' \in [pulled : 0 .. NumTargets, pass : 0 .. NumProbers]
    BY <1>0
  <2>4. QED
    BY <1>0, <2>1, <2>2, <2>3, Zenon DEF SchedTypeOK
<1>2. Sent' = {}
  BY <1>0 DEF Sent
<1>3. FeedInv'
  BY <1>0, <1>2 DEF FeedInv, FeedBound, NoTarget, Probes, Targets
<1>4. PlacesInv'
  <2>1. \A c \in Probes : ~HandedOut(c)'
    BY <1>0 DEF HandedOut, Probes, Targets, Passes
  <2>2. \A t \in Targets : ~Complete(t, live)'
    BY <1>0 DEF Complete, Passes
  <2>3. QED
    BY <1>0, <1>2, <2>1, <2>2 DEF PlacesInv
<1>5. QueueInv' /\ WindowInv'
  BY <1>0 DEF QueueInv, WindowInv, ReportedOnce
<1>6. QED
  BY <1>1, <1>2, <1>3, <1>4, <1>5 DEF SchedInv

-----------------------------------------------------------------------------
(* Initial states and process start *)

\* The initial states satisfy the inductive invariant.
LEMMA InitInv == Init => IndInv
<1> SUFFICES ASSUME Init PROVE IndInv
  OBVIOUS
<1> USE DEF Init
<1>1. SchedTypeOK /\ SchedInv
  BY SchedInitInv
<1>2. TypeOK
  <2>1. /\ base \in 0 .. NumTargets
        /\ nextExpected \in 0 .. NumTargets
        /\ lastCheckpoint \in 0 .. NumTargets
        /\ faults \in 0 .. MaxFaults
    BY MaxFaultsAssumption
  <2>2. QED
    BY <1>1, <2>1, Zenon DEF TypeOK, Phases
<1>3. StreamInv /\ ReorderInv /\ DoneInv /\ AfterLoopInv
  BY DEF SchedInit, StreamInv, ReorderInv, DoneInv, AfterLoopInv, Working, Looping
<1>4. EligibleInv /\ EmissionInv /\ CheckpointInv /\ CompleteMeansDelivered
  BY DEF EligibleInv, EmissionInv, EmittedPrefix, CheckpointInv,
         CheckpointNeverAhead, CompleteMeansDelivered, Working
<1>5. QED
  BY <1>1, <1>2, <1>3, <1>4 DEF IndInv, ScanInv

\* Starting or resuming keeps the invariant: what the resume skips is covered.
LEMMA StartInv ==
  ASSUME IndInv, Start
  PROVE  IndInv'
<1> USE DEF Start
<1>1. ResumeBase \in 0 .. NumTargets /\ StreamLength \in 0 .. NumTargets
  BY DEF IndInv, TypeOK, ResumeBase, StreamLength, Targets, NoFile
<1>2. SchedTypeOK' /\ SchedInv' /\ Sent' = {}
  BY <1>1, SchedResetInv
<1>3. TypeOK'
  <2>1. /\ base' \in 0 .. NumTargets
        /\ nextExpected' \in 0 .. NumTargets
        /\ lastCheckpoint' \in 0 .. NumTargets
    BY <1>1 DEF RunReset
  <2>2. QED
    BY <1>2, <2>1, Zenon DEF IndInv, TypeOK, RunReset, Phases, Working
<1>4. StreamInv' /\ ReorderInv' /\ DoneInv' /\ AfterLoopInv'
  BY <1>1 DEF RunReset, SchedReset, StreamInv, ReorderInv, DoneInv, AfterLoopInv,
              StreamLength, Looping
<1>5. EligibleInv'
  BY DEF IndInv, EligibleInv, RunReset, ResumeEligibility
<1>6. EmissionInv'
  <2>1. \A t \in 0 .. ResumeBase - 1 : Covered(t)
    BY DEF IndInv, TypeOK, CheckpointInv, CheckpointNeverAhead, ResumeBase,
           Targets, NoFile
  <2>2. /\ base' = ResumeBase
        /\ nextExpected' = 0
        /\ durable' = durable
        /\ buffered' = {}
        /\ cpc' = "select"
    BY DEF RunReset
  <2>3. base' .. base' + nextExpected' - 1 = {}
    BY <1>1, <2>2
  <2>4. QED
    BY <2>1, <2>2, <2>3 DEF IndInv, EligibleInv, EmissionInv, EmittedPrefix,
                            Covered, RunReset
<1>7. CheckpointInv'
  <2>1. ckpt # NoFile => ckpt <= base'
    BY DEF IndInv, TypeOK, EligibleInv, RunReset, ResumeBase, Targets, NoFile
  <2>2. QED
    BY <2>1 DEF IndInv, CheckpointInv, CheckpointNeverAhead, Covered
<1>8. CompleteMeansDelivered'
  BY DEF CompleteMeansDelivered
<1>9. QED
  BY <1>2, <1>3, <1>4, <1>5, <1>6, <1>7, <1>8 DEF IndInv, ScanInv

\* A refused request changes nothing.
LEMMA RefuseInv ==
  ASSUME IndInv, Refuse
  PROVE  IndInv'
<1> USE DEF Refuse, runVars
<1>1. SchedTypeOK' /\ SchedInv' /\ Sent' = Sent
  BY SchedUnchanged DEF IndInv, TypeOK, ScanInv
<1>2. TypeOK'
  BY <1>1, Zenon DEF IndInv, TypeOK, Phases
<1>3. StreamInv' /\ ReorderInv' /\ DoneInv' /\ AfterLoopInv'
  BY DEF IndInv, schedVars, StreamInv, ReorderInv, DoneInv, AfterLoopInv, Working, Looping
<1>4. EligibleInv' /\ EmissionInv' /\ CheckpointInv' /\ CompleteMeansDelivered'
  BY DEF IndInv, EligibleInv, EmissionInv, EmittedPrefix, CheckpointInv,
         CheckpointNeverAhead, CompleteMeansDelivered, Covered, Working
<1>5. QED
  BY <1>1, <1>2, <1>3, <1>4 DEF IndInv, ScanInv

-----------------------------------------------------------------------------
(* The select! loop *)

\* A poll of run_scan touches neither the consumer's end nor the cancel.
LEMMA RunScanStepFrame ==
  ASSUME RunScanStep
  PROVE  /\ UNCHANGED <<streamLen, cancel, received, rxOpen>>
         /\ spc' = "done" => ScanReturns
  BY DEF RunScanStep, PrimeSpawn, PrimeEnd, Join, Send, ScanReturns

\* Polling run_scan keeps the invariant; when it returns, what it reported is
\* a prefix, and the cancel it saw is latched.
LEMMA PollScanInv ==
  ASSUME IndInv, PollScan
  PROVE  IndInv'
<1>0. /\ cpc = "select"
      /\ RunScanStep
      /\ cancelled' = IF spc' = "done" THEN LatchedCancel ELSE cancelled
      /\ UNCHANGED <<base, nextExpected, reorder, held, emitErr, halted, closeErr,
                     lastCheckpoint, scenario, cpc, buffered, durable, ckpt,
                     stopped, faults>>
      /\ SchedTypeOK
      /\ SchedInv
  BY DEF PollScan, IndInv, TypeOK, ScanInv
<1>1. SchedTypeOK' /\ SchedInv'
  BY <1>0, RunScanStepInv
<1>2. /\ UNCHANGED <<streamLen, cancel, received, rxOpen>>
      /\ spc' = "done" => ScanReturns
  BY <1>0, RunScanStepFrame
<1>3. TypeOK'
  <2>1. cancelled' \in BOOLEAN
    BY <1>0, Zenon DEF LatchedCancel, IndInv, TypeOK, SchedTypeOK
  <2>2. QED
    BY <1>0, <1>1, <2>1, Zenon DEF IndInv, TypeOK
<1>4. StreamInv' /\ ReorderInv' /\ AfterLoopInv'
  BY <1>0, <1>2 DEF IndInv, StreamInv, ReorderInv, AfterLoopInv, Looping
<1>5. DoneInv'
  <2>1. SUFFICES ASSUME spc' = "done"
                 PROVE  /\ \A t \in 0 .. feed'.pulled - 2 : t \in Sent'
                        /\ ~cancelled' => \A t \in 0 .. streamLen' - 1 : t \in Sent'
    BY DEF DoneInv, Looping
  <2>2. ScanReturns
    BY <1>2, <2>1
  <2>3. /\ \A t \in 0 .. feed.pulled - 2 : t \in Sent
        /\ ~cancel => \A t \in 0 .. streamLen - 1 : t \in Sent
    BY <1>0, <2>2, ScanReturnsComplete
  <2>4. Sent' = Sent /\ feed' = feed
    BY <2>2 DEF ScanReturns, Sent
  <2>5. cancelled' = cancel
    BY <1>0, <2>1 DEF LatchedCancel
  <2>6. QED
    BY <1>2, <2>3, <2>4, <2>5
<1>6. EligibleInv' /\ EmissionInv' /\ CheckpointInv' /\ CompleteMeansDelivered'
  BY <1>0 DEF IndInv, EligibleInv, EmissionInv, EmittedPrefix, CheckpointInv,
         CheckpointNeverAhead, CompleteMeansDelivered, Covered, Working
<1>7. QED
  BY <1>1, <1>3, <1>4, <1>5, <1>6 DEF IndInv, ScanInv

\* A scan that was sent belongs to a target the feed has pulled.
LEMMA SentPulled ==
  ASSUME SchedTypeOK, SchedInv, NEW t \in Targets, t \in Sent
  PROVE  t < feed.pulled /\ t < streamLen
<1>1. <<t, 0>> \in Probes /\ <<t, 0>>[1] = t /\ <<t, 0>>[2] = 0
  BY DEF Probes, Passes
<1>2. HandedOut(<<t, 0>>)
  BY <1>1 DEF SchedInv, FeedInv
<1>3. QED
  BY <1>1, <1>2 DEF HandedOut, SchedInv, FeedInv, FeedBound, SchedTypeOK, Targets

\* Receiving a scan keeps the invariant: a target not yet drained goes to the
\* reorder buffer.
LEMMA RecvScanInv ==
  ASSUME IndInv, NEW t \in Targets, RecvScan(t)
  PROVE  IndInv'
<1>0. /\ cpc = "select"
      /\ Receive(t)
      /\ reorder' = reorder \cup {t}
      /\ cpc' = AfterDrain(nextExpected, reorder')
      /\ UNCHANGED <<base, nextExpected, held, emitErr, halted, closeErr,
                     cancelled, lastCheckpoint, scenario, buffered, durable,
                     ckpt, stopped, faults>>
      /\ UNCHANGED <<streamLen, spc, feed, rxOpen>>
      /\ received' = received \cup {t}
      /\ SchedTypeOK
      /\ SchedInv
  BY DEF RecvScan, Receive, IndInv, TypeOK, ScanInv
<1>1. SchedTypeOK' /\ SchedInv' /\ Sent' = Sent /\ t \notin received /\ t \in Sent
  BY <1>0, ReceiveInv
<1>2. cpc' \in {"select", "drain"} /\ (cpc' = "drain" <=> nextExpected \in reorder')
  BY <1>0 DEF AfterDrain
<1>3. TypeOK'
  <2>1. reorder' \subseteq Targets /\ cpc' \in Phases
    BY <1>0, <1>2 DEF IndInv, TypeOK, Phases, Working
  <2>2. QED
    BY <1>0, <1>1, <2>1, Zenon DEF IndInv, TypeOK
<1>4. StreamInv'
  BY <1>0, <1>1, <1>2, SentPulled DEF IndInv, StreamInv
<1>5. ReorderInv'
  <2>1. /\ received = 0 .. nextExpected - 1 \cup reorder
        /\ \A r \in reorder : r >= nextExpected
        /\ nextExpected \in Nat
        /\ t \in Nat
    BY <1>0 DEF IndInv, ReorderInv, Working, Looping, TypeOK, Targets
  <2>2. t >= nextExpected
    BY <1>1, <2>1
  <2>3. received' = 0 .. nextExpected - 1 \cup reorder'
    BY <1>0, <2>1
  <2>4. QED
    BY <1>0, <1>2, <2>1, <2>2, <2>3 DEF ReorderInv, Looping
<1>6. DoneInv'
  BY <1>0, <1>1 DEF IndInv, DoneInv, Looping
<1>7. AfterLoopInv' /\ EligibleInv' /\ CompleteMeansDelivered'
  BY <1>0, <1>2 DEF IndInv, AfterLoopInv, EligibleInv, CompleteMeansDelivered, Working, Looping
<1>8. EmissionInv' /\ CheckpointInv'
  BY <1>0, <1>2 DEF IndInv, EmissionInv, EmittedPrefix, CheckpointInv,
                    CheckpointNeverAhead, Covered, Working
<1>9. QED
  BY <1>1, <1>3, <1>4, <1>5, <1>6, <1>7, <1>8 DEF IndInv, ScanInv

-----------------------------------------------------------------------------
(* The sink *)

\* A fault is counted within the bound.
LEMMA FaultBound ==
  ASSUME faults \in 0 .. MaxFaults, Fault
  PROVE  faults' \in 0 .. MaxFaults
  BY MaxFaultsAssumption DEF Fault

\* A write loses nothing the sink already had, adds at most the new records,
\* and all of them unless the error is latched.
LEMMA SinkWriteKeeps ==
  ASSUME NEW S, S \subseteq Targets, SinkWrite(S),
         buffered \subseteq Targets, durable \subseteq Targets,
         emitErr \in BOOLEAN, ~emitErr, faults \in 0 .. MaxFaults
  PROVE  /\ durable \subseteq durable'
         /\ durable' \cup buffered' \subseteq Targets
         /\ buffered' \subseteq buffered \cup S
         /\ durable' \subseteq durable \cup buffered \cup S
         /\ ~emitErr' => durable \cup buffered \cup S \subseteq durable' \cup buffered'
         /\ emitErr' \in BOOLEAN
         /\ faults' \in 0 .. MaxFaults
<1>1. CASE Settle(buffered \cup S) /\ UNCHANGED <<emitErr, faults>>
  <2>1. PICK done \in SUBSET (buffered \cup S) :
          /\ durable' = durable \cup done
          /\ buffered' = (buffered \cup S) \ done
    BY <1>1 DEF Settle
  <2>2. QED
    BY <1>1, <2>1, Zenon
<1>2. CASE /\ Fault
           /\ emitErr' = TRUE
           /\ \E kept \in SUBSET S : Settle(buffered \cup kept)
  <2>1. PICK kept \in SUBSET S : Settle(buffered \cup kept)
    BY <1>2
  <2>2. PICK done \in SUBSET (buffered \cup kept) :
          /\ durable' = durable \cup done
          /\ buffered' = (buffered \cup kept) \ done
    BY <2>1 DEF Settle
  <2>3. faults' \in 0 .. MaxFaults
    BY <1>2, FaultBound
  <2>4. QED
    BY <1>2, <2>2, <2>3, Zenon
<1>3. QED
  BY <1>1, <1>2 DEF SinkWrite

\* A failed flush or close loses nothing.
LEMMA SettleKeeps ==
  ASSUME Settle(buffered), buffered \subseteq Targets, durable \subseteq Targets
  PROVE  /\ durable \subseteq durable'
         /\ durable' \cup buffered' = durable \cup buffered
         /\ buffered' \subseteq buffered
  BY DEF Settle

-----------------------------------------------------------------------------
(* The drain loop *)

\* What DrainTarget does to the records: after it, the target is with the
\* sink, held, silent, or the error is latched.
LEMMA DrainEmits ==
  ASSUME IndInv, DrainTarget
  PROVE  /\ base + nextExpected \in Targets
         /\ nextExpected < streamLen
         /\ durable \subseteq durable'
         /\ durable' \subseteq Targets
         /\ buffered' \subseteq buffered \cup {base + nextExpected}
         /\ durable' \subseteq durable \cup buffered \cup {base + nextExpected}
         /\ held' \subseteq held \cup {base + nextExpected}
         /\ ~emitErr' =>
              /\ ~emitErr
              /\ durable \cup buffered \cup held \cup {base + nextExpected}
                   \subseteq durable' \cup buffered' \cup held' \cup Silent
         /\ held' # held => scenario.kind = "holding"
         /\ emitErr' \in BOOLEAN
         /\ faults' \in 0 .. MaxFaults
<1> DEFINE t == base + nextExpected
<1>1. /\ nextExpected \in received
      /\ streamLen = NumTargets - base
      /\ nextExpected < streamLen
      /\ base \in 0 .. NumTargets
      /\ nextExpected \in 0 .. NumTargets
      /\ buffered \subseteq Targets
      /\ durable \subseteq Targets
      /\ emitErr \in BOOLEAN
      /\ faults \in 0 .. MaxFaults
  BY DEF DrainTarget, IndInv, TypeOK, ReorderInv, StreamInv, Working, Looping
<1>2. t \in Targets
  BY <1>1 DEF Targets
<1>3. CASE emitErr /\ UNCHANGED <<held, emitErr, buffered, durable, faults>>
  BY <1>1, <1>2, <1>3
<1>4. CASE ~emitErr /\ EmitTargetRecords(t)
  <2>1. CASE t \in Silent /\ UNCHANGED <<held, emitErr, buffered, durable, faults>>
    BY <1>1, <1>2, <1>4, <2>1
  <2>2. CASE /\ scenario.kind = "holding"
             /\ held' = held \cup {t}
             /\ UNCHANGED <<emitErr, buffered, durable, faults>>
    BY <1>1, <1>2, <1>4, <2>2
  <2>3. CASE SinkWrite({t}) /\ UNCHANGED held
    <3>1. /\ durable \subseteq durable'
          /\ durable' \cup buffered' \subseteq Targets
          /\ buffered' \subseteq buffered \cup {t}
          /\ durable' \subseteq durable \cup buffered \cup {t}
          /\ ~emitErr' => durable \cup buffered \cup {t} \subseteq durable' \cup buffered'
          /\ emitErr' \in BOOLEAN
          /\ faults' \in 0 .. MaxFaults
      BY <1>1, <1>2, <1>4, <2>3, SinkWriteKeeps
    <3>2. QED
      BY <1>1, <1>2, <1>4, <2>3, <3>1
  <2>4. QED
    BY <1>4, <2>1, <2>2, <2>3 DEF EmitTargetRecords
<1>5. QED
  BY <1>3, <1>4 DEF DrainTarget

\* Draining one target keeps the invariant.
LEMMA DrainTargetInv ==
  ASSUME IndInv, DrainTarget
  PROVE  IndInv'
<1>0. /\ cpc = "drain"
      /\ nextExpected \in reorder
      /\ reorder' = reorder \ {nextExpected}
      /\ nextExpected' = nextExpected + 1
      /\ cpc' = IF CheckpointDue(nextExpected')
                THEN "flush" ELSE AfterDrain(nextExpected', reorder')
      /\ UNCHANGED <<base, halted, closeErr, cancelled, lastCheckpoint, scenario,
                     ckpt, stopped>>
      /\ UNCHANGED schedVars
      /\ SchedTypeOK
      /\ SchedInv
  BY DEF DrainTarget, IndInv, TypeOK, ScanInv
<1>1. SchedTypeOK' /\ SchedInv' /\ Sent' = Sent
  BY <1>0, SchedUnchanged
<1>2. /\ cpc' \in {"select", "drain", "flush"}
      /\ cpc' = "drain" => nextExpected' \in reorder'
      /\ cpc' = "select" => nextExpected' \notin reorder'
      /\ cpc' = "flush" => ~emitErr' /\ scenario.checkpointing
  BY <1>0 DEF AfterDrain, CheckpointDue
<1>3. /\ base \in 0 .. NumTargets
      /\ nextExpected \in 0 .. NumTargets
      /\ streamLen = NumTargets - base
      /\ nextExpected < streamLen
  BY DrainEmits DEF IndInv, TypeOK, StreamInv
<1>4. TypeOK'
  <2>1. nextExpected' \in 0 .. NumTargets
    BY <1>0, <1>3
  <2>2. reorder' \subseteq Targets /\ cpc' \in Phases
    BY <1>0, <1>2 DEF IndInv, TypeOK, Phases, Working
  <2>3. held' \subseteq Targets /\ buffered' \subseteq Targets
    BY DrainEmits DEF IndInv, TypeOK
  <2>4. QED
    BY <1>0, <1>1, <2>1, <2>2, <2>3, DrainEmits, Zenon DEF IndInv, TypeOK
<1>5. StreamInv' /\ AfterLoopInv' /\ DoneInv'
  BY <1>0, <1>1, <1>2 DEF IndInv, StreamInv, AfterLoopInv, DoneInv, schedVars, Looping
<1>6. ReorderInv'
  <2>1. /\ received = 0 .. nextExpected - 1 \cup reorder
        /\ \A r \in reorder : r >= nextExpected /\ r \in Nat
    BY <1>0 DEF IndInv, ReorderInv, Working, Looping, TypeOK, Targets
  <2>2. 0 .. nextExpected' - 1 = 0 .. nextExpected - 1 \cup {nextExpected}
    BY <1>0, <1>3
  <2>3. received' = 0 .. nextExpected' - 1 \cup reorder'
    BY <1>0, <2>1, <2>2 DEF schedVars
  <2>4. \A r \in reorder' : r >= nextExpected'
    BY <1>0, <1>3, <2>1
  <2>5. QED
    BY <1>0, <1>2, <1>3, <2>3, <2>4 DEF ReorderInv, Looping
<1>7. EligibleInv' /\ CompleteMeansDelivered'
  BY <1>0, <1>2, DrainEmits DEF IndInv, EligibleInv, CompleteMeansDelivered, Working
<1>8. EmissionInv'
  <2>1. \A t \in 0 .. base' - 1 : Covered(t)'
    BY <1>0, DrainEmits DEF IndInv, EmissionInv, Covered
  <2>2. EmittedPrefix'
    <3>1. SUFFICES ASSUME ~emitErr'
                   PROVE  /\ \A t \in base' .. base' + nextExpected' - 1 :
                               t \in durable' \cup buffered' \cup held' \cup Silent
                          /\ \A t \in buffered' \cup held' : t < base' + nextExpected'
      BY DEF EmittedPrefix
    <3>2. /\ \A t \in base .. base + nextExpected - 1 :
               t \in durable \cup buffered \cup held \cup Silent
          /\ \A t \in buffered \cup held : t < base + nextExpected /\ t \in Int
      BY <1>0, <3>1, DrainEmits DEF IndInv, EmissionInv, EmittedPrefix, Working,
                                    TypeOK, Targets
    <3>3. base' .. base' + nextExpected' - 1
            = base .. base + nextExpected - 1 \cup {base + nextExpected}
      BY <1>0, <1>3
    <3>4. \A t \in base' .. base' + nextExpected' - 1 :
            t \in durable' \cup buffered' \cup held' \cup Silent
      BY <3>1, <3>2, <3>3, DrainEmits
    <3>5. \A t \in buffered' \cup held' : t < base' + nextExpected'
      BY <1>0, <1>3, <3>2, DrainEmits
    <3>6. QED
      BY <3>4, <3>5
  <2>3. QED
    BY <1>2, <2>1, <2>2, <1>0 DEF EmissionInv
<1>9. CheckpointInv'
  <2>1. CheckpointNeverAhead'
    BY <1>0, DrainEmits DEF IndInv, CheckpointInv, CheckpointNeverAhead, Covered
  <2>2. ckpt # NoFile => ckpt <= base' \/ ckpt <= base' + nextExpected' - 1
    BY <1>0, <1>3 DEF IndInv, TypeOK, CheckpointInv, Targets, NoFile, Working
  <2>3. QED
    BY <1>0, <2>1, <2>2 DEF CheckpointInv
<1>10. QED
  BY <1>1, <1>4, <1>5, <1>6, <1>7, <1>8, <1>9 DEF IndInv, ScanInv

\* Leaving the loop on a fuser or classifier error keeps the invariant.
LEMMA HaltInDrainInv ==
  ASSUME IndInv, HaltInDrain
  PROVE  IndInv'
<1>0. /\ cpc = "drain"
      /\ halted' = TRUE
      /\ reorder' \subseteq reorder
      /\ cpc' = "close"
      /\ faults' \in 0 .. MaxFaults
      /\ UNCHANGED <<base, nextExpected, held, emitErr, closeErr,
                     cancelled, lastCheckpoint, scenario, buffered, durable,
                     ckpt, stopped>>
      /\ UNCHANGED schedVars
      /\ SchedTypeOK
      /\ SchedInv
  BY FaultBound DEF HaltInDrain, IndInv, TypeOK, ScanInv
<1>1. SchedTypeOK' /\ SchedInv' /\ Sent' = Sent
  BY <1>0, SchedUnchanged
<1>2. TypeOK'
  BY <1>0, <1>1, Zenon DEF IndInv, TypeOK, Phases, Working
<1>3. StreamInv' /\ ReorderInv' /\ DoneInv' /\ AfterLoopInv'
  BY <1>0 DEF IndInv, StreamInv, ReorderInv, DoneInv, AfterLoopInv, schedVars, Working, Looping
<1>4. EligibleInv' /\ EmissionInv' /\ CheckpointInv' /\ CompleteMeansDelivered'
  BY <1>0 DEF IndInv, EligibleInv, EmissionInv, EmittedPrefix, CheckpointInv,
         CheckpointNeverAhead, CompleteMeansDelivered, Covered, Working
<1>5. QED
  BY <1>1, <1>2, <1>3, <1>4 DEF IndInv, ScanInv

-----------------------------------------------------------------------------
(* CheckpointWriter *)

\* Where the records are when the sink has been flushed without an error.
LEMMA FlushedPrefixCovered ==
  ASSUME IndInv, cpc \in Working, ~emitErr, ~halted, buffered = {}, held = {},
         nextExpected > 0
  PROVE  /\ RecordIndex(nextExpected) \in Targets
         /\ \A t \in 0 .. RecordIndex(nextExpected) : Covered(t)
         /\ ckpt <= RecordIndex(nextExpected)
<1>1. /\ base \in 0 .. NumTargets
      /\ nextExpected \in 0 .. NumTargets
      /\ ckpt \in Targets \cup {NoFile}
      /\ received = 0 .. nextExpected - 1 \cup reorder
      /\ streamLen = NumTargets - base
      /\ \A t \in received : t < streamLen
      /\ ckpt # NoFile => ckpt <= base \/ ckpt <= base + nextExpected - 1
      /\ \A t \in 0 .. base - 1 : Covered(t)
      /\ \A t \in base .. base + nextExpected - 1 : t \in durable \cup Silent
  BY DEF IndInv, TypeOK, ReorderInv, StreamInv, CheckpointInv, EmissionInv,
         EmittedPrefix, Working, Looping
<1>2. nextExpected - 1 \in received
  BY <1>1
<1>3. base + nextExpected <= NumTargets
  BY <1>1, <1>2
<1>4. \A t \in 0 .. base + nextExpected - 1 :
        t \in 0 .. base - 1 \/ t \in base .. base + nextExpected - 1
  BY <1>1
<1>5. QED
  BY <1>1, <1>3, <1>4 DEF RecordIndex, Targets, NoFile, Covered

\* The flush before a checkpoint keeps the invariant, also when it fails.
LEMMA FlushForCheckpointInv ==
  ASSUME IndInv, FlushForCheckpoint
  PROVE  IndInv'
<1>0. /\ cpc = "flush"
      /\ UNCHANGED <<base, nextExpected, reorder, held, halted, closeErr,
                     cancelled, lastCheckpoint, scenario, ckpt, stopped>>
      /\ UNCHANGED schedVars
      /\ SchedTypeOK
      /\ SchedInv
      /\ buffered \subseteq Targets
      /\ durable \subseteq Targets
      /\ emitErr \in BOOLEAN
      /\ faults \in 0 .. MaxFaults
  BY DEF FlushForCheckpoint, IndInv, TypeOK, ScanInv
<1>1. SchedTypeOK' /\ SchedInv' /\ Sent' = Sent
  BY <1>0, SchedUnchanged
<1>2. /\ durable \subseteq durable'
      /\ durable' \cup buffered' = durable \cup buffered
      /\ buffered' \subseteq buffered
      /\ emitErr' \in BOOLEAN
      /\ faults' \in 0 .. MaxFaults
      /\ ~emitErr' => ~emitErr
      /\ cpc' = "persist" => buffered' = {} /\ ~emitErr'
      /\ cpc' \in {"persist", "drain", "select"}
      /\ cpc' = "drain" => nextExpected \in reorder
      /\ cpc' = "select" => nextExpected \notin reorder
  <2>1. ~emitErr
    BY <1>0 DEF IndInv, EmissionInv
  <2>2. CASE SinkFlushed /\ cpc' = "persist" /\ UNCHANGED <<emitErr, faults>>
    BY <1>0, <2>1, <2>2 DEF SinkFlushed
  <2>3. CASE /\ Fault
             /\ Settle(buffered)
             /\ emitErr' = TRUE
             /\ cpc' = AfterDrain(nextExpected, reorder)
    BY <1>0, <2>1, <2>3, FaultBound, SettleKeeps DEF AfterDrain
  <2>4. QED
    BY <2>2, <2>3 DEF FlushForCheckpoint
<1>3. TypeOK'
  <2>1. buffered' \subseteq Targets /\ durable' \subseteq Targets /\ cpc' \in Phases
    BY <1>0, <1>2 DEF Phases, Working
  <2>2. QED
    BY <1>0, <1>1, <1>2, <2>1, Zenon DEF IndInv, TypeOK
<1>4. StreamInv' /\ ReorderInv' /\ DoneInv' /\ AfterLoopInv'
  BY <1>0, <1>1, <1>2 DEF IndInv, StreamInv, ReorderInv, DoneInv, AfterLoopInv,
                          schedVars, Working, Looping
<1>5. EligibleInv' /\ CompleteMeansDelivered'
  BY <1>0, <1>2 DEF IndInv, EligibleInv, CompleteMeansDelivered, Working
<1>6. EmissionInv'
  BY <1>0, <1>2 DEF IndInv, EmissionInv, EmittedPrefix, Covered, Working
<1>7. CheckpointInv'
  BY <1>0, <1>2 DEF IndInv, CheckpointInv, CheckpointNeverAhead, Covered, Working
<1>8. QED
  BY <1>1, <1>3, <1>4, <1>5, <1>6, <1>7 DEF IndInv, ScanInv

\* Persisting the index keeps the invariant: all below it has been flushed.
LEMMA PersistCheckpointInv ==
  ASSUME IndInv, PersistCheckpoint
  PROVE  IndInv'
<1>0. /\ cpc = "persist"
      /\ cpc' = AfterDrain(nextExpected, reorder)
      /\ UNCHANGED <<base, nextExpected, reorder, held, halted, closeErr,
                     cancelled, scenario, buffered, durable, stopped>>
      /\ UNCHANGED schedVars
      /\ SchedTypeOK
      /\ SchedInv
      /\ emitErr \in BOOLEAN
      /\ faults \in 0 .. MaxFaults
      /\ nextExpected \in 0 .. NumTargets
      /\ lastCheckpoint \in 0 .. NumTargets
      /\ ckpt \in Targets \cup {NoFile}
  BY DEF PersistCheckpoint, IndInv, TypeOK, ScanInv
<1>1. SchedTypeOK' /\ SchedInv' /\ Sent' = Sent
  BY <1>0, SchedUnchanged
<1>2. /\ cpc' \in {"drain", "select"}
      /\ cpc' = "drain" => nextExpected \in reorder
      /\ cpc' = "select" => nextExpected \notin reorder
  BY <1>0 DEF AfterDrain
<1>3. /\ ~emitErr
      /\ buffered = {}
      /\ held = {}
      /\ nextExpected > 0
      /\ scenario.checkpointing
      /\ scenario.kind = "resumable"
      /\ ~halted
  BY <1>0 DEF IndInv, EmissionInv, EligibleInv, ReorderInv, AfterLoopInv, Working,
              Looping
<1>4. /\ RecordIndex(nextExpected) \in Targets
      /\ \A t \in 0 .. RecordIndex(nextExpected) : Covered(t)
      /\ ckpt <= RecordIndex(nextExpected)
  BY <1>0, <1>3, FlushedPrefixCovered DEF Working
<1>5. /\ ckpt' \in {ckpt, RecordIndex(nextExpected)}
      /\ ckpt' \in Targets \cup {NoFile}
      /\ lastCheckpoint' \in 0 .. NumTargets
      /\ emitErr' \in BOOLEAN
      /\ faults' \in 0 .. MaxFaults
  <2>1. CASE /\ ckpt' = RecordIndex(nextExpected)
             /\ lastCheckpoint' = nextExpected
             /\ UNCHANGED <<emitErr, faults>>
    BY <1>0, <1>4, <2>1
  <2>2. CASE Fault /\ emitErr' = TRUE /\ UNCHANGED <<ckpt, lastCheckpoint>>
    BY <1>0, <2>2, FaultBound
  <2>3. QED
    BY <2>1, <2>2 DEF PersistCheckpoint
<1>6. TypeOK'
  <2>1. cpc' \in Phases
    BY <1>2 DEF Phases, Working
  <2>2. QED
    BY <1>0, <1>1, <1>5, <2>1, Zenon DEF IndInv, TypeOK
<1>7. StreamInv' /\ ReorderInv' /\ DoneInv' /\ AfterLoopInv'
  BY <1>0, <1>1, <1>2 DEF IndInv, StreamInv, ReorderInv, DoneInv, AfterLoopInv,
                          schedVars, Working, Looping
<1>8. EligibleInv' /\ CompleteMeansDelivered'
  <2>1. scenario = [kind |-> "resumable", checkpointing |-> TRUE]
    <3>1. scenario \in [kind : Kinds, checkpointing : BOOLEAN]
      BY DEF IndInv, TypeOK
    <3>2. scenario.checkpointing = TRUE
      BY <1>3, <3>1
    <3>3. QED
      BY <1>3, <3>1, <3>2
  <2>2. QED
    BY <1>0, <1>2, <1>3, <2>1 DEF EligibleInv, CompleteMeansDelivered
<1>9. EmissionInv'
  BY <1>0, <1>2, <1>3 DEF IndInv, EmissionInv, EmittedPrefix, Covered, Working
<1>10. CheckpointInv'
  <2>1. CheckpointNeverAhead'
    BY <1>0, <1>4, <1>5 DEF IndInv, CheckpointInv, CheckpointNeverAhead, Covered
  <2>2. ckpt' # NoFile => ckpt' <= base' + nextExpected' - 1
    BY <1>0, <1>4, <1>5 DEF RecordIndex, IndInv, TypeOK
  <2>3. QED
    BY <2>1, <2>2 DEF CheckpointInv
<1>11. QED
  BY <1>1, <1>6, <1>7, <1>8, <1>9, <1>10 DEF IndInv, ScanInv

-----------------------------------------------------------------------------
(* After the loop *)

\* When the channel is closed and empty, no straggler is left, and without a
\* cancel the whole stream was drained.
LEMMA LoopEndsDrained ==
  ASSUME IndInv, LoopEnds
  PROVE  reorder = {} /\ (~cancelled => nextExpected = streamLen)
<1>1. /\ SchedTypeOK
      /\ SchedInv
      /\ received = 0 .. nextExpected - 1 \cup reorder
      /\ \A t \in reorder : t >= nextExpected
      /\ nextExpected \notin reorder
      /\ \A t \in 0 .. feed.pulled - 2 : t \in Sent
      /\ ~cancelled => \A t \in 0 .. streamLen - 1 : t \in Sent
      /\ nextExpected \in 0 .. NumTargets
      /\ reorder \subseteq Targets
      /\ \A t \in received : t < streamLen
  BY DEF LoopEnds, IndInv, TypeOK, ScanInv, ReorderInv, DoneInv, StreamInv, Working, Looping
<1>2. Sent = received
  BY DEF LoopEnds, Sent
<1>3. /\ streamLen \in 0 .. NumTargets
      /\ feed.pulled \in 0 .. NumTargets
  BY <1>1 DEF SchedTypeOK
<1>4. ASSUME NEW r \in reorder
      PROVE  FALSE
  <2>1. r \in Targets /\ r \in Sent /\ r \in Int
    BY <1>1, <1>2 DEF Targets
  <2>2. r < feed.pulled
    BY <1>1, <2>1, SentPulled
  <2>3. nextExpected < r
    BY <1>1, <2>1
  <2>4. nextExpected \in Sent
    BY <1>1, <1>3, <2>1, <2>2, <2>3
  <2>5. QED
    BY <1>1, <1>2, <2>4
<1>5. ASSUME ~cancelled
      PROVE  nextExpected = streamLen
  <2>1. \A t \in 0 .. streamLen - 1 : t \in 0 .. nextExpected - 1
    BY <1>1, <1>2, <1>4, <1>5
  <2>2. streamLen <= nextExpected
    <3>1. CASE streamLen = 0
      BY <1>1, <3>1
    <3>2. CASE streamLen > 0
      <4>1. streamLen - 1 \in 0 .. streamLen - 1
        BY <1>3, <3>2
      <4>2. QED
        BY <1>1, <1>3, <2>1, <4>1
    <3>3. QED
      BY <1>3, <3>1, <3>2
  <2>3. nextExpected <= streamLen
    <3>1. CASE nextExpected = 0
      BY <1>3, <3>1
    <3>2. CASE nextExpected > 0
      <4>1. nextExpected - 1 \in received
        BY <1>1, <3>2
      <4>2. QED
        BY <1>1, <1>3, <4>1
    <3>3. QED
      BY <1>1, <3>1, <3>2
  <2>4. QED
    BY <1>1, <1>3, <2>2, <2>3
<1>6. QED
  BY <1>4, <1>5

\* The end of the loop keeps the invariant.
LEMMA LoopEndsInv ==
  ASSUME IndInv, LoopEnds
  PROVE  IndInv'
<1>0. /\ cpc = "select"
      /\ cpc' = "tail"
      /\ UNCHANGED <<base, nextExpected, reorder, held, emitErr, halted, closeErr,
                     cancelled, lastCheckpoint, scenario, buffered, durable,
                     ckpt, stopped, faults>>
      /\ UNCHANGED schedVars
      /\ SchedTypeOK
      /\ SchedInv
  BY DEF LoopEnds, runVars, IndInv, TypeOK, ScanInv
<1>1. SchedTypeOK' /\ SchedInv' /\ Sent' = Sent
  BY <1>0, SchedUnchanged
<1>2. TypeOK'
  BY <1>0, <1>1, Zenon DEF IndInv, TypeOK, Phases, Working
<1>3. StreamInv' /\ ReorderInv' /\ DoneInv'
  BY <1>0, <1>1 DEF IndInv, StreamInv, ReorderInv, DoneInv, schedVars, Working, Looping
<1>4. AfterLoopInv'
  BY <1>0, LoopEndsDrained DEF IndInv, AfterLoopInv, schedVars, Looping
<1>5. EligibleInv' /\ EmissionInv' /\ CheckpointInv' /\ CompleteMeansDelivered'
  BY <1>0 DEF IndInv, EligibleInv, EmissionInv, EmittedPrefix, CheckpointInv,
         CheckpointNeverAhead, CompleteMeansDelivered, Covered, Working
<1>6. QED
  BY <1>1, <1>2, <1>3, <1>4, <1>5 DEF IndInv, ScanInv

\* Writing what the fuser held keeps the invariant.
LEMMA EmitTailInv ==
  ASSUME IndInv, EmitTail
  PROVE  IndInv'
<1>0. /\ cpc = "tail"
      /\ cpc' = "close"
      /\ UNCHANGED <<base, nextExpected, reorder, halted, closeErr, cancelled,
                     lastCheckpoint, scenario, ckpt, stopped>>
      /\ UNCHANGED schedVars
      /\ SchedTypeOK
      /\ SchedInv
      /\ buffered \subseteq Targets
      /\ durable \subseteq Targets
      /\ held \subseteq Targets
      /\ emitErr \in BOOLEAN
      /\ faults \in 0 .. MaxFaults
  BY DEF EmitTail, IndInv, TypeOK, ScanInv
<1>1. SchedTypeOK' /\ SchedInv' /\ Sent' = Sent
  BY <1>0, SchedUnchanged
<1>2. /\ durable \subseteq durable'
      /\ durable' \cup buffered' \subseteq Targets
      /\ buffered' \subseteq buffered \cup held
      /\ held' \subseteq held
      /\ ~emitErr' =>
           /\ ~emitErr
           /\ held' = {}
           /\ durable \cup buffered \cup held \subseteq durable' \cup buffered'
      /\ emitErr' \in BOOLEAN
      /\ faults' \in 0 .. MaxFaults
  <2>1. CASE ~emitErr /\ SinkWrite(held) /\ held' = {}
    BY <1>0, <2>1, SinkWriteKeeps
  <2>2. CASE /\ emitErr \/ held = {}
             /\ UNCHANGED <<held, emitErr, buffered, durable, faults>>
    BY <1>0, <2>2
  <2>3. QED
    BY <2>1, <2>2 DEF EmitTail
<1>3. TypeOK'
  <2>1. buffered' \subseteq Targets /\ durable' \subseteq Targets /\ held' \subseteq Targets
    BY <1>0, <1>2
  <2>2. QED
    BY <1>0, <1>1, <1>2, <2>1, Zenon DEF IndInv, TypeOK, Phases, Working
<1>4. StreamInv' /\ ReorderInv' /\ DoneInv' /\ AfterLoopInv'
  BY <1>0, <1>1 DEF IndInv, StreamInv, ReorderInv, DoneInv, AfterLoopInv,
                    schedVars, Working, Looping
<1>5. EligibleInv' /\ CompleteMeansDelivered'
  BY <1>0, <1>2 DEF IndInv, EligibleInv, CompleteMeansDelivered, Working
<1>6. EmissionInv'
  BY <1>0, <1>2 DEF IndInv, EmissionInv, EmittedPrefix, Covered, Working
<1>7. CheckpointInv'
  BY <1>0, <1>2 DEF IndInv, CheckpointInv, CheckpointNeverAhead, Covered, Working
<1>8. QED
  BY <1>1, <1>3, <1>4, <1>5, <1>6, <1>7 DEF IndInv, ScanInv

\* An error of fuser.finish keeps the invariant.
LEMMA HaltInTailInv ==
  ASSUME IndInv, HaltInTail
  PROVE  IndInv'
<1>0. /\ cpc = "tail"
      /\ halted' = TRUE
      /\ cpc' = "close"
      /\ faults' \in 0 .. MaxFaults
      /\ UNCHANGED <<base, nextExpected, reorder, held, emitErr, closeErr,
                     cancelled, lastCheckpoint, scenario, buffered, durable,
                     ckpt, stopped>>
      /\ UNCHANGED schedVars
      /\ SchedTypeOK
      /\ SchedInv
  BY FaultBound DEF HaltInTail, IndInv, TypeOK, ScanInv
<1>1. SchedTypeOK' /\ SchedInv' /\ Sent' = Sent
  BY <1>0, SchedUnchanged
<1>2. TypeOK'
  BY <1>0, <1>1, Zenon DEF IndInv, TypeOK, Phases, Working
<1>3. StreamInv' /\ ReorderInv' /\ DoneInv' /\ AfterLoopInv'
  BY <1>0 DEF IndInv, StreamInv, ReorderInv, DoneInv, AfterLoopInv, schedVars, Working, Looping
<1>4. EligibleInv' /\ EmissionInv' /\ CheckpointInv' /\ CompleteMeansDelivered'
  BY <1>0 DEF IndInv, EligibleInv, EmissionInv, EmittedPrefix, CheckpointInv,
         CheckpointNeverAhead, CompleteMeansDelivered, Covered, Working
<1>5. QED
  BY <1>1, <1>2, <1>3, <1>4 DEF IndInv, ScanInv

\* Closing the sink keeps the invariant: a clean close leaves nothing buffered.
LEMMA CloseSinkInv ==
  ASSUME IndInv, CloseSink
  PROVE  IndInv'
<1>0. /\ cpc = "close"
      /\ cpc' = "finalize"
      /\ spc' = "done"
      /\ inflight' = {}
      /\ UNCHANGED <<streamLen, cancel, primed, feed, live, targetMap, sending,
                     chan, received, rxOpen, base, nextExpected, reorder, held,
                     emitErr, halted, cancelled, lastCheckpoint, scenario, ckpt,
                     stopped>>
      /\ buffered \subseteq Targets
      /\ durable \subseteq Targets
      /\ closeErr \in BOOLEAN
      /\ faults \in 0 .. MaxFaults
  BY DEF CloseSink, IndInv, TypeOK
<1>1. /\ durable \subseteq durable'
      /\ durable' \cup buffered' = durable \cup buffered
      /\ buffered' \subseteq buffered
      /\ ~closeErr' => buffered' = {}
      /\ closeErr' \in BOOLEAN
      /\ faults' \in 0 .. MaxFaults
  <2>1. CASE SinkFlushed /\ UNCHANGED <<closeErr, faults>>
    BY <1>0, <2>1 DEF SinkFlushed
  <2>2. CASE Fault /\ Settle(buffered) /\ closeErr' = TRUE
    BY <1>0, <2>2, FaultBound, SettleKeeps
  <2>3. QED
    BY <2>1, <2>2 DEF CloseSink
<1>2. TypeOK'
  <2>1. SchedTypeOK'
    BY <1>0, Zenon DEF IndInv, TypeOK, SchedTypeOK
  <2>2. buffered' \subseteq Targets /\ durable' \subseteq Targets
    BY <1>0, <1>1
  <2>3. QED
    BY <1>0, <1>1, <2>1, <2>2, Zenon DEF IndInv, TypeOK, Phases, Working
<1>3. StreamInv' /\ ReorderInv' /\ DoneInv' /\ AfterLoopInv' /\ ScanInv'
  BY <1>0 DEF IndInv, StreamInv, ReorderInv, DoneInv, AfterLoopInv, ScanInv, Working, Looping
<1>4. EligibleInv' /\ CompleteMeansDelivered'
  BY <1>0, <1>1 DEF IndInv, EligibleInv, CompleteMeansDelivered, Working
<1>5. EmissionInv'
  BY <1>0, <1>1 DEF IndInv, EmissionInv, EmittedPrefix, Covered, Working
<1>6. CheckpointInv'
  BY <1>0, <1>1 DEF IndInv, CheckpointInv, CheckpointNeverAhead, Covered, Working
<1>7. QED
  BY <1>2, <1>3, <1>4, <1>5, <1>6 DEF IndInv

-----------------------------------------------------------------------------
(* The end of a process *)

\* A process that ends keeps the invariant for the next one, if the checkpoint
\* it leaves is covered.
LEMMA ExitInv ==
  ASSUME IndInv, NEW how \in {"cancelled", "abruptly"}, Exit(how),
         faults' \in 0 .. MaxFaults,
         ckpt' \in Targets \cup {NoFile},
         ckpt' # NoFile =>
           /\ scenario = [kind |-> "resumable", checkpointing |-> TRUE]
           /\ \A t \in 0 .. ckpt' : Covered(t)
  PROVE  IndInv'
<1>0. /\ cpc' = "idle"
      /\ stopped' \in {"never", "cancelled", "abruptly"}
      /\ base' = 0
      /\ nextExpected' = 0
      /\ reorder' = {}
      /\ held' = {}
      /\ emitErr' = FALSE
      /\ halted' = FALSE
      /\ closeErr' = FALSE
      /\ cancelled' = FALSE
      /\ lastCheckpoint' = 0
      /\ buffered' = {}
      /\ durable' \in {durable, {}}
      /\ scenario.kind # "volatile" => durable' = durable
      /\ scenario' = scenario
      /\ SchedReset(NumTargets)
  BY DEF Exit, RunReset
<1>1. SchedTypeOK' /\ SchedInv'
  BY <1>0, SchedResetInv
<1>2. TypeOK'
  <2>1. 0 \in 0 .. NumTargets
    OBVIOUS
  <2>2. durable' \subseteq Targets
    BY <1>0 DEF IndInv, TypeOK
  <2>3. QED
    BY <1>0, <1>1, <2>1, <2>2, Zenon DEF IndInv, TypeOK, Phases
<1>3. StreamInv' /\ ReorderInv' /\ DoneInv' /\ AfterLoopInv'
  BY <1>0 DEF SchedReset, StreamInv, ReorderInv, DoneInv, AfterLoopInv, Working, Looping
<1>4. EligibleInv' /\ EmissionInv' /\ CompleteMeansDelivered'
  BY <1>0 DEF EligibleInv, EmissionInv, EmittedPrefix, CompleteMeansDelivered, Working
<1>5. CheckpointInv'
  <2>1. ckpt' # NoFile => durable' = durable
    BY <1>0
  <2>2. QED
    BY <1>0, <2>1 DEF CheckpointInv, CheckpointNeverAhead, Covered, Working
<1>6. QED
  BY <1>1, <1>2, <1>3, <1>4, <1>5 DEF IndInv, ScanInv

\* ... in particular if the checkpoint file is left as it was.
LEMMA ExitUnchangedInv ==
  ASSUME IndInv, NEW how \in {"cancelled", "abruptly"}, Exit(how),
         faults' \in 0 .. MaxFaults, ckpt' = ckpt
  PROVE  IndInv'
  BY ExitInv DEF IndInv, TypeOK, EligibleInv, CheckpointInv, CheckpointNeverAhead

\* Returning a latched error keeps the invariant.
LEMMA ReturnErrorInv ==
  ASSUME IndInv, ReturnError
  PROVE  IndInv'
  BY ExitUnchangedInv DEF ReturnError, IndInv, TypeOK

\* The death of the process at any other moment keeps the invariant.
LEMMA CrashInv ==
  ASSUME IndInv, Crash
  PROVE  IndInv'
  BY ExitUnchangedInv, FaultBound DEF Crash, IndInv, TypeOK

\* A scan that was drained without error has nothing left in the process.
LEMMA CleanDrainFlushed ==
  ASSUME IndInv, cpc = "finalize", CleanDrain
  PROVE  ~emitErr /\ ~halted /\ buffered = {} /\ held = {}
  BY DEF IndInv, EmissionInv, CleanDrain

\* The boundary checkpoint of a cancelled scan keeps the invariant.
LEMMA FinalizeCancelledInv ==
  ASSUME IndInv, FinalizeCancelled
  PROVE  IndInv'
<1>0. /\ cpc = "finalize"
      /\ CleanDrain
      /\ faults \in 0 .. MaxFaults
  BY DEF FinalizeCancelled, IndInv, TypeOK
<1>1. ASSUME scenario.checkpointing, nextExpected > 0,
             ckpt' = RecordIndex(nextExpected), Exit("cancelled"), faults' = faults
      PROVE  IndInv'
  <2>1. /\ RecordIndex(nextExpected) \in Targets
        /\ \A t \in 0 .. RecordIndex(nextExpected) : Covered(t)
    BY <1>0, <1>1, CleanDrainFlushed, FlushedPrefixCovered DEF Working
  <2>2. scenario = [kind |-> "resumable", checkpointing |-> TRUE]
    <3>1. /\ scenario \in [kind : Kinds, checkpointing : BOOLEAN]
          /\ scenario.kind = "resumable"
      BY <1>0, <1>1 DEF IndInv, TypeOK, EligibleInv, Working
    <3>2. scenario.checkpointing = TRUE
      BY <1>1, <3>1
    <3>3. QED
      BY <3>1, <3>2
  <2>3. QED
    BY <1>0, <1>1, <2>1, <2>2, ExitInv
<1>2. QED
  BY <1>0, <1>1, ExitUnchangedInv, FaultBound DEF FinalizeCancelled

\* A finished scan has covered every target of the plan.
LEMMA FinishedCovers ==
  ASSUME IndInv, cpc = "finalize", CleanDrain, ~cancelled
  PROVE  \A t \in Targets : Covered(t)
<1>1. /\ base \in 0 .. NumTargets
      /\ nextExpected = NumTargets - base
      /\ \A t \in 0 .. base - 1 : Covered(t)
      /\ \A t \in base .. base + nextExpected - 1 : t \in durable \cup Silent
  BY CleanDrainFlushed DEF IndInv, TypeOK, AfterLoopInv, StreamInv, EmissionInv,
                           EmittedPrefix, Working, Looping
<1>2. \A t \in Targets : t \in 0 .. base - 1 \/ t \in base .. base + nextExpected - 1
  BY <1>1 DEF Targets
<1>3. QED
  BY <1>1, <1>2 DEF Covered

\* Finishing keeps the invariant.
LEMMA FinalizeFinishedInv ==
  ASSUME IndInv, FinalizeFinished
  PROVE  IndInv'
<1>0. /\ cpc = "finalize"
      /\ CleanDrain
      /\ ~cancelled
      /\ faults \in 0 .. MaxFaults
  BY DEF FinalizeFinished, IndInv, TypeOK
<1>1. CASE /\ cpc' = "complete"
           /\ ckpt' = IF scenario.checkpointing THEN NoFile ELSE ckpt
           /\ UNCHANGED <<schedVars, runVars, scenario, buffered, durable,
                          stopped, faults>>
  <2>1. ckpt' = NoFile
    <3>1. CASE scenario.checkpointing
      BY <1>1, <3>1
    <3>2. CASE ~scenario.checkpointing
      BY <1>1, <3>2 DEF IndInv, EligibleInv
    <3>3. QED
      BY <3>1, <3>2
  <2>2. SchedTypeOK'
    BY <1>1, SchedUnchanged DEF IndInv, TypeOK
  <2>3. TypeOK'
    BY <1>1, <2>1, <2>2, Zenon DEF IndInv, TypeOK, Phases, runVars
  <2>4. StreamInv' /\ ReorderInv' /\ DoneInv' /\ AfterLoopInv' /\ ScanInv'
    BY <1>1 DEF IndInv, StreamInv, ReorderInv, DoneInv, AfterLoopInv, ScanInv,
                schedVars, runVars, Working, Looping
  <2>5. EligibleInv' /\ EmissionInv'
    BY <1>1, <2>1 DEF IndInv, EligibleInv, EmissionInv, EmittedPrefix, Covered,
                      runVars, Working
  <2>6. CheckpointInv'
    BY <1>1, <2>1 DEF CheckpointInv, CheckpointNeverAhead, Working
  <2>7. CompleteMeansDelivered'
    BY <1>0, <1>1, <2>1, FinishedCovers DEF CompleteMeansDelivered, Covered
  <2>8. QED
    BY <2>3, <2>4, <2>5, <2>6, <2>7 DEF IndInv
<1>2. CASE Fault /\ Exit("abruptly") /\ UNCHANGED ckpt
  BY <1>0, <1>2, ExitUnchangedInv, FaultBound
<1>3. QED
  BY <1>1, <1>2 DEF FinalizeFinished

\* A cancel request keeps the invariant.
LEMMA CancelRunInv ==
  ASSUME IndInv, CancelRun
  PROVE  IndInv'
<1>0. /\ cpc \in Working
      /\ RequestCancel
      /\ cancel' = TRUE
      /\ faults' \in 0 .. MaxFaults
      /\ UNCHANGED <<streamLen, spc, primed, feed, inflight, live, targetMap,
                     sending, chan, received, rxOpen>>
      /\ UNCHANGED <<base, nextExpected, reorder, held, emitErr, halted, closeErr,
                     cancelled, lastCheckpoint, scenario, cpc, buffered, durable,
                     ckpt, stopped>>
  BY FaultBound DEF CancelRun, RequestCancel, runVars, IndInv, TypeOK
<1>1. SchedTypeOK'
  BY <1>0, Zenon DEF IndInv, TypeOK, SchedTypeOK
<1>2. ScanInv' /\ Sent' = Sent
  BY <1>0, RequestCancelInv DEF IndInv, TypeOK, ScanInv, Sent
<1>3. TypeOK'
  BY <1>0, <1>1, Zenon DEF IndInv, TypeOK
<1>4. StreamInv' /\ ReorderInv' /\ DoneInv' /\ AfterLoopInv'
  BY <1>0, <1>2 DEF IndInv, StreamInv, ReorderInv, DoneInv, AfterLoopInv, Working, Looping
<1>5. EligibleInv' /\ EmissionInv' /\ CheckpointInv' /\ CompleteMeansDelivered'
  BY <1>0 DEF IndInv, EligibleInv, EmissionInv, EmittedPrefix, CheckpointInv,
         CheckpointNeverAhead, CompleteMeansDelivered, Covered, Working
<1>6. QED
  BY <1>2, <1>3, <1>4, <1>5 DEF IndInv

-----------------------------------------------------------------------------
(* The theorems *)

\* A stuttering step keeps the invariant.
LEMMA StutterInv ==
  ASSUME IndInv, UNCHANGED vars
  PROVE  IndInv'
<1>0. /\ UNCHANGED <<base, nextExpected, reorder, held, emitErr, halted, closeErr,
                     cancelled, lastCheckpoint, scenario, cpc, buffered, durable,
                     ckpt, stopped, faults>>
      /\ UNCHANGED schedVars
  BY DEF vars, runVars
<1>1. (SchedTypeOK' <=> SchedTypeOK) /\ (SchedInv' <=> SchedInv) /\ Sent' = Sent
  BY <1>0, SchedUnchanged
<1>2. TypeOK'
  BY <1>0, <1>1, Zenon DEF IndInv, TypeOK
<1>3. StreamInv' /\ ReorderInv' /\ DoneInv' /\ AfterLoopInv' /\ ScanInv'
  BY <1>0, <1>1 DEF IndInv, StreamInv, ReorderInv, DoneInv, AfterLoopInv, ScanInv,
                    schedVars, Working, Looping
<1>4. EligibleInv' /\ EmissionInv' /\ CheckpointInv' /\ CompleteMeansDelivered'
  BY <1>0 DEF IndInv, EligibleInv, EmissionInv, EmittedPrefix, CheckpointInv,
         CheckpointNeverAhead, CompleteMeansDelivered, Covered, Working
<1>5. QED
  BY <1>2, <1>3, <1>4 DEF IndInv

\* Every step keeps the invariant.
LEMMA NextInv ==
  ASSUME IndInv, [Next]_vars
  PROVE  IndInv'
<1>1. CASE Consume
  BY <1>1, RecvScanInv, DrainTargetInv, HaltInDrainInv, FlushForCheckpointInv,
     PersistCheckpointInv, LoopEndsInv, EmitTailInv, HaltInTailInv, CloseSinkInv,
     ReturnErrorInv, FinalizeCancelledInv, FinalizeFinishedInv
     DEF Consume
<1>2. QED
  BY <1>1, StartInv, RefuseInv, PollScanInv, CancelRunInv, CrashInv, StutterInv
     DEF Next, Terminated

(***************************************************************************)
(* The inductive invariant holds, and with it: the types; a checkpoint     *)
(* never ahead of the sink; a complete scan delivered in full; no          *)
(* straggler after the loop; emission in input order without gaps.         *)
(***************************************************************************)
THEOREM Invariance == Spec => []IndInv
<1>1. Init => IndInv
  BY InitInv
<1>2. IndInv /\ [Next]_vars => IndInv'
  BY NextInv
<1>3. QED
  BY <1>1, <1>2, PTL DEF Spec

\* Every reachable state is well typed, with the bounds TypeOK gives.
THEOREM TypeCorrect == Spec => []TypeOK
<1>1. IndInv => TypeOK
  BY DEF IndInv
<1>2. QED
  BY <1>1, Invariance, PTL

\* "The checkpoint never claims more progress than the sink actually holds",
\* whatever fails or crashes and however often the scan is resumed.
THEOREM CheckpointSafe == Spec => []CheckpointNeverAhead
<1>1. IndInv => CheckpointNeverAhead
  BY DEF IndInv, CheckpointInv
<1>2. QED
  BY <1>1, Invariance, PTL

\* A scan reported complete has delivered every target of the plan and left no
\* checkpoint file.
THEOREM CompleteSafe == Spec => []CompleteMeansDelivered
<1>1. IndInv => CompleteMeansDelivered
  BY DEF IndInv
<1>2. QED
  BY <1>1, Invariance, PTL

\* The drain of stragglers after the select! loop never finds a target.
THEOREM StragglersUnreachable == Spec => []NoStragglers
<1>1. IndInv => NoStragglers
  BY DEF IndInv, AfterLoopInv, NoStragglers, Looping
<1>2. QED
  BY <1>1, Invariance, PTL

\* Targets are emitted in input order without gaps.
THEOREM EmissionOrdered == Spec => []EmittedPrefix
<1>1. IndInv => EmittedPrefix
  BY DEF IndInv, EmissionInv
<1>2. QED
  BY <1>1, Invariance, PTL

-----------------------------------------------------------------------------
(* The monotone checkpoint and the promise of a resumable scan *)

\* The records at the destination only grow; file and completion stay.
Delivering ==
  /\ durable \subseteq durable'
  /\ ckpt' = ckpt
  /\ cpc # "complete" /\ cpc' # "complete"

\* The checkpoint moves forward over covered targets.
Marking ==
  /\ durable' = durable
  /\ ckpt' \in Targets /\ ckpt' >= ckpt
  /\ \A t \in 0 .. ckpt' : Covered(t)
  /\ cpc # "complete" /\ cpc' # "complete"

\* What a volatile sink held is gone; no checkpoint vouched for it.
Losing ==
  /\ durable' = {}
  /\ ckpt = NoFile /\ ckpt' = NoFile
  /\ cpc # "complete" /\ cpc' # "complete"

\* The scan is reported complete.
Completing ==
  /\ durable' = durable
  /\ ckpt' = NoFile
  /\ \A t \in Targets : Covered(t)
  /\ cpc # "complete" /\ cpc' = "complete"

\* The end of a process that leaves the checkpoint alone loses records only
\* where no checkpoint exists.
LEMMA ExitShape ==
  ASSUME IndInv, NEW how, Exit(how), ckpt' = ckpt, cpc # "complete"
  PROVE  Delivering \/ Losing
<1>1. CASE scenario.kind = "volatile"
  BY <1>1 DEF Exit, Losing, IndInv, EligibleInv
<1>2. CASE scenario.kind # "volatile"
  BY <1>2 DEF Exit, Delivering
<1>3. QED
  BY <1>1, <1>2

\* Every step is of one of these shapes, or leaves records, file and
\* completion alone.
LEMMA StepShapes ==
  ASSUME IndInv, [Next]_vars
  PROVE  \/ Delivering \/ Marking \/ Losing \/ Completing
         \/ UNCHANGED <<durable, ckpt, cpc>>
<1>1. CASE Start \/ Refuse \/ PollScan \/ CancelRun
  BY <1>1 DEF Start, Refuse, PollScan, CancelRun, Delivering, Working
<1>2. CASE Terminated \/ UNCHANGED vars
  BY <1>2 DEF Terminated, vars
<1>3. CASE Crash \/ ReturnError
  BY <1>3, ExitShape DEF Crash, ReturnError, Working
<1>4. CASE \E t \in Targets : RecvScan(t)
  BY <1>4 DEF RecvScan, AfterDrain, Delivering
<1>5. CASE DrainTarget
  BY <1>5, DrainEmits DEF DrainTarget, AfterDrain, Delivering
<1>6. CASE HaltInDrain \/ LoopEnds \/ HaltInTail
  BY <1>6 DEF HaltInDrain, LoopEnds, HaltInTail, Delivering
<1>7. CASE FlushForCheckpoint
  BY <1>7 DEF FlushForCheckpoint, SinkFlushed, Settle, AfterDrain, Delivering
<1>8. CASE PersistCheckpoint
  <2>1. CASE ckpt' = RecordIndex(nextExpected)
    <3>1. /\ cpc \in Working
          /\ ~emitErr
          /\ buffered = {}
          /\ held = {}
          /\ nextExpected > 0
          /\ ~halted
      BY <1>8 DEF PersistCheckpoint, IndInv, EmissionInv, EligibleInv, ReorderInv,
                  AfterLoopInv, Working, Looping
    <3>2. /\ ckpt' \in Targets
          /\ \A t \in 0 .. ckpt' : Covered(t)
          /\ ckpt <= ckpt'
      BY <2>1, <3>1, FlushedPrefixCovered
    <3>3. ckpt' >= ckpt
      BY <3>2 DEF IndInv, TypeOK, Targets, NoFile
    <3>4. QED
      BY <1>8, <3>2, <3>3 DEF PersistCheckpoint, AfterDrain, Marking
  <2>2. CASE ckpt' = ckpt
    BY <1>8, <2>2 DEF PersistCheckpoint, AfterDrain, Delivering
  <2>3. QED
    BY <1>8, <2>1, <2>2 DEF PersistCheckpoint
<1>9. CASE EmitTail
  <2>1. durable \subseteq durable'
    BY <1>9, SinkWriteKeeps DEF EmitTail, IndInv, TypeOK
  <2>2. QED
    BY <1>9, <2>1 DEF EmitTail, Delivering
<1>10. CASE CloseSink
  BY <1>10 DEF CloseSink, SinkFlushed, Settle, Delivering
<1>11. CASE FinalizeCancelled
  <2>1. CASE ckpt' = ckpt
    BY <1>11, <2>1, ExitShape DEF FinalizeCancelled
  <2>2. CASE ckpt' # ckpt
    <3>1. /\ cpc = "finalize"
          /\ CleanDrain
          /\ scenario.checkpointing
          /\ nextExpected > 0
          /\ ckpt' = RecordIndex(nextExpected)
          /\ Exit("cancelled")
      BY <1>11, <2>2 DEF FinalizeCancelled
    <3>2. /\ ckpt' \in Targets
          /\ \A t \in 0 .. ckpt' : Covered(t)
          /\ ckpt <= ckpt'
      BY <3>1, CleanDrainFlushed, FlushedPrefixCovered DEF Working
    <3>3. ckpt' >= ckpt
      BY <3>2 DEF IndInv, TypeOK, Targets, NoFile
    <3>4. durable' = durable
      BY <3>1 DEF Exit, IndInv, EligibleInv, Working
    <3>5. QED
      BY <3>1, <3>2, <3>3, <3>4 DEF Exit, Marking
  <2>3. QED
    BY <2>1, <2>2
<1>12. CASE FinalizeFinished
  <2>1. CASE cpc' = "complete"
    <3>1. ckpt' = NoFile
      <4>1. ckpt' = IF scenario.checkpointing THEN NoFile ELSE ckpt
        BY <1>12, <2>1 DEF FinalizeFinished, Exit
      <4>2. QED
        BY <4>1 DEF IndInv, EligibleInv
    <3>2. durable' = durable
      BY <1>12, <2>1 DEF FinalizeFinished, Exit
    <3>3. QED
      BY <1>12, <2>1, <3>1, <3>2, FinishedCovers DEF FinalizeFinished, Completing
  <2>2. CASE cpc' # "complete"
    BY <1>12, <2>2, ExitShape DEF FinalizeFinished
  <2>3. QED
    BY <2>1, <2>2
<1>13. QED
  BY <1>1, <1>2, <1>3, <1>4, <1>5, <1>6, <1>7, <1>8, <1>9, <1>10, <1>11, <1>12
     DEF Next, Consume

\* A checkpoint file is only ever replaced by one that is further, and removed
\* only when the scan is complete.
THEOREM CheckpointAdvances == Spec => CheckpointMonotone
<1>1. IndInv /\ [Next]_vars => [ckpt' # ckpt => ckpt' > ckpt \/ cpc' = "complete"]_vars
  <2>1. SUFFICES ASSUME IndInv, [Next]_vars, ckpt' # ckpt
                 PROVE  ckpt' > ckpt \/ cpc' = "complete"
    OBVIOUS
  <2>2. CASE Marking
    BY <2>1, <2>2 DEF Marking, IndInv, TypeOK, Targets, NoFile
  <2>3. QED
    BY <2>1, <2>2, StepShapes DEF Delivering, Losing, Completing
<1>2. QED
  BY <1>1, Invariance, PTL DEF Spec, CheckpointMonotone

(***************************************************************************)
(* The pipeline implements the promise of a resumable scan: Spec refines   *)
(* ResumableScan under the mapping of Promise.                             *)
(***************************************************************************)
THEOREM Refinement == Spec => DeliversAsPromised
<1> USE SilentAssumption
<1>1. Init => Promise!Init
  BY DEF Init, Promise!Init, Promise!All, Targets, NoFile
<1>2. IndInv /\ IndInv' /\ [Next]_vars => [Promise!Next]_Promise!pvars
  <2>1. SUFFICES ASSUME IndInv, IndInv', [Next]_vars
                 PROVE  Promise!Next \/ UNCHANGED Promise!pvars
    OBVIOUS
  <2>2. /\ durable \subseteq Targets
        /\ durable' \subseteq Targets
        /\ Promise!All = Targets
    BY <2>1 DEF IndInv, TypeOK, Promise!All, Targets
  <2>3. CASE Delivering
    <3>1. /\ durable' \cup Silent \in SUBSET Targets
          /\ durable' \cup Silent = (durable \cup Silent) \cup (durable' \cup Silent)
      BY <2>2, <2>3 DEF Delivering
    <3>2. Promise!Deliver
      BY <2>2, <2>3, <3>1, Zenon DEF Delivering, Promise!Deliver
    <3>3. QED
      BY <3>2 DEF Promise!Next
  <2>4. CASE Marking
    <3>1. CASE ckpt' = ckpt
      BY <2>4, <3>1 DEF Marking, Promise!pvars
    <3>2. CASE ckpt' > ckpt
      <4>1. ckpt' \in Promise!All /\ 0 .. ckpt' \subseteq durable \cup Silent
        BY <2>2, <2>4 DEF Marking, Covered
      <4>2. Promise!Advance
        BY <2>4, <3>2, <4>1 DEF Marking, Promise!Advance
      <4>3. QED
        BY <4>2 DEF Promise!Next
    <3>3. QED
      BY <2>1, <2>4, <3>1, <3>2 DEF Marking, IndInv, TypeOK, Targets, NoFile
  <2>5. CASE Losing
    <3>1. durable \ Silent \in SUBSET (durable \cup Silent)
      OBVIOUS
    <3>2. durable' \cup Silent = (durable \cup Silent) \ (durable \ Silent)
      BY <2>5 DEF Losing
    <3>3. Promise!Forget
      BY <2>5, <3>1, <3>2, Zenon DEF Losing, Promise!Forget, NoFile
    <3>4. QED
      BY <3>3 DEF Promise!Next
  <2>6. CASE Completing
    <3>1. Promise!Finish
      BY <2>2, <2>6 DEF Completing, Promise!Finish, Covered, NoFile
    <3>2. QED
      BY <3>1 DEF Promise!Next
  <2>7. CASE UNCHANGED <<durable, ckpt, cpc>>
    BY <2>7 DEF Promise!pvars
  <2>8. QED
    BY <2>1, <2>3, <2>4, <2>5, <2>6, <2>7, StepShapes
<1>3. QED
  BY <1>1, <1>2, Invariance, PTL DEF Spec, DeliversAsPromised, Promise!Spec

-----------------------------------------------------------------------------
(* What a cancel leaves behind *)

(***************************************************************************)
(* Strengthening of CancelLeavesBoundary.  A run with a checkpoint starts  *)
(* at the index of the file, hands the sink nothing beyond the targets it  *)
(* has drained, and until a process ends abruptly nothing at the           *)
(* destination lies beyond both the file and the run.                      *)
(***************************************************************************)
StartsAtFile == cpc \in Working => base = 0 \/ base <= ckpt
HandedInv ==
  cpc \in Working => \A t \in buffered : t < base + nextExpected
SettledInv ==
  stopped # "abruptly" =>
    /\ cpc = "idle" => \A t \in durable : t <= ckpt
    /\ cpc \in Working =>
         \A t \in durable : t <= ckpt \/ t < base + nextExpected

BoundaryInv ==
  scenario.checkpointing => StartsAtFile /\ HandedInv /\ SettledInv

\* A step of a running process: the drained prefix and the file only move
\* forward, and the sink is handed nothing beyond the drained prefix.
Advancing ==
  /\ cpc \in Working /\ cpc' # "idle"
  /\ UNCHANGED <<base, scenario, stopped>>
  /\ nextExpected <= nextExpected'
  /\ ckpt <= ckpt' \/ cpc' = "complete"
  /\ \A t \in durable' : t \in durable \cup buffered \/ t < base + nextExpected'
  /\ \A t \in buffered' : t \in buffered \/ t < base + nextExpected'

\* The numbers are numbers, before and after.
LEMMA BoundaryTypes ==
  ASSUME IndInv
  PROVE  /\ base \in Nat
         /\ nextExpected \in Nat
         /\ ckpt \in Int
         /\ buffered \subseteq Nat
         /\ durable \subseteq Nat
  BY DEF IndInv, TypeOK, Targets, NoFile

\* A longer prefix holds what a shorter one held.
LEMMA PrefixGrows ==
  ASSUME NEW b \in Nat, NEW m \in Nat, NEW n \in Nat, m <= n, NEW t \in Nat,
         t < b + m
  PROVE  t < b + n
  OBVIOUS

\* Advancing keeps the boundary.
LEMMA AdvancingBoundary ==
  ASSUME IndInv, IndInv', BoundaryInv, Advancing
  PROVE  BoundaryInv'
<1> SUFFICES ASSUME scenario.checkpointing
             PROVE  StartsAtFile' /\ HandedInv' /\ SettledInv'
  BY DEF BoundaryInv, Advancing
<1>0. /\ nextExpected' \in Nat
      /\ ckpt' \in Int
      /\ buffered' \subseteq Nat
      /\ durable' \subseteq Nat
  BY DEF IndInv, TypeOK, Targets, NoFile
<1>1. /\ base \in Nat /\ base' = base
      /\ nextExpected \in Nat /\ nextExpected' \in Nat
      /\ nextExpected <= nextExpected'
      /\ ckpt \in Int /\ ckpt' \in Int
      /\ buffered \subseteq Nat
      /\ durable \subseteq Nat
      /\ buffered' \subseteq Nat
      /\ durable' \subseteq Nat
  BY <1>0, BoundaryTypes DEF Advancing
<1>2. /\ cpc' \in Working => ckpt <= ckpt'
      /\ cpc' # "idle"
      /\ stopped' = stopped
      /\ \A t \in durable' : t \in durable \cup buffered \/ t < base + nextExpected'
      /\ \A t \in buffered' : t \in buffered \/ t < base + nextExpected'
  BY DEF Advancing, Working
<1>3. /\ base = 0 \/ base <= ckpt
      /\ \A t \in buffered : t < base + nextExpected
      /\ stopped # "abruptly" =>
           \A t \in durable : t <= ckpt \/ t < base + nextExpected
  BY DEF BoundaryInv, StartsAtFile, HandedInv, SettledInv, Advancing
<1>4. StartsAtFile'
  BY <1>1, <1>2, <1>3 DEF StartsAtFile
<1>5. \A t \in Nat : t < base + nextExpected => t < base' + nextExpected'
  BY <1>1, PrefixGrows
<1>6. /\ \A t \in buffered : t < base' + nextExpected'
      /\ stopped # "abruptly" /\ cpc' \in Working =>
           \A t \in durable : t <= ckpt' \/ t < base' + nextExpected'
  <2>1. \A t \in buffered : t < base' + nextExpected'
    BY <1>1, <1>3, <1>5
  <2>2. ASSUME stopped # "abruptly", cpc' \in Working, NEW t \in durable
        PROVE  t <= ckpt' \/ t < base' + nextExpected'
    <3>1. t \in Nat /\ ckpt <= ckpt'
      BY <1>1, <1>2, <2>2
    <3>2. t <= ckpt \/ t < base + nextExpected
      BY <1>3, <2>2
    <3>3. t <= ckpt => t <= ckpt'
      BY <1>1, <3>1
    <3>4. QED
      BY <1>5, <3>1, <3>2, <3>3
  <2>3. QED
    BY <2>1, <2>2
<1>7. HandedInv'
  BY <1>1, <1>2, <1>6 DEF HandedInv
<1>8. SettledInv'
  <2> SUFFICES ASSUME stopped # "abruptly", cpc' \in Working, NEW t \in durable'
               PROVE  t <= ckpt' \/ t < base' + nextExpected'
    BY <1>2 DEF SettledInv
  <2>1. t \in durable \cup buffered \/ t < base' + nextExpected'
    BY <1>1, <1>2
  <2>2. QED
    BY <1>6, <2>1
<1>9. QED
  BY <1>4, <1>7, <1>8

\* An abrupt end keeps the boundary: it is promised no longer.
LEMMA AbruptBoundary ==
  ASSUME Exit("abruptly")
  PROVE  BoundaryInv'
  BY DEF Exit, BoundaryInv, StartsAtFile, HandedInv, SettledInv, Working

\* A clean cancel moves the file up to the last target drained.
LEMMA CancelledBoundary ==
  ASSUME IndInv, BoundaryInv, cpc = "finalize", CleanDrain, Exit("cancelled"),
         ckpt' = IF scenario.checkpointing /\ nextExpected > 0
                 THEN RecordIndex(nextExpected) ELSE ckpt
  PROVE  BoundaryInv'
<1> SUFFICES ASSUME scenario.checkpointing, stopped # "abruptly"
             PROVE  \A t \in durable : t <= ckpt'
  BY DEF Exit, BoundaryInv, StartsAtFile, HandedInv, SettledInv, Working
<1>1. /\ base \in Nat
      /\ nextExpected \in Nat
      /\ ckpt \in Int
      /\ durable \subseteq Nat
  BY BoundaryTypes
<1>2. /\ base = 0 \/ base <= ckpt
      /\ \A t \in durable : t <= ckpt \/ t < base + nextExpected
  BY DEF BoundaryInv, StartsAtFile, SettledInv, Working
<1>3. CASE nextExpected > 0
  <2>1. ckpt' = base + nextExpected - 1
    BY <1>3 DEF RecordIndex
  <2>2. ckpt <= base \/ ckpt <= base + nextExpected - 1
    BY <1>1 DEF IndInv, CheckpointInv, Working, NoFile
  <2>3. QED
    BY <1>1, <1>2, <1>3, <2>1, <2>2
<1>4. CASE nextExpected = 0
  <2>1. ckpt' = ckpt
    BY <1>4
  <2>2. QED
    BY <1>1, <1>2, <1>4, <2>1
<1>5. QED
  BY <1>1, <1>3, <1>4

\* A run starts where the file says, with nothing handed to the sink.
LEMMA StartBoundary ==
  ASSUME IndInv, BoundaryInv, Start
  PROVE  BoundaryInv'
<1> SUFFICES ASSUME scenario.checkpointing
             PROVE  StartsAtFile' /\ HandedInv' /\ SettledInv'
  BY DEF BoundaryInv, Start
<1>1. /\ cpc = "idle" /\ cpc' = "select"
      /\ base' = IF ckpt # NoFile THEN ckpt ELSE 0
      /\ nextExpected' = 0
      /\ buffered' = {}
      /\ UNCHANGED <<durable, ckpt, stopped>>
  BY DEF Start, RunReset, ResumeBase
<1>2. ckpt \in Int /\ durable \subseteq Nat
  BY BoundaryTypes
<1>3. StartsAtFile' /\ HandedInv'
  BY <1>1, <1>2 DEF StartsAtFile, HandedInv, NoFile
<1>4. SettledInv'
  BY <1>1 DEF SettledInv, BoundaryInv
<1>5. QED
  BY <1>3, <1>4

\* The sink's own steps hand it nothing.
LEMMA FlushAdvances ==
  ASSUME IndInv, FlushForCheckpoint \/ CloseSink
  PROVE  Advancing
<1>1. /\ cpc \in Working /\ cpc' # "idle"
      /\ UNCHANGED <<base, scenario, stopped, nextExpected, ckpt>>
      /\ SinkFlushed \/ Settle(buffered)
  BY DEF FlushForCheckpoint, CloseSink, AfterDrain, Working
<1>2. durable' \cup buffered' = durable \cup buffered /\ buffered' \subseteq buffered
  BY <1>1, SettleKeeps DEF SinkFlushed, IndInv, TypeOK
<1>3. QED
  BY <1>1, <1>2, BoundaryTypes DEF Advancing

\* The drain loop hands the sink the next target in order.
LEMMA DrainAdvances ==
  ASSUME IndInv, DrainTarget
  PROVE  Advancing
<1>1. /\ cpc \in Working /\ cpc' # "idle"
      /\ UNCHANGED <<base, scenario, stopped, ckpt>>
      /\ nextExpected' = nextExpected + 1
  BY DEF DrainTarget, AfterDrain, Working
<1>2. /\ buffered' \subseteq buffered \cup {base + nextExpected}
      /\ durable' \subseteq durable \cup buffered \cup {base + nextExpected}
  BY DrainEmits
<1>3. QED
  BY <1>1, <1>2, BoundaryTypes DEF Advancing

\* A checkpoint written by the cadence moves the file forward.
LEMMA PersistAdvances ==
  ASSUME IndInv, PersistCheckpoint
  PROVE  Advancing
<1>1. /\ cpc = "persist" /\ cpc' # "idle"
      /\ UNCHANGED <<base, scenario, stopped, nextExpected, buffered, durable>>
      /\ ckpt' = RecordIndex(nextExpected) \/ ckpt' = ckpt
  BY DEF PersistCheckpoint, AfterDrain
<1>2. nextExpected > 0
  BY <1>1 DEF IndInv, ReorderInv, Looping
<1>3. ckpt <= base \/ ckpt <= base + nextExpected - 1
  BY <1>1, BoundaryTypes DEF IndInv, CheckpointInv, Working, NoFile
<1>4. ckpt <= ckpt'
  BY <1>1, <1>2, <1>3, BoundaryTypes DEF RecordIndex
<1>5. QED
  BY <1>1, <1>4, BoundaryTypes DEF Advancing, Working

\* Under a checkpoint the tail has nothing of its own to write.
LEMMA TailAdvances ==
  ASSUME IndInv, EmitTail, scenario.checkpointing
  PROVE  Advancing
<1>1. /\ cpc = "tail" /\ cpc' = "close"
      /\ UNCHANGED <<base, scenario, stopped, nextExpected, ckpt>>
  BY DEF EmitTail
<1>2. held = {}
  BY <1>1 DEF IndInv, EligibleInv, Working
<1>3. UNCHANGED <<buffered, durable>>
  BY <1>2 DEF EmitTail
<1>4. QED
  BY <1>1, <1>3, BoundaryTypes DEF Advancing, Working

\* Every step keeps the boundary.
LEMMA NextBoundary ==
  ASSUME IndInv, IndInv', BoundaryInv, [Next]_vars
  PROVE  BoundaryInv'
<1>1. CASE Start
  BY <1>1, StartBoundary
<1>2. CASE Refuse
  BY <1>2 DEF Refuse, BoundaryInv, StartsAtFile, HandedInv, SettledInv, Working
<1>3. CASE Terminated \/ UNCHANGED vars
  BY <1>3 DEF Terminated, vars, runVars, BoundaryInv, StartsAtFile, HandedInv,
              SettledInv
<1>4. CASE \/ PollScan \/ CancelRun \/ HaltInDrain \/ LoopEnds \/ HaltInTail
           \/ \E t \in Targets : RecvScan(t)
  <2>1. /\ cpc \in Working /\ cpc' \in Working
        /\ UNCHANGED <<base, scenario, stopped, nextExpected, ckpt, buffered,
                       durable>>
    BY <1>4 DEF PollScan, CancelRun, HaltInDrain, LoopEnds, HaltInTail, RecvScan,
                AfterDrain, Working, runVars
  <2>2. Advancing
    BY <2>1, BoundaryTypes DEF Advancing, Working
  <2>3. QED
    BY <2>2, AdvancingBoundary
<1>5. CASE Crash \/ ReturnError
  BY <1>5, AbruptBoundary DEF Crash, ReturnError
<1>6. CASE DrainTarget
  BY <1>6, DrainAdvances, AdvancingBoundary
<1>7. CASE FlushForCheckpoint \/ CloseSink
  BY <1>7, FlushAdvances, AdvancingBoundary
<1>8. CASE PersistCheckpoint
  BY <1>8, PersistAdvances, AdvancingBoundary
<1>9. CASE EmitTail
  <2>1. CASE scenario.checkpointing
    BY <1>9, <2>1, TailAdvances, AdvancingBoundary
  <2>2. CASE ~scenario.checkpointing
    BY <1>9, <2>2 DEF EmitTail, BoundaryInv
  <2>3. QED
    BY <2>1, <2>2
<1>10. CASE FinalizeCancelled
  BY <1>10, CancelledBoundary, AbruptBoundary DEF FinalizeCancelled
<1>11. CASE FinalizeFinished
  <2>1. CASE Exit("abruptly")
    BY <2>1, AbruptBoundary
  <2>2. CASE cpc' = "complete"
    BY <2>2 DEF BoundaryInv, StartsAtFile, HandedInv, SettledInv, Working
  <2>3. QED
    BY <1>11, <2>1, <2>2 DEF FinalizeFinished
<1>12. QED
  BY <1>1, <1>2, <1>3, <1>4, <1>5, <1>6, <1>7, <1>8, <1>9, <1>10, <1>11
     DEF Next, Consume

\* As long as every interruption was a clean cancel, the checkpoint covers all
\* that reached the sink: a resume scans again only the boundary target.
THEOREM CancelLosesNoGround == Spec => []CancelLeavesBoundary
<1>1. Init => BoundaryInv
  BY DEF Init, BoundaryInv, StartsAtFile, HandedInv, SettledInv, Working
<1>2. IndInv /\ IndInv' /\ BoundaryInv /\ [Next]_vars => BoundaryInv'
  BY NextBoundary
<1>3. BoundaryInv => CancelLeavesBoundary
  BY DEF BoundaryInv, SettledInv, CancelLeavesBoundary
<1>4. QED
  BY <1>1, <1>2, <1>3, Invariance, PTL DEF Spec

=============================================================================
