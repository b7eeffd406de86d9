----------------------------- MODULE NatsProofs -----------------------------
(***************************************************************************)
(* A shared NatsSink, for every set of scans, whatever they write, every   *)
(* configuration and every number of permits: its own acks never use up    *)
(* the client's permits, what it still has of a stream is in the order it  *)
(* was written, and as long as no call is dropped it loses no record and a *)
(* scan that reports success has its records at a destination.             *)
(*                                                                         *)
(* The invariant says where a record of the device stream can be while     *)
(* publish_buffer and drain_pending_acks pass it on (PlaceInv), that the   *)
(* four sequences it passes through are each in order and follow one       *)
(* another (OrderInv), and which streams the call in progress is done with *)
(* (DoneInv): a stream it is done with is empty or among its errors.       *)
(*                                                                         *)
(* bytes decides only when a stream is published; nothing here depends on  *)
(* its value, which is a fold over the buffer and left to TLC.             *)
(***************************************************************************)
EXTENDS NatsSink, TLAPS

Typed ==
  /\ status \in [Scans -> {"writing", "failing"} \cup Ended]
  /\ \A s \in Scans : written[s] \in 0 .. Len(Load[s])
  /\ holder \in Scans \cup {NoScan}
  /\ holder = NoScan <=> pc = "idle"
  /\ op \in {"hold", "batch", "publish", "flush"}
  /\ pc \in Kinds \cup PCs \cup {"idle", "return"}
  /\ errs \subseteq Kinds
  /\ buffer \in [Kinds -> Seq(Nat)]
  /\ lastDelivered \in BOOLEAN
  /\ log \in Seq([scan : Scans, kind : Kinds, size : Nat \ {0}])
  /\ timeouts \in Nat
  /\ pendingAcks \in Seq(Nat)
  /\ draining \in Seq(Nat)
  /\ unacked \in Seq(Nat)
  /\ midWalk \in BOOLEAN

\* Where the records of the device stream are, by where the call is.
PlaceInv ==
  /\ pc \notin {"drain", "dlqAck"} => draining = <<>> /\ unacked = <<>>
  /\ pc \in {"drain", "dlqAck"} => pendingAcks = <<>> /\ Len(draining) <= MaxPendingAcks
  /\ Len(pendingAcks) <= MaxPendingAcks
  /\ pc # "take" => Len(pendingAcks) < MaxPendingAcks
  /\ pc = "dlqAck" => draining # <<>>
  /\ pc = "dlqPublish" => buffer["device"] # <<>>
  /\ pc = "linkAck" => buffer["link"] # <<>>
  /\ pc = "profileAck" => buffer["profile"] # <<>>
  /\ unacked # <<>> => "device" \in errs

\* In the order of the writes.
Increasing(q) == \A i, j \in 1 .. Len(q) : i < j => q[i] < q[j]
Below(S, T) == \A x \in S, y \in T : x < y

OrderInv ==
  /\ Increasing(unacked) /\ Increasing(draining) /\ Increasing(pendingAcks)
  /\ \A k \in Kinds : Increasing(buffer[k])
  /\ Below(Range(unacked), Range(draining))
  /\ Below(Range(unacked), Range(pendingAcks))
  /\ Below(Range(unacked), Range(buffer["device"]))
  /\ Below(Range(draining), Range(pendingAcks))
  /\ Below(Range(draining), Range(buffer["device"]))
  /\ Below(Range(pendingAcks), Range(buffer["device"]))
  /\ Range(unacked) \cup Range(draining) \cup Range(pendingAcks) \subseteq 1 .. Len(log)
  /\ \A k \in Kinds : Range(buffer[k]) \subseteq 1 .. Len(log)

LastKind == log[Len(log)].kind

\* Where a call is while it publishes stream k, and where flush is afterwards.
StageOf(k) ==
  CASE k = "device" -> {"device", "dlqPublish", "take", "drain", "dlqAck"}
    [] k = "link" -> {"link", "linkAck"}
    [] k = "profile" -> {"profile", "profileAck"}

LaterThan(k) ==
  CASE k = "device" -> {"link", "linkAck", "profile", "profileAck", "return"}
    [] k = "link" -> {"profile", "profileAck", "return"}
    [] k = "profile" -> {"return"}

\* The call in progress has published stream k, as far as it could.
DoneWith(k) ==
  \/ k = "device" /\ pc \in {"take", "drain", "dlqAck"} /\ ~midWalk
  \/ op = "flush" /\ pc \in LaterThan(k)
  \/ op = "publish" /\ pc = "return" /\ k = LastKind

DoneInv ==
  /\ \A k \in Kinds : DoneWith(k) /\ buffer[k] # <<>> => k \in errs
  /\ DoneWith("device") /\ pc # "take" => pendingAcks = <<>>
  /\ op = "publish" /\ pc # "idle" => log # <<>> /\ pc \in StageOf(LastKind) \cup {"return"}
  /\ op \in {"hold", "batch"} /\ pc # "idle" => pc \in StageOf("device") \cup {"return"}

\* The sink still has these records of stream k.
HeldOf(k) ==
  Range(buffer[k]) \cup
    IF k = "device" THEN Range(pendingAcks) \cup Range(draining) \cup Range(unacked) ELSE {}

KeptInv == timeouts = 0 => \A r \in Records : r \in Taken \cup HeldOf(log[r].kind)

FlagInv ==
  /\ holder # NoScan /\ op # "flush" => ~lastDelivered
  /\ timeouts = 0 /\ holder = NoScan /\ lastDelivered /\ log # <<>> => Len(log) \in Taken

NatsInv ==
  /\ Typed /\ PlaceInv /\ OrderInv /\ DoneInv
  /\ KeptInv /\ FlagInv /\ OkMeansTakenUndropped

-----------------------------------------------------------------------------
(* Sequences of records *)

LEMMA RangeOfEmpty == Range(<<>>) = {} /\ Increasing(<<>>)
  BY DEF Range, Increasing

\* What push, and the hand-over of a record, do to a sequence.
LEMMA AppendFacts ==
  ASSUME NEW q \in Seq(Nat), NEW x \in Nat
  PROVE  /\ Append(q, x) \in Seq(Nat) /\ Append(q, x) # <<>>
         /\ Len(Append(q, x)) = Len(q) + 1
         /\ Range(Append(q, x)) = Range(q) \cup {x}
         /\ Increasing(q) /\ Below(Range(q), {x}) => Increasing(Append(q, x))
  <1> DEFINE a == Append(q, x)
  <1>1. /\ a \in Seq(Nat) /\ Len(a) = Len(q) + 1 /\ a[Len(q) + 1] = x
        /\ \A i \in 1 .. Len(q) : a[i] = q[i]
        /\ Len(q) \in Nat /\ DOMAIN q = 1 .. Len(q) /\ DOMAIN a = 1 .. Len(a)
        /\ \A i \in 1 .. Len(q) : q[i] \in Nat
    OBVIOUS
  <1>2. a # <<>>
    BY <1>1
  <1> HIDE DEF a
  <1>3. Range(a) = Range(q) \cup {x}
    <2>1. DOMAIN a = DOMAIN q \cup {Len(q) + 1}
      BY <1>1
    <2> QED BY <1>1, <2>1 DEF Range
  <1>4. ASSUME Increasing(q), Below(Range(q), {x}) PROVE Increasing(a)
    <2> SUFFICES ASSUME NEW i \in 1 .. Len(a), NEW j \in 1 .. Len(a), i < j
                 PROVE  a[i] < a[j]
      BY DEF Increasing
    <2>1. i \in 1 .. Len(q)
      BY <1>1
    <2>2. CASE j \in 1 .. Len(q)
      BY <1>1, <1>4, <2>1, <2>2 DEF Increasing
    <2>3. CASE j = Len(q) + 1
      <3>1. q[i] \in Range(q)
        BY <1>1, <2>1 DEF Range
      <3> QED BY <1>1, <1>4, <2>1, <2>3, <3>1 DEF Below
    <2>4. j \in 1 .. Len(q) \/ j = Len(q) + 1
      <3>1. j \in 1 .. (Len(q) + 1) /\ Len(q) \in Nat
        BY <1>1
      <3> QED BY <3>1
    <2> QED BY <2>2, <2>3, <2>4
  <1> QED BY <1>1, <1>2, <1>3, <1>4 DEF a

\* What taking the front record off does.
LEMMA TailFacts ==
  ASSUME NEW q \in Seq(Nat), q # <<>>
  PROVE  /\ Head(q) \in Nat /\ Tail(q) \in Seq(Nat)
         /\ Len(q) \in Nat /\ Len(q) > 0 /\ Len(Tail(q)) = Len(q) - 1
         /\ Range(q) = {Head(q)} \cup Range(Tail(q))
         /\ Increasing(q) => Increasing(Tail(q)) /\ Below({Head(q)}, Range(Tail(q)))
  <1> DEFINE t == Tail(q)
  <1>1. /\ t \in Seq(Nat) /\ Len(q) \in Nat /\ Len(q) > 0 /\ Len(t) = Len(q) - 1
        /\ Head(q) = q[1] /\ Head(q) \in Nat
        /\ \A i \in 1 .. Len(t) : t[i] = q[i + 1]
        /\ DOMAIN q = 1 .. Len(q) /\ DOMAIN t = 1 .. Len(t)
    OBVIOUS
  <1> HIDE DEF t
  <1>2. Range(q) = {Head(q)} \cup Range(t)
    <2>1. \A i \in DOMAIN q : i = 1 \/ (i - 1 \in DOMAIN t /\ q[i] = t[i - 1])
      BY <1>1
    <2>2. \A i \in DOMAIN t : i + 1 \in DOMAIN q /\ t[i] = q[i + 1]
      BY <1>1
    <2>3. 1 \in DOMAIN q
      BY <1>1
    <2>4. \A x : x \in Range(q) <=> \E i \in DOMAIN q : x = q[i]
      BY DEF Range
    <2>5. \A x : x \in Range(t) <=> \E i \in DOMAIN t : x = t[i]
      BY DEF Range
    <2>6. Head(q) = q[1]
      BY <1>1
    <2>7. \A x : x \in Range(q) => x = Head(q) \/ x \in Range(t)
      BY <2>1, <2>4, <2>5, <2>6
    <2>8. \A x : x \in Range(t) => x \in Range(q)
      BY <2>2, <2>4, <2>5
    <2>9. Head(q) \in Range(q)
      BY <2>3, <2>4, <2>6
    <2> QED BY <2>7, <2>8, <2>9
  <1>3. ASSUME Increasing(q) PROVE Increasing(t) /\ Below({Head(q)}, Range(t))
    <2>0. \A i \in 1 .. Len(t) : i + 1 \in 1 .. Len(q) /\ 1 \in 1 .. Len(q) /\ i > 0
      BY <1>1
    <2>1. Increasing(t)
      <3> SUFFICES ASSUME NEW i \in 1 .. Len(t), NEW j \in 1 .. Len(t), i < j
                   PROVE  t[i] < t[j]
        BY DEF Increasing
      <3>1. i + 1 < j + 1 /\ t[i] = q[i + 1] /\ t[j] = q[j + 1]
        BY <1>1
      <3> QED BY <2>0, <3>1, <1>3 DEF Increasing
    <2>2. \A i \in DOMAIN t : q[1] < t[i]
      <3> SUFFICES ASSUME NEW i \in 1 .. Len(t) PROVE q[1] < t[i]
        BY <1>1
      <3>1. 1 < i + 1 /\ t[i] = q[i + 1]
        BY <1>1
      <3> QED BY <2>0, <3>1, <1>3 DEF Increasing
    <2> QED BY <1>1, <2>1, <2>2 DEF Below, Range
  <1> QED BY <1>1, <1>2, <1>3 DEF t

\* What restore_front does.
LEMMA ConcatFacts ==
  ASSUME NEW q \in Seq(Nat), NEW r \in Seq(Nat)
  PROVE  /\ q \o r \in Seq(Nat)
         /\ Range(q \o r) = Range(q) \cup Range(r)
         /\ q \o r = <<>> <=> q = <<>> /\ r = <<>>
         /\ Increasing(q) /\ Increasing(r) /\ Below(Range(q), Range(r)) => Increasing(q \o r)
  <1> DEFINE c == q \o r
             m == Len(q)
             n == Len(r)
  <1>1. m \in Nat /\ n \in Nat /\ Len(c) = m + n
    OBVIOUS
  <1>2. c \in Seq(Nat) /\ DOMAIN q = 1 .. m /\ DOMAIN r = 1 .. n /\ DOMAIN c = 1 .. (m + n)
    OBVIOUS
  <1>3. \A i \in 1 .. m : c[i] = q[i]
    OBVIOUS
  <1>4. \A i \in 1 .. n : c[m + i] = r[i]
    OBVIOUS
  <1>5. q \o r = <<>> <=> q = <<>> /\ r = <<>>
    OBVIOUS
  <1> HIDE DEF c, m, n
  <1>6. \A i \in 1 .. (m + n) : i \in 1 .. m \/ (i - m \in 1 .. n /\ i = m + (i - m))
    BY <1>1
  <1>7. \A i \in 1 .. m : i \in 1 .. (m + n)
    BY <1>1
  <1>8. \A i \in 1 .. n : m + i \in 1 .. (m + n)
    BY <1>1
  <1>9. Range(c) = Range(q) \cup Range(r)
    <2>1. \A x : x \in Range(c) <=> \E i \in 1 .. (m + n) : x = c[i]
      BY <1>2 DEF Range
    <2>2. \A x : x \in Range(q) <=> \E i \in 1 .. m : x = q[i]
      BY <1>2 DEF Range
    <2>3. \A x : x \in Range(r) <=> \E i \in 1 .. n : x = r[i]
      BY <1>2 DEF Range
    <2>4. \A i \in 1 .. (m + n) : (i \in 1 .. m /\ c[i] = q[i])
                                   \/ (i - m \in 1 .. n /\ c[i] = r[i - m])
      BY <1>3, <1>4, <1>6
    <2>5. \A x \in Range(c) : x \in Range(q) \/ x \in Range(r)
      BY <2>1, <2>2, <2>3, <2>4
    <2>6. \A x \in Range(q) : x \in Range(c)
      BY <2>1, <2>2, <1>3, <1>7
    <2>7. \A x \in Range(r) : x \in Range(c)
      BY <2>1, <2>3, <1>4, <1>8
    <2> QED BY <2>5, <2>6, <2>7
  <1>10. ASSUME Increasing(q), Increasing(r), Below(Range(q), Range(r)) PROVE Increasing(c)
    <2> SUFFICES ASSUME NEW i \in 1 .. (m + n), NEW j \in 1 .. (m + n), i < j
                 PROVE  c[i] < c[j]
      BY <1>1 DEF Increasing
    <2>1. CASE j \in 1 .. m
      <3>1. i \in 1 .. m
        BY <1>1, <2>1
      <3> QED BY <1>3, <1>10, <2>1, <3>1 DEF Increasing, m
    <2>2. CASE i \notin 1 .. m
      <3>1. i - m \in 1 .. n /\ j - m \in 1 .. n /\ i - m < j - m
        BY <1>1, <2>2
      <3>2. c[i] = r[i - m] /\ c[j] = r[j - m]
        BY <1>1, <1>4, <1>6, <3>1
      <3> QED BY <1>10, <3>1, <3>2 DEF Increasing, n
    <2>3. CASE i \in 1 .. m /\ j \notin 1 .. m
      <3>1. j - m \in 1 .. n /\ c[j] = r[j - m] /\ c[i] = q[i]
        BY <1>1, <1>3, <1>4, <1>6, <2>3
      <3>2. q[i] \in Range(q) /\ r[j - m] \in Range(r)
        BY <1>2, <2>3, <3>1 DEF Range
      <3> QED BY <1>10, <3>1, <3>2 DEF Below
    <2> QED BY <2>1, <2>2, <2>3
  <1> QED BY <1>2, <1>5, <1>9, <1>10 DEF c

-----------------------------------------------------------------------------
(* Steps inside a call *)

LEMMA ElementOf ==
  ASSUME NEW S, NEW q \in Seq(S), NEW i \in 1 .. Len(q)
  PROVE  q[i] \in S
  OBVIOUS

LEMMA RecordOf ==
  ASSUME Typed, NEW r \in Records
  PROVE  r \in 1 .. Len(log) /\ log[r].scan \in Scans /\ log[r].kind \in Kinds
  <1>1. log \in Seq([scan : Scans, kind : Kinds, size : Nat \ {0}])
    BY DEF Typed
  <1>2. r \in 1 .. Len(log)
    BY DEF Records
  <1>3. log[r] \in [scan : Scans, kind : Kinds, size : Nat \ {0}]
    BY <1>1, <1>2, ElementOf
  <1> QED BY <1>2, <1>3

LEMMA LastRecord ==
  ASSUME Typed, log # <<>>
  PROVE  Len(log) \in Records /\ LastKind \in Kinds
  <1>1. log \in Seq([scan : Scans, kind : Kinds, size : Nat \ {0}])
    BY DEF Typed
  <1>2. Len(log) \in Records
    BY <1>1 DEF Records
  <1> QED BY <1>2, RecordOf DEF LastKind

LEMMA Stages ==
  /\ StageOf("device") = {"device", "dlqPublish", "take", "drain", "dlqAck"}
  /\ StageOf("link") = {"link", "linkAck"}
  /\ StageOf("profile") = {"profile", "profileAck"}
  /\ LaterThan("device") = {"link", "linkAck", "profile", "profileAck", "return"}
  /\ LaterThan("link") = {"profile", "profileAck", "return"}
  /\ LaterThan("profile") = {"return"}
  BY DEF StageOf, LaterThan

\* A step that keeps every record it finds, or hands it to a destination,
\* keeps what is promised of the records.
LEMMA InsideCall ==
  ASSUME NatsInv, pc # "idle",
         UNCHANGED <<status, timeouts, holder, op, lastDelivered, log>>,
         Taken \subseteq Taken',
         \A k \in Kinds : HeldOf(k) \subseteq Taken' \cup HeldOf(k)',
         Typed', PlaceInv', OrderInv', DoneInv'
  PROVE  NatsInv'
  <1>1. KeptInv'
    <2> SUFFICES ASSUME timeouts' = 0, NEW r \in Records'
                 PROVE  r \in Taken' \cup HeldOf(log[r].kind)'
      BY DEF KeptInv
    <2>1. r \in Records /\ timeouts = 0
      BY DEF Records
    <2>2. log[r].kind \in Kinds /\ log'[r].kind = log[r].kind
      BY <2>1, RecordOf DEF NatsInv
    <2>3. r \in Taken \cup HeldOf(log[r].kind)
      BY <2>1 DEF NatsInv, KeptInv
    <2>4. HeldOf(log[r].kind) \subseteq Taken' \cup HeldOf(log[r].kind)'
      BY <2>2 DEF HeldOf
    <2> QED BY <2>3, <2>4
  <1>2. FlagInv'
    BY DEF NatsInv, FlagInv, Typed
  <1>3. OkMeansTakenUndropped'
    BY DEF NatsInv, OkMeansTakenUndropped, OkMeansTaken, Records
  <1> QED BY <1>1, <1>2, <1>3 DEF NatsInv


\* The stream a step is at, and where the step may leave the call.
LEMMA DoneStep ==
  ASSUME NatsInv, Typed', PlaceInv', NEW k \in Kinds, pc \in StageOf(k),
         UNCHANGED <<op, log>>, errs \subseteq errs',
         \A j \in Kinds \ {k} : buffer'[j] = buffer[j],
         \/ pc' \in StageOf(k)
         \/ pc' = AfterStream(k) /\ (buffer'[k] # <<>> => k \in errs')
         \/ pc' = "return" /\ op = "batch",
         k = "device" /\ pc' \in {"take", "drain", "dlqAck"} /\ ~midWalk' =>
           (buffer'[k] # <<>> => k \in errs'),
         k = "device" /\ pc' \notin StageOf(k) /\ op # "batch" => pendingAcks' = <<>>,
         k # "device" => pendingAcks' = pendingAcks
  PROVE  DoneInv'
  <1>1. /\ LastKind' = LastKind
        /\ op = "publish" => log # <<>> /\ LastKind = k
    <2>1. pc # "idle"
      BY Stages DEF Kinds
    <2>2. op = "publish" => log # <<>> /\ pc \in StageOf(LastKind) \cup {"return"} /\ LastKind \in Kinds
      BY <2>1, LastRecord DEF NatsInv, DoneInv
    <2>3. pc # "return" /\ \A j \in Kinds : pc \in StageOf(j) => j = k
      BY Stages DEF Kinds
    <2> QED BY <2>2, <2>3 DEF LastKind
  <1>2. ASSUME NEW j \in Kinds, DoneWith(j)', buffer'[j] # <<>> PROVE j \in errs'
    <2>1. CASE j = k
      <3>1. CASE pc' \in StageOf(k)
        BY <1>1, <1>2, <2>1, <3>1, Stages DEF DoneWith, Kinds
      <3>2. CASE pc' = AfterStream(k) /\ (buffer'[k] # <<>> => k \in errs')
        BY <1>2, <2>1, <3>2
      <3>3. CASE pc' = "return" /\ op = "batch"
        BY <1>2, <2>1, <3>3 DEF DoneWith
      <3> QED BY <3>1, <3>2, <3>3
    <2>2. CASE j # k
      <3>1. op = "flush" /\ pc' \in LaterThan(j)
        <4>1. op # "publish" \/ j # LastKind'
          BY <1>1, <2>2
        <4>2. ~(j = "device" /\ pc' \in {"take", "drain", "dlqAck"})
          BY <2>2, Stages DEF Kinds, AfterStream
        <4> QED BY <1>2, <4>1, <4>2 DEF DoneWith
      <3>2. pc \in LaterThan(j)
        BY <2>2, <3>1, Stages DEF Kinds, AfterStream
      <3> QED BY <1>2, <2>2, <3>1, <3>2 DEF NatsInv, DoneInv, DoneWith
    <2> QED BY <2>1, <2>2
  <1>3. ASSUME DoneWith("device")', pc' # "take" PROVE pendingAcks' = <<>>
    <2>1. CASE k = "device"
      <3>1. CASE pc' \in StageOf(k)
        <4>1. pc' \in {"drain", "dlqAck"}
          BY <1>3, <2>1, <3>1, Stages DEF DoneWith
        <4> QED BY <4>1 DEF PlaceInv
      <3>2. CASE pc' \notin StageOf(k)
        BY <1>3, <2>1, <3>2, Stages DEF DoneWith
      <3> QED BY <3>1, <3>2
    <2>2. CASE k # "device"
      <3>1. op = "flush"
        <4>1. pc' \notin {"take", "drain", "dlqAck"}
          BY <2>2, Stages DEF Kinds, AfterStream
        <4> QED BY <1>1, <1>3, <2>2, <4>1 DEF DoneWith
      <3>2. pc \in LaterThan("device") /\ pc # "take"
        BY <2>2, Stages DEF Kinds
      <3> QED BY <2>2, <3>1, <3>2 DEF NatsInv, DoneInv, DoneWith
    <2> QED BY <2>1, <2>2
  <1>4. op' = "publish" /\ pc' # "idle" => log' # <<>> /\ pc' \in StageOf(LastKind') \cup {"return"}
    BY <1>1 DEF AfterStream
  <1>5. op' \in {"hold", "batch"} /\ pc' # "idle" => pc' \in StageOf("device") \cup {"return"}
    <2>1. op \in {"hold", "batch"} => k = "device"
      BY Stages DEF NatsInv, DoneInv, Kinds
    <2> QED BY <2>1 DEF AfterStream
  <1> QED BY <1>2, <1>3, <1>4, <1>5 DEF DoneInv, StageOf

\* The type of a step inside a call.
LEMMA TypedStep ==
  ASSUME Typed, pc # "idle", pc' # "idle",
         UNCHANGED <<status, written, holder, op, lastDelivered, log, timeouts>>,
         pc' \in Kinds \cup PCs \cup {"idle", "return"},
         errs' \subseteq Kinds,
         buffer' \in [Kinds -> Seq(Nat)],
         pendingAcks' \in Seq(Nat), draining' \in Seq(Nat), unacked' \in Seq(Nat),
         midWalk' \in BOOLEAN
  PROVE  Typed'
  BY DEF Typed


\* The publish of the front record is accepted.
LEMMA PublishAcceptedStep ==
  ASSUME NatsInv, PublishAccepted
  PROVE  NatsInv'
  <1> DEFINE b == buffer["device"]
             h == Head(b)
             t == Tail(b)
  <1>1. /\ pc = "device" /\ b # <<>>
        /\ buffer' = [buffer EXCEPT !["device"] = t]
        /\ pendingAcks' = Append(pendingAcks, h)
        /\ midWalk' = (Len(pendingAcks') >= MaxPendingAcks)
        /\ pc' = IF midWalk' THEN "take" ELSE "device"
        /\ UNCHANGED <<status, written, timeouts, holder, op, errs, lastDelivered, log,
                       accepted, quarantined, draining, unacked>>
    BY DEF PublishAccepted, SettleFront, ShouldDrain, scanVars, brokerVars
  <1>2. /\ b \in Seq(Nat) /\ pendingAcks \in Seq(Nat) /\ buffer \in [Kinds -> Seq(Nat)]
        /\ draining = <<>> /\ unacked = <<>>
        /\ Len(pendingAcks) < MaxPendingAcks /\ Increasing(b) /\ Increasing(pendingAcks)
        /\ Below(Range(pendingAcks), Range(b))
    BY <1>1 DEF NatsInv, Typed, PlaceInv, OrderInv, Kinds
  <1>3. /\ h \in Nat /\ t \in Seq(Nat) /\ Range(b) = {h} \cup Range(t)
        /\ Increasing(t) /\ Below({h}, Range(t))
    BY <1>1, <1>2, TailFacts
  <1>4. Below(Range(pendingAcks), {h})
    BY <1>2, <1>3 DEF Below
  <1>5. /\ pendingAcks' \in Seq(Nat) /\ Len(pendingAcks') = Len(pendingAcks) + 1
        /\ Range(pendingAcks') = Range(pendingAcks) \cup {h} /\ Increasing(pendingAcks')
    BY <1>1, <1>2, <1>3, <1>4, AppendFacts
  <1>6. Len(pendingAcks) \in Nat /\ Len(draining) = 0
    BY <1>2
  <1> HIDE DEF h, t
  <1>7. buffer'["device"] = t /\ \A j \in Kinds \ {"device"} : buffer'[j] = buffer[j]
    BY <1>1, <1>2 DEF Kinds
  <1>8. Typed'
    <2>1. buffer' \in [Kinds -> Seq(Nat)]
      BY <1>1, <1>2, <1>3
    <2> QED BY <1>1, <1>2, <1>5, <2>1, TypedStep DEF NatsInv, Typed, Kinds, PCs
  <1>9. PlaceInv'
    <2>1. /\ Len(pendingAcks') <= MaxPendingAcks
          /\ ~(Len(pendingAcks') >= MaxPendingAcks) => Len(pendingAcks') < MaxPendingAcks
      BY <1>2, <1>5, <1>6, PermitAssumption
    <2>2. pc' # "take" => ~(Len(pendingAcks') >= MaxPendingAcks)
      BY <1>1, Zenon
    <2>3. pc' \in {"take", "device"}
      BY <1>1, Zenon
    <2> QED BY <1>1, <1>2, <2>1, <2>2, <2>3 DEF PlaceInv
  <1>10. OrderInv'
    <2>1. Below(Range(pendingAcks)', Range(t))
      BY <1>2, <1>3, <1>5 DEF Below
    <2>2. Range(pendingAcks)' \subseteq 1 .. Len(log) /\ Range(t) \subseteq 1 .. Len(log)
      BY <1>3, <1>5 DEF NatsInv, OrderInv, Kinds
    <2> QED BY <1>1, <1>2, <1>3, <1>5, <1>7, <2>1, <2>2, RangeOfEmpty
            DEF NatsInv, OrderInv, Below, Kinds
  <1>11. DoneInv'
    BY <1>1, <1>7, <1>8, <1>9, Stages, DoneStep DEF Kinds
  <1>12. \A k \in Kinds : HeldOf(k) \subseteq Taken' \cup HeldOf(k)'
    BY <1>1, <1>3, <1>5, <1>7 DEF HeldOf, Kinds
  <1> QED BY <1>1, <1>8, <1>9, <1>10, <1>11, <1>12, InsideCall DEF Taken

\* A step of the device stream that moves no record: a failed attempt, the
\* end of the walk, mem::take, a rejected ack that is to be quarantined.
LEMMA WalkStays ==
  ASSUME NatsInv,
         pc \in {"device", "dlqPublish"},
         UNCHANGED <<status, written, timeouts, holder, op, lastDelivered, log, accepted,
                     quarantined, buffer, pendingAcks, draining, unacked>>,
         \/ UNCHANGED <<pc, errs, midWalk>>
         \/ pc' = "dlqPublish" /\ buffer["device"] # <<>> /\ UNCHANGED <<errs, midWalk>>
         \/ \E failed \in BOOLEAN : WalkEnds(failed) /\ (buffer["device"] # <<>> => failed)
  PROVE  NatsInv'
  <1>1. /\ pc' \in {"device", "dlqPublish", "take", "return"} /\ midWalk' \in BOOLEAN
        /\ errs \subseteq errs' /\ errs' \subseteq Kinds
        /\ pc' = "dlqPublish" => buffer["device"] # <<>>
        /\ pc' = "return" => op = "batch"
        /\ pc' = "take" => (buffer["device"] # <<>> => "device" \in errs')
    BY DEF WalkEnds, NatsInv, Typed, PlaceInv, Kinds
  <1>2. Typed'
    BY <1>1, TypedStep DEF NatsInv, Typed, Kinds, PCs
  <1>3. PlaceInv'
    BY <1>1 DEF NatsInv, PlaceInv
  <1>4. OrderInv'
    BY DEF NatsInv, OrderInv
  <1>5. DoneInv'
    BY <1>1, <1>2, <1>3, Stages, DoneStep DEF Kinds
  <1>6. \A k \in Kinds : HeldOf(k) \subseteq Taken' \cup HeldOf(k)'
    BY DEF HeldOf
  <1> QED BY <1>2, <1>3, <1>4, <1>5, <1>6, InsideCall DEF Taken

LEMMA PublishFailsStep ==
  ASSUME NatsInv, PublishFails
  PROVE  NatsInv'
  BY WalkStays DEF PublishFails, scanVars, sinkVars, brokerVars

LEMMA WalkDoneStep ==
  ASSUME NatsInv, WalkDone
  PROVE  NatsInv'
  BY WalkStays DEF WalkDone, scanVars, sinkVars, brokerVars

\* The dead-letter stream takes the front record, or the walk ends.
LEMMA QuarantineFrontStep ==
  ASSUME NatsInv, QuarantineFront
  PROVE  NatsInv'
  <1> DEFINE b == buffer["device"]
             h == Head(b)
             t == Tail(b)
  <1>1. /\ pc = "dlqPublish"
        /\ UNCHANGED <<status, written, timeouts, holder, op, lastDelivered, log, accepted,
                       pendingAcks, draining, unacked>>
    BY DEF QuarantineFront, scanVars
  <1>2. CASE WalkEnds(TRUE) /\ UNCHANGED <<quarantined, buffer>>
    BY <1>1, <1>2, WalkStays
  <1>3. CASE /\ quarantined' = quarantined \cup {h}
             /\ buffer' = [buffer EXCEPT !["device"] = t]
             /\ pc' = "device"
             /\ UNCHANGED <<errs, midWalk>>
    <2>1. /\ b \in Seq(Nat) /\ b # <<>> /\ buffer \in [Kinds -> Seq(Nat)] /\ Increasing(b)
      BY <1>1 DEF NatsInv, Typed, PlaceInv, OrderInv, Kinds
    <2>2. h \in Nat /\ t \in Seq(Nat) /\ Range(b) = {h} \cup Range(t) /\ Increasing(t)
      BY <2>1, TailFacts
    <2> HIDE DEF h, t
    <2>3. buffer'["device"] = t /\ \A j \in Kinds \ {"device"} : buffer'[j] = buffer[j]
      BY <1>3, <2>1 DEF Kinds
    <2>4. Typed'
      <3>1. buffer' \in [Kinds -> Seq(Nat)]
        BY <1>3, <2>1, <2>2
      <3> QED BY <1>1, <1>3, <3>1, TypedStep DEF NatsInv, Typed, Kinds, PCs
    <2>5. PlaceInv'
      BY <1>1, <1>3 DEF NatsInv, PlaceInv
    <2>6. OrderInv'
      BY <1>1, <2>2, <2>3 DEF NatsInv, OrderInv, Below, Kinds
    <2>7. DoneInv'
      BY <1>1, <1>3, <2>3, <2>4, <2>5, Stages, DoneStep DEF Kinds
    <2>8. \A k \in Kinds : HeldOf(k) \subseteq Taken' \cup HeldOf(k)'
      BY <1>1, <1>3, <2>2, <2>3 DEF HeldOf, Taken, Kinds
    <2> QED BY <1>1, <1>3, <2>4, <2>5, <2>6, <2>7, <2>8, InsideCall DEF Taken
  <1> QED BY <1>2, <1>3 DEF QuarantineFront, SettleFront

LEMMA TakeAcksStep ==
  ASSUME NatsInv, TakeAcks
  PROVE  NatsInv'
  <1>1. /\ pc = "take" /\ draining' = pendingAcks /\ pendingAcks' = <<>> /\ pc' = "drain"
        /\ UNCHANGED <<status, written, timeouts, holder, op, errs, lastDelivered, log,
                       buffer, accepted, quarantined, unacked, midWalk>>
    BY DEF TakeAcks, scanVars, sinkVars, brokerVars
  <1>2. draining = <<>> /\ unacked = <<>> /\ Len(pendingAcks) <= MaxPendingAcks /\ Len(<<>>) = 0
    BY <1>1 DEF NatsInv, PlaceInv
  <1>3. Typed'
    BY <1>1, TypedStep DEF NatsInv, Typed, Kinds, PCs
  <1>4. PlaceInv'
    BY <1>1, <1>2, PermitAssumption DEF NatsInv, PlaceInv
  <1>5. OrderInv'
    BY <1>1, <1>2, RangeOfEmpty DEF NatsInv, OrderInv, Below
  <1>6. DoneInv'
    <2>1. ~midWalk => (buffer["device"] # <<>> => "device" \in errs)
      BY <1>1 DEF NatsInv, DoneInv, DoneWith, Kinds
    <2> QED BY <1>1, <1>3, <1>4, <2>1, Stages, DoneStep DEF Kinds
  <1>7. \A k \in Kinds : HeldOf(k) \subseteq Taken' \cup HeldOf(k)'
    BY <1>1, <1>2, RangeOfEmpty DEF HeldOf
  <1> QED BY <1>1, <1>3, <1>4, <1>5, <1>6, <1>7, InsideCall DEF Taken


\* The head of what drain_pending_acks took is settled: at a destination, or
\* put aside with an error.
LEMMA DrainHead ==
  ASSUME NatsInv, pc \in {"drain", "dlqAck"}, draining # <<>>, pc' = "drain",
         draining' = Tail(draining),
         UNCHANGED <<status, written, timeouts, holder, op, lastDelivered, log, buffer,
                     pendingAcks, midWalk>>,
         Taken \subseteq Taken',
         \/ Head(draining) \in Taken' /\ UNCHANGED <<unacked, errs>>
         \/ KeepUnacked
  PROVE  NatsInv'
  <1> DEFINE h == Head(draining)
             t == Tail(draining)
  <1>1. /\ draining \in Seq(Nat) /\ unacked \in Seq(Nat) /\ pendingAcks = <<>>
        /\ Len(draining) <= MaxPendingAcks /\ Increasing(draining) /\ Increasing(unacked)
        /\ Below(Range(unacked), Range(draining))
        /\ Below(Range(unacked), Range(buffer["device"]))
        /\ Below(Range(draining), Range(buffer["device"]))
    BY DEF NatsInv, Typed, PlaceInv, OrderInv
  <1>2. /\ h \in Nat /\ t \in Seq(Nat) /\ Range(draining) = {h} \cup Range(t)
        /\ Len(draining) \in Nat /\ Len(t) = Len(draining) - 1
        /\ Increasing(t) /\ Below({h}, Range(t))
    BY <1>1, TailFacts
  <1>3. /\ unacked' \in Seq(Nat) /\ Increasing(unacked')
        /\ Range(unacked) \subseteq Range(unacked')
        /\ Range(unacked') \subseteq Range(unacked) \cup {h}
        /\ h \in Taken' \/ h \in Range(unacked')
        /\ unacked' # <<>> => "device" \in errs'
        /\ errs \subseteq errs' /\ errs' \subseteq Kinds
    <2>1. CASE h \in Taken' /\ UNCHANGED <<unacked, errs>>
      BY <1>1, <2>1 DEF NatsInv, Typed, PlaceInv
    <2>2. CASE KeepUnacked
      <3>1. unacked' = Append(unacked, h) /\ errs' = errs \cup {"device"} /\ errs \subseteq Kinds
        BY <2>2 DEF KeepUnacked, NatsInv, Typed
      <3>2. Below(Range(unacked), {h})
        BY <1>1, <1>2 DEF Below
      <3>3. /\ unacked' \in Seq(Nat) /\ Range(unacked') = Range(unacked) \cup {h}
            /\ Increasing(unacked')
        BY <1>1, <1>2, <3>1, <3>2, AppendFacts
      <3> QED BY <3>1, <3>3 DEF Kinds
    <2> QED BY <2>1, <2>2
  <1> HIDE DEF h
  <1>4. Typed'
    BY <1>2, <1>3, TypedStep DEF NatsInv, Typed, Kinds, PCs
  <1>5. draining' = t /\ UNCHANGED <<buffer, pendingAcks, log>>
    OBVIOUS
  <1> HIDE DEF t
  <1>6. PlaceInv'
    <2>1. Len(draining') <= MaxPendingAcks
      BY <1>1, <1>2, <1>5, PermitAssumption
    <2> QED BY <1>1, <1>3, <2>1 DEF NatsInv, PlaceInv
  <1>7. OrderInv'
    <2>1. Below(Range(unacked'), Range(t)) /\ Below(Range(unacked'), Range(buffer["device"]))
      BY <1>1, <1>2, <1>3 DEF Below
    <2>2. Below(Range(t), Range(buffer["device"]))
      BY <1>1, <1>2 DEF Below
    <2>3. Range(unacked') \cup Range(t) \subseteq 1 .. Len(log)
      BY <1>2, <1>3 DEF NatsInv, OrderInv
    <2> QED BY <1>1, <1>2, <1>3, <1>5, <2>1, <2>2, <2>3, RangeOfEmpty
            DEF NatsInv, OrderInv, Below
  <1>8. DoneInv'
    <2>1. ~midWalk => (buffer["device"] # <<>> => "device" \in errs)
      BY DEF NatsInv, DoneInv, DoneWith, Kinds
    <2> QED BY <1>3, <1>4, <1>6, <2>1, Stages, DoneStep DEF Kinds
  <1>9. \A k \in Kinds : HeldOf(k) \subseteq Taken' \cup HeldOf(k)'
    BY <1>2, <1>3, <1>5 DEF HeldOf
  <1> QED BY <1>4, <1>6, <1>7, <1>8, <1>9, InsideCall

LEMMA AckArrivesStep ==
  ASSUME NatsInv, AckArrives
  PROVE  NatsInv'
  BY DrainHead DEF AckArrives, scanVars, callVars, sinkVars, Taken

LEMMA AckFailsStep ==
  ASSUME NatsInv, AckFails
  PROVE  NatsInv'
  <1>1. /\ pc = "drain" /\ draining # <<>>
        /\ UNCHANGED <<status, written, timeouts, holder, op, lastDelivered, log, buffer,
                       accepted, quarantined, pendingAcks, midWalk>>
    BY DEF AckFails, scanVars, sinkVars, brokerVars
  <1>2. CASE KeepUnacked /\ draining' = Tail(draining) /\ UNCHANGED pc
    BY <1>1, <1>2, DrainHead DEF Taken
  <1>3. CASE pc' = "dlqAck" /\ UNCHANGED <<draining, unacked, errs>>
    <2>1. Typed'
      BY <1>1, <1>3, TypedStep DEF NatsInv, Typed, Kinds, PCs
    <2>2. PlaceInv'
      BY <1>1, <1>3 DEF NatsInv, PlaceInv
    <2>3. OrderInv'
      BY <1>1, <1>3 DEF NatsInv, OrderInv
    <2>4. DoneInv'
      <3>1. ~midWalk => (buffer["device"] # <<>> => "device" \in errs)
        BY <1>1 DEF NatsInv, DoneInv, DoneWith, Kinds
      <3> QED BY <1>1, <1>3, <2>1, <2>2, <3>1, Stages, DoneStep DEF Kinds
    <2>5. \A k \in Kinds : HeldOf(k) \subseteq Taken' \cup HeldOf(k)'
      BY <1>1, <1>3 DEF HeldOf
    <2> QED BY <1>1, <2>1, <2>2, <2>3, <2>4, <2>5, InsideCall DEF Taken
  <1> QED BY <1>2, <1>3 DEF AckFails

LEMMA QuarantineUnackedStep ==
  ASSUME NatsInv, QuarantineUnacked
  PROVE  NatsInv'
  <1>1. draining # <<>>
    BY DEF QuarantineUnacked, NatsInv, PlaceInv
  <1> QED BY <1>1, DrainHead DEF QuarantineUnacked, scanVars, Taken

\* The refused records go back to the front of the buffer.
LEMMA DrainEndsStep ==
  ASSUME NatsInv, DrainEnds
  PROVE  NatsInv'
  <1> DEFINE b == buffer["device"]
             c == unacked \o b
  <1>1. /\ pc = "drain" /\ draining = <<>>
        /\ buffer' = [buffer EXCEPT !["device"] = c]
        /\ unacked' = <<>>
        /\ UNCHANGED <<status, written, timeouts, holder, op, lastDelivered, log, accepted,
                       quarantined, pendingAcks, draining>>
    BY DEF DrainEnds, RestoreFront, scanVars, brokerVars
  <1>2. \/ midWalk /\ unacked = <<>> /\ pc' = "device" /\ UNCHANGED <<errs, midWalk>>
        \/ midWalk /\ unacked # <<>> /\ WalkEnds(TRUE)
        \/ ~midWalk /\ StreamEnds("device", FALSE) /\ UNCHANGED midWalk
    BY DEF DrainEnds
  <1>3. /\ b \in Seq(Nat) /\ unacked \in Seq(Nat) /\ buffer \in [Kinds -> Seq(Nat)]
        /\ Increasing(b) /\ Increasing(unacked) /\ Below(Range(unacked), Range(b))
        /\ pendingAcks = <<>> /\ Len(<<>>) = 0
        /\ unacked # <<>> => "device" \in errs
        /\ ~midWalk => (b # <<>> => "device" \in errs)
        /\ errs \subseteq Kinds /\ midWalk \in BOOLEAN
    BY <1>1 DEF NatsInv, Typed, PlaceInv, OrderInv, DoneInv, DoneWith, Kinds
  <1>4. /\ c \in Seq(Nat) /\ Range(c) = Range(unacked) \cup Range(b) /\ Increasing(c)
        /\ c # <<>> => unacked # <<>> \/ b # <<>>
    BY <1>3, ConcatFacts
  <1> HIDE DEF c
  <1>5. buffer'["device"] = c /\ \A j \in Kinds \ {"device"} : buffer'[j] = buffer[j]
    BY <1>1, <1>3 DEF Kinds
  <1>6. /\ pc' \in {"device", "take", AfterStream("device")} \/ (pc' = "return" /\ op = "batch")
        /\ pc' # "device" => (c # <<>> => "device" \in errs') \/ (pc' = "return" /\ op = "batch")
        /\ pc' = "take" => (c # <<>> => "device" \in errs')
        /\ errs \subseteq errs' /\ errs' \subseteq Kinds /\ midWalk' \in BOOLEAN
        /\ pc' \in {"device", "take", "link", "return"}
    BY <1>2, <1>3, <1>4 DEF WalkEnds, StreamEnds, AfterStream, Kinds
  <1>7. Typed'
    <2>1. buffer' \in [Kinds -> Seq(Nat)]
      BY <1>1, <1>3, <1>4
    <2> QED BY <1>1, <1>3, <1>6, <2>1, TypedStep DEF NatsInv, Typed, Kinds, PCs
  <1>8. PlaceInv'
    BY <1>1, <1>3, <1>6, PermitAssumption DEF PlaceInv
  <1>9. OrderInv'
    BY <1>1, <1>3, <1>4, <1>5, RangeOfEmpty DEF NatsInv, OrderInv, Below, Kinds
  <1>10. DoneInv'
    <2>1. \/ pc' \in StageOf("device")
          \/ pc' = AfterStream("device") /\ (buffer'["device"] # <<>> => "device" \in errs')
          \/ pc' = "return" /\ op = "batch"
      BY <1>5, <1>6, Stages
    <2> QED BY <1>1, <1>3, <1>5, <1>6, <1>7, <1>8, <2>1, Stages, DoneStep DEF Kinds
  <1>11. \A k \in Kinds : HeldOf(k) \subseteq Taken' \cup HeldOf(k)'
    BY <1>1, <1>4, <1>5 DEF HeldOf, Kinds
  <1> QED BY <1>1, <1>7, <1>8, <1>9, <1>10, <1>11, InsideCall DEF Taken

\* Links and profiles: the front record is acknowledged, or nothing moves.
LEMMA StreamStep ==
  ASSUME NatsInv, NEW k \in {"link", "profile"}, pc \in {k, AckOf(k)},
         UNCHANGED <<status, written, timeouts, holder, op, lastDelivered, log, quarantined,
                     pendingAcks, draining, unacked, midWalk>>,
         \/ /\ UNCHANGED <<accepted, buffer>>
            /\ \/ pc' \in {k, AckOf(k)} /\ buffer[k] # <<>> /\ UNCHANGED errs
               \/ \E failed \in BOOLEAN : StreamEnds(k, failed) /\ (buffer[k] # <<>> => failed)
         \/ /\ buffer[k] # <<>> /\ pc' = k /\ UNCHANGED errs
            /\ accepted' = accepted \cup {Head(buffer[k])}
            /\ buffer' = [buffer EXCEPT ![k] = Tail(buffer[k])]
  PROVE  NatsInv'
  <1>1. /\ k \in Kinds /\ k # "device" /\ StageOf(k) = {k, AckOf(k)}
        /\ AfterStream(k) \in {"profile", "return"} /\ AckOf(k) \in {"linkAck", "profileAck"}
        /\ k # AckOf(k) /\ AckOf(k) = "linkAck" => k = "link"
        /\ AckOf(k) = "profileAck" => k = "profile"
    BY Stages DEF Kinds, AckOf, AfterStream
  <1>2. draining = <<>> /\ unacked = <<>>
    BY <1>1 DEF NatsInv, PlaceInv
  <1>3. /\ pc' \in {k, AckOf(k), AfterStream(k)}
        /\ pc' \notin {k, AckOf(k)} => (buffer'[k] # <<>> => k \in errs')
        /\ errs \subseteq errs' /\ errs' \subseteq Kinds
    BY <1>1 DEF StreamEnds, NatsInv, Typed
  <1>4. /\ buffer \in [Kinds -> Seq(Nat)] /\ buffer[k] \in Seq(Nat) /\ Increasing(buffer[k])
    BY <1>1 DEF NatsInv, Typed, OrderInv
  <1>5. /\ buffer' \in [Kinds -> Seq(Nat)] /\ Increasing(buffer'[k])
        /\ Range(buffer'[k]) \subseteq Range(buffer[k])
        /\ Range(buffer[k]) \subseteq Taken' \cup Range(buffer'[k])
        /\ \A j \in Kinds \ {k} : buffer'[j] = buffer[j]
        /\ Taken \subseteq Taken'
    <2>1. CASE UNCHANGED <<accepted, buffer>>
      BY <1>4, <2>1 DEF Taken
    <2>2. CASE /\ buffer[k] # <<>> /\ accepted' = accepted \cup {Head(buffer[k])}
               /\ buffer' = [buffer EXCEPT ![k] = Tail(buffer[k])]
      <3>1. /\ Tail(buffer[k]) \in Seq(Nat) /\ Increasing(Tail(buffer[k]))
            /\ Range(buffer[k]) = {Head(buffer[k])} \cup Range(Tail(buffer[k]))
        BY <1>4, <2>2, TailFacts
      <3>2. buffer'[k] = Tail(buffer[k]) /\ Head(buffer[k]) \in Taken'
        BY <1>1, <1>4, <2>2 DEF Taken
      <3> QED BY <1>1, <1>4, <2>2, <3>1, <3>2 DEF Taken
    <2> QED BY <2>1, <2>2
  <1>6. Typed'
    BY <1>1, <1>3, <1>5, TypedStep DEF NatsInv, Typed, Kinds, PCs
  <1>7. PlaceInv'
    <2>1. pc' = AckOf(k) => buffer'[k] # <<>>
      BY <1>1 DEF StreamEnds, AfterStream
    <2> QED BY <1>1, <1>2, <1>3, <2>1 DEF NatsInv, PlaceInv
  <1>8. OrderInv'
    BY <1>1, <1>5 DEF NatsInv, OrderInv, Below, Kinds
  <1>9. DoneInv'
    BY <1>1, <1>3, <1>5, <1>6, <1>7, DoneStep
  <1>10. \A j \in Kinds : HeldOf(j) \subseteq Taken' \cup HeldOf(j)'
    BY <1>1, <1>5 DEF HeldOf
  <1> QED BY <1>1, <1>5, <1>6, <1>7, <1>8, <1>9, <1>10, InsideCall

LEMMA StreamPublishStep ==
  ASSUME NatsInv, NEW k \in {"link", "profile"}, StreamPublish(k)
  PROVE  NatsInv'
  BY StreamStep DEF StreamPublish, scanVars, sinkVars, brokerVars, natsVars

LEMMA StreamAckStep ==
  ASSUME NatsInv, NEW k \in {"link", "profile"}, StreamAck(k)
  PROVE  NatsInv'
  <1>1. buffer[k] # <<>>
    BY DEF StreamAck, AckOf, NatsInv, PlaceInv
  <1> QED BY <1>1, StreamStep DEF StreamAck, SettleFront, scanVars, natsVars

LEMMA StreamDoneStep ==
  ASSUME NatsInv, NEW k \in {"link", "profile"}, StreamDone(k)
  PROVE  NatsInv'
  BY StreamStep DEF StreamDone, scanVars, sinkVars, brokerVars, natsVars

-----------------------------------------------------------------------------
(* Steps that begin, end or drop a call *)

LEMMA LogAppended ==
  ASSUME NEW S, NEW q \in Seq(S), NEW x \in S
  PROVE  /\ Append(q, x) \in Seq(S) /\ Append(q, x) # <<>>
         /\ Len(q) \in Nat /\ Len(Append(q, x)) = Len(q) + 1
         /\ Append(q, x)[Len(q) + 1] = x
         /\ \A i \in 1 .. Len(q) : Append(q, x)[i] = q[i]
  OBVIOUS

\* write_kind: the new record comes after every record the sink has, and
\* belongs to a scan that has not reported anything yet.
LEMMA WriteStep ==
  ASSUME NatsInv, NEW s \in Scans, WriteRecord(s, Pipelined), UNCHANGED natsVars
  PROVE  NatsInv'
  <1> DEFINE e == Load[s][written[s] + 1]
             n == Len(log) + 1
             new == [scan |-> s, kind |-> e.kind, size |-> e.size]
             Rec == [scan : Scans, kind : Kinds, size : Nat \ {0}]
             grown == Append(buffer[e.kind], n)
  <1>1. /\ written[s] \in 0 .. Len(Load[s])
        /\ written[s] < Len(Load[s])
        /\ Load[s] \in Seq(Entries)
    BY LoadAssumption DEF NatsInv, Typed, WriteRecord
  <1>2. e \in Entries
    BY <1>1
  <1>3. e.kind \in Kinds /\ e.size \in Nat \ {0}
    BY <1>2 DEF Entries
  <1>4. /\ status[s] = "writing" /\ holder = NoScan
        /\ log' = Append(log, new)
        /\ buffer' = [buffer EXCEPT ![e.kind] = grown]
        /\ \/ op' = "hold" /\ pc' = "return"
           \/ op' = "batch" /\ pc' = e.kind /\ e.kind \in Pipelined
           \/ op' = "publish" /\ pc' = e.kind
        /\ holder' = s /\ errs' = {} /\ lastDelivered' = FALSE
        /\ written' = [written EXCEPT ![s] = @ + 1]
        /\ UNCHANGED <<status, timeouts, accepted, quarantined, pendingAcks, draining,
                       unacked, midWalk>>
    <2>1. /\ status[s] = "writing" /\ holder = NoScan
          /\ log' = Append(log, new)
          /\ buffer' = [buffer EXCEPT ![e.kind] = grown]
          /\ holder' = s /\ errs' = {} /\ lastDelivered' = FALSE
          /\ written' = [written EXCEPT ![s] = @ + 1]
      BY DEF WriteRecord, Acquire
    <2>2. \/ op' = "hold" /\ pc' = "return"
          \/ op' = "batch" /\ pc' = e.kind /\ e.kind \in Pipelined
          \/ op' = "publish" /\ pc' = e.kind
      BY DEF WriteRecord
    <2>3. UNCHANGED <<status, timeouts, accepted, quarantined, pendingAcks, draining,
                      unacked, midWalk>>
      BY DEF WriteRecord, natsVars
    <2> QED BY <2>1, <2>2, <2>3, Zenon
  <1> HIDE DEF e
  <1>5. /\ log \in Seq(Rec) /\ buffer \in [Kinds -> Seq(Nat)] /\ pc = "idle"
        /\ buffer[e.kind] \in Seq(Nat) /\ pendingAcks \in Seq(Nat)
    BY <1>3, <1>4 DEF NatsInv, Typed
  <1>6. draining = <<>> /\ unacked = <<>> /\ Len(pendingAcks) < MaxPendingAcks
    BY <1>5 DEF NatsInv, PlaceInv
  <1>7. /\ log' \in Seq(Rec) /\ log' # <<>> /\ Len(log) \in Nat /\ Len(log') = n
        /\ log'[n] = new /\ \A r \in 1 .. Len(log) : log'[r] = log[r]
    <2>1. new \in Rec
      BY <1>3
    <2>2. log' = Append(log, new) /\ log \in Seq(Rec)
      BY <1>4, <1>5
    <2> HIDE DEF new, Rec
    <2> QED BY <2>1, <2>2, LogAppended
  <1>8. n \in Nat /\ n > Len(log) /\ n > 0
    BY <1>7
  <1>9. \A k \in Kinds : Below(Range(buffer[k]), {n}) /\ Range(buffer[k]) \subseteq 1 .. Len(log)
    BY <1>7, <1>8 DEF NatsInv, OrderInv, Below
  <1>10. /\ grown \in Seq(Nat) /\ Range(grown) = Range(buffer[e.kind]) \cup {n}
         /\ Increasing(grown)
    BY <1>3, <1>5, <1>8, <1>9, AppendFacts DEF NatsInv, OrderInv
  <1>11. 1 .. Len(log') = 1 .. Len(log) \cup {n}
    BY <1>7, <1>8
  <1> HIDE DEF n, grown
  <1>12. /\ buffer'[e.kind] = grown
         /\ \A j \in Kinds \ {e.kind} : buffer'[j] = buffer[j]
         /\ buffer' \in [Kinds -> Seq(Nat)]
    BY <1>3, <1>4, <1>5, <1>10
  <1>13. pc' \in Kinds \cup {"return"} /\ (op' = "batch" => pc' = "device")
    BY <1>3, <1>4 DEF Pipelined
  <1>14. Typed'
    <2>1. \A x \in Scans : written'[x] \in 0 .. Len(Load[x])
      BY <1>1, <1>4 DEF NatsInv, Typed
    <2>2. holder' # NoScan /\ pc' # "idle"
      BY <1>4, <1>13, NoScanAssumption DEF Kinds
    <2> QED BY <1>4, <1>7, <1>12, <1>13, <2>1, <2>2 DEF NatsInv, Typed
  <1>15. PlaceInv'
    <2>1. pc' \in {"device", "link", "profile", "return"}
      BY <1>13 DEF Kinds
    <2> QED BY <1>4, <1>5, <1>6, <2>1, PermitAssumption DEF NatsInv, PlaceInv
  <1>16. OrderInv'
    <2>1. \A k \in Kinds : /\ Increasing(buffer'[k])
                           /\ Range(buffer'[k]) \subseteq Range(buffer[k]) \cup {n}
                           /\ Range(buffer'[k]) \subseteq 1 .. Len(log')
      BY <1>9, <1>10, <1>11, <1>12 DEF NatsInv, OrderInv
    <2>2. Range(pendingAcks) \subseteq 1 .. Len(log')
      BY <1>11 DEF NatsInv, OrderInv
    <2>3. Below(Range(pendingAcks), {n})
      BY <1>7, <1>8 DEF NatsInv, OrderInv, Below, n
    <2>4. Below(Range(pendingAcks), Range(buffer'["device"]))
      BY <2>1, <2>3 DEF NatsInv, OrderInv, Below, Kinds
    <2> QED BY <1>4, <1>6, <2>1, <2>2, <2>4, RangeOfEmpty DEF NatsInv, OrderInv, Below
  <1>17. DoneInv'
    <2>1. LastKind' = e.kind
      BY <1>7 DEF LastKind
    <2>2. \A k \in Kinds : ~DoneWith(k)'
      BY <1>3, <1>4 DEF DoneWith, Kinds
    <2>3. e.kind \in StageOf(e.kind) /\ "device" \in StageOf("device") /\ "device" \in Kinds
      BY <1>3, Stages DEF Kinds
    <2> QED BY <1>4, <1>7, <1>13, <2>1, <2>2, <2>3 DEF DoneInv, StageOf
  <1>18. KeptInv'
    <2> SUFFICES ASSUME timeouts' = 0, NEW r \in Records'
                 PROVE  r \in Taken' \cup HeldOf(log[r].kind)'
      BY DEF KeptInv
    <2>1. CASE r = n
      BY <1>7, <1>10, <1>12, <2>1 DEF HeldOf
    <2>2. CASE r \in Records
      <3>1. log'[r] = log[r] /\ log[r].kind \in Kinds
        BY <1>7, <2>2, RecordOf DEF NatsInv, Records
      <3>2. r \in Taken \cup HeldOf(log[r].kind)
        BY <1>4, <2>2 DEF NatsInv, KeptInv
      <3>3. HeldOf(log[r].kind) \subseteq HeldOf(log[r].kind)'
        <4>1. Range(buffer[log[r].kind]) \subseteq Range(buffer'[log[r].kind])
          BY <1>10, <1>12, <3>1
        <4> QED BY <1>4, <3>1, <4>1 DEF HeldOf
      <3> QED BY <1>4, <3>1, <3>2, <3>3 DEF Taken
    <2> QED BY <1>11, <2>1, <2>2 DEF Records
  <1>19. FlagInv'
    <2>1. holder' # NoScan
      BY <1>4, NoScanAssumption
    <2> QED BY <1>4, <2>1 DEF FlagInv
  <1>20. OkMeansTakenUndropped'
    <2>1. log'[n].scan = s
      BY <1>7
    <2>2. Records' = Records \cup {n} /\ \A r \in Records : log'[r] = log[r]
      BY <1>7, <1>11 DEF Records
    <2> QED BY <1>4, <2>1, <2>2 DEF NatsInv, OkMeansTakenUndropped, OkMeansTaken, Taken
  <1> QED BY <1>14, <1>15, <1>16, <1>17, <1>18, <1>19, <1>20 DEF NatsInv

\* The flush of a scan begins with the device stream.
LEMMA CloseStep ==
  ASSUME NatsInv, NEW s \in Scans, CloseSink(s), UNCHANGED natsVars
  PROVE  NatsInv'
  <1>1. /\ holder = NoScan /\ holder' = s /\ errs' = {} /\ op' = "flush" /\ pc' = "device"
        /\ UNCHANGED <<status, written, timeouts, buffer, lastDelivered, log, accepted,
                       quarantined, pendingAcks, draining, unacked, midWalk>>
    BY DEF CloseSink, Acquire, scanVars, sinkVars, brokerVars, natsVars
  <1>2. pc = "idle" /\ s # NoScan
    BY <1>1, NoScanAssumption DEF NatsInv, Typed
  <1>3. Typed'
    BY <1>1, <1>2 DEF NatsInv, Typed, Kinds
  <1>4. PlaceInv'
    BY <1>1, <1>2 DEF NatsInv, PlaceInv
  <1>5. OrderInv'
    BY <1>1 DEF NatsInv, OrderInv
  <1>6. DoneInv'
    <2>1. \A k \in Kinds : ~DoneWith(k)'
      BY <1>1, Stages DEF DoneWith, Kinds
    <2> QED BY <1>1, <2>1 DEF DoneInv, Kinds
  <1>7. KeptInv' /\ OkMeansTakenUndropped'
    BY <1>1 DEF NatsInv, KeptInv, OkMeansTakenUndropped, OkMeansTaken, Records, Taken, HeldOf
  <1>8. FlagInv'
    BY <1>1, <1>2 DEF NatsInv, FlagInv
  <1> QED BY <1>3, <1>4, <1>5, <1>6, <1>7, <1>8 DEF NatsInv

\* A call returns: only a flush without an error, which leaves nothing in the
\* sink, makes a scan succeed.
LEMMA ReturnStep ==
  ASSUME NatsInv, Return, UNCHANGED natsVars
  PROVE  NatsInv'
  <1>1. /\ pc = "return" /\ holder' = NoScan /\ pc' = "idle"
        /\ lastDelivered' = Delivered
        /\ status' = [status EXCEPT ![holder] = Outcome(holder)]
        /\ UNCHANGED <<written, timeouts, op, errs, buffer, log, accepted, quarantined,
                       pendingAcks, draining, unacked, midWalk>>
    BY DEF Return, brokerVars, natsVars
  <1>2. /\ status \in [Scans -> {"writing", "failing"} \cup Ended] /\ holder \in Scans
        /\ op \in {"hold", "batch", "publish", "flush"}
        /\ draining = <<>> /\ unacked = <<>>
    BY <1>1 DEF NatsInv, Typed, PlaceInv
  <1>3. /\ holder # NoScan /\ UNCHANGED <<Records, Taken>>
    BY <1>1, <1>2, NoScanAssumption DEF Records, Taken
  <1>4. ASSUME NEW k \in Kinds, DoneWith(k), errs = {} PROVE HeldOf(k) = {}
    <2>1. buffer[k] = <<>>
      BY <1>4 DEF NatsInv, DoneInv
    <2>2. k = "device" => pendingAcks = <<>>
      BY <1>1, <1>4 DEF NatsInv, DoneInv
    <2> QED BY <1>2, <2>1, <2>2, RangeOfEmpty DEF HeldOf
  <1>5. ASSUME timeouts = 0, op = "flush", errs = {} PROVE Records \subseteq Taken
    <2> SUFFICES ASSUME NEW r \in Records PROVE r \in Taken
      OBVIOUS
    <2>1. log[r].kind \in Kinds
      BY RecordOf DEF NatsInv
    <2>2. DoneWith(log[r].kind)
      BY <1>1, <1>5, <2>1, Stages DEF DoneWith, Kinds
    <2>3. HeldOf(log[r].kind) = {}
      BY <1>4, <1>5, <2>1, <2>2
    <2> QED BY <1>5, <2>3 DEF NatsInv, KeptInv
  <1>6. ASSUME timeouts = 0, op = "publish", errs = {} PROVE Len(log) \in Taken
    <2>1. log # <<>>
      BY <1>1, <1>6 DEF NatsInv, DoneInv
    <2>2. Len(log) \in Records /\ LastKind \in Kinds
      BY <2>1, LastRecord DEF NatsInv
    <2>3. DoneWith(LastKind)
      BY <1>1, <1>6 DEF DoneWith
    <2>4. HeldOf(LastKind) = {}
      BY <1>4, <1>6, <2>2, <2>3
    <2> QED BY <1>6, <2>2, <2>4 DEF NatsInv, KeptInv, LastKind
  <1>7. FlagInv'
    <2> SUFFICES ASSUME timeouts = 0, Delivered, log # <<>> PROVE Len(log) \in Taken
      BY <1>1, <1>3 DEF FlagInv
    <2>1. op # "flush" => ~lastDelivered
      BY <1>3 DEF NatsInv, FlagInv
    <2>2. \/ op = "flush" /\ errs = {}
          \/ op = "publish" /\ errs = {}
      BY <2>1 DEF Delivered
    <2>3. Len(log) \in Records
      BY LastRecord DEF NatsInv
    <2> QED BY <2>2, <2>3, <1>5, <1>6
  <1>8. OkMeansTakenUndropped'
    <2> SUFFICES ASSUME timeouts = 0, NEW r \in Records, status'[log[r].scan] = "ok"
                 PROVE  r \in Taken
      BY <1>1, <1>3 DEF OkMeansTakenUndropped, OkMeansTaken
    <2>1. CASE status[log[r].scan] = "ok"
      BY <2>1 DEF NatsInv, OkMeansTakenUndropped, OkMeansTaken
    <2>2. CASE status[log[r].scan] # "ok"
      <3>1. log[r].scan = holder /\ Outcome(holder) = "ok" /\ status[holder] # "ok"
        BY <2>2, <1>1, <1>2
      <3>2. op = "flush" /\ errs = {}
        BY <3>1 DEF Outcome
      <3> QED BY <3>2, <1>5
    <2> QED BY <2>1, <2>2
  <1>9. Typed'
    <2>1. status' \in [Scans -> {"writing", "failing"} \cup Ended]
      BY <1>1, <1>2 DEF Outcome, Ended
    <2>2. lastDelivered' \in BOOLEAN
      <3>1. lastDelivered \in BOOLEAN
        BY Zenon DEF NatsInv, Typed
      <3>2. Delivered \in BOOLEAN
        BY <3>1 DEF Delivered
      <3> QED BY <1>1, <3>2, Zenon
    <2> QED BY <1>1, <2>1, <2>2 DEF NatsInv, Typed
  <1>10. PlaceInv'
    BY <1>1 DEF NatsInv, PlaceInv
  <1>11. OrderInv'
    BY <1>1 DEF NatsInv, OrderInv
  <1>12. DoneInv'
    <2>1. \A k \in Kinds : ~DoneWith(k)'
      BY <1>1, Stages DEF DoneWith, Kinds
    <2> QED BY <1>1, <2>1 DEF DoneInv, Kinds
  <1>13. KeptInv'
    BY <1>1, <1>3 DEF NatsInv, KeptInv, HeldOf
  <1> QED BY <1>7, <1>8, <1>9, <1>10, <1>11, <1>12, <1>13 DEF NatsInv

\* The request timeout: what it drops with a call is only promised as long as
\* there is none; order and permits survive it.
LEMMA TimeoutStep ==
  ASSUME NatsInv, NEW s \in Scans, Timeout(s)
  PROVE  NatsInv'
  <1>1. /\ timeouts' = timeouts + 1 /\ status' = [status EXCEPT ![s] = "timedout"]
        /\ UNCHANGED <<written, op, errs, lastDelivered, log, buffer, pendingAcks>>
        /\ \/ UNCHANGED <<holder, pc, draining, unacked, midWalk>>
           \/ /\ pc # "take" /\ holder' = NoScan /\ pc' = "idle" /\ midWalk' = FALSE
              /\ draining' = <<>> /\ unacked' = <<>>
    BY DEF Timeout, DropRequest, AtAwait, natsVars, Kinds
  <1>2. timeouts' \in Nat /\ timeouts' # 0
    BY <1>1 DEF NatsInv, Typed
  <1>3. Typed'
    <2>1. status' \in [Scans -> {"writing", "failing"} \cup Ended]
      BY <1>1 DEF NatsInv, Typed, Ended
    <2>2. midWalk' \in BOOLEAN /\ lastDelivered' \in BOOLEAN
      BY <1>1, Zenon DEF NatsInv, Typed
    <2>3. /\ holder' \in Scans \cup {NoScan}
          /\ holder' = NoScan <=> pc' = "idle"
          /\ pc' \in Kinds \cup PCs \cup {"idle", "return"}
          /\ draining' \in Seq(Nat) /\ unacked' \in Seq(Nat)
      <3>1. CASE UNCHANGED <<holder, pc, draining, unacked, midWalk>>
        BY <3>1 DEF NatsInv, Typed
      <3>2. CASE holder' = NoScan /\ pc' = "idle" /\ draining' = <<>> /\ unacked' = <<>>
        BY <3>2
      <3> QED BY <1>1, <3>1, <3>2
    <2> QED BY <1>1, <1>2, <2>1, <2>2, <2>3 DEF NatsInv, Typed
  <1>4. PlaceInv'
    BY <1>1 DEF NatsInv, PlaceInv
  <1>5. OrderInv'
    BY <1>1, RangeOfEmpty DEF NatsInv, OrderInv, Below
  <1>6. DoneInv'
    <2>1. CASE UNCHANGED <<holder, pc, draining, unacked, midWalk>>
      BY <1>1, <2>1 DEF NatsInv, DoneInv, DoneWith, LastKind
    <2>2. CASE pc' = "idle"
      <3>1. \A k \in Kinds : ~DoneWith(k)'
        BY <2>2, Stages DEF DoneWith, Kinds
      <3> QED BY <2>2, <3>1 DEF DoneInv, Kinds
    <2> QED BY <1>1, <2>1, <2>2
  <1>7. KeptInv' /\ OkMeansTakenUndropped'
    BY <1>2 DEF KeptInv, OkMeansTakenUndropped
  <1>8. FlagInv'
    BY <1>1, <1>2 DEF NatsInv, FlagInv
  <1> QED BY <1>3, <1>4, <1>5, <1>6, <1>7, <1>8 DEF NatsInv

\* The client's permits are not part of the invariant.
LEMMA QuietStep ==
  ASSUME NatsInv, UNCHANGED <<baseVars, pendingAcks, draining, unacked, midWalk>>
  PROVE  NatsInv'
  <1>1. UNCHANGED <<status, written, timeouts, holder, op, pc, errs, lastDelivered, log,
                    buffer, accepted, quarantined, pendingAcks, draining, unacked, midWalk>>
    BY DEF baseVars, scanVars, callVars, sinkVars, brokerVars
  <1>2. Typed' /\ PlaceInv' /\ OrderInv'
    BY <1>1 DEF NatsInv, Typed, PlaceInv, OrderInv
  <1>3. DoneInv' /\ FlagInv'
    BY <1>1 DEF NatsInv, DoneInv, DoneWith, LastKind, FlagInv, Taken
  <1>4. KeptInv' /\ OkMeansTakenUndropped'
    BY <1>1 DEF NatsInv, KeptInv, OkMeansTakenUndropped, OkMeansTaken, Records, Taken, HeldOf
  <1> QED BY <1>2, <1>3, <1>4 DEF NatsInv

LEMMA InitStep == Init => NatsInv
  <1> SUFFICES ASSUME Init PROVE NatsInv
    OBVIOUS
  <1>1. /\ status = [s \in Scans |-> "writing"] /\ written = [s \in Scans |-> 0]
        /\ holder = NoScan /\ op = "hold" /\ pc = "idle" /\ errs = {}
        /\ buffer = [k \in Kinds |-> <<>>] /\ lastDelivered = FALSE /\ log = <<>>
        /\ timeouts = 0 /\ pendingAcks = <<>> /\ draining = <<>> /\ unacked = <<>>
        /\ midWalk = FALSE
    BY DEF Init, BaseInit
  <1>2. \A k \in Kinds : buffer[k] = <<>>
    BY <1>1
  <1>3. Len(<<>>) = 0 /\ <<>> \in Seq(Nat)
    OBVIOUS
  <1>4. Typed
    <2>1. \A s \in Scans : written[s] \in 0 .. Len(Load[s])
      <3> SUFFICES ASSUME NEW s \in Scans PROVE written[s] \in 0 .. Len(Load[s])
        OBVIOUS
      <3>1. Load[s] \in Seq(Entries)
        BY LoadAssumption
      <3>2. Len(Load[s]) \in Nat
        BY <3>1
      <3> QED BY <1>1, <3>2
    <2>2. midWalk \in BOOLEAN /\ lastDelivered \in BOOLEAN
      BY <1>1, Zenon
    <2>3. buffer \in [Kinds -> Seq(Nat)] /\ status \in [Scans -> {"writing", "failing"} \cup Ended]
      BY <1>1, <1>3
    <2>4. log \in Seq([scan : Scans, kind : Kinds, size : Nat \ {0}])
      BY <1>1
    <2> QED BY <1>1, <1>3, <2>1, <2>2, <2>3, <2>4 DEF Typed
  <1>5. PlaceInv
    BY <1>1, <1>3, PermitAssumption DEF PlaceInv
  <1>6. OrderInv
    BY <1>1, <1>2, RangeOfEmpty DEF OrderInv, Below
  <1>7. DoneInv
    BY <1>1, <1>2 DEF DoneInv
  <1>8. KeptInv /\ FlagInv /\ OkMeansTakenUndropped
    BY <1>1, <1>3 DEF KeptInv, FlagInv, OkMeansTakenUndropped, OkMeansTaken, Records
  <1> QED BY <1>4, <1>5, <1>6, <1>7, <1>8 DEF NatsInv

-----------------------------------------------------------------------------
(***************************************************************************)
(* The strengthened invariant of a shared NatsSink: every step of every    *)
(* scan, of the broker, of the client and of the request timeout keeps it. *)
(***************************************************************************)
THEOREM NatsInvariance == Spec => []NatsInv
<1>1. NatsInv /\ [Next]_vars => NatsInv'
  <2> SUFFICES ASSUME NatsInv, [Next]_vars PROVE NatsInv'
    OBVIOUS
  <2>1. CASE UNCHANGED vars
    BY <2>1, QuietStep DEF vars, natsVars
  <2>2. ASSUME NEW s \in Scans, BeginCall(s) PROVE NatsInv'
    BY <2>2, WriteStep, CloseStep DEF BeginCall
  <2>3. ASSUME NEW s \in Scans, Timeout(s) PROVE NatsInv'
    BY <2>3, TimeoutStep
  <2>4. CASE PublishAccepted \/ PublishFails \/ WalkDone \/ QuarantineFront
    BY <2>4, PublishAcceptedStep, PublishFailsStep, WalkDoneStep, QuarantineFrontStep
  <2>5. CASE TakeAcks \/ AckArrives \/ AckFails \/ QuarantineUnacked \/ DrainEnds
    BY <2>5, TakeAcksStep, AckArrivesStep, AckFailsStep, QuarantineUnackedStep, DrainEndsStep
  <2>6. ASSUME NEW k \in {"link", "profile"}, StreamPublish(k) \/ StreamAck(k) \/ StreamDone(k)
        PROVE  NatsInv'
    BY <2>6, StreamPublishStep, StreamAckStep, StreamDoneStep
  <2>7. CASE Return /\ UNCHANGED natsVars
    BY <2>7, ReturnStep
  <2>8. CASE ReleasePermit
    BY <2>8, QuietStep DEF ReleasePermit
  <2>9. CASE AllEnded
    BY <2>9, <2>1 DEF AllEnded
  <2> QED
    BY <2>1, <2>2, <2>3, <2>4, <2>5, <2>6, <2>7, <2>8, <2>9 DEF Next, SinkStep
<1> QED
  BY <1>1, InitStep, PTL DEF Spec

(***************************************************************************)
(* MAX_PENDING_ACKS below ACK_PERMIT_CAPACITY is enough: wherever a call   *)
(* waits for a permit, the acks of this sink hold fewer than there are, so *)
(* publish_buffer cannot block on acks only it would await; and no flush   *)
(* returns with an ack pending.                                            *)
(***************************************************************************)
THEOREM NatsPermitsSuffice == Spec => []PermitsSuffice
<1>1. NatsInv => PermitsSuffice
  <2> SUFFICES ASSUME NatsInv PROVE PermitsSuffice
    OBVIOUS
  <2>1. Len(pendingAcks) \in Nat /\ Len(draining) \in Nat /\ Len(<<>>) = 0
    BY DEF NatsInv, Typed
  <2>2. ASSUME AtAwait, pc # "drain"
        PROVE  Len(pendingAcks) + Len(draining) - (IF pc = "dlqAck" THEN 1 ELSE 0) < AckPermits
    <3>1. CASE pc = "dlqAck"
      <4>1. pendingAcks = <<>> /\ Len(draining) <= MaxPendingAcks
        BY <3>1 DEF NatsInv, PlaceInv
      <4> QED BY <2>1, <3>1, <4>1, PermitAssumption
    <3>2. CASE pc # "dlqAck"
      <4>1. pc # "take"
        BY <2>2 DEF AtAwait, Kinds
      <4>2. draining = <<>> /\ Len(pendingAcks) < MaxPendingAcks
        BY <2>2, <3>2, <4>1 DEF NatsInv, PlaceInv
      <4> QED BY <2>1, <3>2, <4>2, PermitAssumption
    <3> QED BY <3>1, <3>2
  <2>3. pc = "return" /\ op = "flush" => pendingAcks = <<>>
    BY Stages DEF NatsInv, DoneInv, DoneWith
  <2> QED BY <2>2, <2>3 DEF PermitsSuffice
<1> QED
  BY <1>1, NatsInvariance, PTL

(***************************************************************************)
(* restore_front keeps the order of the writes: put together in the order  *)
(* the sink passes them on, the records it still has of the device stream  *)
(* are sorted, through failed acks, failed publishes and dropped calls.    *)
(***************************************************************************)
THEOREM NatsRetainedInOrder == Spec => []RetainedInOrder
<1>1. NatsInv => RetainedInOrder
  <2> SUFFICES ASSUME NatsInv PROVE RetainedInOrder
    OBVIOUS
  <2> DEFINE b == buffer["device"]
             ud == unacked \o draining
             udp == ud \o pendingAcks
             all == udp \o b
  <2>1. /\ unacked \in Seq(Nat) /\ draining \in Seq(Nat) /\ pendingAcks \in Seq(Nat)
        /\ b \in Seq(Nat)
    BY DEF NatsInv, Typed, Kinds
  <2>2. /\ Increasing(unacked) /\ Increasing(draining) /\ Increasing(pendingAcks)
        /\ Increasing(b) /\ \A k \in Kinds : Increasing(buffer[k])
    BY DEF NatsInv, OrderInv, Kinds
  <2>3. /\ Below(Range(unacked), Range(draining))
        /\ Below(Range(unacked), Range(pendingAcks)) /\ Below(Range(unacked), Range(b))
        /\ Below(Range(draining), Range(pendingAcks)) /\ Below(Range(draining), Range(b))
        /\ Below(Range(pendingAcks), Range(b))
    BY DEF NatsInv, OrderInv
  <2> HIDE DEF b
  <2>4. ud \in Seq(Nat) /\ Range(ud) = Range(unacked) \cup Range(draining) /\ Increasing(ud)
    BY <2>1, <2>2, <2>3, ConcatFacts
  <2> HIDE DEF ud
  <2>5. Below(Range(ud), Range(pendingAcks)) /\ Below(Range(ud), Range(b))
    BY <2>3, <2>4 DEF Below
  <2>6. udp \in Seq(Nat) /\ Range(udp) = Range(ud) \cup Range(pendingAcks) /\ Increasing(udp)
    BY <2>1, <2>2, <2>4, <2>5, ConcatFacts
  <2> HIDE DEF udp
  <2>7. Below(Range(udp), Range(b))
    BY <2>3, <2>5, <2>6 DEF Below
  <2>8. Increasing(all)
    BY <2>1, <2>2, <2>6, <2>7, ConcatFacts
  <2>9. all = unacked \o draining \o pendingAcks \o buffer["device"]
    BY DEF udp, ud, b
  <2> HIDE DEF all
  <2> QED BY <2>2, <2>8, <2>9 DEF RetainedInOrder, Increasing
<1> QED
  BY <1>1, NatsInvariance, PTL

(***************************************************************************)
(* A scan whose POST /scans answers with success has every record it wrote *)
(* at a destination, whatever other scans did with the shared sink, as     *)
(* long as no request timed out.                                           *)
(***************************************************************************)
THEOREM NatsOkMeansTaken == Spec => []OkMeansTakenUndropped
<1>1. NatsInv => OkMeansTakenUndropped
  BY DEF NatsInv
<1> QED
  BY <1>1, NatsInvariance, PTL

(***************************************************************************)
(* As long as no request timed out, a record handed to a NatsSink is at    *)
(* the stream, in the dead-letter stream, in a buffer or among the acks    *)
(* that are still awaited.                                                 *)
(***************************************************************************)
THEOREM NatsNothingDropped == Spec => []NothingDropped
<1>1. NatsInv => NothingDropped
  <2> SUFFICES ASSUME NatsInv, timeouts = 0, NEW r \in Records, r \notin Taken
               PROVE  r \in Held
    BY DEF NothingDropped, KeptOrTaken
  <2>1. log[r].kind \in Kinds
    BY RecordOf DEF NatsInv
  <2>2. r \in HeldOf(log[r].kind)
    BY DEF NatsInv, KeptInv
  <2> QED BY <2>1, <2>2 DEF HeldOf, Held
<1> QED
  BY <1>1, NatsInvariance, PTL

(***************************************************************************)
(* last_write_delivered, read between calls, is true only if the last      *)
(* record any scan wrote is at a destination, as long as no request timed  *)
(* out.                                                                    *)
(***************************************************************************)
THEOREM NatsDeliveredFlagHonest == Spec => []DeliveredFlagHonest
<1>1. NatsInv => DeliveredFlagHonest
  BY DEF NatsInv, FlagInv, DeliveredFlagHonest, DeliveredIsHonest, ReportsDelivered
<1> QED
  BY <1>1, NatsInvariance, PTL

(***************************************************************************)
(* When a flush returns, a stream that still holds records is one that     *)
(* failed in that flush, with and without dropped calls before it.         *)
(***************************************************************************)
THEOREM NatsFlushReachesEveryStream == Spec => []FlushReachesEveryStream
<1>1. NatsInv => FlushReachesEveryStream
  BY Stages DEF NatsInv, DoneInv, DoneWith, FlushReachesEveryStream, Kinds
<1> QED
  BY <1>1, NatsInvariance, PTL
=============================================================================
