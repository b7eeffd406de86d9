---------------------------- MODULE KafkaProofs -----------------------------
(***************************************************************************)
(* A shared KafkaSink loses no record and a scan that reports success has  *)
(* all of its records at a destination: for every set of scans, whatever   *)
(* they write, for every configuration and any number of request timeouts. *)
(***************************************************************************)
EXTENDS KafkaSink, TLAPS

\* What PendingBuffer::push and the log do to a sequence.
LEMMA Appended ==
  ASSUME NEW S, NEW q \in Seq(S), NEW x \in S
  PROVE  /\ Append(q, x) \in Seq(S)
         /\ Len(Append(q, x)) = Len(q) + 1
         /\ Append(q, x)[Len(q) + 1] = x
         /\ \A i \in 1 .. Len(q) : Append(q, x)[i] = q[i] /\ q[i] \in S
  OBVIOUS

LEMMA RangeAppended ==
  ASSUME NEW S, NEW q \in Seq(S), NEW x \in S
  PROVE  Range(Append(q, x)) = Range(q) \cup {x}
<1>1. /\ DOMAIN q = 1 .. Len(q)
      /\ DOMAIN Append(q, x) = 1 .. (Len(q) + 1)
      /\ Len(q) \in Nat
  OBVIOUS
<1>2. 1 .. (Len(q) + 1) = (1 .. Len(q)) \cup {Len(q) + 1}
  BY <1>1
<1> QED
  BY <1>1, <1>2, Appended DEF Range

\* A buffer of known records stays one as the log grows.
LEMMA SeqMonotone ==
  ASSUME NEW S, NEW T, S \subseteq T, NEW q \in Seq(S)
  PROVE  q \in Seq(T)
  OBVIOUS

LEMMA ElementOf ==
  ASSUME NEW S, NEW q \in Seq(S), NEW i \in 1 .. Len(q)
  PROVE  q[i] \in S
  OBVIOUS

LEMMA RangeIn ==
  ASSUME NEW S, NEW q \in Seq(S)
  PROVE  Range(q) \subseteq S
  BY DEF Range

LEMMA RangeOfEmpty == Range(<<>>) = {}
  BY DEF Range

LEMMA RecordOf ==
  ASSUME TypeOK, NEW r \in Records
  PROVE  log[r].scan \in Scans /\ log[r].kind \in Kinds
<1>1. log \in Seq([scan : Scans, kind : Kinds, size : Nat \ {0}])
  BY DEF TypeOK, BaseTypeOK
<1>2. log[r] \in [scan : Scans, kind : Kinds, size : Nat \ {0}]
  BY <1>1, ElementOf DEF Records
<1> QED
  BY <1>2

\* The last record of a log that has one.
LEMMA LastRecord ==
  ASSUME TypeOK, log # <<>>
  PROVE  Len(log) \in Records /\ log[Len(log)].kind \in Kinds
<1>1. log \in Seq([scan : Scans, kind : Kinds, size : Nat \ {0}])
  BY DEF TypeOK, BaseTypeOK
<1>2. Len(log) \in Records
  BY <1>1 DEF Records
<1> QED
  BY <1>2, RecordOf

\* The empty sink satisfies the invariant.
LEMMA InitInv == Init => IndInv
<1> SUFFICES ASSUME Init PROVE IndInv
  OBVIOUS
<1>1. TypeOK
  <2>1. \A t \in Scans : Len(Load[t]) \in Nat
    BY LoadAssumption
  <2>2. \A t \in Scans : written[t] \in 0 .. Len(Load[t])
    BY <2>1 DEF Init, BaseInit
  <2>3. /\ log \in Seq([scan : Scans, kind : Kinds, size : Nat \ {0}])
        /\ buffer \in [Kinds -> Seq(Records)]
        /\ bytes \in [Kinds -> Nat]
    BY DEF Init, BaseInit
  <2>4. timeouts \in 0 .. MaxTimeouts
    BY MaxTimeoutsAssumption DEF Init, BaseInit
  <2>5. /\ config \in Configs
        /\ status \in [Scans -> {"writing", "failing"} \cup Ended]
        /\ credited \in [Scans -> Nat]
        /\ holder \in Scans \cup {NoScan}
        /\ op \in {"hold", "batch", "publish", "flush"}
        /\ attempt \in Nat \ {0}
    BY DEF Init, BaseInit, Ended
  <2>6. /\ pc \in Kinds \cup {"dlq"} \cup {"idle", "return"}
        /\ errs \subseteq Kinds
        /\ before \in Nat
        /\ dlqDelivered \in Nat
        /\ dlqTotal \in Nat
        /\ accepted \subseteq Records
        /\ quarantined \subseteq Records
        /\ connected \subseteq Seconds
    BY DEF Init, BaseInit
  <2>7. lastDelivered \in BOOLEAN
    BY DEF Init, BaseInit
  <2>8. holder = NoScan <=> pc = "idle"
    BY DEF Init, BaseInit
  <2> QED
    BY <2>2, <2>3, <2>4, <2>5, <2>6, <2>7, <2>8, Zenon DEF TypeOK, BaseTypeOK
<1>2. KeptInv /\ OkMeansTaken /\ FlagInv
  BY DEF Init, BaseInit, KeptInv, OkMeansTaken, FlagInv, Records
<1>3. FlushInv /\ PublishInv /\ CallInv
  BY DEF Init, BaseInit, FlushInv, PublishInv, CallInv
<1> QED
  BY <1>1, <1>2, <1>3 DEF IndInv

\* write_kind: the new record is in its buffer, and belongs to a scan that has
\* not reported anything yet.
LEMMA WriteInv ==
  ASSUME IndInv, NEW s \in Scans, WriteRecord(s, {}), UNCHANGED connected
  PROVE  IndInv'
<1> DEFINE e == Load[s][written[s] + 1]
           n == Len(log) + 1
           new == [scan |-> s, kind |-> e.kind, size |-> e.size]
<1>1. TypeOK /\ KeptInv /\ FlagInv /\ OkMeansTaken
  BY DEF IndInv
<1>2. /\ written[s] \in 0 .. Len(Load[s])
      /\ written[s] < Len(Load[s])
      /\ Load[s] \in Seq(Entries)
  BY <1>1, LoadAssumption DEF TypeOK, BaseTypeOK, WriteRecord
<1>3. e \in Entries
  BY <1>2
<1>4. e.kind \in Kinds /\ e.size \in Nat \ {0}
  BY <1>3 DEF Entries
<1> HIDE DEF e
<1>5. /\ log \in Seq([scan : Scans, kind : Kinds, size : Nat \ {0}])
      /\ buffer \in [Kinds -> Seq(Records)]
      /\ bytes \in [Kinds -> Nat]
  BY <1>1 DEF TypeOK, BaseTypeOK
<1>6. /\ log' = Append(log, new)
      /\ buffer' = [buffer EXCEPT ![e.kind] = Append(@, n)]
      /\ bytes' = [bytes EXCEPT ![e.kind] = @ + e.size]
  BY DEF WriteRecord, e
<1>7. /\ log' \in Seq([scan : Scans, kind : Kinds, size : Nat \ {0}])
      /\ Len(log') = n
      /\ n \in Nat \ {0}
      /\ log'[n] = new
      /\ \A r \in 1 .. Len(log) : log'[r] = log[r]
  <2>1. new \in [scan : Scans, kind : Kinds, size : Nat \ {0}]
    BY <1>4
  <2> HIDE DEF new
  <2> QED
    BY <2>1, <1>5, <1>6, Appended
<1> HIDE DEF n
<1>8. Records' = Records \cup {n} /\ n \notin Records
  BY <1>5, <1>7 DEF Records, n
<1>9. buffer' \in [Kinds -> Seq(Records')] /\ bytes' \in [Kinds -> Nat]
  <2>1. \A k \in Kinds : buffer[k] \in Seq(Records')
    BY <1>5, <1>8, SeqMonotone
  <2>2. Append(buffer[e.kind], n) \in Seq(Records')
    BY <2>1, <1>4, <1>8, Appended
  <2> QED
    BY <2>1, <2>2, <1>4, <1>5, <1>6
<1>10. TypeOK'
  <2>1. /\ UNCHANGED <<config, status, credited, dlqTotal, timeouts,
                       dlqDelivered, accepted, quarantined, connected>>
        /\ holder' = s
        /\ before' = dlqDelivered
        /\ errs' = {}
        /\ attempt' = 1
        /\ lastDelivered' = FALSE
        /\ written' = [written EXCEPT ![s] = @ + 1]
    BY DEF WriteRecord, Acquire
  <2>2. op' \in {"hold", "publish"} /\ pc' \in {e.kind, "return"}
    BY DEF WriteRecord, e
  <2>3. \A t \in Scans : written'[t] \in 0 .. Len(Load[t])
    BY <2>1, <1>1, <1>2 DEF TypeOK, BaseTypeOK
  <2>4. accepted' \subseteq Records' /\ quarantined' \subseteq Records'
    BY <2>1, <1>1, <1>8 DEF TypeOK, BaseTypeOK
  <2>5. holder' = NoScan <=> pc' = "idle"
    BY <2>1, <2>2, <1>4, NoScanAssumption DEF Kinds
  <2>6. /\ config \in Configs
        /\ status \in [Scans -> {"writing", "failing"} \cup Ended]
        /\ credited \in [Scans -> Nat]
        /\ dlqDelivered \in Nat
        /\ dlqTotal \in Nat
        /\ timeouts \in 0 .. MaxTimeouts
        /\ connected \subseteq Seconds
    BY <1>1 DEF TypeOK, BaseTypeOK
  <2>7. pc' \in Kinds \cup {"dlq"} \cup {"idle", "return"}
    BY <2>2, <1>4
  <2>8. /\ config' \in Configs
        /\ status' \in [Scans -> {"writing", "failing"} \cup Ended]
        /\ credited' \in [Scans -> Nat]
        /\ dlqDelivered' \in Nat
        /\ dlqTotal' \in Nat
        /\ timeouts' \in 0 .. MaxTimeouts
        /\ connected' \subseteq Seconds
    BY <2>1, <2>6
  <2>9. /\ holder' \in Scans \cup {NoScan}
        /\ op' \in {"hold", "batch", "publish", "flush"}
        /\ attempt' \in Nat \ {0}
        /\ errs' \subseteq Kinds
        /\ before' \in Nat
    BY <2>1, <2>2, <2>6
  <2>10. lastDelivered' \in BOOLEAN
    BY <2>1
  <2> QED
    BY <2>3, <2>10, <2>4, <2>5, <2>7, <2>8, <2>9, <1>7, <1>9, Zenon
    DEF TypeOK, BaseTypeOK, Ended
<1>11. KeptInv'
  <2>1. ASSUME NEW r \in Records'
        PROVE  r \in Taken' \/ r \in Range(buffer[log[r].kind])'
    <3>1. Taken' = Taken
      BY DEF WriteRecord, Taken
    <3>2. CASE r = n
      <4>1. log'[r].kind = e.kind
        BY <3>2, <1>7
      <4>2. buffer'[e.kind] = Append(buffer[e.kind], n)
        BY <1>4, <1>5, <1>6
      <4>3. buffer[e.kind] \in Seq(Records)
        BY <1>4, <1>5
      <4>4. n \in Range(Append(buffer[e.kind], n))
        BY <4>3, <1>8, SeqMonotone, RangeAppended
      <4> QED
        BY <4>1, <4>2, <4>4, <3>2
    <3>3. CASE r \in Records
      <4>1. r \in Taken \/ r \in Range(buffer[log[r].kind])
        BY <3>3, <1>1 DEF KeptInv
      <4>2. log'[r] = log[r]
        BY <3>3, <1>7 DEF Records
      <4>4. log[r].kind \in Kinds
        BY <3>3, <1>1, RecordOf
      <4>3. \A k \in Kinds : Range(buffer[k]) \subseteq Range(buffer'[k])
        <5> SUFFICES ASSUME NEW k \in Kinds
                     PROVE  Range(buffer[k]) \subseteq Range(buffer'[k])
          OBVIOUS
        <5>1. buffer[k] \in Seq(Records') /\ n \in Records'
          BY <1>5, <1>8, SeqMonotone
        <5>2. buffer'[k] = buffer[k] \/ buffer'[k] = Append(buffer[k], n)
          BY <1>4, <1>5, <1>6
        <5>3. Range(Append(buffer[k], n)) = Range(buffer[k]) \cup {n}
          BY <5>1, RangeAppended
        <5> QED
          BY <5>2, <5>3
      <4> QED
        BY <4>1, <4>2, <4>3, <4>4, <3>1
    <3> QED
      BY <3>2, <3>3, <1>8
  <2> QED
    BY <2>1 DEF KeptInv
<1>12. OkMeansTaken'
  <2>1. /\ status' = status
        /\ Taken' = Taken
        /\ status[s] = "writing"
    BY DEF WriteRecord, Taken
  <2>2. log'[n].scan = s
    BY <1>7
  <2>3. \A r \in Records : log'[r] = log[r]
    BY <1>7 DEF Records
  <2> QED
    BY <2>1, <2>2, <2>3, <1>1, <1>8 DEF OkMeansTaken
<1>13. FlushInv' /\ CallInv' /\ FlagInv'
  <2>1. op' \in {"hold", "publish"} /\ ~lastDelivered' /\ before' = dlqDelivered'
    BY DEF WriteRecord, Acquire
  <2>2. dlqDelivered' \in Nat
    BY <1>10 DEF TypeOK, BaseTypeOK
  <2> QED
    BY <2>1, <2>2 DEF FlushInv, CallInv, FlagInv
<1>14. PublishInv'
  <2>1. op' = "publish" => pc' = e.kind
    BY DEF WriteRecord, e
  <2>2. log' # <<>> /\ log'[Len(log')].kind = e.kind
    BY <1>7
  <2> QED
    BY <2>1, <2>2, <1>4 DEF PublishInv, Kinds
<1> QED
  BY <1>10, <1>11, <1>12, <1>13, <1>14 DEF IndInv

\* The type invariant for the steps that write nothing.
LEMMA TypeFrame ==
  ASSUME TypeOK,
         UNCHANGED <<config, written, log>>,
         status' \in [Scans -> {"writing", "failing"} \cup Ended],
         credited' \in [Scans -> Nat],
         holder' \in Scans \cup {NoScan},
         op' \in {"hold", "batch", "publish", "flush"},
         pc' \in Kinds \cup {"dlq"} \cup {"idle", "return"},
         attempt' \in Nat \ {0},
         errs' \subseteq Kinds,
         before' \in Nat,
         buffer' \in [Kinds -> Seq(Records)],
         bytes' \in [Kinds -> Nat],
         lastDelivered' \in BOOLEAN,
         dlqDelivered' \in Nat,
         dlqTotal' \in Nat,
         accepted' \subseteq Records,
         quarantined' \subseteq Records,
         timeouts' \in 0 .. MaxTimeouts,
         holder' = NoScan <=> pc' = "idle",
         connected' \subseteq Seconds
  PROVE  TypeOK'
<1>1. /\ config \in Configs
      /\ \A t \in Scans : written[t] \in 0 .. Len(Load[t])
      /\ log \in Seq([scan : Scans, kind : Kinds, size : Nat \ {0}])
  BY DEF TypeOK, BaseTypeOK
<1>2. Records' = Records
  BY DEF Records
<1>3. /\ config' \in Configs
      /\ \A t \in Scans : written'[t] \in 0 .. Len(Load[t])
      /\ log' \in Seq([scan : Scans, kind : Kinds, size : Nat \ {0}])
  BY <1>1
<1>4. /\ buffer' \in [Kinds -> Seq(Records')]
      /\ accepted' \subseteq Records'
      /\ quarantined' \subseteq Records'
  BY <1>2
<1> QED
  BY <1>3, <1>4, Zenon DEF TypeOK, BaseTypeOK, Ended

(***************************************************************************)
(* What all the steps inside a call are: at stream k, the batch is left    *)
(* alone or settled as a whole because a destination took it, and the call *)
(* stays at k, goes to the dead-letter topic, or is done with k, without   *)
(* an error only if the buffer is empty.                                   *)
(***************************************************************************)
LEMMA CallStepInv ==
  ASSUME IndInv, NEW k \in Kinds,
         pc = k \/ (pc = "dlq" /\ k = "device"),
         UNCHANGED <<scanVars, holder, op, before, lastDelivered, log>>,
         attempt' \in Nat \ {0},
         connected' \subseteq Seconds,
         \/ UNCHANGED <<buffer, bytes, dlqDelivered, accepted, quarantined>>
         \/ /\ SettleAll(k)
            /\ dlqDelivered' \in Nat
            /\ dlqDelivered <= dlqDelivered'
            /\ accepted \subseteq accepted'
            /\ quarantined \subseteq quarantined'
            /\ accepted' \cup quarantined' = Taken \cup Range(buffer[k]),
         \/ UNCHANGED <<pc, errs>>
         \/ k = "device" /\ pc' = "dlq" /\ UNCHANGED errs
         \/ StreamEnds(k, TRUE)
         \/ StreamEnds(k, FALSE) /\ buffer'[k] = <<>>
  PROVE  IndInv'
<1>1. TypeOK /\ KeptInv /\ FlushInv /\ PublishInv /\ FlagInv /\ CallInv /\ OkMeansTaken
  BY DEF IndInv
<1>2. /\ buffer \in [Kinds -> Seq(Records)]
      /\ bytes \in [Kinds -> Nat]
      /\ accepted \subseteq Records
      /\ quarantined \subseteq Records
      /\ errs \subseteq Kinds
      /\ dlqDelivered \in Nat
      /\ before \in Nat
      /\ holder = NoScan <=> pc = "idle"
  BY <1>1 DEF TypeOK, BaseTypeOK
<1>3. Records' = Records
  BY DEF Records
<1>4. Range(buffer[k]) \subseteq Records
  <2>1. buffer[k] \in Seq(Records)
    BY <1>2
  <2> QED
    BY <2>1, RangeIn
<1>5. Taken \subseteq Taken' /\ Taken' \subseteq Records
  BY <1>2, <1>4 DEF Taken
<1>6. \/ buffer' = buffer
      \/ buffer' = [buffer EXCEPT ![k] = <<>>] /\ Range(buffer[k]) \subseteq Taken'
  BY DEF SettleAll, Taken
<1>7. /\ buffer' \in [Kinds -> Seq(Records)]
      /\ \A j \in Kinds : j # k => buffer'[j] = buffer[j]
      /\ buffer'[k] = buffer[k] \/ (buffer'[k] = <<>> /\ Range(buffer[k]) \subseteq Taken')
  <2>1. CASE buffer' = buffer
    BY <2>1, <1>2
  <2>2. CASE /\ buffer' = [buffer EXCEPT ![k] = <<>>]
             /\ Range(buffer[k]) \subseteq Taken'
    <3>1. <<>> \in Seq(Records)
      OBVIOUS
    <3> HIDE DEF Records
    <3>2. buffer' \in [Kinds -> Seq(Records)]
      BY <2>2, <3>1, <1>2
    <3> QED
      BY <2>2, <3>2, <1>2
  <2> QED
    BY <2>1, <2>2, <1>6
<1>8. bytes' \in [Kinds -> Nat] /\ dlqDelivered' \in Nat /\ dlqDelivered <= dlqDelivered'
  BY <1>2 DEF SettleAll
<1>9. /\ pc' \in Kinds \cup {"dlq", "return"}
      /\ pc # "idle"
      /\ errs \subseteq errs'
      /\ errs' \subseteq Kinds
  BY <1>2 DEF StreamEnds, AfterStream, Kinds
<1>10. TypeOK'
  <2>1. /\ UNCHANGED <<config, written, log>>
        /\ UNCHANGED <<status, credited, dlqTotal, timeouts, holder, op, before,
                       lastDelivered>>
    BY DEF scanVars
  <2>2. /\ status \in [Scans -> {"writing", "failing"} \cup Ended]
        /\ credited \in [Scans -> Nat]
        /\ dlqTotal \in Nat
        /\ timeouts \in 0 .. MaxTimeouts
        /\ holder \in Scans \cup {NoScan}
        /\ op \in {"hold", "batch", "publish", "flush"}
    BY <1>1 DEF TypeOK, BaseTypeOK
  <2>3. lastDelivered' \in BOOLEAN
    BY <1>1, <2>1, Zenon DEF TypeOK, BaseTypeOK
  <2>4. accepted' \subseteq Records /\ quarantined' \subseteq Records
    BY <1>5 DEF Taken
  <2>5. holder' = NoScan <=> pc' = "idle"
    BY <2>1, <1>2, <1>9 DEF Kinds
  <2>6. pc' \in Kinds \cup {"dlq"} \cup {"idle", "return"}
    BY <1>9
  <2>7. /\ status' \in [Scans -> {"writing", "failing"} \cup Ended]
        /\ credited' \in [Scans -> Nat]
        /\ dlqTotal' \in Nat
        /\ timeouts' \in 0 .. MaxTimeouts
        /\ holder' \in Scans \cup {NoScan}
        /\ op' \in {"hold", "batch", "publish", "flush"}
        /\ before' \in Nat
    BY <2>1, <2>2, <1>2
  <2> QED
    BY <2>1, <2>3, <2>4, <2>5, <2>6, <2>7, <1>1, <1>7, <1>8, <1>9, TypeFrame, Zenon
<1>11. KeptInv'
  <2> SUFFICES ASSUME NEW r \in Records, r \notin Taken'
               PROVE  r \in Range(buffer'[log[r].kind])
    BY <1>3 DEF KeptInv
  <2>1. log[r].kind \in Kinds
    BY <1>1, RecordOf
  <2>2. r \in Range(buffer[log[r].kind])
    BY <1>1, <1>5 DEF KeptInv
  <2> QED
    BY <2>1, <2>2, <1>7
<1>12. FlushInv'
  <2> SUFFICES ASSUME op = "flush", NEW j \in Passed'
               PROVE  buffer'[j] = <<>> \/ j \in errs'
    BY DEF FlushInv
  <2>1. \A i \in Passed : buffer[i] = <<>> \/ i \in errs
    BY <1>1 DEF FlushInv
  <2>2. Passed \subseteq Kinds
    BY DEF Passed, Kinds
  <2>3. j \in Passed \/ (j = k /\ (buffer'[k] = <<>> \/ k \in errs'))
    BY <1>9 DEF Passed, StreamEnds, AfterStream, Kinds
  <2> QED
    BY <2>1, <2>2, <2>3, <1>7, <1>9
<1>13. PublishInv'
  <2> SUFFICES ASSUME op = "publish"
               PROVE  /\ log # <<>>
                      /\ pc' \in Kinds => pc' = log[Len(log)].kind
                      /\ pc' = "dlq" => log[Len(log)].kind = "device"
                      /\ pc' = "return" => \/ buffer'[log[Len(log)].kind] = <<>>
                                           \/ log[Len(log)].kind \in errs'
    BY DEF PublishInv
  <2>1. log # <<>> /\ log[Len(log)].kind = k
    BY <1>1, <1>9 DEF PublishInv, Kinds
  <2>2. \/ pc' = pc
        \/ k = "device" /\ pc' = "dlq"
        \/ pc' = "return" /\ (buffer'[k] = <<>> \/ k \in errs')
    BY DEF StreamEnds, AfterStream
  <2> QED
    BY <2>1, <2>2 DEF Kinds
<1>14. FlagInv' /\ OkMeansTaken'
  BY <1>1, <1>3, <1>5 DEF FlagInv, OkMeansTaken, scanVars
<1>15. CallInv'
  BY <1>1, <1>2, <1>8, <1>9 DEF CallInv
<1> QED
  BY <1>10, <1>11, <1>12, <1>13, <1>14, <1>15 DEF IndInv

LEMMA ConnectInv ==
  ASSUME IndInv, NEW k \in Seconds, Connect(k)
  PROVE  IndInv'
<1>1. connected \subseteq Seconds /\ attempt \in Nat \ {0}
  BY DEF IndInv, TypeOK, BaseTypeOK
<1>2. k \in Kinds
  BY DEF Seconds, Kinds
<1>3. /\ pc = k
      /\ UNCHANGED <<scanVars, holder, op, before, lastDelivered, log>>
      /\ UNCHANGED <<buffer, bytes, dlqDelivered, accepted, quarantined>>
      /\ attempt' \in Nat \ {0}
      /\ connected' \subseteq Seconds
      /\ UNCHANGED <<pc, errs>> \/ StreamEnds(k, TRUE)
  BY <1>1 DEF Connect, sinkVars, brokerVars
<1> QED
  BY <1>2, <1>3, CallStepInv, Zenon

LEMMA ProducedInv ==
  ASSUME IndInv, NEW k \in Kinds, Produced(k)
  PROVE  IndInv'
<1>1. /\ connected \subseteq Seconds
      /\ dlqDelivered \in Nat
      /\ buffer \in [Kinds -> Seq(Records)]
  BY DEF IndInv, TypeOK, BaseTypeOK
<1>2. /\ pc = k
      /\ UNCHANGED <<scanVars, holder, op, before, lastDelivered, log>>
      /\ attempt' \in Nat \ {0}
      /\ connected' \subseteq Seconds
  BY <1>1 DEF Produced, CanProduce
<1>3. /\ SettleAll(k)
      /\ dlqDelivered' \in Nat
      /\ dlqDelivered <= dlqDelivered'
      /\ accepted \subseteq accepted'
      /\ quarantined \subseteq quarantined'
      /\ accepted' \cup quarantined' = Taken \cup Range(buffer[k])
  BY <1>1 DEF Produced, Taken
<1>4. StreamEnds(k, FALSE) /\ buffer'[k] = <<>>
  BY <1>1 DEF Produced, SettleAll
<1> QED
  BY <1>2, <1>3, <1>4, CallStepInv, Zenon

LEMMA ProduceFailsInv ==
  ASSUME IndInv, NEW k \in Kinds, ProduceFails(k)
  PROVE  IndInv'
<1>1. connected \subseteq Seconds /\ attempt \in Nat \ {0}
  BY DEF IndInv, TypeOK, BaseTypeOK
<1>2. /\ pc = k
      /\ UNCHANGED <<scanVars, holder, op, before, lastDelivered, log>>
      /\ UNCHANGED <<buffer, bytes, dlqDelivered, accepted, quarantined>>
      /\ connected' \subseteq Seconds
  BY <1>1 DEF ProduceFails, CanProduce, sinkVars, brokerVars
<1>3. attempt' \in Nat \ {0}
  <2>1. attempt' = attempt + 1 \/ attempt' = 1
    BY DEF ProduceFails, Retry, GiveUp
  <2> QED
    BY <2>1, <1>1
<1>4. \/ UNCHANGED <<pc, errs>>
      \/ k = "device" /\ pc' = "dlq" /\ UNCHANGED errs
      \/ StreamEnds(k, TRUE)
  BY DEF ProduceFails
<1> QED
  BY <1>2, <1>3, <1>4, CallStepInv, Zenon

LEMMA QuarantineInv ==
  ASSUME IndInv, Quarantine
  PROVE  IndInv'
<1>1. /\ connected \subseteq Seconds
      /\ attempt \in Nat \ {0}
      /\ dlqDelivered \in Nat
      /\ buffer \in [Kinds -> Seq(Records)]
  BY DEF IndInv, TypeOK, BaseTypeOK
<1>2. "device" \in Kinds
  BY DEF Kinds
<1>3. Len(buffer["device"]) \in Nat
  <2>1. buffer["device"] \in Seq(Records)
    BY <1>1, <1>2, Zenon
  <2> QED
    BY <2>1
<1>4. /\ pc = "dlq"
      /\ UNCHANGED <<scanVars, holder, op, before, lastDelivered, log>>
      /\ attempt' \in Nat \ {0}
      /\ connected' \subseteq Seconds
  BY <1>1 DEF Quarantine
<1>5. CASE StreamEnds("device", TRUE) /\ UNCHANGED <<quarantined, dlqDelivered, buffer, bytes>>
  <2>1. UNCHANGED <<buffer, bytes, dlqDelivered, accepted, quarantined>>
    BY <1>5 DEF Quarantine
  <2> QED
    BY <2>1, <1>2, <1>4, <1>5, CallStepInv, Zenon
<1>6. CASE /\ quarantined' = quarantined \cup Range(buffer["device"])
           /\ dlqDelivered' = dlqDelivered + Len(buffer["device"])
           /\ SettleAll("device")
           /\ StreamEnds("device", FALSE)
  <2>1. /\ dlqDelivered' \in Nat
        /\ dlqDelivered <= dlqDelivered'
    BY <1>1, <1>3, <1>6
  <2>2. /\ accepted \subseteq accepted'
        /\ quarantined \subseteq quarantined'
        /\ accepted' \cup quarantined' = Taken \cup Range(buffer["device"])
    BY <1>6 DEF Quarantine, Taken
  <2>3. buffer'["device"] = <<>>
    BY <1>1, <1>2, <1>6 DEF SettleAll
  <2> QED
    BY <2>1, <2>2, <2>3, <1>2, <1>4, <1>6, CallStepInv, Zenon
<1> QED
  BY <1>5, <1>6 DEF Quarantine

LEMMA NothingToProduceInv ==
  ASSUME IndInv, NEW k \in Kinds, NothingToProduce(k)
  PROVE  IndInv'
<1>1. connected \subseteq Seconds /\ attempt \in Nat \ {0}
  BY DEF IndInv, TypeOK, BaseTypeOK
<1>2. /\ pc = k
      /\ UNCHANGED <<scanVars, holder, op, before, lastDelivered, log>>
      /\ UNCHANGED <<buffer, bytes, dlqDelivered, accepted, quarantined>>
      /\ attempt' \in Nat \ {0}
      /\ connected' \subseteq Seconds
      /\ StreamEnds(k, FALSE) /\ buffer'[k] = <<>>
  BY <1>1 DEF NothingToProduce, sinkVars, brokerVars
<1> QED
  BY <1>2, CallStepInv, Zenon

\* Sink::close begins: nothing but the call's own state changes.
LEMMA CloseInv ==
  ASSUME IndInv, NEW s \in Scans, CloseSink(s), UNCHANGED connected
  PROVE  IndInv'
<1>1. TypeOK /\ KeptInv /\ FlagInv /\ OkMeansTaken
  BY DEF IndInv
<1>2. /\ UNCHANGED <<config, written, log, status, credited, dlqTotal, timeouts>>
      /\ UNCHANGED <<buffer, bytes, lastDelivered, dlqDelivered, accepted, quarantined,
                     connected>>
      /\ holder' = s
      /\ before' = dlqDelivered
      /\ errs' = {}
      /\ attempt' = 1
      /\ op' = "flush"
      /\ pc' = "device"
  BY DEF CloseSink, Acquire, scanVars, sinkVars, brokerVars
<1>3. Records' = Records /\ Taken' = Taken
  BY <1>2 DEF Records, Taken
<1>4. dlqDelivered \in Nat
  BY <1>1 DEF TypeOK, BaseTypeOK
<1>5. TypeOK'
  <2>1. /\ status \in [Scans -> {"writing", "failing"} \cup Ended]
        /\ credited \in [Scans -> Nat]
        /\ buffer \in [Kinds -> Seq(Records)]
        /\ bytes \in [Kinds -> Nat]
        /\ dlqTotal \in Nat
        /\ accepted \subseteq Records
        /\ quarantined \subseteq Records
        /\ timeouts \in 0 .. MaxTimeouts
        /\ connected \subseteq Seconds
    BY <1>1 DEF TypeOK, BaseTypeOK
  <2>2. lastDelivered' \in BOOLEAN
    BY <1>1, <1>2, Zenon DEF TypeOK, BaseTypeOK
  <2>3. /\ status' \in [Scans -> {"writing", "failing"} \cup Ended]
        /\ credited' \in [Scans -> Nat]
        /\ buffer' \in [Kinds -> Seq(Records)]
        /\ bytes' \in [Kinds -> Nat]
        /\ dlqTotal' \in Nat
        /\ accepted' \subseteq Records
        /\ quarantined' \subseteq Records
        /\ timeouts' \in 0 .. MaxTimeouts
        /\ connected' \subseteq Seconds
    BY <2>1, <1>2
  <2>4. /\ holder' \in Scans \cup {NoScan}
        /\ op' \in {"hold", "batch", "publish", "flush"}
        /\ pc' \in Kinds \cup {"dlq"} \cup {"idle", "return"}
        /\ attempt' \in Nat \ {0}
        /\ errs' \subseteq Kinds
        /\ before' \in Nat
        /\ dlqDelivered' \in Nat
        /\ holder' = NoScan <=> pc' = "idle"
    BY <1>2, <1>4, NoScanAssumption DEF Kinds
  <2> QED
    BY <2>2, <2>3, <2>4, <1>1, <1>2, TypeFrame, Zenon
<1>6. KeptInv' /\ FlagInv' /\ OkMeansTaken'
  BY <1>1, <1>2, <1>3 DEF KeptInv, FlagInv, OkMeansTaken
<1>7. FlushInv' /\ PublishInv' /\ CallInv'
  BY <1>2, <1>4 DEF FlushInv, Passed, PublishInv, CallInv
<1> QED
  BY <1>5, <1>6, <1>7 DEF IndInv

\* A call returns: only a flush without an error, which has emptied every
\* buffer, makes a scan succeed.
LEMMA ReturnInv ==
  ASSUME IndInv, Return, UNCHANGED connected
  PROVE  IndInv'
<1>1. TypeOK /\ KeptInv /\ FlushInv /\ PublishInv /\ FlagInv /\ CallInv /\ OkMeansTaken
  BY DEF IndInv
<1>2. /\ pc = "return"
      /\ UNCHANGED <<config, written, log, timeouts, op, attempt, errs, before>>
      /\ UNCHANGED <<buffer, bytes, dlqDelivered, accepted, quarantined, connected>>
      /\ lastDelivered' = Delivered
      /\ status' = [status EXCEPT ![holder] = Outcome(holder)]
      /\ credited' = [credited EXCEPT ![holder] = Credit(holder)]
      /\ dlqTotal' = IF status'[holder] = "ok"
                     THEN dlqTotal + credited'[holder] ELSE dlqTotal
      /\ holder' = NoScan
      /\ pc' = "idle"
  BY DEF Return, brokerVars
<1>3. Records' = Records /\ Taken' = Taken
  BY <1>2 DEF Records, Taken
<1>4. /\ status \in [Scans -> {"writing", "failing"} \cup Ended]
      /\ credited \in [Scans -> Nat]
      /\ holder \in Scans
      /\ before \in Nat
      /\ dlqDelivered \in Nat
      /\ dlqTotal \in Nat
      /\ before <= dlqDelivered
  BY <1>1, <1>2 DEF TypeOK, BaseTypeOK, CallInv
<1>5. ASSUME NEW r \in Records, buffer[log[r].kind] = <<>>
      PROVE  r \in Taken
  BY <1>1, <1>5, RangeOfEmpty DEF KeptInv
<1>6. ASSUME op = "flush", errs = {}
      PROVE  Records \subseteq Taken
  <2>1. \A k \in Kinds : buffer[k] = <<>>
    BY <1>1, <1>2, <1>6 DEF FlushInv, Passed
  <2> QED
    BY <2>1, <1>1, <1>5, RecordOf
<1>7. ASSUME op = "publish", errs = {}
      PROVE  Len(log) \in Taken
  <2>1. log # <<>> /\ buffer[log[Len(log)].kind] = <<>>
    BY <1>1, <1>2, <1>7 DEF PublishInv
  <2> QED
    BY <2>1, <1>1, <1>5, LastRecord
<1>8. FlagInv'
  <2> SUFFICES ASSUME Delivered, log # <<>>
               PROVE  Len(log) \in Taken
    BY <1>2, <1>3 DEF FlagInv
  <2>1. \/ op = "flush" /\ errs = {}
        \/ op = "publish" /\ errs = {}
        \/ lastDelivered
    BY DEF Delivered
  <2>2. Len(log) \in Records
    BY <1>1, LastRecord
  <2> QED
    BY <2>1, <2>2, <1>1, <1>6, <1>7 DEF FlagInv
<1>9. status' \in [Scans -> {"writing", "failing"} \cup Ended]
  BY <1>2, <1>4 DEF Outcome, Ended
<1>10. OkMeansTaken'
  <2> SUFFICES ASSUME NEW r \in Records, status'[log[r].scan] = "ok"
               PROVE  r \in Taken
    BY <1>2, <1>3 DEF OkMeansTaken
  <2>1. CASE status[log[r].scan] = "ok"
    BY <2>1, <1>1 DEF OkMeansTaken
  <2>2. CASE status[log[r].scan] # "ok"
    <3>1. log[r].scan = holder /\ Outcome(holder) = "ok" /\ status[holder] # "ok"
      BY <2>2, <1>2, <1>4
    <3>2. op = "flush" /\ errs = {}
      BY <3>1 DEF Outcome
    <3> QED
      BY <3>2, <1>6
  <2> QED
    BY <2>1, <2>2
<1>11. TypeOK'
  <2>1. credited' \in [Scans -> Nat] /\ dlqTotal' \in Nat
    BY <1>2, <1>4 DEF Credit
  <2>2. lastDelivered' \in BOOLEAN
    <3>1. lastDelivered \in BOOLEAN
      BY <1>1, Zenon DEF TypeOK, BaseTypeOK
    <3>2. Delivered \in BOOLEAN
      BY <3>1 DEF Delivered
    <3> QED
      BY <3>2, <1>2, Zenon
  <2>3. /\ op \in {"hold", "batch", "publish", "flush"}
        /\ attempt \in Nat \ {0}
        /\ errs \subseteq Kinds
        /\ buffer \in [Kinds -> Seq(Records)]
        /\ bytes \in [Kinds -> Nat]
        /\ accepted \subseteq Records
        /\ quarantined \subseteq Records
        /\ timeouts \in 0 .. MaxTimeouts
        /\ connected \subseteq Seconds
    BY <1>1 DEF TypeOK, BaseTypeOK
  <2>4. /\ op' \in {"hold", "batch", "publish", "flush"}
        /\ attempt' \in Nat \ {0}
        /\ errs' \subseteq Kinds
        /\ buffer' \in [Kinds -> Seq(Records)]
        /\ bytes' \in [Kinds -> Nat]
        /\ accepted' \subseteq Records
        /\ quarantined' \subseteq Records
        /\ timeouts' \in 0 .. MaxTimeouts
        /\ connected' \subseteq Seconds
    BY <2>3, <1>2
  <2>5. /\ holder' \in Scans \cup {NoScan}
        /\ pc' \in Kinds \cup {"dlq"} \cup {"idle", "return"}
        /\ before' \in Nat
        /\ dlqDelivered' \in Nat
        /\ holder' = NoScan <=> pc' = "idle"
    BY <1>2, <1>4
  <2> QED
    BY <2>1, <2>2, <2>4, <2>5, <1>1, <1>2, <1>9, TypeFrame, Zenon
<1>12. KeptInv'
  BY <1>1, <1>2, <1>3 DEF KeptInv
<1>13. FlushInv' /\ PublishInv' /\ CallInv'
  BY <1>1, <1>2 DEF FlushInv, Passed, PublishInv, CallInv
<1> QED
  BY <1>8, <1>10, <1>11, <1>12, <1>13 DEF IndInv

\* A dropped request takes no record with it: buffers are settled only after
\* an acceptance.
LEMMA TimeoutInv ==
  ASSUME IndInv, NEW s \in Scans, Timeout(s)
  PROVE  IndInv'
<1>1. TypeOK /\ KeptInv /\ FlushInv /\ PublishInv /\ FlagInv /\ CallInv /\ OkMeansTaken
  BY DEF IndInv
<1>2. /\ UNCHANGED <<config, written, log, credited, dlqTotal, op, attempt, errs, before>>
      /\ UNCHANGED <<lastDelivered, dlqDelivered, buffer, bytes, accepted, quarantined>>
      /\ timeouts < MaxTimeouts
      /\ timeouts' = timeouts + 1
      /\ status' = [status EXCEPT ![s] = "timedout"]
      /\ \/ UNCHANGED <<holder, pc, connected>>
         \/ holder' = NoScan /\ pc' = "idle" /\ connected' = connected \ {pc}
  BY DEF Timeout, DropRequest, DropCall
<1>3. Records' = Records /\ Taken' = Taken
  BY <1>2 DEF Records, Taken
<1>4. TypeOK'
  <2>1. /\ status \in [Scans -> {"writing", "failing"} \cup Ended]
        /\ credited \in [Scans -> Nat]
        /\ holder \in Scans \cup {NoScan}
        /\ op \in {"hold", "batch", "publish", "flush"}
        /\ pc \in Kinds \cup {"dlq"} \cup {"idle", "return"}
        /\ attempt \in Nat \ {0}
        /\ errs \subseteq Kinds
        /\ before \in Nat
        /\ buffer \in [Kinds -> Seq(Records)]
        /\ bytes \in [Kinds -> Nat]
    BY <1>1 DEF TypeOK, BaseTypeOK
  <2>2. /\ dlqDelivered \in Nat
        /\ dlqTotal \in Nat
        /\ accepted \subseteq Records
        /\ quarantined \subseteq Records
        /\ timeouts \in 0 .. MaxTimeouts
        /\ holder = NoScan <=> pc = "idle"
        /\ connected \subseteq Seconds
    BY <1>1 DEF TypeOK, BaseTypeOK
  <2>3. lastDelivered' \in BOOLEAN
    BY <1>1, <1>2, Zenon DEF TypeOK, BaseTypeOK
  <2>4. /\ status' \in [Scans -> {"writing", "failing"} \cup Ended]
        /\ timeouts' \in 0 .. MaxTimeouts
    BY <2>1, <2>2, <1>2, MaxTimeoutsAssumption DEF Ended
  <2>5. /\ credited' \in [Scans -> Nat]
        /\ op' \in {"hold", "batch", "publish", "flush"}
        /\ attempt' \in Nat \ {0}
        /\ errs' \subseteq Kinds
        /\ before' \in Nat
        /\ buffer' \in [Kinds -> Seq(Records)]
        /\ bytes' \in [Kinds -> Nat]
        /\ dlqDelivered' \in Nat
        /\ dlqTotal' \in Nat
        /\ accepted' \subseteq Records
        /\ quarantined' \subseteq Records
    BY <2>1, <2>2, <1>2
  <2>6. /\ holder' \in Scans \cup {NoScan}
        /\ pc' \in Kinds \cup {"dlq"} \cup {"idle", "return"}
        /\ holder' = NoScan <=> pc' = "idle"
        /\ connected' \subseteq Seconds
    BY <2>1, <2>2, <1>2
  <2> QED
    BY <2>3, <2>4, <2>5, <2>6, <1>1, <1>2, TypeFrame, Zenon
<1>5. KeptInv' /\ FlagInv'
  BY <1>1, <1>2, <1>3 DEF KeptInv, FlagInv
<1>6. OkMeansTaken'
  <2>1. status \in [Scans -> {"writing", "failing"} \cup Ended]
    BY <1>1 DEF TypeOK, BaseTypeOK
  <2>2. \A t \in Scans : status'[t] = "ok" => status[t] = "ok"
    BY <2>1, <1>2
  <2> QED
    BY <2>2, <1>1, <1>2, <1>3, RecordOf DEF OkMeansTaken
<1>7. pc' = pc \/ pc' = "idle"
  BY <1>2
<1>8. FlushInv'
  BY <1>1, <1>2, <1>7 DEF FlushInv, Passed
<1>9. PublishInv' /\ CallInv'
  BY <1>1, <1>2, <1>7 DEF PublishInv, CallInv
<1> QED
  BY <1>4, <1>5, <1>6, <1>8, <1>9 DEF IndInv

LEMMA StutterInv ==
  ASSUME IndInv, UNCHANGED vars
  PROVE  IndInv'
<1>1. /\ UNCHANGED <<config, status, written, credited, dlqTotal, timeouts>>
      /\ UNCHANGED <<holder, op, pc, attempt, errs, before>>
      /\ UNCHANGED <<buffer, bytes, lastDelivered, dlqDelivered>>
      /\ UNCHANGED <<log, accepted, quarantined, connected>>
  BY DEF vars, baseVars, scanVars, callVars, sinkVars, brokerVars
<1>2. Records' = Records /\ Taken' = Taken /\ Passed' = Passed
  BY <1>1 DEF Records, Taken, Passed
<1>3. TypeOK'
  BY <1>1, <1>2 DEF IndInv, TypeOK, BaseTypeOK
<1> QED
  BY <1>1, <1>2, <1>3
  DEF IndInv, KeptInv, FlushInv, PublishInv, FlagInv, CallInv, OkMeansTaken

-----------------------------------------------------------------------------
(***************************************************************************)
(* The strengthened invariant of a shared KafkaSink: every step of every   *)
(* scan, of the broker and of the request timeout keeps it.                *)
(***************************************************************************)
THEOREM KafkaInvariance == Spec => []IndInv
<1>1. IndInv /\ [Next]_vars => IndInv'
  <2> SUFFICES ASSUME IndInv, [Next]_vars PROVE IndInv'
    OBVIOUS
  <2>1. CASE UNCHANGED vars
    BY <2>1, StutterInv
  <2>2. ASSUME NEW s \in Scans, BeginCall(s) PROVE IndInv'
    BY <2>2, WriteInv, CloseInv DEF BeginCall
  <2>3. ASSUME NEW s \in Scans, Timeout(s) PROVE IndInv'
    BY <2>3, TimeoutInv
  <2>4. ASSUME NEW k \in Seconds, Connect(k) PROVE IndInv'
    BY <2>4, ConnectInv
  <2>5. ASSUME NEW k \in Kinds, Produced(k) PROVE IndInv'
    BY <2>5, ProducedInv
  <2>6. ASSUME NEW k \in Kinds, ProduceFails(k) PROVE IndInv'
    BY <2>6, ProduceFailsInv
  <2>7. ASSUME NEW k \in Kinds, NothingToProduce(k) PROVE IndInv'
    BY <2>7, NothingToProduceInv
  <2>8. CASE Quarantine
    BY <2>8, QuarantineInv
  <2>9. CASE Return /\ UNCHANGED connected
    BY <2>9, ReturnInv
  <2>10. CASE AllEnded
    BY <2>10, StutterInv DEF AllEnded
  <2> QED
    BY <2>1, <2>2, <2>3, <2>4, <2>5, <2>6, <2>7, <2>8, <2>9, <2>10
    DEF Next, SinkStep
<1> QED
  BY <1>1, InitInv, PTL DEF Spec

(***************************************************************************)
(* No record handed to a KafkaSink is lost: it is at the topic, in the     *)
(* dead-letter topic, or in a buffer for the next flush, with any broker   *)
(* failures, dead-letter failures and request timeouts.                    *)
(***************************************************************************)
THEOREM KafkaNothingDropped == Spec => []NothingDropped
<1>1. IndInv => NothingDropped
  <2> SUFFICES ASSUME IndInv, NEW r \in Records, r \notin Taken
               PROVE  \E k \in Kinds : r \in Range(buffer[k])
    BY DEF NothingDropped, KeptOrTaken, Held
  <2>1. log[r].kind \in Kinds
    BY RecordOf DEF IndInv
  <2> QED
    BY <2>1 DEF IndInv, KeptInv
<1> QED
  BY <1>1, KafkaInvariance, PTL

(***************************************************************************)
(* A scan whose POST /scans answers with success has every record it wrote *)
(* at a destination, whatever other scans did with the shared sink.        *)
(***************************************************************************)
THEOREM KafkaOkMeansTaken == Spec => []OkMeansTaken
<1>1. IndInv => OkMeansTaken
  BY DEF IndInv
<1> QED
  BY <1>1, KafkaInvariance, PTL

(***************************************************************************)
(* last_write_delivered, read between calls, is true only if the last      *)
(* record any scan wrote is at a destination.                              *)
(***************************************************************************)
THEOREM KafkaDeliveredFlagHonest == Spec => []DeliveredFlagHonest
<1>1. IndInv => DeliveredFlagHonest
  BY DEF IndInv, FlagInv, DeliveredFlagHonest, DeliveredIsHonest
<1> QED
  BY <1>1, KafkaInvariance, PTL

(***************************************************************************)
(* When a flush returns, a stream that still holds records is one that     *)
(* failed in that flush: no failure of one stream skips another.           *)
(***************************************************************************)
THEOREM KafkaFlushReachesEveryStream == Spec => []FlushReachesEveryStream
<1>1. IndInv => FlushReachesEveryStream
  BY DEF IndInv, FlushInv, Passed, FlushReachesEveryStream
<1> QED
  BY <1>1, KafkaInvariance, PTL
=============================================================================
