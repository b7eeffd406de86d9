----------------------------- MODULE ProbeEngine -----------------------------
(***************************************************************************)
(* The shared probe engines: one socket and one reader per engine, many    *)
(* probes in flight (prober/demux.rs, prober/link_layer.rs and             *)
(* prober/icmp.rs).  A probe registers a waiter before it sends; the       *)
(* reader, a thread (link layer) or a task (ICMP), hands each reply to the *)
(* waiter of its key; a probe that runs out of time takes its waiter out   *)
(* again.  The key of a link-layer waiter is the address it asks for, so   *)
(* two probes of one address collide; the key of an ICMP waiter is a nonce *)
(* no other echo has.                                                      *)
(*                                                                         *)
(* A waiter is <<p, n>>: echo n of probe p (a link-layer probe has only    *)
(* one).  mail is the oneshot channel behind it.  Every lock of the demux  *)
(* is a step of its own, so the probes, the reader and the clock           *)
(* interleave between a decision and the lock that acts on it.             *)
(***************************************************************************)
EXTENDS Integers, FiniteSets, FiniteSetsExt

CONSTANTS
  Probes,     \* the probes of one prober in a scan
  Targets,    \* possible plans: the address each probe is for
  Timeout,    \* ctx.timeout, in clock ticks
  Retries,    \* ctx.retries (link layer)
  Count,      \* echo requests of one ICMP probe
  Pause,      \* the ICMP interval, in clock ticks
  MaxAnswers  \* bound: replies the network makes to one key

ASSUME EngineAssumption ==
  /\ Timeout \in Nat \ {0}
  /\ Retries \in Nat
  /\ Count \in Nat \ {0}
  /\ Pause \in Nat
  /\ MaxAnswers \in Nat

VARIABLES
  proto,    \* "link" or "icmp": which prober this is
  addrOf,   \* the plan: the address of each probe
  engine,   \* the cached result of opening the engine: "none", "open", "failed"
  reader,   \* "off", "run", or "dead" once it exited and poisoned the demux
  held,     \* the waiter key an ICMP reader has validated and not yet dispatched
  waiters,  \* demux: the registered waiters
  mail,     \* per waiter: "none", "reached", "failed", "closed" (sender dropped)
  pc,       \* per probe: where its task is
  left,     \* per probe: ticks until its deadline
  slice,    \* per probe: ticks until the timer it waits on fires
  tries,    \* per probe: requests sent (link layer), or the echo it is at (ICMP)
  pend,     \* per probe: echoes sent and not collected (ICMP)
  broken,   \* per probe: a fault is latched
  got,      \* per probe: an echo was answered (ICMP)
  verdict,  \* per probe: "none", "reached", "absent" or "fault"
  wire,     \* keys with a reply on the network
  answers,  \* per waiter: replies its request has had
  struck    \* history: waiters the death of the reader must be told to

engineVars == <<engine, reader>>
demuxVars == <<waiters, mail, struck>>
scanVars == <<proto, addrOf>>
netVars == <<wire, answers, held>>
vars == <<proto, addrOf, engine, reader, held, waiters, mail, pc, left, slice, tries,
          pend, broken, got, verdict, wire, answers, struck>>

Slots == 0 .. Count - 1
Waiters == Probes \X Slots
NoKey == <<>>

TypeOK ==
  /\ proto \in {"link", "icmp"}
  /\ addrOf \in Targets
  /\ engine \in {"none", "open", "failed"}
  /\ reader \in {"off", "run", "dead"}
  /\ held \in Waiters \cup {NoKey}
  /\ waiters \subseteq Waiters
  /\ mail \in [Waiters -> {"none", "reached", "failed", "closed"}]
  /\ pc \in [Probes -> {"idle", "send", "wait", "pause", "collect", "leave", "drop", "done"}]
  /\ left \in [Probes -> 0 .. Timeout]
  /\ slice \in [Probes -> Nat]
  /\ tries \in [Probes -> Nat]
  /\ pend \in [Probes -> SUBSET Slots]
  /\ broken \in [Probes -> BOOLEAN]
  /\ got \in [Probes -> BOOLEAN]
  /\ verdict \in [Probes -> {"none", "reached", "absent", "fault"}]
  /\ wire \subseteq Waiters
  /\ answers \in [Waiters -> 0 .. MaxAnswers]
  /\ struck \subseteq Waiters

Init ==
  /\ proto \in {"link", "icmp"}
  /\ addrOf \in Targets
  /\ engine = "none"
  /\ reader = "off"
  /\ held = NoKey
  /\ waiters = {}
  /\ mail = [w \in Waiters |-> "none"]
  /\ pc = [p \in Probes |-> "idle"]
  /\ left = [p \in Probes |-> Timeout]
  /\ slice = [p \in Probes |-> 0]
  /\ tries = [p \in Probes |-> 0]
  /\ pend = [p \in Probes |-> {}]
  /\ broken = [p \in Probes |-> FALSE]
  /\ got = [p \in Probes |-> FALSE]
  /\ verdict = [p \in Probes |-> "none"]
  /\ wire = {}
  /\ answers = [w \in Waiters |-> 0]
  /\ struck = {}

-----------------------------------------------------------------------------
(* Demux *)

\* Mutant: echoes are keyed by their sequence number alone.
SameKeyMutant(w) ==
  {v \in waiters : IF proto = "link" THEN addrOf[v[1]] = addrOf[w[1]] ELSE v[2] = w[2]}

\* The waiters registered under the key of w.
SameKey(w) ==
  {v \in waiters : IF proto = "link" THEN addrOf[v[1]] = addrOf[w[1]] ELSE v = w}

\* Mutant: a registration on a poisoned demux waits like any other.
AtOnceMutant(w) == SameKey(w) # {}

\* register answers with a fault at once: the reader is dead, or the key is taken.
AtOnce(w) == reader = "dead" \/ SameKey(w) # {}

\* register: a collision fails both sides and clears the key.
Register(w) ==
  LET clash == IF reader = "dead" THEN {} ELSE SameKey(w)
  IN /\ waiters' = IF AtOnce(w) THEN waiters \ clash ELSE waiters \cup {w}
     /\ mail' = [v \in Waiters |-> IF v \in clash \/ (v = w /\ AtOnce(w))
                                     THEN "failed" ELSE mail[v]]
     /\ struck' = IF reader = "dead" THEN struck \cup {w} ELSE struck

\* deregister: whatever waits under the key of w loses its sender.
Deregister(w) ==
  /\ waiters' = waiters \ SameKey(w)
  /\ mail' = [v \in Waiters |-> IF v \in SameKey(w) THEN "closed" ELSE mail[v]]
  /\ UNCHANGED struck

\* dispatch: the waiter of the key, if one is left, gets the reply.
Dispatch(w) ==
  /\ waiters' = waiters \ SameKey(w)
  /\ mail' = [v \in Waiters |-> IF v \in SameKey(w) THEN "reached" ELSE mail[v]]
  /\ UNCHANGED struck

\* poison: every waiter is woken with the fault; those that still wait must hear of it.
Poison ==
  /\ waiters' = {}
  /\ mail' = [v \in Waiters |-> IF v \in waiters THEN "failed" ELSE mail[v]]
  /\ struck' = struck \cup {w \in waiters : pc[w[1]] \notin {"leave", "drop"}}

-----------------------------------------------------------------------------
(* The network and the clock *)

\* The host of w answers a request that was sent, perhaps more than once.  Of
\* the link layer it may also announce itself before any request was.
HostAnswers(w) ==
  /\ IF proto = "link" THEN w[2] = 0 ELSE tries[w[1]] > w[2]
  /\ answers[w] < MaxAnswers
  /\ wire' = wire \cup {w}
  /\ answers' = [answers EXCEPT ![w] = @ + 1]
  /\ UNCHANGED <<scanVars, engineVars, held, demuxVars, pc, left, slice, tries, pend, broken,
                 got, verdict>>

\* Time passes for every probe that has a deadline.
Tick ==
  /\ \E p \in Probes : pc[p] \notin {"idle", "done"} /\ left[p] > 0
  /\ left' = [p \in Probes |-> IF pc[p] \in {"idle", "done"} THEN left[p]
                               ELSE Max({left[p] - 1, 0})]
  /\ slice' = [p \in Probes |-> Max({slice[p] - 1, 0})]
  /\ UNCHANGED <<scanVars, engineVars, netVars, demuxVars, pc, tries, pend, broken, got, verdict>>

-----------------------------------------------------------------------------
(* The reader *)

\* run_reader of the link layer: a reply goes to the waiter of the address it announces.
LinkFrame(w) ==
  /\ reader = "run" /\ proto = "link" /\ w \in wire
  /\ wire' = wire \ {w}
  /\ Dispatch(w)
  /\ UNCHANGED <<scanVars, engineVars, held, answers, pc, left, slice, tries, pend, broken,
                 got, verdict>>

\* deliver_reply: the waiter's context is read under one lock and the reply held against it
\* (sender, type, sequence, marker) ...
CheckReply(w) ==
  /\ reader = "run" /\ proto = "icmp" /\ held = NoKey /\ w \in wire
  /\ wire' = wire \ {w}
  /\ \E valid \in BOOLEAN : held' = IF w \in waiters /\ valid THEN w ELSE NoKey
  /\ UNCHANGED <<scanVars, engineVars, answers, demuxVars, pc, left, slice, tries, pend,
                 broken, got, verdict>>

\* ... and the reply dispatched under the next.
DispatchReply ==
  /\ reader = "run" /\ held # NoKey
  /\ held' = NoKey
  /\ Dispatch(held)
  /\ UNCHANGED <<scanVars, engineVars, wire, answers, pc, left, slice, tries, pend, broken,
                 got, verdict>>

\* A fatal recv error or a panic: ReaderExit poisons the demux.
ReaderDies ==
  /\ reader = "run"
  /\ reader' = "dead"
  /\ held' = NoKey
  /\ Poison
  /\ UNCHANGED <<scanVars, engine, wire, answers, pc, left, slice, tries, pend, broken, got,
                 verdict>>

\* The scan is over and drops the prober: the reader is stopped and joined, or aborted.
DropEngine ==
  /\ \A p \in Probes : pc[p] = "done"
  /\ reader = "run"
  /\ reader' = "off"
  /\ held' = NoKey
  /\ UNCHANGED <<scanVars, engine, wire, answers, demuxVars, pc, left, slice, tries, pend,
                 broken, got, verdict>>

-----------------------------------------------------------------------------
(* A probe begins *)

\* probe returns, and its locals go with it.
End(p, v) ==
  /\ pc' = [pc EXCEPT ![p] = "done"]
  /\ verdict' = [verdict EXCEPT ![p] = v]
  /\ left' = [left EXCEPT ![p] = 0]
  /\ slice' = [slice EXCEPT ![p] = 0]
  /\ broken' = [broken EXCEPT ![p] = FALSE]
  /\ got' = [got EXCEPT ![p] = FALSE]

\* The target has the wrong family, or no usable interface reaches it.
LocalFault(p) ==
  /\ pc[p] = "idle" /\ proto = "link"
  /\ End(p, "fault")
  /\ UNCHANGED <<scanVars, engineVars, netVars, demuxVars, tries, pend>>

\* get_or_open: the first probe opens the engine, and its failure is cached for all.
OpenFails(p) ==
  /\ pc[p] = "idle" /\ engine \in {"none", "failed"}
  /\ engine' = "failed"
  /\ End(p, "fault")
  /\ UNCHANGED <<scanVars, reader, netVars, demuxVars, tries, pend>>

\* The engine is open, and the waiter is registered before anything is sent.
Start(p) ==
  /\ pc[p] = "idle" /\ engine \in {"none", "open"}
  /\ engine' = "open"
  /\ reader' = IF engine = "none" THEN "run" ELSE reader
  /\ Register(<<p, 0>>)
  /\ pc' = [pc EXCEPT ![p] = "send"]
  /\ UNCHANGED <<scanVars, netVars, left, slice, tries, pend, broken, got, verdict>>

-----------------------------------------------------------------------------
(* send_and_await_reply: a link-layer probe *)

\* per_attempt_timeout, with MIN_ATTEMPT_SLICE one tick.
PerAttempt == Max({Timeout \div (Retries + 1), 1})

\* Mutant: the wait of the last attempt has no timer.
TimerFiresMutant(p) == slice[p] = 0 /\ left[p] > 0

\* timeout_at(attempt_deadline, ..)
TimerFires(p) == slice[p] = 0

\* The attempt that elapsed was the last one, or the deadline is over.
GivesUp(p) == left[p] = 0 \/ tries[p] > Retries

LinkSend(p) ==
  /\ proto = "link" /\ pc[p] = "send"
  /\ tries' = [tries EXCEPT ![p] = @ + 1]
  /\ slice' = [slice EXCEPT ![p] = Min({PerAttempt, left[p]})]
  /\ pc' = [pc EXCEPT ![p] = "wait"]
  /\ UNCHANGED <<scanVars, engineVars, netVars, demuxVars, left, pend, broken, got, verdict>>

LinkSendFails(p) ==
  /\ proto = "link" /\ pc[p] = "send"
  /\ broken' = [broken EXCEPT ![p] = TRUE]
  /\ pc' = [pc EXCEPT ![p] = "leave"]
  /\ UNCHANGED <<scanVars, engineVars, netVars, demuxVars, left, slice, tries, pend, got, verdict>>

\* reply_to_outcome: a closed channel reads as absence.
LinkReceive(p) ==
  /\ proto = "link" /\ pc[p] = "wait" /\ mail[<<p, 0>>] # "none"
  /\ End(p, CASE mail[<<p, 0>>] = "reached" -> "reached"
              [] mail[<<p, 0>>] = "failed" -> "fault"
              [] OTHER -> "absent")
  /\ UNCHANGED <<scanVars, engineVars, netVars, demuxVars, tries, pend>>

\* The timer fires on an empty channel: retransmit, or give up.
LinkElapsed(p) ==
  /\ proto = "link" /\ pc[p] = "wait" /\ mail[<<p, 0>>] = "none" /\ TimerFires(p)
  /\ pc' = [pc EXCEPT ![p] = IF GivesUp(p) THEN "leave" ELSE "send"]
  /\ UNCHANGED <<scanVars, engineVars, netVars, demuxVars, left, slice, tries, pend, broken, got,
                 verdict>>

\* Mutant: a probe that gives up leaves its waiter behind.
TakeOutMutant(w) == UNCHANGED demuxVars

TakeOut(w) == Deregister(w)

LinkLeave(p) ==
  /\ proto = "link" /\ pc[p] = "leave"
  /\ TakeOut(<<p, 0>>)
  /\ End(p, IF broken[p] THEN "fault" ELSE "absent")
  /\ UNCHANGED <<scanVars, engineVars, netVars, tries, pend>>

-----------------------------------------------------------------------------
(* IcmpProber::probe *)

\* The next echo, unless the deadline is over.
NextEcho(p, n) ==
  IF left[p] = 0
    THEN pc' = [pc EXCEPT ![p] = "collect"] /\ UNCHANGED demuxVars
    ELSE pc' = [pc EXCEPT ![p] = "send"] /\ Register(<<p, n>>)

\* An echo was sent: pause before the next, unless the pause would outlast the deadline.
EchoSent(p) ==
  /\ proto = "icmp" /\ pc[p] = "send"
  /\ tries' = [tries EXCEPT ![p] = @ + 1]
  /\ pend' = [pend EXCEPT ![p] = @ \cup {tries[p]}]
  /\ \/ /\ tries[p] + 1 = Count \/ (Pause > 0 /\ Pause >= left[p])
        /\ pc' = [pc EXCEPT ![p] = "collect"]
        /\ UNCHANGED <<slice, demuxVars>>
     \/ /\ tries[p] + 1 < Count /\ (Pause = 0 \/ Pause < left[p])
        /\ pc' = [pc EXCEPT ![p] = "pause"]
        /\ slice' = [slice EXCEPT ![p] = Pause]
        /\ UNCHANGED demuxVars
  /\ UNCHANGED <<scanVars, engineVars, netVars, left, broken, got, verdict>>

\* The send is refused: by the local system, a fault, or as evidence of absence.
EchoFails(p) ==
  /\ proto = "icmp" /\ pc[p] = "send"
  /\ \E fault \in BOOLEAN : broken' = [broken EXCEPT ![p] = fault]
  /\ pc' = [pc EXCEPT ![p] = "leave"]
  /\ UNCHANGED <<scanVars, engineVars, netVars, demuxVars, left, slice, tries, pend, got, verdict>>

\* The socket does not become writable before the deadline.
EchoElapsed(p) ==
  /\ proto = "icmp" /\ pc[p] = "send" /\ left[p] = 0
  /\ pc' = [pc EXCEPT ![p] = "leave"]
  /\ UNCHANGED <<scanVars, engineVars, netVars, demuxVars, left, slice, tries, pend, broken, got,
                 verdict>>

\* deregister, then send_failure_fault: a fault delivered meanwhile outranks the send error.
EchoLeave(p) ==
  /\ proto = "icmp" /\ pc[p] = "leave"
  /\ TakeOut(<<p, tries[p]>>)
  /\ broken' = [broken EXCEPT ![p] = @ \/ mail[<<p, tries[p]>>] = "failed"]
  /\ pc' = [pc EXCEPT ![p] = "collect"]
  /\ UNCHANGED <<scanVars, engineVars, netVars, left, slice, tries, pend, got, verdict>>

PauseEnds(p) ==
  /\ proto = "icmp" /\ pc[p] = "pause" /\ slice[p] = 0
  /\ NextEcho(p, tries[p])
  /\ UNCHANGED <<scanVars, engineVars, netVars, left, slice, tries, pend, broken, got, verdict>>

\* The receivers are awaited in the order their echoes were sent.
Collecting(p) == Min(pend[p])

Collect(p) ==
  /\ proto = "icmp" /\ pc[p] = "collect" /\ pend[p] # {}
  /\ mail[<<p, Collecting(p)>>] # "none"
  /\ got' = [got EXCEPT ![p] = @ \/ mail[<<p, Collecting(p)>>] = "reached"]
  /\ broken' = [broken EXCEPT ![p] = @ \/ mail[<<p, Collecting(p)>>] = "failed"]
  /\ pend' = [pend EXCEPT ![p] = @ \ {Collecting(p)}]
  /\ UNCHANGED <<scanVars, engineVars, netVars, demuxVars, pc, left, slice, tries, verdict>>

CollectElapsed(p) ==
  /\ proto = "icmp" /\ pc[p] = "collect" /\ pend[p] # {}
  /\ mail[<<p, Collecting(p)>>] = "none" /\ left[p] = 0
  /\ pc' = [pc EXCEPT ![p] = "drop"]
  /\ UNCHANGED <<scanVars, engineVars, netVars, demuxVars, left, slice, tries, pend, broken, got,
                 verdict>>

CollectLeave(p) ==
  /\ proto = "icmp" /\ pc[p] = "drop"
  /\ TakeOut(<<p, Collecting(p)>>)
  /\ pend' = [pend EXCEPT ![p] = @ \ {Collecting(p)}]
  /\ pc' = [pc EXCEPT ![p] = "collect"]
  /\ UNCHANGED <<scanVars, engineVars, netVars, left, slice, tries, broken, got, verdict>>

\* min_rtt_outcome: an answer outranks a fault, and a fault outranks silence.
IcmpEnds(p) ==
  /\ proto = "icmp" /\ pc[p] = "collect" /\ pend[p] = {}
  /\ End(p, CASE got[p] -> "reached"
              [] ~got[p] /\ broken[p] -> "fault"
              [] OTHER -> "absent")
  /\ UNCHANGED <<scanVars, engineVars, netVars, demuxVars, tries, pend>>

-----------------------------------------------------------------------------

LinkStep(p) ==
  \/ LinkSend(p) \/ LinkSendFails(p) \/ LinkReceive(p) \/ LinkElapsed(p) \/ LinkLeave(p)

IcmpStep(p) ==
  \/ EchoSent(p) \/ EchoFails(p) \/ EchoElapsed(p) \/ EchoLeave(p) \/ PauseEnds(p)
  \/ Collect(p) \/ CollectElapsed(p) \/ CollectLeave(p) \/ IcmpEnds(p)

ProbeStep(p) == LocalFault(p) \/ OpenFails(p) \/ Start(p) \/ LinkStep(p) \/ IcmpStep(p)

ReaderStep ==
  \/ \E w \in Waiters : LinkFrame(w) \/ CheckReply(w)
  \/ DispatchReply
  \/ ReaderDies

Over ==
  /\ \A p \in Probes : pc[p] = "done"
  /\ reader # "run"
  /\ UNCHANGED vars

Next ==
  \/ \E p \in Probes : ProbeStep(p)
  \/ ReaderStep
  \/ \E w \in Waiters : HostAnswers(w)
  \/ Tick
  \/ DropEngine
  \/ Over

\* A spawned probe is polled when its timer or its channel is ready, and time goes on.
Fairness == WF_vars(Tick) /\ \A p \in Probes : WF_vars(ProbeStep(p))

Spec == Init /\ [][Next]_vars /\ Fairness

-----------------------------------------------------------------------------
(* Properties *)

\* Waiters a probe will still await.
Awaited(w) ==
  \/ proto = "link" /\ w[2] = 0 /\ pc[w[1]] \in {"send", "wait"}
  \/ proto = "icmp" /\ w[2] \in pend[w[1]] /\ pc[w[1]] # "drop"
  \/ proto = "icmp" /\ pc[w[1]] = "send" /\ w[2] = tries[w[1]]

Alone(p) == proto = "icmp" \/ \A q \in Probes \ {p} : addrOf[q] # addrOf[p]

\* Whatever probes, reader and clock do between two locks of the demux, a waiter that is
\* still awaited is registered or has its answer: the reader never drops a reply that a
\* probe of an address of its own is waiting for (register before send, deregister by key).
LoneProbeHeard ==
  \A w \in Waiters : Awaited(w) /\ Alone(w[1]) =>
    w \in waiters \/ mail[w] \in {"reached", "failed"}

\* A probe that ended, by whichever of its returns, left no waiter in the shared map, which
\* would otherwise grow with the scan.
NoWaiterLeaks == \A w \in waiters : pc[w[1]] # "done"

\* A dead reader is never absence (ReaderExit, poison, register): a probe that was waiting
\* when the reader died, or that registered afterwards, does not report a dark host.
DeadReaderIsFault == \A w \in struck : verdict[w[1]] # "absent"

\* Every probe reports a verdict, whatever is lost, refused or dead.
EveryProbeEnds == \A p \in Probes : <>(verdict[p] # "none")

\* docs/site/docs/probe/arp.md:56, "a silent timeout is the only shape absence can take":
\* no probe awaits a channel whose sender is gone.
AbsenceIsTimeout == \A w \in Waiters : Awaited(w) => mail[w] # "closed"
=============================================================================
