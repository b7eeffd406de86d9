# rastreo in TLA+

rastreo is a network discovery tool. A scan resolves a list of targets, runs a
set of probers against every target with bounded concurrency, fuses what the
probers found into device records and writes the records to a sink (stdout,
file, memory, Kafka, NATS, or a tee over several). A scan can leave a checkpoint
and be resumed by a later process. An HTTP server and a command line drive the
same core.

This directory models the parts of rastreo whose correctness depends on the
order of events: TLA+ modules, TLC configurations that check them on small
instances, and TLAPS proofs that hold for every instance. `PROJECT.json` lists
the components, the runs, the mutants that show each property can fail, the
source lines every definition stands for, the hazards and the theorems.

## The system and its parts

| Part | State | Operations | Hard because |
|---|---|---|---|
| Probe scheduler (`rastreo-core/src/scheduler`) | feed, probes in flight, outcomes per target, result channel | prime, join, refill, send, cancel | completions in any order, backpressure, cancel at any moment |
| Pipeline (`pipeline.rs`) | reorder buffer, next index, latched errors | poll the scan, receive, drain, emit, finish, close | two halves in one task, errors that do not stop the loop |
| Checkpoint (`checkpoint/`, `atomic_file.rs`) | one file, cadence counter | preflight, flush-then-persist, finalize, resume | crash between two steps, off-by-one between local and global index |
| Sinks (`sink/`) | buffer, pending acknowledgements, dead-letter counters | write, flush, close, probe | partial failure, retry, sharing between scans |
| Resolver and plan (`resolver/`, `plan.rs`) | address intervals, DNS pins | merge, count, stream | boundaries of the address space, overlapping specs |
| Fusers (`fuser/`) | buffered records, union-find | ingest, finish | transitive merging, hash order, conflicts |
| Topology, collection profiles | reports, indexes of emitted records | observe, finish | both ends report, correlation only at the end |
| Classifier | none that outlives a call | classify | rules that compete for slots |
| Probers (`prober/`) | shared sockets, waiters, retries, walks | probe | late answers, one reader for many probes |
| Server (`rastreo-server/`) | in-flight counter, metrics, sink health | POST scans, readiness, background sink probe | concurrent requests, timeouts that drop a handler |
| Command line (`rastreo/`) | scenario loop, signal watch | discover | several scenarios, exit codes |
| Encoders, configuration, record model, observability | none that outlives a call | | pure functions of their input |

How they interact: the command line or a server request calls `run_discovery`.
That call vets the checkpoint request, builds plan, sink, fuser and probers, and
runs `stream_discovery`, which owns the `run_scan` future and polls it in the
same `select!` that receives finished targets from a bounded channel. Each
target is fused, classified, encoded and written in input order; at a cadence
the sink is flushed and the checkpoint file replaced. A watch channel carries
the cancel request. Only the sink's destination and the checkpoint file outlive
the process.

What makes each part correct:

* scheduler: bounded window, no lost or doubled outcome, a contiguous prefix on
  cancel, no deadlock with its consumer;
* pipeline: emission in input order without gaps, an end in every case, an error
  never reported as success;
* checkpoint: never ahead of the sink, never moving back, removed only on
  completion, and a resumed scan that skips nothing;
* sinks: a successful flush means every record is at the destination or in the
  dead-letter queue;
* resolver: counts that agree with the stream, no address outside the
  allow-list, no lookup failure taken for an empty answer;
* server: never more scans than the limit, every slot released, readiness that
  follows the sink;
* fusers: records merge exactly when a chain of strong pairs connects them,
  whatever order the hash tables give;
* second streams: one link per pair of devices, one profile per address, each
  naming a record that was really emitted;
* probers: a reply reaches the probe that waits for it, a dead reader is a fault
  and not a dark host, every probe ends.

## Modules

| Module | Models |
|---|---|
| `ScanScheduler` | `BoundedScheduler::run_scan`, `Feed`, the result channel |
| `DiscoveryRun` | `run_discovery`, `stream_discovery`, `CheckpointWriter`, the `Sink` contract, crashes and restarts; extends `ScanScheduler` |
| `ResumableScan` | what a resumable scan promises, without processes or files |
| `BrokerSink` | what the broker sinks share: `PendingBuffer`, `retry_with_backoff`, the tee's shared child with its mutex and attribution, the scans of the server and their request timeout |
| `NatsSink` | `sink/nats.rs`: pipelined device publishes, deferred acknowledgements, client permits; extends `BrokerSink` |
| `KafkaSink` | `sink/kafka.rs`: whole batches, clients connected on first use; extends `BrokerSink` |
| `ScanRoutes` | `routes/scans.rs`: admission, guards, outcome counters, progress loggers |
| `ScanServer` | the server process: sink probe task, readiness, shared lock, shutdown; extends `ScanRoutes` |
| `AllowSweep` | `uncovered_point`: the allow-list sweep, one turn of the loop per step |
| `TargetPlan` | the resolver: planning, DNS, overlaps, guard, caps, replay of pins; extends `AllowSweep` |
| `UnionFind` | the fuser's union-find, one pointer per step |
| `IdentityFuser` | direct fuser, MIB enrichment, identity fuser; extends `UnionFind` |
| `SecondStreams` | classifier, topology and profile assemblers behind the fuser; extends `IdentityFuser` |
| `ProbeEngine` | demultiplexer, readers and probe loops of ARP/NDP and ICMP |
| `DiscoveryProofs` | proofs about `ScanScheduler` and `DiscoveryRun` |
| `KafkaProofs`, `NatsProofs` | proofs about the two broker sinks |
| `ServerProofs` | proofs about `ScanRoutes` and `ScanServer` |
| `SequenceProofs` | lemmas on induction, folds and sequences for the next two |
| `PlanProofs` | proofs about `AllowSweep` and `TargetPlan` |
| `FuserProofs` | proofs about `UnionFind`, `IdentityFuser` and `SecondStreams` |
| `ProbeProofs` | proofs about `ProbeEngine` |
| `MC_Scheduler`, `MC_Discovery`, `MC_Nats`, `MC_Kafka`, `MC_Server`, `MC_Plan`, `MC_Fuser`, `MC_Probe` | the modules TLC runs |

### ScanScheduler

A probe is a pair of target and pass. `feed` is `Feed` (targets pulled, next
pass of the last one), `inflight` is the `JoinSet` with `coord_by_id`, `live`
and `targetMap` are the maps of the same names, `chan` is the mpsc channel of
capacity `Cap`. `PrimeSpawn` and `PrimeEnd` are the prime loop. `Join(c)` is one
turn of the join loop up to its only await: record, refill, take out a complete
target. `Send` is that await. `SendFails` is the receiver being gone.
`ScanReturns` is `join_next` yielding `None`.

A task's end and its join are one step, since `join_next` returns finished tasks
in any order. What a probe found does not matter to the scheduler: a success, a
fault and a panicked task all fill a slot. The pacer only delays a start inside
the task.

### DiscoveryRun

`cpc` is the place in the code where the process is:

    idle -> select <-> drain -> flush -> persist -> drain/select
            select -> tail -> close -> finalize -> complete | idle

`PollScan` is the scan branch of the `select!`: a step of `run_scan` can only
happen there, because the future is polled in the same task. `RecvScan` is the
recv branch. `DrainTarget` is one turn of the drain loop, `HaltInDrain` and
`HaltInTail` the `?` that leaves it, `FlushForCheckpoint` and
`PersistCheckpoint` the two halves of `maybe_checkpoint`, `LoopEnds` the `None`
of `recv`, `EmitTail` the fuser's finish with the links and profiles,
`CloseSink` the drop of the scan and the close, and `ReturnError`,
`FinalizeCancelled` and `FinalizeFinished` the end. `CancelRun` is a signal,
`Crash` the death of the process at any step. The loop that drains stragglers
after the channel closes has no action: `NoStragglers` shows that it never has
anything to do.

Targets are numbered twice, as in the code: from the start of the plan (the
checkpoint, the records) and from the start of this run (scheduler, reorder
buffer). `base` is the difference.

A scenario is "resumable", "holding" (an identity fuser or a prober with a
second stream keeps what it learns until the end) or "volatile" (its sink does
not survive the process). Checkpointing is asked for or not. An operator
restarts an interrupted scan; with a checkpoint file in place that is a resume,
because the preflight refuses anything else.

The sink is its contract. Records handed over are buffered; any of them may
settle at the destination during a write or a failed flush; a successful flush
or close settles all. A failed write may have kept any part of what it was
given.

### ResumableScan

The abstract specification: a set of covered targets, a mark and a flag.
Targets become covered in any order and number. What no mark vouches for may
vanish. The mark moves forward over covered targets only. The scan finishes only
when all is covered.

### BrokerSink, NatsSink, KafkaSink

`DiscoveryRun` has the sink as a contract; these modules look inside the two
sinks for which the contract is hard to keep, in the setting where it is hardest:
a server whose concurrent scans share one sink through a `TeeSink`.

A scan writes its records (`Load`) one call at a time (`WriteRecord`) and then
closes the sink (`CloseSink`), also after a failed write. `Acquire` is the mutex
of the shared child with the read of its dead-letter count, `Return` the release
with the credit, and with the outcome the scan and the server's metric make of
it. Between them `pc` is the place in the call: at the front of a stream, at an
await, or about to return; `op` says whether the call only buffered, published a
batch, or flushes all three streams. `errs` are the streams that failed in this
call. A record is its position in `log`, the order of all writes; `buffer` and
`bytes` are the `PendingBuffer`s, `attempt` the retry loop. `accepted` and
`quarantined` are what the destination and the dead-letter destination took.
`config` is chosen once, from `Configs`: threshold, attempts, dead-letter queue.
Zeros are among them, because the code clamps them.

`NatsSink` adds the pending acknowledgements. `PublishAccepted`, `PublishFails`
and `WalkDone` are the loop of `publish_buffer`, `TakeAcks`, `AckArrives`,
`AckFails`, `QuarantineUnacked` and `DrainEnds` are `drain_pending_acks`, which
takes all pending acknowledgements into a local (`draining`) and puts back in
front what it could not place (`unacked`). The loop drains when `ShouldDrain`
says so, and the drain changes the buffer the loop is walking (`midWalk`).
`StreamPublish` and `StreamAck` are links and profiles, one record at a time. A
publish needs a permit of the client (`PermitFree`).

`KafkaSink` produces a stream as one batch: `Connect`, `Produced`,
`ProduceFails`, `Quarantine`, `NothingToProduce`.

`Timeout` is the request timeout of the server: it drops a scan wherever it is
suspended. A dropped call gives the mutex back and loses its locals: in
`KafkaSink` the client it had taken, in `NatsSink` the acknowledgements it was
draining, whose permits the client releases later (`ReleasePermit`).

### ScanRoutes, ScanServer

Clients never stop. A request id is "free" until a request takes it: a dry run
("planning"), a scan that is "refusing" (its increment of the gauge is to be
rolled back), "running", "unwinding" (its future ended or was dropped and the
guards run), "releasing" or "answered"; `Recycle` makes the id free again, so
that requests come without end and `Requests` only bounds how many are there at
once. `counted` is what a request added to the outcome counters. A body that does
not parse leaves no trace and has no step. A step is the code between two accesses to shared state, so `TryAcquire` is the `fetch_add`
with its comparison and `RollBack` the `fetch_sub` that follows later: other
requests see the speculative increment. `DropFuture` is the request timeout or a
closed connection at any await; `DropOutcomeGuard` and `DropInflightGuard` are
the two destructors, in Rust's order.

`ScanServer` adds the task of `sink_probe.rs`. A cycle is `BeginCycle`, a build
if the slot is empty, the lock (`Lock`, or `SkipProbe` when it takes too long) and
the probe (`ProbeEnds`); `CyclePanics` is a cycle caught by `guard_panics`, as
often as it likes. A build is `ConfigRead`, `Parsed` and `Built`, or `NotBuilt`
from any of the three. One deadline bounds the read of the config file and
`create_sink`, but not `parse_sink_config` between them, which reads the `!file`
paths with blocking calls: while "parsing" no timer ends the wait, the task sees
no shutdown, and `parseTime` keeps how long it took. `create_sink` may then find
its deadline in the past. Such a read holds one thread of the runtime; the others
are taken to carry on. At startup the same build runs before the server listens,
so nothing is served while it hangs.

The lock is the mutex the scans' sink calls hold (`SinkCall`, `SinkReturns`), a
FIFO queue; a dry run queues there, too, because the plan asks the sink for its
destinations (`StartPlan`, `PlanEnds`). `ReadyReason` is what `/readyz` answers
from the cached verdict and the stamps. Time is discrete: `Clock` advances every
age, by one or, while a `!file` read hangs, by one of `ReadSteps`, and waits for
what the runtime does at once. `SinkChanges` makes the destination fail, hang or
recover, `FilesChange` the files. `Signal`, `GracefulDone`, `ProbeJoined` and `ForceExit`
are the end of `main`.

### AllowSweep, TargetPlan

An address is a family and a number up to `MaxAddr`, which stands for the last
address of the space; the arithmetic that saturates, wraps or is cut to `usize`
in the code does so here, at `MaxAddr` and `UsizeMax`. `PlanIp`, `PlanCidr`,
`PlanRange` and the lookups push one spec each, or refuse. `BeginOverlaps`,
`OverlapStep` and `EndOverlaps` are `find_overlaps`; `GuardBlock`, `GuardSweep`,
`GuardBlockDone`, `GuardPoints` and `GuardCap` are `check_allowed` and the host
cap of the guarded resolver, which may have no allow-list and no cap (`guarded`
and `capped` of the input). `Resume` is `from_pinned` on the targets a later
process finds (`Edits`): the same, reversed, with one dropped, repeated or put in
another's place. The fingerprint of the checkpoint refuses most of these before;
`from_pinned` checks for itself, and that is what is modelled. Looking a name up is external: each family answers
with addresses, with "no records", or fails.

### UnionFind, IdentityFuser, SecondStreams

`UnionFind` takes the pairs in any order (they come out of a `HashMap`) and walks
them pointer by pointer: `Climb`, `Compress`, `Link` (union by rank), then
`ReadBegin` and `ReadEnd` for the component of every record.

`IdentityFuser` drives it: `IngestTarget` fuses a target and holds the record,
`FinishMany` computes the weights of the pairs that meet in a bucket, `Unite` is
a step of the union-find, `EmitGroup` merges the next group or leaves a record
alone and names its best medium-band peer. Signals are opaque values with a
canonical form; weights and confidences are tenths.

`SecondStreams` is what the pipeline does around the fuser. `EmitTargetRecords`
lets the two assemblers read the outcomes before the fuser does, `FuserFinish`
is the fuser's end, `EmitRecord` classifies and indexes the next record, and
`FlushStreams` builds links and profiles when all are indexed. A classifier rule
is the set of texts its regex matches with what its groups capture there.
`StreamsJoin` promises an identity to an end that was itself probed, and to one
that only its neighbour reported if every report names it by a MAC some record
has. It promises none to an end reported with different subtypes: the code keeps
the subtype of the first report and looks the chassis up by that one alone.

### ProbeEngine

A waiter is an echo of a probe; `mail` is its oneshot channel. Every lock of the
demultiplexer is a step of its own: `Register`, `Dispatch`, `Deregister`,
`Poison`. `LinkFrame` is the reader thread of the link-layer engine, `CheckReply`
and `DispatchReply` the ICMP reader, which decides and dispatches separately.
`LinkSend`, `LinkReceive`, `LinkElapsed` and `LinkLeave` are the loop of a
link-layer probe with its slices of the timeout, the `Echo` and `Collect` actions
that of ICMP. `HostAnswers` puts answers on the wire, late or never, for the link
layer also unasked: the reader hands an announcement to the waiter of its address
whether or not the request was sent yet. `ReaderDies` kills the reader at any
moment, and `Tick` fires the timers.

## Runs

| Run | Instance | States | Shows |
|---|---|---|---|
| `scheduler` | 4 targets, 2 probers, cap 3 | 5 122 | window full under backpressure, outcomes conserved, prefix on cancel, always ends |
| `discovery` | 4 targets (one silent), 2 probers, cap 3, interval 2, 4 faults | 520 523 | implements `ResumableScan`; checkpoint safe and monotone, completion means delivery, boundary after cancels, completion |
| `nats` | 2 scans, 5 records, 3 configurations, 1 timeout | 353 147 | success means delivery and order is kept while no call is dropped; permits never run out, every scan ends |
| `nats_lost` | the same, batched without dead-letter stream | violation | a dropped drain loses the records of another scan |
| `kafka` | 2 scans, 6 records, 2 configurations, 1 timeout | 138 203 | nothing lost and success means delivery, dropped calls included; an honest delivered flag |
| `server` | 2 requests at a time, limit 1, interval and timeouts 1, hung reads of 7 and more | 356 664 | admission bounded, gauge and counters exact, no stall but in `!file` reads, no lock held by a dead request; readiness returns, outages are reported unless every probe is skipped or panics, shutdown and loggers end |
| `server_drain` | the same with interval 2 | violation | joining the probe task is not capped by the shutdown timeout |
| `resolver` | 16 addresses per family, `usize` of 8, allow-lists of up to 2 networks, up to 3 targets | 241 030 | sweep, guard, counts, overlaps, lookup failures and replay against definitions by sets of addresses |
| `fuser` | up to 4 of 10 target results, bucket cap 3 | 306 445 | buckets lose no pair, components exact, merged records as documented, links and profiles joined to them |
| `fuser_alias` | the same | violation | an alias may name a record that no longer exists |
| `probe` | 2 probes of one or two addresses, ARP/NDP or ICMP, timeout 2, 1 retry, 2 echoes | 850 956 | a lone probe hears its answer, no waiter leaks, a dead reader is a fault, every probe ends |
| `probe_orphan` | the same | violation | a probe that leaves may take out another probe's waiter, which then reads absence |

Bounds. Four targets with two probers and a cap of three make the window end in
the middle of a target, which is where torn targets arise, and leave targets to
refill with. The interval of two puts checkpoints between targets, so that work
is lost and done again. Four faults allow a failure, a failure of the resume, and
more in the runs that follow. `MaxFaults` bounds cancels, failures and crashes
together; it is the only bound there that is not part of the system.

In the sink runs two scans are enough for one to publish, fail or drop what the
other wrote. Their loads have all three streams, records that fill a batch alone
and records that fill it together, and the configurations have the per-record
mode, the batched mode and, with it, the dead-letter queue and a second attempt.
Two pending acknowledgements and two permits make both limits bite within one
batch; the code has more of each, in the same relation (`PermitAssumption`).
`MaxTimeouts` bounds dropped requests. Failures need no bound: each call fails or
succeeds freely, and the scans' loads end.

In the server runs two requests at a time against a limit of one make a refusal,
its rollback and an admission overlap; the probe task, its lock and both requests
meet in one queue. Requests, panics and changes of the sink and the files have no
bound. A hung read is looked at every 7 units: after the first it outlasts a
legitimate cycle (4) without being a stall, after the second it is one (more than
`StaleAfter`, 12). With an interval of one a cycle against a hung sink outlasts
the interval and ticks are missed. Ages stop where nothing tells them apart. The
proofs cover the other values.

Four-bit addresses and a three-bit `usize` put both ends of the space, the
saturation and the wrap within reach; all networks of both families and ranges
between eight boundary addresses are tried alone against every allow-list of up
to two of eight networks, and eight targets that touch, nest and repeat are tried
in lists of up to three, with and without allow-list and cap; without a cap sums
reach the end of `usize`.

The ten target results of the fuser run share a MAC and a name in two spellings,
a host key, certificate names and a virtual MAC, so that chains of strong pairs,
ties between peers, values over the cap and declared VRRP members all occur among
four targets; two report each other over LLDP, one wrongly, others report
themselves, blanks and unprobed neighbours, and one address has two gNMI
endpoints. Two probes are what a collision needs; `MaxAnswers` bounds the replies
to one request.

Fairness. `run_scan` and the consumer are polled by the runtime as long as they
can move: probes end because each runs under a timeout, sink calls because they
return. The operator is assumed to restart an interrupted scan. Crashes, cancels
and failures are never forced. `ScanEnds` also assumes a consumer that keeps
receiving or is gone; in `DiscoveryRun` the consumer is the model's own. For the
sinks: calls into the broker clients return (connects and acknowledgements time
out, retries have a budget), the mutex reaches a waiting scan (tokio's is fair),
and the client resolves acknowledgements nobody awaits; there, requests are never
forced to time out. For the server: time passes, however often a sink or a file
comes and goes (strong fairness of `Clock`), the probe task, the destructors and
the loggers are polled, and a request that runs forever is dropped in the end,
which is the request timeout. Clients may send for ever or stop; nothing makes a
hung sink or a hung read recover. So the properties name what they need:
`ReadyAgain` a sink that stays up and clients that fall silent, because scans that
keep coming may fill the limit or renew the error stamps; `ExitsAfterSignal` that
no build hangs in a read for good, because `main` joins the probe task.
`OutageReported` names what keeps an outage from `/readyz`: requests that keep
the probe from the lock for a whole timeout, cycle after cycle, so that probes are
skipped for ever, as `docs/site/docs/reference/health-endpoints.md:163` says, or ticks that
panic for ever. For the probes: time passes and the
probe tasks are polled; the reader and the network owe nothing.

The violations are places where the documentation says more than the code does;
`PROJECT.json` quotes them under `findings`. In `nats_lost`, scan b's call is
draining scan a's acknowledgement when b's request times out; the broker refuses
the record; a closes with success. Kafka has no such case, because its buffer is
settled only after the broker took the batch, and `KafkaProofs` shows it in
general.

### Observations without a run of their own

Statements in the repository that the models also refute. Those with a name are
definitions of their module and can be put into its configuration.

* `StartedTargetsReport` (`ScanScheduler`): `scheduler/mod.rs:281`
  says a started target "still reports every prober's outcome"; a cancel between
  the spawns of its probers drops it. No partial record is emitted.
* `ResumeRescansOnlyBoundary` (`DiscoveryRun`): `docs/site/docs/discover/cli.md:755`
  says "exactly one target — the boundary — may be scanned in both runs"; after a
  crash or an error it may be everything since the last checkpoint.
* `ReorderWithinWindow` (`DiscoveryRun`): `pipeline.rs:456` says the pipeline
  "never holds the whole scan"; one slow early target makes the reorder buffer
  collect all later ones.
* `NeverCrossCredit`, `MetricCountsEveryQuarantine` (`BrokerSink`): `sink/tee.rs:28`
  says overlapping scans "never cross-credit each other", and `sinks.md:130` that
  each dead-letter delivery increments the metric; the scan that fills a batch is
  credited with the others' deliveries, and those of a failing scan are not
  counted.
* `CappedValueNeverMerges` (`IdentityFuser`): `docs/site/docs/discover/identity.md`
  says a value over the cap contributes "no candidate pairs and no merges"; it
  proposes no pair, but adds its weight to a pair another value proposes.
* `DeclaredMembersStaySeparate` (`IdentityFuser`): `identity.md:101` says declared
  VRRP members surface as aliases "instead of auto-merging"; their own pair is
  capped, but a third record can join them.
* Profiles: `docs/site/docs/discover/collection-profile.md` says rastreo emits
  "one profile per endpoint"; two gNMI endpoints on one address yield one profile,
  the first, also in `observed_at`.
* Links: `docs/site/docs/discover/topology.md` gives the order of correlation as
  MAC, hostname, IP address; the code tries the probed chassis first and the
  address before the hostname. Parallel cables between two chassis are one link.
* Skipped probes: `sink_probe.rs:305` and `health-endpoints.md:163` say that a
  skip needs a single sink operation longer than the probe timeout. The mutex is
  FIFO: two shorter ones queued before the probe also add up to it (in
  `ScanServer` with a `ProbeTimeout` of two).
* Overlapping targets under ARP make both probes faults, though `targets.md:145`
  says each is probed; and a link-layer answer in hand is dropped when a
  retransmission fails (`prober/link_layer.rs:481`).

## Proofs

### Pipeline

For every number of targets, probers, slots, interval and faults:

* `Invariance`: `IndInv` holds. From it: `TypeCorrect`, `CheckpointSafe`,
  `CompleteSafe`, `StragglersUnreachable`, `EmissionOrdered`.
* `CheckpointAdvances`: the checkpoint only moves forward, and goes only when the
  scan is complete.
* `Refinement`: `DiscoveryRun` implements `ResumableScan`.
* `RunScanConserves`, `ReportsPrefix`: the scheduler on its own, against a
  consumer that is slow or gone, keeps every outcome in exactly one place and
  reports a prefix of the plan to a consumer that listens (`ListenedInv`).
* `WindowFull`: exactly `Cap` probes are in flight while there is work and no
  cancel. What is inductive is `WindowCount`: in the prime loop the window has as
  many probes as were spawned, it never exceeds the cap, and the probe the feed
  gives next was not handed out before, so that a refill adds one.
* `CancelLosesNoGround`: after clean cancels only the boundary target is scanned
  again. `BoundaryInv`: a run starts at the index of the file, hands the sink
  nothing beyond the targets it has drained, and until a process ends abruptly
  nothing at the destination lies beyond both the file and the run.

The assumptions are those on the constants: at least one prober (the scenario's
validation refuses none), and natural numbers otherwise.

Why the invariant is what it is. That the checkpoint is safe needs only the
consumer's side: all below `base` is covered, and all between `base` and the next
index is with the sink, held or silent unless an error was latched
(`EmissionInv`); at the moment of the write the buffer is empty and nothing is
held, because only an eligible scenario gets there (`EligibleInv`). That
completion means delivery needs the scheduler's side as well: when `run_scan`
returns, every target but perhaps the last one pulled was sent, and all of them
if no cancel was seen (`DoneInv`). This follows from the place every outcome has
(`PlacesInv`: in flight, live, or with its target on the way), from what the feed
has handed out (`FeedInv`), and from a window that is not empty while there is
work (`WindowInv`). `ReorderInv` ties the two together: what was received is the
drained prefix and the reorder buffer; so an empty channel with a gap in the
buffer would contradict the prefix that was sent. `DiscoveryProofs` shows the
scheduler's part action by action, then the rest, then sorts all steps into four
shapes (`StepShapes`) from which the last two theorems follow.

### Kafka sink

For every set of scans, all loads, all configurations and any number of request
timeouts: `KafkaInvariance`, and from it `KafkaNothingDropped`,
`KafkaOkMeansTaken`, `KafkaDeliveredFlagHonest` and
`KafkaFlushReachesEveryStream`. The assumptions are the types of the constants
and that no scan is `NoScan`.

That success means delivery is not inductive. A scan succeeds when its flush
returns without an error, and that says nothing of its records unless every
untaken record is in the buffer of its stream (`KeptInv`) and the flush has
emptied each stream it passed or noted its failure (`FlushInv`). `PublishInv` is
the same for a write that publishes: it is at the stream of the last record, or
has emptied it or noted the error, and nobody wrote since, as the mutex is held.
That carries the delivered flag (`FlagInv`). `CallInv` keeps the credit from
going negative. All the steps within a call have one shape, `CallStepInv`; the
lemmas of the actions show that they have it.

### NATS sink

For every set of scans, all loads, configurations, permits and request timeouts:
`NatsInvariance`, and from it `NatsPermitsSuffice` and `NatsRetainedInOrder`,
which hold also when calls are dropped, and `NatsOkMeansTaken`,
`NatsNothingDropped`, `NatsDeliveredFlagHonest` and `NatsFlushReachesEveryStream`
while none is (`nats_lost` shows that they need this).

A record of the device stream passes through four sequences: the buffer, the
pending acknowledgements, those being drained, and those that came back.
`PlaceInv` says which of them can hold records at each place of the call,
`OrderInv` that each is sorted and lies before the next, which is what
`restore_front` has to keep when it puts two of them back together, and `DoneInv`
that a stream the call is done with is empty or among its errors. Permits rest on
`PlaceInv` and on `PermitAssumption`: the sink drains before it has as many
acknowledgements as the client has permits. The byte counts of the buffers decide
only when a batch is published, and the proof lets them be anything.

### Server

For any number of requests, any limit, all intervals and timeouts:
`RouteInvariant`, and from it `LimitHolds`, `NoSlotLeaks` and
`CountedExactlyOnce`; and `StallsOnlyInReads`. The limit rests on the gauge being
exact, the gauge counting also the requests that are about to roll back: an
admission saw a gauge below the limit, hence fewer admitted requests than the
limit. That every scan is counted once needs the guard of a running request to be
armed, so that a dropped future finds it. `ServerStepsAreRouteSteps` carries the
routes' argument into the server. `StallsOnlyInReads` bounds the age of the tick
stamp at each wait of a cycle (`TickInv`): a cycle takes at most three timeouts
and the time of its `parse_sink_config`, which no timer bounds, and a ticker that
is not due has passed no grid point since. The threshold of `/readyz` is three
legitimate cycles, so a stall means a parse of more than two; and a filled slot
is never built again, so that after it every wait has its timeout.

`LockNeverOrphaned`: the queue of the sink's lock holds running scans, dry runs
and the probe task only, each once. A dropped request leaves the queue wherever it stands in
it, so the lemmas are about what taking one entry out of a sequence without
repetitions leaves. The assumption is that the probe task is not a request.
`ProbesUnderLock`: the probe talks to the sink only at the head of that queue.

### Resolver

For an address space and a `usize` of any size, all targets, allow-lists and
answers of the name service:

* `SweepCorrect`: the allow-list sweep answers exactly, for any block and any
  networks sorted by their first address. The invariant is that all below the
  cursor is covered and that every network already passed ends below it.
* `AllowListHolds`: a plan that passes the guard holds allowed addresses only and
  a refusal names a forbidden one; `PlanInv` ties the running sweep to the spec
  under test (`SweepMatches`) and keeps what was passed (`GuardLoop`).
  `PlanSweepCorrect`: the sweep is right whenever the guard uses it.
* `HostCountExact`: the count of a plan that passes is the length of its stream,
  cut at `usize::MAX`, and within the cap if there is one. Counts of large blocks
  saturate and wrap; a block within `host_limit` is none that did, and the sum
  saturates above every cap.
* `NoFailureSkipped`: a failed lookup never skips a name.
* `ResumeReplaysPlan`: the pins taken from a plan rebuild that plan, and for an
  edited list of targets every name gets the addresses it was pinned to or the
  resume is refused. The loop over the targets and the queue of pins it uses up
  stay in step (`NamePins`, `RepinFold`): after each target the queue holds the
  pins of the names still to come.
* `OverlapWarningExact`: the sweep over the sorted intervals names exactly the
  pairs that share an address, or as many as it reports and truthfully that there
  are more. `OverlapInv`: what is found is the meeting pairs among the intervals
  passed, and the open list has every passed interval that can still meet one to
  come. An interval dropped from the list ends before the next begins, hence
  before all that follow in the order (`DropIsFinal`).

Assumed of the constants: the reported numbers are naturals, `MaxTotalHosts` is
below `UsizeMax`, and `UsizeMax` below `MaxAddr`, as a 64-bit `usize` is below
the last of the 128-bit addresses (`LimitsAssumption`); inputs are well formed
(`InputsAssumption`), and answers that succeed are sequences of addresses
(`AnswersAssumption`).

Counts, pins and overlaps are folds over a plan, and the library's induction
theorems take an operator as a parameter. The induction here goes over sets
instead, in `SequenceProofs`: `LeastNat` and `InductionUpTo` say that a set of numbers that has 0 and
with every number its successor has all numbers up to the bound; `FoldExists` and
`FoldRun` use it to show that the recursion of the library's `FoldLeft` has a
solution and that it runs over the prefixes of a sequence one element at a time.
Each lemma about a fold is then an induction over the prefix length. The order in
which the intervals are swept comes from counting those before each one
(`SweepIntervalsSorted`): `Before` is a strict total order on a finite set, so the
counts are a bijection onto `1 .. n`.

### Union-find, fuser and second streams

`ComponentsCorrect`: when all pairs are united two records have one component
exactly when a chain of pairs connects them, for any number of records and any
order. `rep`, a history variable, is the root of every record; the invariant says
the parents agree with it (`Forest`), that united pairs share a root (`Joined`)
and that nothing else does (`Finest`: every labelling that respects the pairs
respects the trees). `NoCycle` is the part about ranks. `FuserUsesUnionFind`
shows that the fuser drives the union-find as specified, hence
`FuserComponentsCorrect`; `StreamsDriveTheFuser` that the pipeline drives the
fuser as specified, hence `StreamsComponentsCorrect`. `IndexesAlwaysExact`: the
indexes links and profiles are resolved with hold the keys of exactly the records
emitted so far, each with the identity of the first record that has it
(`IndexesExact` in `SecondStreams`). `FuserBucketsComplete` and
`StreamsBucketsComplete`: as long as no value is over the cap, the buckets propose
every pair that has a weight; the proof goes signal by signal and shows that two
records which contribute weight to each other have a bucket key in common.

`FuserMergesAsDocumented` and `StreamsMergeAsDocumented`: what `finish` returns is
what the documentation says, for all targets, tables and hints, and whatever order
the hash tables list pairs and peers in. `MergeInv` says that from `finish` on the
records are well formed and those already returned are right for their groups,
taken in the order of the groups' first records. That a returned record is right
comes from what the code's loops compute, each an induction over a fold
(`SequenceProofs`): the signals of a group once each (`FlattenKeeps`, `DedupKeeps`),
a member of highest confidence (`FirstMostIsBest`), an entry of `alt_ips` for every
address but the record's own (`AltIpsCover`), and of the medium peers, in whatever
order they come, the documented one (`PickIsBest`, because `BetterPeer` is a strict
total order and weights do not depend on the order of a pair, `WeightSymmetric`).
`GroupsConnected` turns the representatives of `ComponentsExact` into the sets of
records a chain of pairs connects. Assumed of the constants: confidences start
within bounds (`ConfidenceAssumption`), outcomes come in a sequence with natural
timestamps and their signals in a sequence (`TargetsAssumption`).

`StreamsAlwaysJoin`: once the streams are flushed, links, profiles and classes are
what `StreamsJoin` says, for all targets, rules, tables and merges. The argument
has three parts.

* The loops. `SlotsRight` is the invariant of the loop over the platform rules
  (`PlatformRun`): after n rules a slot is filled exactly when one of the first n
  matches and declares it, and then with what the first such rule captured.
  `PortRight` is that of the loop over the reports of one end (`EndRun`): the port
  is the device's own word for it if one of the first n reports is its own and
  names a port, else a neighbour's word, else blank. Both are inductions over the
  prefix. The filters are `Flatten` over sequences of at most one element, and
  `FlattenPicks` says what such a filter keeps.
* The indexes. At the flush `IndexesExact` says that the address, MAC and name
  indexes answer for the emitted records and for nothing else, so an identity a
  link or a profile names is that of an emitted record.
* The addresses. That an observation finds its device needs more: the address it
  was made at must be among the addresses of some emitted record. `JoinInv` carries
  that through the scan. `HeardOf` says that every observed address belongs to a
  record of the fuser: one in the buffer, then one under merging, then one that
  `finish` returned. Ingestion preserves it because only an outcome that answered
  carries an observation, so `fuse_one` makes a record for it; merging because a
  returned record covers the addresses of its whole group (`GroupCovers`, from
  `MergeInv`). The rest of `JoinInv` says that observations are well formed
  (`LldpOK`, `GnmiOK`), that the returned records are (`OutOK`), that the emitted
  records are the classified prefix of the returned ones (`EmittedOK`), and that
  after the flush the links and profiles are those assembled from all of it.

Assumed here besides: only a reachable outcome carries an LLDP or gNMI observation,
as both `assemble_outcome` functions have it (`prober/lldp.rs`,
`prober/gnmi/mod.rs`), and its lists are sequences (`ObservationsAssumption`); the
rules are sequences (`RulesAssumption`). TLC evaluates both in `MC_Fuser`.

### Probe engines

For any probes, addresses, echoes, retries and deadlines, whatever is lost, late
or dead: `ProbeInvariance`, and from it `EveryLoneProbeHeard`, `WaitersNeverLeak`
and `DeathIsNeverAbsence`. `ProbeInv` follows one waiter from a slot that is still
fresh (`Fresh`), through the map, to the mail it gets: a registered waiter has an
owner and an empty channel, a fresh slot was never in the map, and a waiter that
was told of the reader's death keeps that mail until its probe has turned it into
a fault. The clock is not part of the argument: timers may fire at any time.

### Only model-checked

The liveness properties, as fairness is outside the prover's reach: `ScanEnds`,
`ScanCompletes`, `EveryScanEnds`, `ReadyAgain`, `OutageReported`,
`ExitsAfterSignal`, `LoggersEnd`, `EveryProbeEnds`. Every safety property of a
passing run is a theorem. The runs that expect a violation show a counterexample
and prove nothing beyond it.

## Not modelled

Left out of the pipeline: every error before the first poll (a run that fails
there changes nothing); the fingerprint of a checkpoint, which is taken to match
(the replay of its DNS pins is in `TargetPlan`); the summary's metrics and
progress; a checkpoint path shared by two processes; power loss (a flush reaches
the operating system, and a file that was renamed is there); the pacer, which
only delays a probe's start.

Left out of the sinks: construction, TLS and credentials, the probe; the backoff
delays and the kinds of errors (every error is retried); a record the broker
stored without acknowledging, which is then published twice (the documentation
promises at-least-once); the tee's other children, of which the server has the
in-memory capture that never fails; encoding. Stdout, file and memory sinks are
direct I/O.

Left out of the server: metrics other than the gauge and the outcome counters,
their rendering, the health endpoint that always answers, the schema endpoints.

Left out of the resolver: the dry-run report of `plan.rs`, a rendering of the
plan with samples; classification of resolver errors below "no records" or
"failure". Left out of the fusers: the choice of one from the configuration. Left
out of the classifier: compiling and validating rules, the built-in tables, and
the reuse of capture buffers, which changes no result.

Left out of the probers: packet formats and the probers that own their connection
(TCP, TLS, SSH, HTTP, SNMP with its walk, DNS, gNMI). They share no state between
probes, and each is one request-response exchange under a timeout, which is all
the scheduler sees.

Not modelled at all, see `PROJECT.json`: encoders, configuration, record model
and observability (pure functions of their input, or no effect on a scan), the
command line's loop over scenarios and its exit codes, example consumers, charts
and build tooling. They are most of the repository's lines: tables, parsing,
rendering and tests, where a model would only repeat the text.

## What could follow

The SNMP walk's termination; a tee with several children that fail; the command
line's loop; the broker sinks as implementations of the contract `DiscoveryRun`
assumes.
