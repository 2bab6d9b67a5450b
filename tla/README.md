# TLA+ models of slurm-tracer

slurm-tracer is a node daemon: BPF probes post process events into ring buffers,
one thread polls them, attributes each event to a Slurm job by its cgroup id,
batches the records and hands the batches to sinks, each with a queue and a
worker thread of its own. This directory models the parts of it in which
concurrency, failure and ordering make the code hard to test, checks them with
TLC on small instances and proves every safety property of the runs for all sizes
with TLAPS. Paths below are relative to the repository's `src/`.

## 1. Inventory

| Part | State | Operations | What makes it correct |
|---|---|---|---|
| Sink interface (`core/sink/sink.h`) | none | `write`, `flush`, destructor, `dropped` | never blocks the poll loop on a slow destination, keeps the newest batches, makes losses visible |
| Queue and worker of `stdout_json` and `http` (`sinks/*/sink.cpp`) | `queue_`, `queued_batches_`, `written_batches_`, `dropped_`, `stopping_`, two condition variables | `write`, `flush`, destructor, `run` | no batch lost, duplicated or reordered without being counted; no lost wakeup; blocking calls return |
| HTTP worker (`sinks/http/sink.cpp`) | `fd_` | `ensure_connected`, `post`, retry, `close_connection` | a batch not counted as dropped was ingested; responses are not mixed up |
| `CgroupResolver` (`core/attribution/attribution.cpp`) | `entries_`: identity, creation and removal time per cgroup id | `start` (scan), `on_created`, `on_removed`, `tick`, `resolve` | entries follow the lifetime of their cgroup; an event never gets another cgroup's job |
| Cgroup watcher (`core/attribution/cgroup_watcher.*`) | its ring buffer | `emit` (kernel), `on_event` | every creation and removal reaches the resolver, in order |
| Event loop (`core/event_loop.cpp`) | `bindings_`, libbpf's ring buffer | `add`, `remove`, `poll` | polls exactly the probes that are attached |
| Plugin loader (`core/plugin_loader.cpp`) | handle per instance id, the linker's reference counts | `load_*`, `unload_*` | code stays mapped while an object built from it exists |
| Daemon (`core/daemon.cpp`, `core/main.cpp`) | `config_`, `probes_`, `sinks_`, signal flags | `start`, `run`, `reload_config`, `add_*`, `remove_*`, destructor | no dangling pointer at any moment; the running set is what the accepted file asks for; signals are honoured |
| Configuration (`core/config/*`) | text settings per component | `load_config_file`, getters, `diff_for_reload` | a file is applied whole or not at all, and says what the operator wrote |
| Pipeline (`core/pipeline/pipeline.cpp`) | `batch_`, `last_flush_`, sink pointers, user cache | `emit`, `tick`, `flush`, `set_sinks` | every record is shipped once to every sink, and within the flush interval; a record keeps its distance in time from others and its user |
| Probes, translation, clock (`probes/*`, `core/utilities`) | a ring per probe, one clock offset | BPF `emit`, `on_event`, `translate`, `boot_offset_ns` | an event with a place in a ring becomes one record that tells what happened |
| Record JSON, endpoint parser, null sink, logging | none | formatting and parsing | field by field |

How they interact: the poll thread calls everything except the sink workers.
Kernel and daemon share ring buffers; the event loop, the pipeline and the
emitters hold raw pointers into objects the daemon owns, and those objects' code
lives in plugins the loader maps. The poll thread and a sink's worker share the
queue under `mu_`. Signal handlers set two flags the poll loop reads.

What is hard: the window between an unlock and its notify; eviction from a queue
whose worker holds an older batch; a retry after an answer that was only late;
kept-alive connections; three kernel facts about one cgroup (creation, event,
removal) that arrive through different rings; recycled cgroup ids; a reload with
a failure at any of its calls; signals at any time; cgroups that come and go under
the bootstrap walk; a poll thread that waits for a destination, or for anything else, while rings fill.
`PROJECT.json` lists each of
these hazards at its line.

## 2. Modules

| Module | Models | Uses |
|---|---|---|
| `SinkContract` | what `sink.h` promises: the abstract specification | |
| `SinkQueue` | the queue, its two threads, locks, condition variables | refines `SinkContract` |
| `HttpSink` | the http worker's connection, post and retry against a server | what `SinkQueue` calls `Handle` |
| `Attribution`, `MCAttribution` | kernel, watcher, rings, resolver | |
| `CgroupScan`, `MCCgroupScan` | the bootstrap walk and `parse_cgroup_path` | what `Attribution` calls `Scan` |
| `Enrich`, `MCEnrich` | one event's way from a BPF program to a record | |
| `Pipeline` | batching, fan-out and the poll loop around them | takes each sink to do what `SinkContract` says |
| `Backpressure`, `MCBackpressure` | rings, poll thread, batch and queues in time | the queues of `SinkQueue`, by length |
| `SinkQueueProofs`, `HttpSinkProofs`, `AttributionProofs`, `CgroupScanProofs`, `EnrichProofs`, `PipelineProofs`, `BackpressureProofs`, `DaemonProofs` | theorems about the module each is named after (section 4) | extends it |
| `Config` | the configuration loader, getters and diff | pure operators |
| `Daemon`, `MCDaemon` | `main` and the daemon's thread with loader, event loop and pointers | extends `Config`; assumes of a sink what `SinkContract` says |

Definitions named "Slip" are plausible mistakes in the code; each stands before
the definition it would replace and shows that a property can fail.

**SinkQueue.** `stdout_json` and `http` have the same queue line for line; they
differ in whether a bound of 0 is clamped (`ClampsZero`) and whether handling a
batch can fail (`CanLose`). Each block under `mu_` is one action. A notify after
an unlock is an action of its own, and wakes a thread only if it is blocked;
waiters may also wake spuriously. `main` is where the poll thread is inside the
sink, `worker` where the worker is in `run()`. Batches are numbered as accepted;
`delivered`, `evicted` and `failed` are history. With a bound of 0 and no clamp,
`write()` pops an empty deque in a loop whose condition is always true: state
`undefined`, from which it does not return and in which it holds `mu_`.

**HttpSink.** The server may ingest or refuse a request, answer in any framing,
late or never, and close at any time. Every `connect`, `send` and `recv` is a step
of its own, the ones that bring part of a head or of a body included; each starts
the socket's timeouts anew and may run into them. What `recv()` will return is a
sequence of response heads and of text: a body delimited only by the end of the
connection is text, the code takes such a body to be empty, and its bytes are what
the next request reads first. `parse_status_code` looks at the token after the
first space and nowhere else, so text may read as any status and any header. The
same goes for an interim (1xx) head, which is taken for the answer. On a connection
that has carried either (`tainted`) the worker can no longer tell whose response it
reads; `misled` holds the batches that were acked that way. A request counts as
ingested at most once per time it was sent; that it may be ingested after the
client gave up is `IngestOnly` taken before the client's timeout.

**Attribution.** A cgroup is one incarnation of a directory; a later one may
have the same id. Its number stands for the identity its path spells, and a
flag says whether the path names a job (`parse_cgroup_path`). Every kernel
operation takes one tick of the clock. `ring_buffer__poll` drains the rings epoll
reported, one after the other in either order, while the kernel goes on posting.
`Skew` is the difference between the wall-clock offset the daemon sampled and the
one under which a directory's ctime was stamped. `unseen` records creations and
removals the kernel never reported: before the attach, or with a full ring.

**Pipeline.** `emit`, `tick` and `flush` run on the poll thread, in the order of
`Daemon::run`; reloads come after a tick and remove sinks before they add any.
Records are numbered as emitted, and so are batches. A sink is reduced to the set
of batches it has outstanding: a write never waits but may discard, a flush waits
until the set is empty, and a worker settles its oldest batch at its own pace, so
removing a slow sink holds up the loop. Time is kept as the age of `last_flush_`
(`since`) and of the oldest pending record (`age`), both counted only up to the
flush interval, beyond which the code does not tell ages apart.

**Daemon.** Adding or removing a component is a script of calls (`load`,
`build`, `start`, `arm`, `enlist`; `erase`, `wire`, `flush`, `destroy`, `unload`; ...) run
one at a time, so that invariants about pointers are examined after each call;
`open_plugin` is two, `dlopen` and all that may fail after it.
Each call that can fail may fail. `EventLoop::remove` may drop any subset of the
other bindings. `SIGHUP`, `SIGTERM` and edits of the file come between any two
steps; the test of the reload flag, its reset and the read of the file are
separate steps. `applied` is the file `config_` was last taken from. A daemon
started without `--config` has no `plugin_dir` and gives up in `start()`, so the
loop runs only with a file and the early return of `reload_config` for an empty
path is never taken. The model assumes that every probe has a ring buffer, as all
in the repository do.

**Config.** Operators only. A text is the number its leading digits spell and
what follows; a JSON value is a record with its type. Numbers have a `Width`:
`get_uint` refuses what does not fit, `stringify` and the duration arithmetic wrap
(the latter is undefined behaviour in C++; what the build does is to wrap).
`Daemon` reads each of its files through these operators, and `InForceAsWritten`
compares the outcome with a reading of the document that does not use them.

**CgroupScan.** The walk's stack, the directory it is at and what `readdir` has
returned are state; directories are made and removed between any two system
calls. `readdir` returns a name at most once and every name that was there
throughout; `opendir` of a directory that exists succeeds. A path is a sequence
of segments, each a prefix and what follows it. `Reference` says by positions
what the parser computes segment by segment. Entries go with their directories
here; what becomes of an entry whose id comes back is `Attribution`'s.

**Enrich.** A place in a ring is reserved, then stamped and submitted, and other
places may be submitted first. The wall clock jumps at any time, the offset is
sampled once, by the bootstrap scan or by the first record, and `getpwuid_r`
answers with a name, with none or fails. `source` and `from` are history in a record.

**Backpressure.** Time passes, in ticks, wherever the poll thread is: in the poll,
in a callback, between two writes, in a user lookup, in whatever a reload calls
(`dlopen`, loading, attaching and detaching programs), in a flush; and a call may
take any time. Only the two short blocks in which a worker has `mu_` and touches
the queue are too short for a tick. A destination takes any time for a batch, or
for ever: the http sink's timeouts are for each call and bound nothing here, and
`stdout_json` has none. `MaxWork` is no limit on a turn of the loop but what the
properties call a long one. `Sized` rings hold what they get in two turns; `held`
remembers, for each of them, what first took too long since it was last found
empty: a turn's own work, or one of the calls in `Blocking`. A reload's rings are
those of the probes it leaves alone.

## 3. Runs

Passing:

| Run | Instance | Shows |
|---|---|---|
| `sink_queue` | capacity 2, 5 batches, failing deliveries; 19 145 states | the safety invariants of section 4, `FlushSettles`, and refinement of `SinkContract`, whose fairness makes flush and destructor return and every batch settled |
| `http_post` | 3 batches, requests of two sends, heads and bodies of up to 3 receives, all six framings; 30 855 states | `AtMostTwice`, `WorkerFinishes`; `NoSilentLoss` and `OwnResponse`, which say where a response is mistaken for another's and that it happens nowhere else |
| `attribution` | 2 ids, 3 cgroups, rings of 2, grace 1, clock to 6, a clock step; 1.7 million states | `NeverSuccessor`, `LiveJobKnown`, `GraceForTheDead`, `AttributedInGrace` |
| `pipeline` | 2 sinks, batches of 2, interval of 2 ticks, 4 records; 201 354 states | every record once and in order to every wired sink, no `tick()` leaves a record as old as the interval, nothing left at an orderly end, a removed sink misses less than a batch, `RecordsLeave` |
| `daemon` | 2 probes that may share a plugin, 1 sink, 8 files of which 3 do not load, 2 edits; 89 986 states | no dangling pointer, no unmapped code, balanced references, nothing left over, no zombie probe, no lost and no unanswered `SIGHUP`, a file in force as written, staying sinks untouched, `SIGTERM` honoured |
| `scan` | 7 paths up to 4 deep, every tree of them; 62 856 states | nobody who was there throughout is missed, every identity is right, the walk ends |
| `enrich` | 2 instances of one plugin and 1 of another, 2 events, 2 users, 2 clock settings; 116 940 states | distances in time survive clock steps, one lookup and one name per user, records tell instance, status and signal, every event that got a place is recorded |
| `backpressure` | a ring with room for exactly two turns and one without, turns of 1 tick, a sink that queues 1 batch, 1 new user; 412 678 states | `Headroom`: a sized ring has room for the rest of this turn and the next; it overflows only after a turn, a lookup, a reload or a flush took too long, never because of a `write()`; every ring is come to, but for calls that never return and a ring that is refilled as fast as it is drained |

Violations, each a place where the code does not do what a comment or
`docs/DESIGN.md` says (quoted under "findings" in `PROJECT.json`):

| Run | What happens |
|---|---|
| `http_large_batch` | a request of several sends on a connection the peer closed raises `SIGPIPE`, which ends the daemon |
| `recycled_id` | a cgroup that is no job's inherits the job of the cgroup that had its id before |
| `ring_order` | the probe's ring is drained before the watcher's: the event finds no entry |
| `stalled_sink` | a reload removes a sink whose destination is stalled: the poll thread waits for its worker and a ring with room for two turns overflows |

Further differences met while modelling, which the models show but no run of their
own is spent on: `start()` ends the daemon when the cgroup watcher does not attach
(`daemon.cpp:112`), while `daemon.cpp:59` says it "still keeps running"; a
component that failed to start is not retried by a reload of the same file,
because `config_` takes what was asked for (`daemon.cpp:210`); `dropped()` counts
failed posts (`http/sink.cpp:264`) which DESIGN.md calls "overflow, not errors";
with `max_queued_batches = 0` the http sink's `write()` never returns
(`http/sink.cpp:92`, `SinkQueue`'s `undefined`; `stdout_json` clamps 0 to 1), while
`sink.h:24` says it "must return promptly"; an interim 1xx answer is taken for the
final one and the final one for the next batch's (`http/sink.cpp:201`), and a body
without a length is taken for the next batch's answer, which is then acked without
being sent again or counted (`http/sink.cpp:45`, `227`): `http/sink.h` says drops are
counted "so they are visible rather than silent", and the batches in `misled` are the
silent ones; "a chatty probe cannot starve a quiet one" (`event_loop.h:3`, DESIGN.md
section 5) is true of the room in the rings but not of the thread's time, since
libbpf stays with a ring until it is empty (the last exception of
`EveryRingServed`); a cgroup created between the
bootstrap scan and the attach of the watcher is in neither (`daemon.cpp:112`),
while `attribution.cpp:218` says that anything created later "arrives through
on_created()" (`Attribution` has it as `unseen`); the cgroup watcher, dropped
because it did not re-arm while another probe was removed, is not found in
`probes_` and stays attached and unpolled (`daemon.cpp:302`; `RunningAsConfigured` speaks
of probes only); `config.h:46` says an empty `node` means the hostname, and nothing
reads the hostname; `usage()` and DESIGN.md:227 speak of flags that override the
file, and there are none; after the wall clock was set back before the daemon's start, a bootstrapped
entry is younger than its cgroup and rejects its events (`attribution.cpp:81`,
a positive `Skew`).

Each module's type invariant is checked in its passing run, and proved: on its own
in `sink_queue`, and elsewhere as the first conjunct of one of the
invariants (`NoSilentLoss`, `EverythingToEverySink`, `GraceForTheDead`,
`NoDangling`, `EnteredRight`, `OneName`, `Headroom`).

**Bounds.** Capacity 2 with 5 batches lets evictions happen with the worker
idle, holding a batch and during a flush, and more than once in a row. Three http batches are one that leaves something
on a connection, one that meets it and one after; the run reaches states in which
the second is in `misled`. Three cgroups on two ids allow
an id to be recycled while another cgroup lives; rings of two overflow; a grace
period of 1 in a clock of 6 lets entries expire and be recreated. Four records
make two full batches, or full and timed ones in any mixture, with a reload
between any two. Two probes
suffice for one to be dropped while the other is removed and to share a plugin;
two edits allow a reload to undo another.
The files are one of each kind: two that differ in components only, one that also
changes a general setting, one without a plugin directory, three that do not load.
The seven paths hold a step below a task, a job below a task and a name that only
looks like a job's. Two events are enough for two stamps to be out of order, for
one user to be met twice and for a clock step in between. A ring of three
events at one a tick is exactly two turns of one tick, and a queue of one batch
fills at once; larger ones only take longer. Ids are interchangeable in
`attribution`, hence the symmetry set; that run checks no liveness.
For safety all these bounds are removed by the proofs of section 4; for liveness
they are what the runs rest on.
Deadlock is checked in every run: ended systems stutter in an action of their own
(`Ended`, `Exited`).

**Fairness.** `SinkQueue`: each thread keeps running while it is inside the
sink; nobody owes a call of `write`, `flush` or the destructor, nor a spurious
wakeup. That handling a batch ends is an assumption on the destination: http
bounds it by socket timeouts (`HttpSink`'s `WorkerFinishes`), `stdout_json` needs a
reader that does not stall for ever. `HttpSink`: each of the worker's calls returns,
because of `SO_RCVTIMEO` and `SO_SNDTIMEO`, and a head or a body comes in finitely
many parts (64 KiB for a head, the announced length for a body); a `timeout_ms` of 0,
which is no timeout, is left out. The server owes nothing. `WorkerFinishes` counts a
worker killed by `SIGPIPE` as finished: that end is `http_large_batch`'s. `Daemon`: its
thread keeps running; signals and edits are not owed. `Pipeline`: the poll returns
within its timeout and the loop goes round, the clock advances, and a sink settles
what it holds (`SinkContract`, which `SinkQueue` implements); events, the end of the daemon and any
particular reload are not owed. `CgroupScan`: the walk is given the processor;
Slurm is never quiet for its sake. `Enrich`: a BPF program that has a place runs to
its end, and the poll comes round to every ring. `Backpressure`: the thread and the
workers are scheduled, and a worker leaves its critical sections; nobody owes the
return of a lookup, of a reload's calls or of a flush, nor the end of a delivery. `Attribution` has safety properties only.

## 4. Proofs

Every invariant and every safety action property that a passing run checks is a
theorem, for every value of the constants. The constants are constrained only by
the `ASSUME` of the module that declares them: their types, and what is named
below. Each proofs module has an inductive invariant `IInv`, which TLC checked on
the module's instance before it was proved, one lemma per action or per part of
the state for its preservation, and the theorems, which follow from it.

| Module | Proved | Beyond types, it assumes |
|---|---|---|
| `SinkQueueProofs` | `TypeOK`, `Accounting`, `NewestKept`, `NothingForgotten`, `DeliveredInOrder`, `LossIsVisible`, `NoLostWakeup`, `DestructorDrains`, `FlushSettles`, and that every step of the queue is one of `SinkContract` | nothing |
| `HttpSinkProofs` | `AtMostTwice`, `NoSilentLoss`, `OwnResponse` | nothing: the server may send anything, and the properties name the two kinds of response that mislead the worker |
| `AttributionProofs` | `NeverSuccessor`, `LiveJobKnown`, `GraceForTheDead`, `AttributedInGrace` | nothing |
| `CgroupScanProofs` | `EnteredRight`, `SteadyFound`, and that the parser returns what `Reference` says of every path | the parent of a path is a path or the root |
| `EnrichProofs` | `WallKeepsDistance`, `OneName`, `RecordTells` | an exit code has 8 bits of status, 7 of signal and 1 of core dump |
| `PipelineProofs` | `EverythingToEverySink`, `NothingLeftAtExit`, `PartialBatchIsYoung`, `RemovedSinkMissesPending` | nothing |
| `BackpressureProofs` | `Headroom`, `LossOnlyWhenHeldUp` | rings and queues are not of size 0 |
| `DaemonProofs` | `NoDangling`, `RefsBalanced`, `RunningAsConfigured`, `InForceAsWritten`, `StayingSinkUntouched` | finitely many probes and sinks, none both; the plugins that files name are among `Plugins`; no component has the watcher's id |

**Sink queue.** That delivered batches are in order needs
that what is queued is newer than what was delivered (`DeliveredOlder`,
`NewestKept`); that the counters agree needs to know when the worker holds a batch
(`Control`); that flush settles everything follows from the counters being equal,
which with `Accounting` means an empty queue and an idle worker, and with
`NothingForgotten` that every batch is settled (`CountersMeetSettled`). The lemmas
`WriteStep`, `TakeStep`, `HandleStep`, `CountStep` deal with the actions that change
the data; the others only move a thread and share `MainStep` and `WorkerStep`.
`StepsImplementContract` takes the refinement mapping of `SinkQueue` action by
action, with `IInv` where a step of the contract has a guard: what a write evicts
is what the contract may discard, and a flush or a destructor that returns finds
nothing outstanding. The fairness of `SinkContract` is TLC's.

**HTTP worker.** How often a batch is ingested is bounded by the requests sent for
it, and those by the attempt (`Bounded`). That answers are not mixed up rests on
`Delimited`: on a connection that is not `tainted` there is at most the one request
of the batch in hand, and what is to be read of it is at most one head, that
batch's; a timeout closes the connection, and with it goes the late answer. A
head that says the batch was taken is only sent when it was (`Truthful`). An
interim head or an unannounced body sets `tainted` in the step that sends it, and
only closing the connection clears it, which is why the exception in the properties
is a matter of the one connection.

**Attribution.** Cgroups of one id live one after the other (`Lifetimes`), so what
the rings hold about an id is ordered, and true (`WatcherTells`, `ProbeTells`). An
entry is never ahead of the watcher's ring: what is still in it about the entry's
id is of later cgroups, but for the entry's own removal (`EntryBehind`); a cgroup
that is gone before its creation is read has its removal in the ring too, or lost
(`RemovalFollows`); and events of the cgroups that had the id before are older than
the entry, so that the test of its creation time rejects them (`StaleGuard`).
`Quiet`: before the attach nothing is posted, so no such event meets an entry of
the bootstrap, whose time may be skewed.

**Bootstrap walk.** Two arguments. The parser is a fold, and what a fold computes
for sequences of any length is an induction over data. It is done here without the
library's induction schemas, which take an operator: a function on sets of
positions, `Attr`, satisfies the equation the fold is defined by (`AttrSolves`);
were the two different, there would be a smallest prefix on which they are, by the
well-ordering of the naturals (`Least`), and one less position would be a smaller
one (`FoldIs`). The walk: for every steady directory not yet entered, some directory on
the way to it is on the stack or is being read with the next level still to come
(`Covered`). A steady directory's ancestors are steady (`AllTheWay`, by `Least`
again), which is why `opendir` finds them and `readdir` returns them.

**Enrichment.** There is one offset once there is a record (`Clocks`), a record's
time is its event's plus that offset (`Told`), its user's name is the cache's
(`Named`), and the cache was filled by one call per user (`OncePerUser`).

**Pipeline.** What a sink was written is what was shipped since it was wired; the
batch is never older than the time since `last_flush_` (`NotOlder`), which is why
`tick`'s test of the latter bounds the former; `Leaving` says what the poll thread
has done of a removal or of the last flush.

**Backpressure.** `Headroom` is the bound itself: what a sized ring holds, what the
kernel may still write in this tick, what it may write in the rest of this turn and,
if the thread has been at the ring already or has not been told of it, in one more
turn, fit in the ring. It is kept because a ring is left only when it is found
empty, and because all rings with something in them are reported at once: a ring
that was not is empty when the turn begins. `Parked` says where the thread can be
with a ring in hand, `Roomy` is `Headroom` without the types. A `write()` waits only
for `mu_`, which a worker has for no tick, so no worker appears in the argument.

**Daemon.** The invariants speak of every moment, so `IInv` says for the component
being worked on what the calls left in its script leave to be done (`Stage`), for all
others that they are at rest (`Quiet`), and for the probes a re-arming dropped that
they are still listed and wait for the script to end (`Dropped`). A handle counts from `dlopen` on, so that the
three early returns behind it owe the `dlclose` their script then calls. `Planned` ties the plan of a reload to the
two configurations. The counts of the linker are cardinalities, hence the finite
sets. For `InForceAsWritten`, `LoadedSays` shows that what the loader takes from a
document is what the document says.

Only model-checked: liveness (`ImplementsContract`'s fairness, `WorkerFinishes`,
`RecordsLeave`, `StopHonoured`, `SighupServed`, `ScanEnds`, `EveryEventRecorded`,
`EveryRingServed`), because the prover handles neither fairness nor `ENABLED`; and
the runs that expect a violation, which are counterexamples and need no proof.

## 5. Not modelled

The JSON form of a record, the endpoint parser, log text, the null sink (it has no
state), discovery of the cgroup root (one call that may fail), the build and the
docker cluster. Pid, tid and comm of an event are copied and left out. The endpoint
parser takes one string apart and keeps nothing; a sink it refuses is a sink whose
construction fails. Events still in the rings when the loop ends are lost
uncounted, of which the code promises nothing. Paths longer than the watcher's
256-byte buffer are cut off in the kernel and parse as a shorter path; the model's
identities are exact. The parser looks at the whole path, the root's part
included; the root of `scan` names no job.

## 6. Plan

Done: sink contract, queue; http worker; attribution and its bootstrap walk;
enrichment; pipeline; backpressure; configuration; daemon; proofs of the safety
properties of each, and of the steps of the refinement of `SinkContract`.

Left: lemmas about `Config`'s operators that stand on their own, such as what the
getters accept at the limits of their width, and that applying a reload's plan to one
configuration gives the other.
