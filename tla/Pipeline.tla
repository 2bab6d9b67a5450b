------------------------------ MODULE Pipeline ------------------------------
(***************************************************************************)
(* Batching and fan-out (core/pipeline/pipeline.cpp) inside the poll loop  *)
(* that drives it (Daemon::run): records are batched, shipped when the     *)
(* batch is full or old, and written to every sink there is, while reloads *)
(* add and remove sinks between turns and the sinks' workers settle what   *)
(* they were given.  A sink is what SinkContract says of one: a write      *)
(* never waits and may discard older batches, a flush waits until nothing  *)
(* is outstanding.  Records and shipped batches are numbered.              *)
(***************************************************************************)
EXTENDS Integers, Sequences

CONSTANTS Sinks,           \* sinks that may be wired
          BatchSize,       \* opt_.batch_size
          FlushInterval,   \* opt_.flush_interval, in ticks of the clock
          MaxRecords       \* bound on the records one behaviour emits

ASSUME PipelineAssumption ==
    /\ BatchSize \in Nat
    /\ FlushInterval \in Nat
    /\ MaxRecords \in Nat

VARIABLES at,        \* "poll", "ticked", "reload", "removing", "draining", "exited"
          pending,   \* batch_
          emitted,   \* stats_.records
          since,     \* now - last_flush_, up to FlushInterval
          wired,     \* sinks_
          plan,      \* the sinks a reload has still to remove and to add
          leaving,   \* sinks whose flush() the poll thread has still to wait for
          batches,   \* batches shipped so far
          out,       \* the batches each sink has neither delivered nor discarded
          shipped,   \* history: records shipped
          joined,    \* history: `shipped` when each sink was wired
          received,  \* history: the records each sink was written since then
          age        \* history: time since pending's oldest record, up to FlushInterval

\* Moved by emit(), tick() and flush() only, but for what AddSink starts anew.
batching == <<pending, emitted, since, batches, shipped, received, age>>
vars == <<at, pending, emitted, since, wired, plan, leaving, batches, out, shipped, joined,
          received, age>>

\* The daemon has started with at least one sink.
Init ==
    /\ at = "poll"
    /\ pending = << >>
    /\ emitted = 0
    /\ since = 0
    /\ wired \in SUBSET Sinks \ {{}}
    /\ plan = [remove |-> {}, add |-> {}]
    /\ leaving = {}
    /\ batches = 0
    /\ out = [s \in Sinks |-> {}]
    /\ shipped = 0
    /\ joined = [s \in Sinks |-> 0]
    /\ received = [s \in Sinks |-> << >>]
    /\ age = 0

Saturate(t) == IF t < FlushInterval THEN t + 1 ELSE t

TimePasses ==
    /\ at # "exited"
    /\ since' = Saturate(since)
    /\ age' = IF pending = << >> THEN age ELSE Saturate(age)
    /\ UNCHANGED <<at, pending, emitted, wired, plan, leaving, batches, out, shipped, joined,
                   received>>

\* A sink's worker delivers or gives up its oldest batch.
Settle(s) ==
    /\ \E b \in out[s] :
          /\ \A c \in out[s] : b <= c
          /\ out' = [out EXCEPT ![s] = @ \ {b}]
    /\ UNCHANGED <<at, wired, plan, leaving, joined, batching>>

-----------------------------------------------------------------------------
(* The pipeline.                                                           *)

\* Slip: the first write() is given the batch itself, and leaves it empty.
FanOutMoved(batch) ==
    LET first == IF wired = {} THEN {} ELSE {CHOOSE s \in wired : TRUE}
    IN  received' = [s \in Sinks |-> IF s \in first THEN received[s] \o batch ELSE received[s]]

\* A copy of the batch for every sink.
FanOut(batch) ==
    received' = [s \in Sinks |-> IF s \in wired THEN received[s] \o batch ELSE received[s]]

\* ship() of a batch that is not empty.  Each sink may discard to make room.
Ship(batch) ==
    /\ pending' = << >>
    /\ age' = 0
    /\ batches' = batches + 1
    /\ shipped' = shipped + Len(batch)
    /\ FanOut(batch)
    /\ \E kept \in [Sinks -> SUBSET (1..batches)] :
          /\ \A s \in Sinks : kept[s] \subseteq out[s]
          /\ out' = [s \in Sinks |-> IF s \in wired THEN kept[s] \cup {batches + 1} ELSE out[s]]

\* ship() of an empty batch returns at once.
ShipPending ==
    IF pending = << >>
    THEN UNCHANGED <<pending, age, batches, shipped, received, out>>
    ELSE Ship(pending)

\* Slip: `>` for `>=`.
FullLoose(batch) == Len(batch) > BatchSize

\* batch_.size() >= opt_.batch_size; with a batch size of 0, always.
Full(batch) == Len(batch) >= BatchSize

\* emit(), as the poll dispatches an event: enrich, append, ship if full.
Emit ==
    /\ at = "poll"
    /\ emitted < MaxRecords
    /\ emitted' = emitted + 1
    /\ LET batch == Append(pending, emitted + 1)
       IN  IF Full(batch)
           THEN Ship(batch)
           ELSE /\ pending' = batch
                /\ age' = IF pending = << >> THEN 0 ELSE age
                /\ UNCHANGED <<batches, shipped, received, out>>
    /\ UNCHANGED <<at, since, wired, plan, leaving, joined>>

\* Slip: last_flush_ = now before the early return.
TickAlwaysResets ==
    /\ at = "poll"
    /\ at' = "ticked"
    /\ IF since < FlushInterval
       THEN UNCHANGED <<pending, age, batches, shipped, received, out>>
       ELSE ShipPending
    /\ since' = 0
    /\ UNCHANGED <<emitted, wired, plan, leaving, joined>>

\* tick(), after the poll.  A batch shipped because it was full does not move
\* last_flush_; an interval that ends with nothing to ship does.
Tick ==
    /\ at = "poll"
    /\ at' = "ticked"
    /\ IF since < FlushInterval
       THEN UNCHANGED <<pending, age, batches, shipped, received, out, since>>
       ELSE ShipPending /\ since' = 0
    /\ UNCHANGED <<emitted, wired, plan, leaving, joined>>

\* Slip: flush() drains the sinks and forgets the batch.
FlushOnlySinks ==
    /\ at = "poll"
    /\ at' = "draining"
    /\ leaving' = wired
    /\ UNCHANGED <<wired, plan, joined, out, batching>>

\* flush() at shutdown (the loop has seen the stop flag, or the poll failed): it
\* ships what is pending, then waits for one sink after the other.
Flush ==
    /\ at = "poll"
    /\ at' = "draining"
    /\ ShipPending
    /\ leaving' = wired
    /\ UNCHANGED <<emitted, since, wired, plan, joined>>

-----------------------------------------------------------------------------
(* The daemon.                                                             *)

\* No reload, or none that changes a sink: the next turn of the loop.
NextTurn ==
    /\ at = "ticked"
    /\ at' = "poll"
    /\ UNCHANGED <<wired, plan, leaving, joined, out, batching>>

\* reload_config(): some sinks go, some come, one may do both (another plugin).
Reload ==
    /\ at = "ticked"
    /\ at' = "reload"
    /\ \E remove \in SUBSET wired : \E add \in SUBSET (Sinks \ (wired \ remove)) :
          plan' = [remove |-> remove, add |-> add]
    /\ UNCHANGED <<wired, leaving, joined, out, batching>>

\* remove_sink(): set_sinks() without it, then its flush(), which the poll thread
\* waits for.  What is pending is not shipped first.
RemoveSink(s) ==
    /\ at = "reload"
    /\ s \in plan.remove
    /\ at' = "removing"
    /\ plan' = [plan EXCEPT !.remove = @ \ {s}]
    /\ wired' = wired \ {s}
    /\ leaving' = {s}
    /\ UNCHANGED <<joined, out, batching>>

\* add_sink(): set_sinks() with it, unless it does not load.
AddSink(s) ==
    /\ at = "reload"
    /\ plan.remove = {}
    /\ s \in plan.add
    /\ plan' = [plan EXCEPT !.add = @ \ {s}]
    /\ \/ /\ wired' = wired \cup {s}
          /\ joined' = [joined EXCEPT ![s] = shipped]
          /\ received' = [received EXCEPT ![s] = << >>]
       \/ UNCHANGED <<wired, joined, received>>
    /\ UNCHANGED <<at, leaving, out, pending, emitted, since, batches, shipped, age>>

Reloaded ==
    /\ at = "reload"
    /\ plan.remove = {} /\ plan.add = {}
    /\ at' = "poll"
    /\ UNCHANGED <<wired, plan, leaving, joined, out, batching>>

\* Sink::flush() returns, in remove_sink() or in Pipeline::flush().
FlushReturns(s) ==
    /\ s \in leaving
    /\ out[s] = {}
    /\ leaving' = leaving \ {s}
    /\ at' = IF at = "removing" THEN "reload" ELSE at
    /\ UNCHANGED <<wired, plan, joined, out, batching>>

\* Every sink's flush() has returned, and so does Pipeline::flush().
Drained ==
    /\ at = "draining"
    /\ leaving = {}
    /\ at' = "exited"
    /\ since' = 0
    /\ UNCHANGED <<wired, plan, leaving, joined, out, pending, emitted, batches, shipped,
                   received, age>>

Exited == at = "exited" /\ UNCHANGED vars

\* The steps the poll thread owes.
Loop ==
    \/ Tick \/ NextTurn \/ Reload \/ Reloaded \/ Drained
    \/ \E s \in Sinks : RemoveSink(s) \/ AddSink(s) \/ FlushReturns(s)

Next ==
    \/ Emit
    \/ Loop
    \/ Flush
    \/ \E s \in Sinks : Settle(s)
    \/ TimePasses
    \/ Exited

\* The poll returns within its timeout and the loop goes round; the clock runs;
\* a sink settles what it holds (SinkContract).  Events and the end are not owed.
Spec ==
    /\ Init /\ [][Next]_vars
    /\ WF_vars(Loop)
    /\ WF_vars(TimePasses)
    /\ \A s \in Sinks : WF_vars(Settle(s))

-----------------------------------------------------------------------------
(* Properties.                                                             *)

\* The types; also that what emit() leaves pending is never a full batch.
TypeOK ==
    /\ at \in {"poll", "ticked", "reload", "removing", "draining", "exited"}
    /\ pending \in Seq(1..MaxRecords)
    /\ Len(pending) < BatchSize \/ pending = << >>
    /\ emitted \in 0..MaxRecords
    /\ since \in 0..FlushInterval
    /\ wired \subseteq Sinks
    /\ plan \in [remove : SUBSET Sinks, add : SUBSET Sinks]
    /\ leaving \subseteq Sinks
    /\ batches \in 0..MaxRecords
    /\ out \in [Sinks -> SUBSET (1..batches)]
    /\ shipped \in 0..emitted
    /\ joined \in [Sinks -> 0..shipped]
    /\ received \in [Sinks -> Seq(1..MaxRecords)]
    /\ age \in 0..FlushInterval

\* "The core fans every batch out to all configured sinks" (sink.h): a sink that
\* is wired has been written every record shipped since it was, once and in
\* order, however batches were cut and other sinks came and went; and what it
\* has not been written yet is exactly what is pending.
EverythingToEverySink ==
    /\ TypeOK
    /\ shipped + Len(pending) = emitted
    /\ \A i \in 1..Len(pending) : pending[i] = shipped + i
    /\ \A s \in wired :
          /\ Len(received[s]) = shipped - joined[s]
          /\ \A i \in 1..Len(received[s]) : received[s][i] = joined[s] + i

\* "A quiet node does not sit on records indefinitely" (pipeline.h): tick() never
\* leaves a record behind that is as old as the flush interval,
\* although full batches are shipped without touching last_flush_ and intervals
\* may end with nothing to ship.
PartialBatchIsYoung ==
    [][at = "poll" /\ at' = "ticked" => pending' = << >> \/ age' < FlushInterval]_vars

\* flush(): "ships whatever is pending and drains every sink": an orderly end
\* leaves no record in the batch and none outstanding in a wired sink.
NothingLeftAtExit ==
    at = "exited" =>
        /\ shipped = emitted
        /\ \A s \in wired : out[s] = {}

\* What removing a sink costs: when its flush() has returned and it is destroyed,
\* nothing it was written is outstanding, and of all that was emitted since it
\* was wired it has missed what was pending, which is less than a batch.
RemovedSinkMissesPending ==
    [][\A s \in Sinks :
        (at = "removing" /\ leaving = {s} /\ leaving' = {}) =>
            /\ out'[s] = {}
            /\ emitted' - joined'[s] - Len(received'[s]) = Len(pending')
            /\ pending' = << >> \/ Len(pending') < BatchSize]_vars

\* A record does not stay in the pipeline, with or without further events and
\* whatever reloads do in between.
RecordsLeave == \A r \in 1..MaxRecords : emitted >= r ~> shipped >= r
=============================================================================
