------------------------------ MODULE SinkQueue -----------------------------
(***************************************************************************)
(* The bounded queue and worker thread that stdout_json and http share,    *)
(* line for line (sinks/stdout_json/sink.cpp, sinks/http/sink.cpp).  Two   *)
(* threads: the daemon's poll thread, the only caller of write(), flush()  *)
(* and the destructor, and the sink's own worker.  A block under mu_ is    *)
(* one step; a notify after the unlock is a step of its own, so another    *)
(* thread may run in between, and it wakes only a thread that is blocked.  *)
(* A batch is named by its acceptance number, 1, 2, ...; 0 is "none".      *)
(***************************************************************************)
EXTENDS Integers, Sequences

CONSTANTS MaxQueued,    \* max_queued_batches as configured
          ClampsZero,   \* TRUE for stdout_json, whose constructor turns 0 into 1
          CanLose,      \* TRUE for http, where handling a batch can fail
          MaxBatches    \* bound on the batches one behaviour writes

ASSUME QueueAssumption ==
    /\ MaxQueued \in Nat
    /\ MaxBatches \in Nat
    /\ ClampsZero \in BOOLEAN
    /\ CanLose \in BOOLEAN

VARIABLES queue,      \* queue_
          queued,     \* queued_batches_
          written,    \* written_batches_
          dropped,    \* dropped_
          stopping,   \* stopping_
          worker,     \* where the worker thread is in run()
          held,       \* the batch the worker has taken off the queue, 0 if none
          main,       \* where the poll thread is in the sink
          target,     \* flush()'s local `target`
          delivered,  \* history: batches the worker handed to the destination, in order
          evicted,    \* history: batches write() pushed out of the queue
          failed      \* history: batches the worker gave up on

queueVars == <<queue, queued>>
history   == <<delivered, evicted, failed>>
vars == <<queue, queued, written, dropped, stopping, worker, held, main, target,
          delivered, evicted, failed>>

\* The bound write() compares the queue with.
Capacity == IF ClampsZero /\ MaxQueued = 0 THEN 1 ELSE MaxQueued

WorkerStates == {"check", "waiting", "handling", "counting", "notifying", "exiting", "done"}
MainStates   == {"idle", "writeNotify", "flushWaiting", "flushWoken", "stopNotify",
                 "joining", "gone", "undefined"}

Flushing == main \in {"flushWaiting", "flushWoken"}

Init ==
    /\ queue = << >>
    /\ queued = 0
    /\ written = 0
    /\ dropped = 0
    /\ stopping = FALSE
    /\ worker = "check"
    /\ held = 0
    /\ main = "idle"
    /\ target = 0
    /\ delivered = << >>
    /\ evicted = {}
    /\ failed = {}

-----------------------------------------------------------------------------
(* Condition variables.  A notify moves a blocked thread to where it       *)
(* re-acquires mu_ and evaluates its predicate again; it does nothing to a *)
(* thread that is not blocked.                                             *)

\* cv_.notify_one() and cv_.notify_all(): the worker is the only waiter.
WakeWorker == worker' = IF worker = "waiting" THEN "check" ELSE worker

\* drained_cv_.notify_all()
WakeFlush == main' = IF main = "flushWaiting" THEN "flushWoken" ELSE main

-----------------------------------------------------------------------------
(* The poll thread.                                                        *)

\* Slip: `>` for `>=` in the loop.
LooseExcess == IF Len(queue) > Capacity THEN Len(queue) - Capacity ELSE 0

\* How many batches the `while (queue_.size() >= max)` loop pops.
Excess == IF Len(queue) >= Capacity THEN Len(queue) - Capacity + 1 ELSE 0

\* Slips: pop_back() in the loop, and clear() in its place.
KeptOldest == SubSeq(queue, 1, Len(queue) - Excess)
KeptNone   == IF Excess > 0 THEN << >> ELSE queue

\* What the loop leaves of the queue.
Kept == SubSeq(queue, Excess + 1, Len(queue))

\* Slips: a drop that flush() goes on waiting for, and one nobody can see.
EvictUncounted ==
    /\ dropped' = dropped + Excess
    /\ evicted' = evicted \cup {queue[i] : i \in 1..Excess}
    /\ UNCHANGED written

EvictSilent ==
    /\ written' = written + Excess
    /\ evicted' = evicted \cup {queue[i] : i \in 1..Excess}
    /\ UNCHANGED dropped

\* What the loop does to the counters.
Evict ==
    /\ written' = written + Excess
    /\ dropped' = dropped + Excess
    /\ evicted' = evicted \cup {queue[i] : i \in 1..Excess}

\* The locked block of write().  A bound of 0 makes the loop's condition true
\* for an empty queue too: pop_front() of an empty deque is undefined
\* behaviour, and every outcome the build produces is one in which write()
\* does not return (size() wraps to a huge value and the loop goes on).
Write ==
    /\ main = "idle"
    /\ queued < MaxBatches
    /\ IF Capacity = 0
       THEN /\ main' = "undefined"
            /\ UNCHANGED <<queue, queued, written, dropped, evicted>>
       ELSE /\ queue' = Append(Kept, queued + 1)
            /\ queued' = queued + 1
            /\ Evict
            /\ main' = "writeNotify"
    /\ UNCHANGED <<stopping, worker, held, target, delivered, failed>>

\* cv_.notify_one() at the end of write(), after the unlock.
WriteNotify ==
    /\ main = "writeNotify"
    /\ WakeWorker
    /\ main' = "idle"
    /\ UNCHANGED <<queueVars, written, dropped, stopping, held, target, history>>

\* flush() up to the point where it blocks: the target is read and the
\* predicate evaluated under one lock acquisition.
Flush ==
    /\ main = "idle"
    /\ target' = queued
    /\ main' = IF written >= queued \/ stopping THEN "idle" ELSE "flushWaiting"
    /\ UNCHANGED <<queueVars, written, dropped, stopping, worker, held, history>>

\* Slip: a wait without a predicate.
FlushNoRecheck ==
    /\ main = "flushWoken"
    /\ main' = "idle"
    /\ UNCHANGED <<queueVars, written, dropped, stopping, worker, held, target, history>>

\* flush() woken up: the predicate once more, then return or block again.
FlushRecheck ==
    /\ main = "flushWoken"
    /\ main' = IF written >= target \/ stopping THEN "idle" ELSE "flushWaiting"
    /\ UNCHANGED <<queueVars, written, dropped, stopping, worker, held, target, history>>

\* The destructor: stopping_ under the lock, then the notify, then the join.
Stop ==
    /\ main = "idle"
    /\ stopping' = TRUE
    /\ main' = "stopNotify"
    /\ UNCHANGED <<queueVars, written, dropped, worker, held, target, history>>

StopNotify ==
    /\ main = "stopNotify"
    /\ WakeWorker
    /\ main' = "joining"
    /\ UNCHANGED <<queueVars, written, dropped, stopping, held, target, history>>

Join ==
    /\ main = "joining"
    /\ worker = "done"
    /\ main' = "gone"
    /\ UNCHANGED <<queueVars, written, dropped, stopping, worker, held, target, history>>

-----------------------------------------------------------------------------
(* The worker thread, run().                                               *)

\* Slips: stopping_ tested before the queue, and the newest batch taken.
TakeStopsFirst ==
    /\ worker = "check"
    /\ IF queue # << >> /\ ~stopping
       THEN /\ held' = Head(queue)
            /\ queue' = Tail(queue)
            /\ worker' = "handling"
       ELSE /\ worker' = IF stopping THEN "exiting" ELSE "waiting"
            /\ UNCHANGED <<held, queue>>
    /\ UNCHANGED <<queued, written, dropped, stopping, main, target, history>>

TakeNewest ==
    /\ worker = "check"
    /\ IF queue # << >>
       THEN /\ held' = queue[Len(queue)]
            /\ queue' = SubSeq(queue, 1, Len(queue) - 1)
            /\ worker' = "handling"
       ELSE /\ worker' = IF stopping THEN "exiting" ELSE "waiting"
            /\ UNCHANGED <<held, queue>>
    /\ UNCHANGED <<queued, written, dropped, stopping, main, target, history>>

\* The wait on cv_ evaluating its predicate, and what follows under the same
\* lock: block, leave the loop, or take the oldest batch.  A write() that never
\* returns keeps mu_.
Take ==
    /\ worker = "check"
    /\ main # "undefined"
    /\ IF queue # << >>
       THEN /\ held' = Head(queue)
            /\ queue' = Tail(queue)
            /\ worker' = "handling"
       ELSE /\ worker' = IF stopping THEN "exiting" ELSE "waiting"
            /\ UNCHANGED <<held, queue>>
    /\ UNCHANGED <<queued, written, dropped, stopping, main, target, history>>

\* Serialising and writing the batch out, without the lock.  stdout_json
\* ignores the result of fwrite; http counts a batch whose second post failed.
Handle ==
    /\ worker = "handling"
    /\ worker' = "counting"
    /\ \/ /\ delivered' = Append(delivered, held)
          /\ UNCHANGED <<dropped, failed>>
       \/ /\ CanLose
          /\ failed' = failed \cup {held}
          /\ dropped' = dropped + 1
          /\ UNCHANGED delivered
    /\ UNCHANGED <<queueVars, written, stopping, held, main, target, evicted>>

\* Slip: the count is not announced.
CountQuietly ==
    /\ worker = "counting"
    /\ written' = written + 1
    /\ held' = 0
    /\ worker' = "check"
    /\ UNCHANGED <<queueVars, dropped, stopping, main, target, history>>

\* ++written_batches_ under the lock ...
Count ==
    /\ worker = "counting"
    /\ written' = written + 1
    /\ held' = 0
    /\ worker' = "notifying"
    /\ UNCHANGED <<queueVars, dropped, stopping, main, target, history>>

\* ... and drained_cv_.notify_all() after it.
CountNotify ==
    /\ worker = "notifying"
    /\ WakeFlush
    /\ worker' = "check"
    /\ UNCHANGED <<queueVars, written, dropped, stopping, held, target, history>>

\* The notify after the loop; the thread ends.
Exit ==
    /\ worker = "exiting"
    /\ WakeFlush
    /\ worker' = "done"
    /\ UNCHANGED <<queueVars, written, dropped, stopping, held, target, history>>

-----------------------------------------------------------------------------
\* std::condition_variable may wake a waiter for no reason.
SpuriousWakeWorker ==
    /\ worker = "waiting"
    /\ worker' = "check"
    /\ UNCHANGED <<queueVars, written, dropped, stopping, held, main, target, history>>

SpuriousWakeFlush ==
    /\ main = "flushWaiting"
    /\ main' = "flushWoken"
    /\ UNCHANGED <<queueVars, written, dropped, stopping, worker, held, target, history>>

\* The sink is destroyed, or write() never returned: nothing more happens.
Ended ==
    /\ main \in {"gone", "undefined"}
    /\ UNCHANGED vars

MainSteps == WriteNotify \/ FlushRecheck \/ StopNotify \/ Join

WorkerSteps == Take \/ Handle \/ Count \/ CountNotify \/ Exit

Next ==
    \/ Write \/ WriteNotify
    \/ Flush \/ FlushRecheck
    \/ Stop \/ StopNotify \/ Join
    \/ Take \/ Handle \/ Count \/ CountNotify \/ Exit
    \/ SpuriousWakeWorker \/ SpuriousWakeFlush
    \/ Ended

\* Each thread keeps running once it is inside the sink.  Nothing obliges the
\* daemon to call write(), flush() or the destructor, and no wakeup is owed
\* that no notify sends.  That Handle is eventually over is an assumption on
\* the destination: http bounds it with its socket timeouts, stdout_json needs
\* a reader that does not stall for ever.
Fairness == WF_vars(MainSteps) /\ WF_vars(WorkerSteps)

Spec == Init /\ [][Next]_vars /\ Fairness

-----------------------------------------------------------------------------
(* Properties.                                                             *)

InFlight == IF held = 0 THEN 0 ELSE 1

\* b has reached the destination or been given up.
Settled(b) ==
    \/ \E i \in 1..Len(delivered) : delivered[i] = b
    \/ b \in evicted
    \/ b \in failed

\* The variables keep their types, the queue its bound, and batch numbers
\* never exceed the count of batches accepted.
TypeOK ==
    /\ queue \in Seq(1..queued)
    /\ Len(queue) <= Capacity
    /\ queued \in 0..MaxBatches
    /\ written \in Nat
    /\ dropped \in Nat
    /\ stopping \in BOOLEAN
    /\ worker \in WorkerStates
    /\ held \in 0..queued
    /\ main \in MainStates
    /\ target \in 0..queued
    /\ delivered \in Seq(1..queued)
    /\ evicted \subseteq 1..queued
    /\ failed \subseteq 1..queued

\* The two counters flush() compares never drift apart: whatever mix of
\* evictions, deliveries and failures happened, written_batches_ lags
\* queued_batches_ by exactly the batches still queued or in the worker's
\* hands ("a dropped batch must not stall flush()").
Accounting == queued = written + Len(queue) + InFlight

\* "Drop the oldest, not the newest": what is queued is always the newest
\* accepted batches, consecutive and in order, and the batch the worker holds
\* is older than all of them.
NewestKept ==
    /\ \A i \in 1..Len(queue) : queue[i] = queued - Len(queue) + i
    /\ held <= queued - Len(queue)

\* No batch disappears: one that is neither queued nor being handled has been
\* delivered, evicted or counted as failed.
NothingForgotten ==
    \A b \in 1..(queued - Len(queue)) : Settled(b) \/ (b = held /\ worker = "handling")

\* The destination sees each batch at most once and in the order in which the
\* pipeline wrote them, however evictions interleave.
DeliveredInOrder ==
    \A i, j \in 1..Len(delivered) : i < j => delivered[i] < delivered[j]

\* A thread blocked on a condition variable has nothing to do, or the notify
\* that will wake it is still to come: no wakeup is lost in the window between
\* the unlock and the notify.
NoLostWakeup ==
    /\ worker = "waiting" =>
          (queue = << >> /\ ~stopping) \/ main \in {"writeNotify", "stopNotify"}
    /\ main = "flushWaiting" =>
          (written < target /\ worker \notin {"exiting", "done"}) \/ worker = "notifying"

\* The destructor returns only after the worker drained the queue, so nothing
\* accepted is still queued or in flight when the sink's memory goes away.
DestructorDrains ==
    main = "gone" => /\ worker = "done"
                     /\ queue = << >>
                     /\ \A b \in 1..queued : Settled(b)

\* A batch that write() discards or the worker gives up on shows in dropped():
\* the count is what was lost, no more and no less.  (Counted against what was
\* accepted, so that it does not repeat the two increments it checks.)
LossIsVisible ==
    queued = Len(queue) + InFlight + Len(delivered) + dropped
             - (IF worker = "counting" THEN 1 ELSE 0)

\* flush() returning to its caller, at once or after blocking: everything the
\* caller wrote before it has been settled, although flush() compares only two
\* counters and evictions move one of them.
FlushSettles ==
    [][(Flush \/ FlushRecheck) /\ main' = "idle" => \A b \in 1..queued : Settled(b)]_vars

-----------------------------------------------------------------------------
(* Refinement: a batch is outstanding while it is queued or the worker has *)
(* taken it and not finished with it.                                      *)

Outstanding ==
    {queue[i] : i \in 1..Len(queue)} \cup (IF worker = "handling" THEN {held} ELSE {})

Caller ==
    CASE main \in {"idle", "writeNotify", "undefined"} -> "free"
      [] Flushing -> "flushing"
      [] main \in {"stopNotify", "joining"} -> "closing"
      [] main = "gone" -> "closed"

Contract == INSTANCE SinkContract WITH
    accepted <- queued,
    outstanding <- Outstanding,
    delivered <- {delivered[i] : i \in 1..Len(delivered)},
    discarded <- evicted \cup failed,
    caller <- Caller

\* The queue, its counters and its condition variables implement the contract
\* of sink.h: every step is a step of the contract or invisible to the caller.
ImplementsContract == Contract!Spec
=============================================================================
