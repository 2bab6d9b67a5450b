---------------------------- MODULE Backpressure ----------------------------
(***************************************************************************)
(* What a slow destination costs: the rings the kernel writes to, the one  *)
(* thread that empties them (EventLoop::poll, Daemon::run), the pipeline's *)
(* batch and the sinks' bounded queues, with time.                         *)
(*                                                                         *)
(* Time may pass, in ticks, wherever the thread is, and without bound: in  *)
(* the poll, in a callback, between two writes, in getpwuid_r(), in what a *)
(* reload calls (dlopen, loading, attaching and detaching BPF programs),   *)
(* and in the flush() of a sink, whose worker may take for ever over a     *)
(* batch.  It does not pass only while a worker is inside one of its two   *)
(* short critical sections.  What the module asks is which of this time    *)
(* can cost events.                                                        *)
(*                                                                         *)
(* Queues are those of SinkQueue, reduced to their length; when a batch is *)
(* full or old enough to be shipped is Pipeline's, what a reload changes   *)
(* is Daemon's.  The rings are those of the probes that stay.              *)
(***************************************************************************)
EXTENDS Integers

CONSTANTS Rings,      \* one for each probe
          None,       \* no ring
          Rate,       \* the most events a ring is written in one tick
          RingSize,   \* events a ring holds
          MaxWork,    \* ticks of work of its own a turn of the loop may take
          Sinks,
          Capacity,   \* max_queued_batches
          Users       \* users the daemon has still to see

ASSUME BackpressureAssumption ==
    /\ None \notin Rings
    /\ Rate \in [Rings -> Nat]
    /\ RingSize \in Nat \ {0}
    /\ MaxWork \in Nat
    /\ Capacity \in Nat \ {0}
    /\ Users \in Nat

\* The rings that hold what they get in two turns of the loop.
Sized == {r \in Rings : Rate[r] * (2 * MaxWork + 1) <= RingSize}

VARIABLES at,        \* where the thread is
          cur,       \* the ring it is draining
          ready,     \* the rings epoll_wait() reported and it has not come to yet
          todo,      \* sinks ship() has still to write to
          after,     \* where ship() returns to, when it is not called from a callback
          pending,   \* batch_ is not empty
          strangers, \* users not in user_cache_
          wired,     \* the pipeline's sinks
          awaited,   \* sinks whose flush() the thread is waiting for
          ring,      \* events in each ring
          budget,    \* events the kernel may still write in this tick
          queue,     \* batches in each sink's queue
          stage,     \* where each sink's worker is in run()
          spent,     \* history: ticks of its own work the present turn has taken
          held       \* history: what first held the thread up since a ring was found empty

place  == <<at, cur, ready>>
batch  == <<todo, after, pending>>
wiring == <<strangers, wired, awaited>>
sinks  == <<queue, stage>>
kernel == <<ring, budget>>
clock  == <<spent, held>>
vars == <<at, cur, ready, todo, after, pending, strangers, wired, awaited, ring, budget,
          queue, stage, spent, held>>

Init ==
    /\ at = "poll"
    /\ cur = None
    /\ ready = {}
    /\ todo = {}
    /\ after = "drain"
    /\ pending = FALSE
    /\ strangers = Users
    /\ wired = Sinks
    /\ awaited = {}
    /\ ring = [r \in Rings |-> 0]
    /\ budget = Rate
    /\ queue = [s \in Sinks |-> 0]
    /\ stage = [s \in Sinks |-> "idle"]
    /\ spent = 0
    /\ held = [r \in Sized |-> "nothing"]

-----------------------------------------------------------------------------
(* The kernel and the workers.                                             *)

\* bpf_ringbuf_reserve() and submit; of an event for which the ring has no room
\* there is no trace.
Post(r) ==
    /\ budget[r] > 0
    /\ budget' = [budget EXCEPT ![r] = @ - 1]
    /\ ring' = IF ring[r] < RingSize THEN [ring EXCEPT ![r] = @ + 1] ELSE ring
    /\ UNCHANGED <<place, batch, wiring, sinks, clock>>

\* Slip: the lock taken to pop a batch is kept while it is delivered.
HoldsThroughout(s) == stage[s] # "idle"

\* The worker has mu_: it has popped a batch, or counts the one it is done with.
Holds(s) == stage[s] \in {"popping", "counting"}

Step(s, from, to) ==
    /\ stage[s] = from
    /\ stage' = [stage EXCEPT ![s] = to]
    /\ UNCHANGED <<place, batch, wiring, kernel, clock>>

\* run() takes the oldest batch, with mu_ held, and lets go of mu_.
Pop(s) ==
    /\ queue[s] > 0
    /\ queue' = [queue EXCEPT ![s] = @ - 1]
    /\ Step(s, "idle", "popping")

Release(s) == Step(s, "popping", "handling") /\ UNCHANGED queue

\* It is done with the batch, delivered or given up, sooner, later or never, and
\* counts it with mu_ held.
Handled(s) == Step(s, "handling", "counting") /\ UNCHANGED queue
Counted(s) == Step(s, "counting", "idle") /\ UNCHANGED queue

\* written_batches_ has reached queued_batches_.
Drained(s) == queue[s] = 0 /\ stage[s] = "idle"

-----------------------------------------------------------------------------
(* Time.                                                                   *)

Empty == \A r \in Rings : ring[r] = 0

\* The calls that may keep the thread from its rings for any time.
Blocking == {"lookup", "reload", "flush", "last"}

\* Which of them does; a flush() that waits for no worker is part of the reload.
Keeper == IF at = "flush" /\ \A s \in awaited : Drained(s) THEN "reload" ELSE at

Blame(why) == [r \in Sized |-> IF held[r] = "nothing" THEN why ELSE held[r]]

\* write() waits for mu_.
Locked == at = "ship" /\ \E s \in todo : Holds(s)

Elapse ==
    /\ at # "exited"
    /\ \A s \in Sinks : stage[s] \notin {"popping", "counting"}
    /\ budget' = Rate
    /\ IF at = "poll" /\ Empty
       THEN /\ spent' = 0
            /\ held' = [r \in Sized |-> "nothing"]
       ELSE IF at \in Blocking
       THEN /\ held' = Blame(Keeper)
            /\ UNCHANGED spent
       ELSE IF Locked
       THEN UNCHANGED clock
       ELSE IF spent < MaxWork
       THEN /\ spent' = spent + 1
            /\ UNCHANGED held
       ELSE /\ spent' = MaxWork + 1
            /\ held' = Blame("work")
    /\ UNCHANGED <<place, batch, wiring, ring, sinks>>

-----------------------------------------------------------------------------
(* The thread.                                                             *)

\* Slip: the poll is told of one ring at a time.
WakeOne ==
    /\ at = "poll"
    /\ at' = "drain"
    /\ \E r \in Rings : ring[r] > 0 /\ ready' = {r}
    /\ spent' = 0
    /\ held' = [r \in Sized |-> IF ring[r] = 0 THEN "nothing" ELSE held[r]]
    /\ UNCHANGED <<cur, batch, wiring, kernel, sinks>>

\* epoll_wait() returns with all the rings that have something, or with none
\* when it times out or is interrupted.
Wake ==
    /\ at = "poll"
    /\ at' = "drain"
    /\ ready' = {r \in Rings : ring[r] > 0}
    /\ spent' = 0
    /\ held' = [r \in Sized |-> IF ring[r] = 0 THEN "nothing" ELSE held[r]]
    /\ UNCHANGED <<cur, batch, wiring, kernel, sinks>>

\* The order of the rings is epoll's.
NextRing(r) ==
    /\ at = "drain" /\ cur = None
    /\ r \in ready
    /\ cur' = r
    /\ ready' = ready \ {r}
    /\ UNCHANGED <<at, batch, wiring, kernel, sinks, clock>>

\* ship() starts, and returns to where.
Ship(where) ==
    /\ at' = "ship"
    /\ todo' = wired
    /\ after' = where
    /\ pending' = FALSE

\* emit(): the record joins the batch; whether that fills it is left open.
Emit ==
    \/ Ship("drain")
    \/ at' = "drain" /\ pending' = TRUE /\ UNCHANGED <<todo, after>>

\* The callback for one event of a known user.
Consume(r) ==
    /\ at = "drain" /\ cur = r
    /\ ring[r] > 0
    /\ ring' = [ring EXCEPT ![r] = @ - 1]
    /\ Emit
    /\ UNCHANGED <<cur, ready, wiring, budget, sinks, clock>>

\* The callback for the first event of a user: lookup_user() asks NSS.
ConsumeStranger(r) ==
    /\ at = "drain" /\ cur = r
    /\ ring[r] > 0
    /\ strangers > 0
    /\ ring' = [ring EXCEPT ![r] = @ - 1]
    /\ strangers' = strangers - 1
    /\ at' = "lookup"
    /\ UNCHANGED <<cur, ready, batch, wired, awaited, budget, sinks, clock>>

\* getpwuid_r() returns.
LookedUp ==
    /\ at = "lookup"
    /\ Emit
    /\ UNCHANGED <<cur, ready, wiring, kernel, sinks, clock>>

\* Slip: a ring is left after what it held when the thread came to it.
LeaveRingEarly(r) ==
    /\ at = "drain" /\ cur = r
    /\ cur' = None
    /\ held' = IF spent <= MaxWork THEN [q \in Sized |-> IF q = r THEN "nothing" ELSE held[q]] ELSE held
    /\ UNCHANGED <<at, ready, batch, wiring, kernel, sinks, spent>>

\* A ring is left when it is found empty.
LeaveRing(r) ==
    /\ at = "drain" /\ cur = r
    /\ ring[r] = 0
    /\ cur' = None
    /\ held' = IF spent <= MaxWork THEN [q \in Sized |-> IF q = r THEN "nothing" ELSE held[q]] ELSE held
    /\ UNCHANGED <<at, ready, batch, wiring, kernel, sinks, spent>>

\* write() discards the oldest batches to make room.
Evict(n) == IF n > Capacity THEN Capacity ELSE n

\* ship()'s write() to one sink: it waits for mu_ and for nothing else.
Write(s) ==
    /\ at = "ship"
    /\ s \in todo
    /\ ~Holds(s)
    /\ todo' = todo \ {s}
    /\ queue' = [queue EXCEPT ![s] = Evict(@ + 1)]
    /\ UNCHANGED <<place, after, pending, wiring, kernel, stage, clock>>

Shipped ==
    /\ at = "ship" /\ todo = {}
    /\ at' = after
    /\ after' = "drain"
    /\ UNCHANGED <<cur, ready, todo, pending, wiring, kernel, sinks, clock>>

\* The poll returns; tick() ships what is pending if the interval is over.
Tick ==
    /\ at = "drain" /\ cur = None /\ ready = {}
    /\ \/ pending /\ Ship("turn")
       \/ at' = "turn" /\ UNCHANGED batch
    /\ UNCHANGED <<cur, ready, wiring, kernel, sinks, clock>>

NextTurn ==
    /\ at = "turn"
    /\ at' = "poll"
    /\ UNCHANGED <<cur, ready, batch, wiring, kernel, sinks, clock>>

\* The reload flag was seen: reload_config().
Reload ==
    /\ at = "turn"
    /\ at' = "reload"
    /\ UNCHANGED <<cur, ready, batch, wiring, kernel, sinks, clock>>

\* remove_sink() up to its flush(): the pipeline does without the sink already.
RemoveSink(s) ==
    /\ at = "reload"
    /\ s \in wired
    /\ wired' = wired \ {s}
    /\ awaited' = {s}
    /\ at' = "flush"
    /\ UNCHANGED <<cur, ready, batch, strangers, kernel, sinks, clock>>

\* The sinks are added, the probes removed and added.
ReloadDone ==
    /\ at = "reload"
    /\ at' = "poll"
    /\ \E new \in SUBSET (Sinks \ wired) : wired' = wired \cup new
    /\ UNCHANGED <<cur, ready, batch, strangers, awaited, kernel, sinks, clock>>

\* The stop flag was seen: pipeline_->flush(), a ship() and a flush() of each sink.
LastFlush ==
    /\ at = "poll"
    /\ IF pending THEN Ship("last") ELSE at' = "last" /\ UNCHANGED batch
    /\ awaited' = wired
    /\ UNCHANGED <<cur, ready, strangers, wired, kernel, sinks, clock>>

\* The sinks are waited for one after the other, while all of them drain.
FlushReturns ==
    /\ at \in {"flush", "last"}
    /\ \A s \in awaited : Drained(s)
    /\ at' = IF at = "flush" THEN "reload" ELSE "exited"
    /\ awaited' = {}
    /\ UNCHANGED <<cur, ready, batch, strangers, wired, kernel, sinks, clock>>

Exited == at = "exited" /\ UNCHANGED vars

\* What the thread does by itself; that a blocking call returns is nobody's duty.
Loop ==
    \/ Wake \/ Shipped \/ Tick \/ NextTurn
    \/ \E r \in Rings : NextRing(r) \/ Consume(r) \/ LeaveRing(r)
    \/ \E s \in Sinks : Write(s)

Next ==
    \/ \E r \in Rings : Post(r) \/ ConsumeStranger(r)
    \/ \E s \in Sinks : Pop(s) \/ Release(s) \/ Handled(s) \/ Counted(s) \/ RemoveSink(s)
    \/ Loop \/ LookedUp \/ Reload \/ ReloadDone \/ LastFlush \/ FlushReturns
    \/ Elapse \/ Exited

\* The threads are scheduled.  A worker leaves its critical sections; that it is
\* ever done with a batch, or a lookup, a reload's call or a flush() with itself,
\* is not assumed.
Spec ==
    /\ Init /\ [][Next]_vars
    /\ WF_vars(Loop)
    /\ \A s \in Sinks : WF_vars(Pop(s) \/ Release(s) \/ Counted(s))

-----------------------------------------------------------------------------
(* Properties.                                                             *)

TypeOK ==
    /\ at \in {"poll", "drain", "lookup", "ship", "turn", "reload", "flush", "last", "exited"}
    /\ cur \in Rings \cup {None} /\ ready \subseteq Rings
    /\ todo \subseteq Sinks /\ after \in {"drain", "turn", "last"} /\ pending \in BOOLEAN
    /\ strangers \in 0..Users
    /\ wired \subseteq Sinks /\ awaited \subseteq Sinks
    /\ ring \in [Rings -> 0..RingSize]
    /\ budget \in [Rings -> Nat] /\ \A r \in Rings : budget[r] <= Rate[r]
    /\ queue \in [Sinks -> 0..Capacity]
    /\ stage \in [Sinks -> {"idle", "popping", "handling", "counting"}]
    /\ spent \in 0..(MaxWork + 1)
    /\ held \in [Sized -> Blocking \cup {"nothing", "work"}]

\* "Each buffer is sized to its own event rate" (event_loop.h): what sized has to
\* mean is what arrives in two turns of the loop.  Unless something has held the
\* thread up since the ring was last found empty, what it holds and what it can
\* still get before the thread comes to it again fit in it.
Headroom ==
    /\ TypeOK
    /\ \A r \in Sized :
          held[r] = "nothing" =>
              /\ spent <= MaxWork
              /\ ring[r] + budget[r] + Rate[r] * (MaxWork - spent)
                    + (IF r \in ready \/ cur = r THEN 0 ELSE Rate[r] * MaxWork) <= RingSize

\* An event the kernel has to write finds no room.
Loses(r) == budget'[r] < budget[r] /\ ring'[r] = ring[r]

\* "A sink must never block the poll loop" (DESIGN.md, section 8): writing to
\* sinks whose destinations stall costs no event.  A ring with room for two turns
\* loses one only if, since it was last found empty, a turn's own work took too
\* long or time passed in a user lookup, in a reload, in the flush() of a sink it
\* removes or in the last flush(): never because of the queues, the workers and
\* the locks they hold.
LossOnlyWhenHeldUp ==
    [][\A r \in Sized : Loses(r) => held[r] # "nothing"]_vars

\* What is in a ring is come to.  The exceptions are a call that never returns,
\* the shutdown, and another ring that is refilled as fast as it is drained: one
\* ring for each probe keeps a chatty one from filling the room of a quiet one,
\* not from taking all of the thread's time.
EveryRingServed ==
    \A r \in Rings :
        ring[r] > 0 ~> \/ cur = r
                       \/ at \in {"last", "exited"} \/ after = "last"
                       \/ [](at \in Blocking)
                       \/ [](cur \notin {None, r})

\* "Backpressure must not reach the ring buffer: a stalled HTTP endpoint cannot
\* be allowed to cost us kernel events" (DESIGN.md, section 8): a ring with room
\* for two turns loses nothing while a reload's flush() waits for the worker of
\* the sink it removes.
NoEventLost == [][\A r \in Sized : Loses(r) => held[r] # "flush"]_vars
=============================================================================
