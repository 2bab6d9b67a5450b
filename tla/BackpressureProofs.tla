------------------------- MODULE BackpressureProofs -------------------------
(***************************************************************************)
(* What can cost an event, for any number of rings and sinks, any rates    *)
(* and sizes, and any bound on a turn's own work.                          *)
(*                                                                         *)
(* The invariant is Headroom itself, with the fact that the thread has no  *)
(* ring in hand outside of the drain (Parked): a ring that holds something *)
(* when the poll returns is then one it still has two turns of room for.   *)
(* Two turns, because a ring may be left just after it was found empty in  *)
(* one and come to at the end of the next.                                 *)
(***************************************************************************)
EXTENDS Backpressure, TLAPS

\* Between two drains the thread is at no ring and has none to come to.
Parked ==
    at \in {"poll", "turn", "reload", "flush", "last", "exited"} \/ (at = "ship" /\ after # "drain")
        => cur = None /\ ready = {}

\* What a ring holds and can still get before the thread comes to it again.
Room(r) ==
    ring[r] + budget[r] + Rate[r] * (MaxWork - spent)
        + (IF r \in ready \/ cur = r THEN 0 ELSE Rate[r] * MaxWork) <= RingSize

Roomy == \A r \in Sized : held[r] = "nothing" => spent <= MaxWork /\ Room(r)

IInv == TypeOK /\ Parked /\ Roomy

LEMMA RoomyHeadroom == TypeOK /\ Roomy <=> Headroom
BY DEF Headroom, Roomy, Room

\* The ticks of a turn, times the rate.
LEMMA Ticks ==
    ASSUME NEW a \in Nat, NEW m \in Nat, NEW k \in 0..m
    PROVE  /\ a * m \in Nat /\ a * (m - k) \in Nat /\ a * (m - k) <= a * m
           /\ k < m => a * (m - (k + 1)) + a = a * (m - k)
           /\ a * (2 * m + 1) = a * m + a * m + a
<1>1. k \in Nat /\ m - k \in Nat
  OBVIOUS
<1>2. a * m \in Nat /\ a * (m - k) \in Nat /\ a * k \in Nat
  BY <1>1
<1>3. a * (m - k) + a * k = a * m
  BY <1>1
<1>4. k < m => a * (m - (k + 1)) + a = a * (m - k)
  BY <1>1
<1>5. a * (2 * m + 1) = a * m + a * m + a
  OBVIOUS
<1> QED
  BY <1>2, <1>3, <1>4, <1>5

LEMMA Constants ==
    /\ MaxWork \in Nat /\ RingSize \in Nat /\ None \notin Rings
    /\ \A r \in Sized : r \in Rings
    /\ \A r \in Rings : Rate[r] \in Nat
    /\ \A r \in Sized : Rate[r] * (2 * MaxWork + 1) <= RingSize
BY BackpressureAssumption DEF Sized

LEMMA Values ==
    ASSUME TypeOK
    PROVE  /\ spent \in Nat
           /\ \A r \in Rings : ring[r] \in Nat /\ budget[r] \in Nat /\ budget[r] <= Rate[r]
           /\ \A r \in Rings : ring[r] <= RingSize
BY Constants DEF TypeOK

\* A ring that is found empty has room for two turns.
LEMMA EmptyRoom ==
    ASSUME NEW r \in Sized, NEW b \in Nat, b <= Rate[r], NEW k \in 0..MaxWork
    PROVE  0 + b + Rate[r] * (MaxWork - k) + Rate[r] * MaxWork <= RingSize
<1>1. /\ MaxWork \in Nat /\ RingSize \in Nat /\ Rate[r] \in Nat
      /\ Rate[r] * (2 * MaxWork + 1) <= RingSize
  BY Constants
<1>2. PICK a \in Nat : a = Rate[r]
  BY <1>1
<1>3. /\ a * MaxWork \in Nat /\ a * (MaxWork - k) \in Nat /\ a * (MaxWork - k) <= a * MaxWork
      /\ a * (2 * MaxWork + 1) = a * MaxWork + a * MaxWork + a
  BY <1>1, Ticks
<1>4. a * (2 * MaxWork + 1) <= RingSize /\ b <= a
  BY <1>1, <1>2
<1> QED
  BY <1>1, <1>2, <1>3, <1>4

LEMMA InitIInv == Init => IInv
<1> SUFFICES ASSUME Init PROVE IInv
  OBVIOUS
<1>1. TypeOK
  <2>1. ring \in [Rings -> 0..RingSize] /\ spent \in 0..(MaxWork + 1) /\ strangers \in 0..Users
    BY BackpressureAssumption DEF Init
  <2>2. budget \in [Rings -> Nat] /\ \A r \in Rings : budget[r] <= Rate[r]
    BY BackpressureAssumption DEF Init
  <2>3. queue \in [Sinks -> 0..Capacity]
    BY BackpressureAssumption DEF Init
  <2>4. pending \in BOOLEAN
    BY Zenon DEF Init
  <2> QED
    BY <2>1, <2>2, <2>3, <2>4 DEF Init, TypeOK, Blocking
<1>2. Parked
  BY DEF Init, Parked
<1>3. Roomy
  <2> SUFFICES ASSUME NEW r \in Sized PROVE spent <= MaxWork /\ Room(r)
    BY DEF Roomy
  <2>1. r \in Rings /\ Rate[r] \in Nat /\ MaxWork \in Nat
    BY Constants
  <2>2. ring[r] = 0 /\ budget[r] = Rate[r] /\ spent = 0 /\ ready = {} /\ cur # r
    BY <2>1, Constants DEF Init
  <2>3. 0 + Rate[r] + Rate[r] * (MaxWork - 0) + Rate[r] * MaxWork <= RingSize
    <3>1. 0 \in 0..MaxWork /\ Rate[r] <= Rate[r]
      BY <2>1
    <3> QED
      BY <2>1, <3>1, EmptyRoom
  <2> QED
    BY <2>1, <2>2, <2>3 DEF Room
<1> QED
  BY <1>1, <1>2, <1>3 DEF IInv

-----------------------------------------------------------------------------
(* Types.                                                                  *)

LEMMA BatchType ==
    ASSUME TypeOK, NEW where \in {"drain", "turn", "last"}, Ship(where)
    PROVE  /\ at' = "ship" /\ todo' \subseteq Sinks /\ after' \in {"drain", "turn", "last"}
           /\ pending' \in BOOLEAN
<1>1. pending' \in BOOLEAN
  BY Zenon DEF Ship
<1> QED
  BY <1>1 DEF TypeOK, Ship

LEMMA EmitType ==
    ASSUME TypeOK, Emit
    PROVE  /\ at' \in {"drain", "ship"} /\ todo' \subseteq Sinks
           /\ after' \in {"drain", "turn", "last"} /\ pending' \in BOOLEAN
<1>1. CASE Ship("drain")
  BY <1>1, BatchType
<1>2. CASE at' = "drain" /\ pending' = TRUE /\ UNCHANGED <<todo, after>>
  <2>1. pending' \in BOOLEAN
    BY <1>2, Zenon
  <2> QED
    BY <1>2, <2>1 DEF TypeOK
<1> QED
  BY <1>1, <1>2 DEF Emit

\* An event is written or consumed.
LEMMA KernelType ==
    ASSUME TypeOK, NEW r \in Rings,
           \/ ring' = ring /\ budget' = budget
           \/ ring[r] > 0 /\ ring' = [ring EXCEPT ![r] = @ - 1] /\ budget' = budget
           \/ /\ budget[r] > 0 /\ budget' = [budget EXCEPT ![r] = @ - 1]
              /\ ring' = IF ring[r] < RingSize THEN [ring EXCEPT ![r] = @ + 1] ELSE ring
    PROVE  /\ ring' \in [Rings -> 0..RingSize] /\ budget' \in [Rings -> Nat]
           /\ \A q \in Rings : budget'[q] <= Rate[q]
<1>1. /\ ring \in [Rings -> 0..RingSize] /\ budget \in [Rings -> Nat]
      /\ \A q \in Rings : budget[q] <= Rate[q] /\ Rate[q] \in Nat
      /\ RingSize \in Nat
  BY Constants DEF TypeOK
<1>2. ring[r] \in 0..RingSize /\ budget[r] \in Nat
  BY <1>1
<1>3. CASE ring' = ring /\ budget' = budget
  BY <1>1, <1>3
<1>4. CASE ring[r] > 0 /\ ring' = [ring EXCEPT ![r] = @ - 1] /\ budget' = budget
  BY <1>1, <1>2, <1>4
<1>5. CASE /\ budget[r] > 0 /\ budget' = [budget EXCEPT ![r] = @ - 1]
           /\ ring' = IF ring[r] < RingSize THEN [ring EXCEPT ![r] = @ + 1] ELSE ring
  <2>1. budget' \in [Rings -> Nat]
    BY <1>1, <1>2, <1>5
  <2>2. \A q \in Rings : budget'[q] <= Rate[q]
    BY <1>1, <1>2, <1>5
  <2>3. ring' \in [Rings -> 0..RingSize]
    BY <1>1, <1>2, <1>5
  <2> QED
    BY <2>1, <2>2, <2>3
<1> QED
  BY <1>3, <1>4, <1>5

\* The steps that change neither the rings nor the clock.
Quiet ==
    \/ \E s \in Sinks : Pop(s) \/ Release(s) \/ Handled(s) \/ Counted(s) \/ RemoveSink(s) \/ Write(s)
    \/ LookedUp \/ Shipped \/ Tick \/ NextTurn \/ Reload \/ ReloadDone \/ LastFlush \/ FlushReturns
    \/ UNCHANGED vars

LEMMA QuietKeeps ==
    ASSUME Quiet
    PROVE  UNCHANGED <<cur, ready, ring, budget, spent, held>>
BY DEF Quiet, Pop, Release, Handled, Counted, Step, RemoveSink, Write, LookedUp, Shipped, Tick,
       NextTurn, Reload, ReloadDone, LastFlush, FlushReturns, vars, place, kernel, clock

\* Types that no worker's step disturbs, and those it may.
ThreadTypes ==
    /\ at \in {"poll", "drain", "lookup", "ship", "turn", "reload", "flush", "last", "exited"}
    /\ todo \subseteq Sinks /\ after \in {"drain", "turn", "last"} /\ pending \in BOOLEAN
    /\ strangers \in 0..Users
    /\ wired \subseteq Sinks /\ awaited \subseteq Sinks

SinkTypes ==
    /\ queue \in [Sinks -> 0..Capacity]
    /\ stage \in [Sinks -> {"idle", "popping", "handling", "counting"}]

RingTypes ==
    /\ cur \in Rings \cup {None} /\ ready \subseteq Rings
    /\ ring \in [Rings -> 0..RingSize]
    /\ budget \in [Rings -> Nat] /\ \A r \in Rings : budget[r] <= Rate[r]

ClockTypes ==
    /\ spent \in 0..(MaxWork + 1)
    /\ held \in [Sized -> Blocking \cup {"nothing", "work"}]

LEMMA TypeParts == TypeOK <=> ThreadTypes /\ SinkTypes /\ RingTypes /\ ClockTypes
BY DEF TypeOK, ThreadTypes, SinkTypes, RingTypes, ClockTypes

LEMMA TypePartsNext == ThreadTypes' /\ SinkTypes' /\ RingTypes' /\ ClockTypes' => TypeOK'
BY DEF TypeOK, ThreadTypes, SinkTypes, RingTypes, ClockTypes

LEMMA SinksStep ==
    ASSUME SinkTypes, [Next]_vars
    PROVE  SinkTypes'
<1>0. Capacity \in Nat
  BY BackpressureAssumption
<1>1. ASSUME NEW s \in Sinks, NEW n \in 0..Capacity, queue' = [queue EXCEPT ![s] = n]
      PROVE  queue' \in [Sinks -> 0..Capacity]
  BY <1>1 DEF SinkTypes
<1>2. ASSUME NEW s \in Sinks, NEW p \in {"idle", "popping", "handling", "counting"},
             stage' = [stage EXCEPT ![s] = p]
      PROVE  stage' \in [Sinks -> {"idle", "popping", "handling", "counting"}]
  BY <1>2 DEF SinkTypes
<1>3. CASE \E s \in Sinks : Pop(s)
  <2>1. PICK s \in Sinks : Pop(s)
    BY <1>3
  <2>2. queue[s] \in 0..Capacity /\ queue[s] > 0 /\ queue' = [queue EXCEPT ![s] = queue[s] - 1]
    BY <2>1 DEF Pop, SinkTypes
  <2>3. queue[s] - 1 \in 0..Capacity
    BY <1>0, <2>2
  <2>4. queue' \in [Sinks -> 0..Capacity]
    BY <1>1, <2>2, <2>3
  <2>5. stage' = [stage EXCEPT ![s] = "popping"]
    BY <2>1 DEF Pop, Step
  <2> QED
    BY <1>2, <2>4, <2>5 DEF SinkTypes
<1>4. CASE \E s \in Sinks : Release(s) \/ Handled(s) \/ Counted(s)
  <2>1. PICK s \in Sinks : Release(s) \/ Handled(s) \/ Counted(s)
    BY <1>4
  <2>2. PICK p \in {"idle", "popping", "handling", "counting"} :
           stage' = [stage EXCEPT ![s] = p] /\ queue' = queue
    BY <2>1 DEF Release, Handled, Counted, Step
  <2> QED
    BY <1>2, <2>2 DEF SinkTypes
<1>5. CASE \E s \in Sinks : Write(s)
  <2>1. PICK s \in Sinks : Write(s)
    BY <1>5
  <2>2. queue[s] \in 0..Capacity /\ queue' = [queue EXCEPT ![s] = Evict(queue[s] + 1)] /\ stage' = stage
    BY <2>1 DEF Write, SinkTypes
  <2>3. Evict(queue[s] + 1) \in 0..Capacity
    BY <1>0, <2>2 DEF Evict
  <2> QED
    BY <1>1, <2>2, <2>3 DEF SinkTypes
<1>6. CASE UNCHANGED <<queue, stage>>
  BY <1>6 DEF SinkTypes
<1>7. UNCHANGED <<queue, stage>> \/ \E s \in Sinks : Pop(s) \/ Release(s) \/ Handled(s) \/ Counted(s) \/ Write(s)
  BY DEF Next, Loop, Post, ConsumeStranger, RemoveSink, Wake, Shipped, Tick, NextTurn, NextRing, Consume,
         LeaveRing, LookedUp, Reload, ReloadDone, LastFlush, FlushReturns, Elapse, Exited, vars, sinks
<1> QED
  BY <1>3, <1>4, <1>5, <1>6, <1>7

LEMMA ThreadStep ==
    ASSUME TypeOK, [Next]_vars
    PROVE  ThreadTypes'
<1>0. ThreadTypes
  BY TypeParts
<1>1. CASE \E s \in Sinks : Pop(s) \/ Release(s) \/ Handled(s) \/ Counted(s)
  BY <1>0, <1>1 DEF Pop, Release, Handled, Counted, Step, place, batch, wiring, ThreadTypes
<1>2. CASE (\E r \in Rings : Post(r) \/ NextRing(r) \/ LeaveRing(r)) \/ Elapse \/ Exited \/ UNCHANGED vars
  <2>1. UNCHANGED <<at, todo, after, pending, strangers, wired, awaited>>
    BY <1>2 DEF Post, NextRing, LeaveRing, Elapse, Exited, vars, place, batch, wiring
  <2> QED
    BY <1>0, <2>1 DEF ThreadTypes
<1>3. CASE (\E r \in Rings : Consume(r)) \/ LookedUp
  <2>1. Emit /\ UNCHANGED <<strangers, wired, awaited>>
    BY <1>3 DEF Consume, LookedUp, wiring
  <2>2. /\ at' \in {"drain", "ship"} /\ todo' \subseteq Sinks
        /\ after' \in {"drain", "turn", "last"} /\ pending' \in BOOLEAN
    BY <2>1, EmitType
  <2> QED
    BY <1>0, <2>1, <2>2 DEF ThreadTypes
<1>4. CASE \E r \in Rings : ConsumeStranger(r)
  <2>1. /\ strangers > 0 /\ strangers' = strangers - 1 /\ at' = "lookup"
        /\ UNCHANGED <<todo, after, pending, wired, awaited>>
    BY <1>4 DEF ConsumeStranger, batch
  <2>2. strangers' \in 0..Users
    BY <1>0, <2>1, BackpressureAssumption DEF ThreadTypes
  <2> QED
    BY <1>0, <2>1, <2>2 DEF ThreadTypes
<1>5. CASE Tick \/ LastFlush
  <2>1. /\ UNCHANGED <<strangers, wired>> /\ awaited' \in {awaited, wired}
        /\ \/ Ship("turn") \/ Ship("last")
           \/ at' \in {"turn", "last"} /\ UNCHANGED <<todo, after, pending>>
    BY <1>5 DEF Tick, LastFlush, wiring, batch
  <2>2. CASE Ship("turn") \/ Ship("last")
    <3>1. /\ at' = "ship" /\ todo' \subseteq Sinks /\ after' \in {"drain", "turn", "last"}
          /\ pending' \in BOOLEAN
      BY <2>2, BatchType
    <3> QED
      BY <1>0, <2>1, <3>1 DEF ThreadTypes
  <2>3. CASE at' \in {"turn", "last"} /\ UNCHANGED <<todo, after, pending>>
    BY <1>0, <2>1, <2>3 DEF ThreadTypes
  <2> QED
    BY <2>1, <2>2, <2>3
<1>6. CASE (\E s \in Sinks : Write(s) \/ RemoveSink(s)) \/ ReloadDone
  <2>1. /\ at' \in {at, "flush", "poll"} /\ todo' \subseteq todo /\ UNCHANGED <<after, pending, strangers>>
        /\ wired' \subseteq wired \cup Sinks /\ awaited' \subseteq awaited \cup Sinks
    BY <1>6 DEF Write, RemoveSink, ReloadDone, place, batch, wiring
  <2> QED
    BY <1>0, <2>1 DEF ThreadTypes
<1>7. CASE Wake \/ Shipped \/ NextTurn \/ Reload \/ FlushReturns
  <2>1. /\ at' \in {"drain", after, "poll", "reload", "exited"} /\ UNCHANGED <<todo, pending, strangers, wired>>
        /\ after' \in {after, "drain"} /\ awaited' \in {awaited, {}}
    BY <1>7 DEF Wake, Shipped, NextTurn, Reload, FlushReturns, batch, wiring
  <2> QED
    BY <1>0, <2>1 DEF ThreadTypes
<1> QED
  BY <1>1, <1>2, <1>3, <1>4, <1>5, <1>6, <1>7 DEF Next, Loop

LEMMA RingsStep ==
    ASSUME TypeOK, [Next]_vars
    PROVE  RingTypes'
<1>0. RingTypes
  BY TypeParts
<1>1. CASE \E r \in Rings : Post(r) \/ Consume(r) \/ ConsumeStranger(r)
  <2>1. PICK r \in Rings : Post(r) \/ Consume(r) \/ ConsumeStranger(r)
    BY <1>1
  <2>2. \/ ring[r] > 0 /\ ring' = [ring EXCEPT ![r] = @ - 1] /\ budget' = budget
        \/ /\ budget[r] > 0 /\ budget' = [budget EXCEPT ![r] = @ - 1]
           /\ ring' = IF ring[r] < RingSize THEN [ring EXCEPT ![r] = @ + 1] ELSE ring
    BY <2>1 DEF Post, Consume, ConsumeStranger
  <2>3. UNCHANGED <<cur, ready>>
    BY <2>1 DEF Post, Consume, ConsumeStranger, place
  <2>4. /\ ring' \in [Rings -> 0..RingSize] /\ budget' \in [Rings -> Nat]
        /\ \A q \in Rings : budget'[q] <= Rate[q]
    BY <2>2, KernelType
  <2> QED
    BY <1>0, <2>3, <2>4 DEF RingTypes
<1>2. CASE Elapse
  <2>1. budget' = Rate /\ UNCHANGED <<cur, ready, ring>>
    BY <1>2 DEF Elapse, place
  <2>2. Rate \in [Rings -> Nat] /\ \A r \in Rings : Rate[r] <= Rate[r]
    BY BackpressureAssumption
  <2> QED
    BY <1>0, <2>1, <2>2 DEF RingTypes
<1>3. CASE Wake \/ \E r \in Rings : NextRing(r) \/ LeaveRing(r)
  <2>1. UNCHANGED <<ring, budget>> /\ ready' \subseteq Rings /\ cur' \in Rings \cup {None}
    BY <1>0, <1>3 DEF Wake, NextRing, LeaveRing, kernel, RingTypes
  <2> QED
    BY <1>0, <2>1 DEF RingTypes
<1>4. CASE Quiet
  BY <1>0, <1>4, QuietKeeps DEF RingTypes
<1> QED
  BY <1>1, <1>2, <1>3, <1>4 DEF Next, Loop, Quiet, Exited

LEMMA BlameType ==
    ASSUME ClockTypes, NEW why \in Blocking \cup {"nothing", "work"}
    PROVE  Blame(why) \in [Sized -> Blocking \cup {"nothing", "work"}]
BY DEF Blame, ClockTypes

LEMMA ClockStep ==
    ASSUME TypeOK, [Next]_vars
    PROVE  ClockTypes'
<1>0. ClockTypes /\ MaxWork \in Nat
  BY TypeParts, Constants
<1>1. CASE Elapse
  <2>1. \/ spent' = 0 /\ held' = [r \in Sized |-> "nothing"]
        \/ at \in Blocking /\ spent' = spent /\ held' = Blame(Keeper)
        \/ spent' = spent /\ held' = held
        \/ spent < MaxWork /\ spent' = spent + 1 /\ held' = held
        \/ spent' = MaxWork + 1 /\ held' = Blame("work")
    BY <1>1 DEF Elapse, clock
  <2>2. at \in Blocking => Keeper \in Blocking
    BY DEF Keeper, Blocking
  <2>3. spent' \in 0..(MaxWork + 1)
    BY <1>0, <2>1 DEF ClockTypes
  <2>4. held' \in [Sized -> Blocking \cup {"nothing", "work"}]
    <3>1. at \in Blocking => Blame(Keeper) \in [Sized -> Blocking \cup {"nothing", "work"}]
      BY <1>0, <2>2, BlameType
    <3>2. Blame("work") \in [Sized -> Blocking \cup {"nothing", "work"}]
      BY <1>0, BlameType
    <3>3. [r \in Sized |-> "nothing"] \in [Sized -> Blocking \cup {"nothing", "work"}]
      OBVIOUS
    <3> QED
      BY <1>0, <2>1, <3>1, <3>2, <3>3 DEF ClockTypes
  <2> QED
    BY <2>3, <2>4 DEF ClockTypes
<1>2. CASE Wake
  <2>1. spent' = 0 /\ held' = [r \in Sized |-> IF ring[r] = 0 THEN "nothing" ELSE held[r]]
    BY <1>2 DEF Wake
  <2> QED
    BY <1>0, <2>1 DEF ClockTypes
<1>3. CASE \E r \in Rings : LeaveRing(r)
  <2>1. PICK r \in Rings : LeaveRing(r)
    BY <1>3
  <2>2. /\ spent' = spent
        /\ held' = held \/ held' = [q \in Sized |-> IF q = r THEN "nothing" ELSE held[q]]
    BY <2>1 DEF LeaveRing
  <2> QED
    BY <1>0, <2>2 DEF ClockTypes
<1>4. CASE \E r \in Rings : Post(r) \/ NextRing(r) \/ Consume(r) \/ ConsumeStranger(r)
  BY <1>0, <1>4 DEF Post, NextRing, Consume, ConsumeStranger, clock, ClockTypes
<1>5. CASE Quiet
  BY <1>0, <1>5, QuietKeeps DEF ClockTypes
<1> QED
  BY <1>1, <1>2, <1>3, <1>4, <1>5 DEF Next, Loop, Quiet, Exited

LEMMA TypeStep == TypeOK /\ [Next]_vars => TypeOK'
<1> SUFFICES ASSUME TypeOK, [Next]_vars PROVE TypeOK'
  OBVIOUS
<1>1. SinkTypes'
  BY TypeParts, SinksStep
<1> QED
  BY <1>1, ThreadStep, RingsStep, ClockStep, TypePartsNext

-----------------------------------------------------------------------------
(* Room in the rings.                                                      *)

LEMMA ParkedStep ==
    ASSUME Parked, [Next]_vars
    PROVE  Parked'
<1>1. CASE (\E r \in Rings : Post(r)) \/ Elapse \/ Exited \/ UNCHANGED vars
  <2>1. UNCHANGED <<at, cur, ready, after>>
    BY <1>1 DEF Post, Elapse, Exited, vars, place, batch
  <2> QED
    BY <2>1 DEF Parked
<1>2. CASE \E s \in Sinks : Pop(s) \/ Release(s) \/ Handled(s) \/ Counted(s) \/ Write(s)
  <2>1. UNCHANGED <<at, cur, ready, after>>
    BY <1>2 DEF Pop, Release, Handled, Counted, Step, Write, place, batch
  <2> QED
    BY <2>1 DEF Parked
<1>3. CASE \E r \in Rings : Consume(r) \/ ConsumeStranger(r) \/ NextRing(r) \/ LeaveRing(r)
  <2>1. at' \in {"drain", "lookup"} \/ (at' = "ship" /\ after' = "drain")
    BY <1>3 DEF Consume, ConsumeStranger, NextRing, LeaveRing, Emit, Ship
  <2> QED
    BY <2>1 DEF Parked
<1>4. CASE LookedUp \/ Wake
  <2>1. at' = "drain" \/ (at' = "ship" /\ after' = "drain")
    BY <1>4 DEF LookedUp, Wake, Emit, Ship
  <2> QED
    BY <2>1 DEF Parked
<1>5. CASE Tick
  BY <1>5 DEF Tick, Parked
<1>6. CASE Shipped
  BY <1>6 DEF Shipped, Parked
<1>7. CASE (\E s \in Sinks : RemoveSink(s)) \/ NextTurn \/ Reload \/ ReloadDone \/ LastFlush \/ FlushReturns
  <2>1. at \in {"poll", "turn", "reload", "flush", "last"} /\ UNCHANGED <<cur, ready>>
    BY <1>7 DEF RemoveSink, NextTurn, Reload, ReloadDone, LastFlush, FlushReturns
  <2> QED
    BY <2>1 DEF Parked
<1> QED
  BY <1>1, <1>2, <1>3, <1>4, <1>5, <1>6, <1>7 DEF Next, Loop

\* The kernel writes an event, or drops it.
LEMMA PostRoomy ==
    ASSUME TypeOK, Roomy, NEW p \in Rings, Post(p)
    PROVE  Roomy'
<1> SUFFICES ASSUME NEW r \in Sized, held[r] = "nothing"
             PROVE  spent <= MaxWork /\ Room(r)'
  BY DEF Post, Roomy, clock, Sized
<1>1. r \in Rings /\ Rate[r] \in Nat /\ MaxWork \in Nat /\ RingSize \in Nat
  BY Constants
<1>2. spent <= MaxWork /\ Room(r)
  BY DEF Roomy
<1>3. UNCHANGED <<cur, ready, spent>>
  BY DEF Post, place, clock
<1>4. ring \in [Rings -> 0..RingSize] /\ budget \in [Rings -> Nat]
  BY DEF TypeOK
<1>5. ring[r] \in Nat /\ budget[r] \in Nat /\ ring'[r] \in Nat /\ budget'[r] \in Nat
      /\ ring'[r] + budget'[r] <= ring[r] + budget[r]
  BY <1>1, <1>4 DEF Post
<1>6. spent \in 0..MaxWork
  BY <1>1, <1>2, Values
<1>7. Rate[r] * (MaxWork - spent) \in Nat /\ Rate[r] * MaxWork \in Nat
  BY <1>1, <1>6, Ticks
<1> QED
  BY <1>1, <1>2, <1>3, <1>5, <1>7 DEF Room

\* The thread consumes one.
LEMMA ConsumeRoomy ==
    ASSUME TypeOK, Roomy, NEW p \in Rings, Consume(p) \/ ConsumeStranger(p)
    PROVE  Roomy'
<1>0. UNCHANGED <<cur, ready, budget, spent, held>> /\ ring' = [ring EXCEPT ![p] = @ - 1]
  BY DEF Consume, ConsumeStranger, clock
<1> SUFFICES ASSUME NEW r \in Sized, held[r] = "nothing"
             PROVE  spent <= MaxWork /\ Room(r)'
  BY <1>0 DEF Roomy, Sized
<1>1. r \in Rings /\ Rate[r] \in Nat /\ MaxWork \in Nat /\ RingSize \in Nat
  BY Constants
<1>2. spent <= MaxWork /\ Room(r)
  BY DEF Roomy
<1>3. ring \in [Rings -> 0..RingSize]
  BY DEF TypeOK
<1>4. ring[r] \in Nat /\ budget[r] \in Nat /\ ring'[r] \in Int /\ ring'[r] <= ring[r]
  BY <1>0, <1>1, <1>3, Values
<1>5. spent \in 0..MaxWork
  BY <1>1, <1>2, Values
<1>6. Rate[r] * (MaxWork - spent) \in Nat /\ Rate[r] * MaxWork \in Nat
  BY <1>1, <1>5, Ticks
<1> QED
  BY <1>0, <1>1, <1>2, <1>4, <1>6 DEF Room

\* Time passes.  No write() waits for a lock meanwhile; with the work of a turn
\* a tick less of it is left.
LEMMA ElapseRoomy ==
    ASSUME TypeOK, Roomy, Elapse
    PROVE  Roomy'
<1>0. UNCHANGED <<cur, ready, ring>> /\ budget' = Rate /\ ~Locked
  <2>1. \A s \in todo : s \in Sinks
    BY DEF TypeOK
  <2> QED
    BY <2>1 DEF Elapse, place, Locked, Holds
<1> SUFFICES ASSUME NEW r \in Sized, held'[r] = "nothing"
             PROVE  spent' <= MaxWork /\ Room(r)'
  BY DEF Roomy, Sized
<1>1. r \in Rings /\ Rate[r] \in Nat /\ MaxWork \in Nat /\ RingSize \in Nat
  BY Constants
<1>2. spent \in Nat /\ ring[r] \in Nat /\ budget[r] \in Nat
  BY <1>1, Values
<1>3. CASE at = "poll" /\ Empty
  <2>1. spent' = 0 /\ ring[r] = 0
    BY <1>1, <1>3 DEF Elapse, Empty
  <2>2. 0 + Rate[r] + Rate[r] * (MaxWork - 0) + Rate[r] * MaxWork <= RingSize
    <3>1. 0 \in 0..MaxWork /\ Rate[r] <= Rate[r]
      BY <1>1
    <3> QED
      BY <1>1, <3>1, EmptyRoom
  <2>3. Rate[r] * MaxWork \in Nat /\ Rate[r] * (MaxWork - 0) \in Nat
    BY <1>1, Ticks
  <2> QED
    BY <1>0, <1>1, <2>1, <2>2, <2>3 DEF Room
<1>4. CASE ~(at = "poll" /\ Empty) /\ at \in Blocking
  <2>1. held' = Blame(Keeper)
    BY <1>4 DEF Elapse
  <2>2. Keeper # "nothing"
    BY <1>4 DEF Keeper, Blocking
  <2>3. held'[r] # "nothing"
    BY <2>1, <2>2 DEF Blame
  <2> QED
    BY <2>3
<1>5. CASE ~(at = "poll" /\ Empty) /\ at \notin Blocking /\ spent < MaxWork
  <2>1. spent' = spent + 1 /\ held' = held
    BY <1>0, <1>5 DEF Elapse
  <2>2. Room(r)
    BY <2>1 DEF Roomy
  <2>3. spent \in 0..MaxWork
    BY <1>1, <1>2, <1>5
  <2>4. PICK a \in Nat : a = Rate[r]
    BY <1>1
  <2>5. /\ a * MaxWork \in Nat /\ a * (MaxWork - spent) \in Nat
        /\ a * (MaxWork - (spent + 1)) + a = a * (MaxWork - spent)
    BY <1>1, <1>5, <2>3, Ticks
  <2>6. a * (MaxWork - (spent + 1)) \in Nat
    <3>1. spent + 1 \in 0..MaxWork
      BY <1>1, <1>2, <1>5
    <3> QED
      BY <1>1, <3>1, Ticks
  <2>7. budget'[r] = a
    BY <1>0, <2>4
  <2>8. ring[r] + a + a * (MaxWork - (spent + 1)) <= ring[r] + budget[r] + a * (MaxWork - spent)
    BY <1>2, <2>5, <2>6
  <2>9. spent' <= MaxWork
    BY <1>1, <1>2, <1>5, <2>1
  <2>10. PICK x \in Nat : x = IF r \in ready \/ cur = r THEN 0 ELSE a * MaxWork
    BY <2>5
  <2>11. ring[r] + budget[r] + a * (MaxWork - spent) + x <= RingSize
    BY <2>2, <2>4, <2>10 DEF Room
  <2>12. ring[r] + a + a * (MaxWork - (spent + 1)) + x <= RingSize
    BY <1>1, <1>2, <2>5, <2>6, <2>8, <2>11
  <2>13. Room(r)'
    BY <1>0, <2>1, <2>4, <2>7, <2>10, <2>12 DEF Room
  <2> QED
    BY <2>9, <2>13
<1>6. CASE ~(at = "poll" /\ Empty) /\ at \notin Blocking /\ ~(spent < MaxWork)
  <2>1. held' = Blame("work")
    BY <1>0, <1>6 DEF Elapse
  <2>2. held'[r] # "nothing"
    BY <2>1 DEF Blame
  <2> QED
    BY <2>2
<1> QED
  BY <1>3, <1>4, <1>5, <1>6

\* The poll returns: the rings that hold something are all reported, and have
\* room for the turn to come; the others have room for two.
LEMMA WakeRoomy ==
    ASSUME TypeOK, Parked, Roomy, Wake
    PROVE  Roomy'
<1>0. /\ at = "poll" /\ ready' = {r \in Rings : ring[r] > 0} /\ spent' = 0
      /\ held' = [r \in Sized |-> IF ring[r] = 0 THEN "nothing" ELSE held[r]]
      /\ UNCHANGED <<cur, ring, budget>>
  BY DEF Wake, kernel
<1>1. ready = {} /\ cur = None
  BY <1>0 DEF Parked
<1> SUFFICES ASSUME NEW r \in Sized, held'[r] = "nothing"
             PROVE  spent' <= MaxWork /\ Room(r)'
  BY DEF Roomy, Sized
<1>2. r \in Rings /\ Rate[r] \in Nat /\ MaxWork \in Nat /\ RingSize \in Nat /\ cur # r
  BY <1>1, Constants
<1>3. ring[r] \in Nat /\ budget[r] \in Nat /\ budget[r] <= Rate[r] /\ spent \in Nat
  BY <1>2, Values
<1>4. Rate[r] * MaxWork \in Nat /\ Rate[r] * (MaxWork - 0) = Rate[r] * MaxWork
  BY <1>2
<1>5. CASE ring[r] = 0
  <2>1. 0 + budget[r] + Rate[r] * (MaxWork - 0) + Rate[r] * MaxWork <= RingSize
    <3>1. 0 \in 0..MaxWork
      BY <1>2
    <3>2. PICK b \in Nat : b = budget[r]
      BY <1>3
    <3>3. b <= Rate[r]
      BY <1>3, <3>2
    <3>4. 0 + b + Rate[r] * (MaxWork - 0) + Rate[r] * MaxWork <= RingSize
      BY <3>1, <3>3, EmptyRoom
    <3> QED
      BY <3>2, <3>4
  <2>2. r \notin ready' /\ cur' # r
    BY <1>0, <1>2, <1>5
  <2> QED
    BY <1>0, <1>2, <1>3, <1>4, <1>5, <2>1, <2>2 DEF Room
<1>6. CASE ring[r] # 0
  <2>1. held[r] = "nothing" /\ r \in ready'
    BY <1>0, <1>2, <1>3, <1>6
  <2>2. spent <= MaxWork /\ Room(r)
    BY <2>1 DEF Roomy
  <2>3. Rate[r] * (MaxWork - spent) \in Nat
    BY <1>2, <1>3, <2>2, Ticks
  <2>4. ring[r] + budget[r] + Rate[r] * (MaxWork - spent) + Rate[r] * MaxWork <= RingSize
    BY <1>1, <1>2, <2>2 DEF Room
  <2>5. ring[r] + budget[r] + Rate[r] * MaxWork <= RingSize
    BY <1>2, <1>3, <1>4, <2>3, <2>4
  <2> QED
    BY <1>0, <1>2, <1>3, <1>4, <2>1, <2>5 DEF Room
<1> QED
  BY <1>5, <1>6

\* The thread comes to a ring, or finds it empty and leaves it.
LEMMA RingRoomy ==
    ASSUME TypeOK, Roomy, NEW p \in Rings, NextRing(p) \/ LeaveRing(p)
    PROVE  Roomy'
<1>0. UNCHANGED <<ring, budget, spent>>
  BY DEF NextRing, LeaveRing, kernel, clock
<1> SUFFICES ASSUME NEW r \in Sized, held'[r] = "nothing"
             PROVE  spent' <= MaxWork /\ Room(r)'
  BY DEF Roomy, Sized
<1>1. r \in Rings /\ Rate[r] \in Nat /\ MaxWork \in Nat /\ RingSize \in Nat /\ None \notin Rings
  BY Constants
<1>2. ring[r] \in Nat /\ budget[r] \in Nat /\ budget[r] <= Rate[r] /\ spent \in Nat
  BY <1>1, Values
<1>3. CASE NextRing(p)
  <2>1. /\ cur = None /\ cur' = p /\ ready' = ready \ {p} /\ p \in ready /\ held' = held
    BY <1>3 DEF NextRing, clock
  <2>2. (r \in ready' \/ cur' = r) <=> (r \in ready \/ cur = r)
    BY <1>1, <2>1
  <2>3. spent <= MaxWork /\ Room(r)
    BY <2>1 DEF Roomy
  <2> QED
    BY <1>0, <2>2, <2>3 DEF Room
<1>4. CASE LeaveRing(p) /\ r # p
  <2>1. /\ cur = p /\ cur' = None /\ ready' = ready
        /\ held' = held \/ held' = [q \in Sized |-> IF q = p THEN "nothing" ELSE held[q]]
    BY <1>4 DEF LeaveRing
  <2>2. held[r] = "nothing" /\ ((r \in ready' \/ cur' = r) <=> (r \in ready \/ cur = r))
    BY <1>1, <1>4, <2>1
  <2>3. spent <= MaxWork /\ Room(r)
    BY <2>2 DEF Roomy
  <2> QED
    BY <1>0, <2>2, <2>3 DEF Room
<1>5. CASE LeaveRing(p) /\ r = p
  <2>1. ring[r] = 0
    BY <1>5 DEF LeaveRing
  <2>2. spent <= MaxWork
    <3>1. CASE spent <= MaxWork
      BY <3>1
    <3>2. CASE ~(spent <= MaxWork)
      <4>1. held[r] = "nothing"
        BY <1>5, <3>2 DEF LeaveRing
      <4> QED
        BY <4>1 DEF Roomy
    <3> QED
      BY <3>1, <3>2
  <2>3. spent \in 0..MaxWork
    BY <1>1, <1>2, <2>2
  <2>4. 0 + budget[r] + Rate[r] * (MaxWork - spent) + Rate[r] * MaxWork <= RingSize
    BY <1>2, <2>3, EmptyRoom
  <2>5. Rate[r] * MaxWork \in Nat /\ Rate[r] * (MaxWork - spent) \in Nat
    BY <1>1, <2>3, Ticks
  <2> QED
    BY <1>0, <1>1, <1>2, <2>1, <2>2, <2>4, <2>5 DEF Room
<1> QED
  BY <1>3, <1>4, <1>5

LEMMA QuietRoomy ==
    ASSUME Roomy, Quiet
    PROVE  Roomy'
<1>1. UNCHANGED <<cur, ready, ring, budget, spent, held>>
  BY QuietKeeps
<1> QED
  BY <1>1 DEF Roomy, Room, Sized

LEMMA StepIInv == IInv /\ [Next]_vars => IInv'
<1> SUFFICES ASSUME IInv, [Next]_vars PROVE IInv'
  OBVIOUS
<1>0. TypeOK /\ Parked /\ Roomy
  BY DEF IInv
<1>1. TypeOK' /\ Parked'
  BY <1>0, TypeStep, ParkedStep
<1>2. Roomy'
  <2>1. \/ \E r \in Rings : Post(r) \/ Consume(r) \/ ConsumeStranger(r) \/ NextRing(r) \/ LeaveRing(r)
        \/ Elapse \/ Wake \/ Quiet
    BY DEF Next, Loop, Quiet, Exited
  <2>2. CASE \E r \in Rings : Post(r) \/ Consume(r) \/ ConsumeStranger(r) \/ NextRing(r) \/ LeaveRing(r)
    BY <1>0, <2>2, PostRoomy, ConsumeRoomy, RingRoomy
  <2> QED
    BY <1>0, <2>1, <2>2, ElapseRoomy, WakeRoomy, QuietRoomy
<1> QED
  BY <1>1, <1>2 DEF IInv

\* Headroom and the fact that the thread is at no ring outside of the drain hold
\* in every reachable state, wherever and for however long time passes.
THEOREM Invariance == Spec => []IInv
<1>1. Init => IInv
  BY InitIInv
<1>2. IInv /\ [Next]_vars => IInv'
  BY StepIInv
<1> QED
  BY <1>1, <1>2, PTL DEF Spec

\* Room for what arrives in two turns of the loop is what a ring needs: as long
\* as nothing has held up the thread, all that can still come fits in it.
THEOREM RoomForTwoTurns == Spec => []Headroom
<1>1. IInv => Headroom
  BY RoomyHeadroom DEF IInv
<1> QED
  BY <1>1, Invariance, PTL

\* A ring with that room loses an event only after a turn's own work took too
\* long, or after time passed in a lookup, a reload or a flush(); a destination
\* that stalls while its sink is only written to costs none.
THEOREM LossMeansHeldUp == Spec => LossOnlyWhenHeldUp
<1>1. IInv /\ [Next]_vars => [\A r \in Sized : Loses(r) => held[r] # "nothing"]_vars
  <2> SUFFICES ASSUME IInv, [Next]_vars, NEW r \in Sized, Loses(r), held[r] = "nothing"
               PROVE  FALSE
    OBVIOUS
  <2>1. r \in Rings /\ Rate[r] \in Nat /\ MaxWork \in Nat /\ RingSize \in Nat
    BY Constants
  <2>2. /\ ring[r] \in Nat /\ budget[r] \in Nat /\ budget[r] <= Rate[r] /\ spent \in Nat
        /\ ring \in [Rings -> 0..RingSize] /\ budget \in [Rings -> Nat]
    BY <2>1, Values DEF IInv, TypeOK
  <2>3. budget'[r] < budget[r] /\ ring'[r] = ring[r]
    BY DEF Loses
  <2>4. Post(r)
    <3>1. ASSUME NEW p \in Rings, Post(p) PROVE p = r
      BY <2>1, <2>2, <2>3, <3>1 DEF Post
    <3>2. ~UNCHANGED budget
      BY <2>2, <2>3
    <3>3. ~Elapse
      <4>1. Elapse => budget'[r] = Rate[r]
        BY DEF Elapse
      <4> QED
        BY <2>1, <2>2, <2>3, <4>1
    <3>4. ~Quiet
      BY <3>2, QuietKeeps
    <3>5. ~Wake /\ ~\E p \in Rings : Consume(p) \/ ConsumeStranger(p) \/ NextRing(p) \/ LeaveRing(p)
      BY <3>2 DEF Wake, Consume, ConsumeStranger, NextRing, LeaveRing, kernel
    <3>6. \E p \in Rings : Post(p)
      BY <3>3, <3>4, <3>5 DEF Next, Loop, Quiet, Exited
    <3> QED
      BY <3>1, <3>6
  <2>5. budget[r] > 0 /\ ~(ring[r] < RingSize)
    BY <2>1, <2>2, <2>3, <2>4 DEF Post
  <2>6. spent <= MaxWork /\ Room(r)
    BY DEF IInv, Roomy
  <2>7. Rate[r] * (MaxWork - spent) \in Nat /\ Rate[r] * MaxWork \in Nat
    BY <2>1, <2>2, <2>6, Ticks
  <2> QED
    BY <2>1, <2>2, <2>5, <2>6, <2>7 DEF Room
<1> QED
  BY <1>1, Invariance, PTL DEF Spec, LossOnlyWhenHeldUp
=============================================================================
