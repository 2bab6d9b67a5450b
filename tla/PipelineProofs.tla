--------------------------- MODULE PipelineProofs ---------------------------
(***************************************************************************)
(* Safety of Pipeline for every set of sinks, batch size, flush interval   *)
(* and number of records.  IInv adds to what the runs check where the poll *)
(* thread is in a reload or in the last flush() (Leaving), that the batch  *)
(* is never older than the time since last_flush_ (NotOlder), and that a   *)
(* shipped batch was not empty (BatchesNotEmpty).                          *)
(***************************************************************************)
EXTENDS Pipeline, SequenceTheorems, TLAPS

\* What s was written since it was wired is what was shipped since then.
WrittenAll(s) ==
    /\ Len(received[s]) = shipped - joined[s]
    /\ \A i \in 1..Len(received[s]) : received[s][i] = joined[s] + i

\* Whom the poll thread waits for: nobody, the sink a reload has just unwired,
\* or at the end every wired sink that has not drained yet; the batch is empty
\* by then.  A reload removes only sinks that are wired.
Leaving ==
    /\ at \in {"reload", "removing"} => plan.remove \subseteq wired
    /\ at = "removing" => \E s \in Sinks : leaving = {s} /\ WrittenAll(s)
    /\ at \in {"draining", "exited"} =>
          pending = << >> /\ \A s \in wired : s \in leaving \/ out[s] = {}
    /\ at \notin {"removing", "draining"} => leaving = {}

\* No record has been pending for longer than tick() knows of.
NotOlder == pending = << >> \/ age <= since

BatchesNotEmpty == batches <= shipped

IInv ==
    /\ EverythingToEverySink
    /\ Leaving
    /\ NotOlder
    /\ BatchesNotEmpty

\* The invariant once more, by what it speaks of: the batch, the records and
\* the sinks' share of them; and where the poll thread is.
DataInv ==
    /\ pending \in Seq(1..MaxRecords)
    /\ Len(pending) < BatchSize \/ pending = << >>
    /\ emitted \in 0..MaxRecords
    /\ batches \in 0..MaxRecords
    /\ out \in [Sinks -> SUBSET (1..batches)]
    /\ shipped \in 0..emitted
    /\ joined \in [Sinks -> 0..shipped]
    /\ received \in [Sinks -> Seq(1..MaxRecords)]
    /\ shipped + Len(pending) = emitted
    /\ \A i \in 1..Len(pending) : pending[i] = shipped + i
    /\ \A s \in wired : WrittenAll(s)
    /\ BatchesNotEmpty

Control ==
    /\ at \in {"poll", "ticked", "reload", "removing", "draining", "exited"}
    /\ since \in 0..FlushInterval
    /\ wired \subseteq Sinks
    /\ plan \in [remove : SUBSET Sinks, add : SUBSET Sinks]
    /\ leaving \subseteq Sinks
    /\ age \in 0..FlushInterval

LEMMA Parts == IInv <=> DataInv /\ Control /\ Leaving /\ NotOlder
BY DEF IInv, EverythingToEverySink, TypeOK, DataInv, Control, WrittenAll, BatchesNotEmpty

LEMMA PartsNext == DataInv' /\ Control' /\ Leaving' /\ NotOlder' => IInv'
BY DEF IInv, EverythingToEverySink, TypeOK, DataInv, Control, WrittenAll, BatchesNotEmpty

LEMMA SaturateStays ==
    ASSUME NEW t \in 0..FlushInterval
    PROVE  Saturate(t) \in 0..FlushInterval /\ t <= Saturate(t)
BY PipelineAssumption DEF Saturate

-----------------------------------------------------------------------------
LEMMA InitIInv == Init => IInv
<1> SUFFICES ASSUME Init PROVE IInv
  OBVIOUS
<1> USE PipelineAssumption
<1>1. << >> \in Seq(1..MaxRecords) /\ Len(<< >>) = 0
  BY EmptySeq
<1>2. ASSUME NEW s \in Sinks PROVE WrittenAll(s)
  BY <1>1 DEF Init, WrittenAll
<1>3. DataInv
  BY <1>1, <1>2 DEF Init, DataInv, BatchesNotEmpty
<1>4. Control
  BY DEF Init, Control
<1>5. Leaving /\ NotOlder
  BY DEF Init, Leaving, NotOlder
<1> QED
  BY <1>3, <1>4, <1>5, Parts

-----------------------------------------------------------------------------
(* ship().                                                                 *)

\* A batch that continues what was shipped, handed to every wired sink.
LEMMA ShipKeepsData ==
    ASSUME DataInv, wired \subseteq Sinks,
           NEW batch \in Seq(1..MaxRecords), Len(batch) > 0,
           \A i \in 1..Len(batch) : batch[i] = shipped + i,
           emitted' \in 0..MaxRecords, shipped + Len(batch) = emitted',
           Ship(batch), UNCHANGED <<wired, joined>>
    PROVE  DataInv'
<1>1. /\ pending' = << >> /\ Len(pending') = 0
      /\ batches' = batches + 1
      /\ shipped' = shipped + Len(batch)
  BY EmptySeq DEF Ship
<1>2. Len(batch) \in Nat /\ shipped \in Nat /\ batches \in Nat /\ MaxRecords \in Nat
  BY LenProperties, PipelineAssumption DEF DataInv
<1>3. shipped' \in 0..emitted' /\ batches' \in 0..MaxRecords /\ BatchesNotEmpty'
  BY <1>1, <1>2 DEF DataInv, BatchesNotEmpty
<1>4. out' \in [Sinks -> SUBSET (1..batches')]
  <2>1. PICK kept \in [Sinks -> SUBSET (1..batches)] :
          out' = [s \in Sinks |-> IF s \in wired THEN kept[s] \cup {batches + 1} ELSE out[s]]
    BY DEF Ship
  <2>2. ASSUME NEW s \in Sinks
        PROVE  (IF s \in wired THEN kept[s] \cup {batches + 1} ELSE out[s])
                   \in SUBSET (1..(batches + 1))
    <3>1. kept[s] \subseteq 1..batches /\ out[s] \subseteq 1..batches
      BY DEF DataInv
    <3>2. 1..batches \subseteq 1..(batches + 1) /\ batches + 1 \in 1..(batches + 1)
      BY <1>2
    <3> QED
      BY <3>1, <3>2
  <2> QED
    BY <1>1, <2>1, <2>2
<1>5. joined' \in [Sinks -> 0..shipped']
  BY <1>1, <1>2 DEF DataInv
<1>6. /\ received' \in [Sinks -> Seq(1..MaxRecords)]
      /\ \A s \in Sinks :
            received'[s] = IF s \in wired THEN received[s] \o batch ELSE received[s]
  <2>1. \A s \in Sinks : received[s] \o batch \in Seq(1..MaxRecords)
    BY ConcatProperties DEF DataInv
  <2> QED
    BY <2>1 DEF Ship, FanOut, DataInv
<1>7. ASSUME NEW s \in wired PROVE WrittenAll(s)'
  <2>1. /\ received[s] \in Seq(1..MaxRecords) /\ Len(received[s]) \in Nat
        /\ joined[s] \in Nat /\ WrittenAll(s)
    BY LenProperties DEF DataInv
  <2>2. received'[s] = received[s] \o batch
    BY <1>6
  <2>3. /\ Len(received[s] \o batch) = Len(received[s]) + Len(batch)
        /\ \A i \in 1..(Len(received[s]) + Len(batch)) :
              (received[s] \o batch)[i] = IF i <= Len(received[s]) THEN received[s][i]
                                          ELSE batch[i - Len(received[s])]
    BY <2>1, ConcatProperties
  <2>4. Len(received[s]) = shipped - joined[s]
    BY <2>1 DEF WrittenAll
  <2>5. ASSUME NEW i \in 1..(Len(received[s]) + Len(batch))
        PROVE  (received[s] \o batch)[i] = joined[s] + i
    <3>1. CASE i <= Len(received[s])
      BY SMTT(20), <1>2, <2>1, <2>3, <3>1 DEF WrittenAll
    <3>2. CASE ~(i <= Len(received[s]))
      <4>1. i - Len(received[s]) \in 1..Len(batch)
        BY <1>2, <2>1, <3>2
      <4>2. batch[i - Len(received[s])] = shipped + (i - Len(received[s]))
        BY <4>1
      <4>3. (received[s] \o batch)[i] = batch[i - Len(received[s])]
        BY <2>3, <3>2
      <4>4. shipped + (i - Len(received[s])) = joined[s] + i
        BY <1>2, <2>1, <2>4
      <4> QED
        BY <4>2, <4>3, <4>4
    <3> QED
      BY <3>1, <3>2
  <2>6. Len(received'[s]) = shipped' - joined'[s]
    BY <1>1, <1>2, <2>1, <2>2, <2>3, <2>4
  <2>7. \A i \in 1..Len(received'[s]) : received'[s][i] = joined'[s] + i
    BY <2>2, <2>3, <2>5
  <2> QED
    BY <2>6, <2>7 DEF WrittenAll
<1> HIDE DEF DataInv
<1> QED
  BY <1>1, <1>2, <1>3, <1>4, <1>5, <1>6, <1>7 DEF DataInv

\* tick() and flush() ship what is pending, if there is anything.
LEMMA ShipPendingKeepsData ==
    ASSUME DataInv, wired \subseteq Sinks, ShipPending, UNCHANGED <<emitted, wired, joined>>
    PROVE  DataInv' /\ pending' = << >>
<1>1. CASE pending = << >>
  BY <1>1 DEF ShipPending, DataInv, WrittenAll, BatchesNotEmpty
<1>2. CASE pending # << >>
  <2>1. Len(pending) > 0 /\ pending \in Seq(1..MaxRecords) /\ Ship(pending)
    BY <1>2, EmptySeq DEF ShipPending, DataInv
  <2>2. /\ \A i \in 1..Len(pending) : pending[i] = shipped + i
        /\ emitted' \in 0..MaxRecords /\ shipped + Len(pending) = emitted'
    BY DEF DataInv
  <2> QED
    BY <2>1, <2>2, ShipKeepsData DEF Ship
<1> QED
  BY <1>1, <1>2

-----------------------------------------------------------------------------
(* The pipeline's steps.                                                   *)

LEMMA EmitStep == ASSUME IInv, Emit PROVE IInv'
<1>1. DataInv /\ Control /\ Leaving /\ NotOlder
  BY Parts
<1>2. /\ at = "poll" /\ emitted < MaxRecords /\ emitted' = emitted + 1
      /\ UNCHANGED <<at, since, wired, plan, leaving, joined>>
  BY DEF Emit
<1> DEFINE batch == Append(pending, emitted + 1)
<1>3. /\ pending \in Seq(1..MaxRecords) /\ Len(pending) \in Nat
      /\ emitted \in Nat /\ shipped \in Nat /\ MaxRecords \in Nat
      /\ emitted + 1 \in 1..MaxRecords
      /\ shipped + Len(pending) = emitted
  BY <1>1, <1>2, LenProperties, PipelineAssumption DEF DataInv
<1>4. /\ batch \in Seq(1..MaxRecords)
      /\ Len(batch) = Len(pending) + 1
      /\ \A i \in 1..Len(pending) : batch[i] = pending[i]
      /\ batch[Len(pending) + 1] = emitted + 1
  BY <1>3, AppendProperties
<1> HIDE DEF batch
<1>5. \A i \in 1..Len(batch) : batch[i] = shipped + i
  <2> TAKE i \in 1..Len(batch)
  <2>1. CASE i <= Len(pending)
    BY <1>1, <1>3, <1>4, <2>1 DEF DataInv
  <2>2. CASE i = Len(pending) + 1
    BY SMTT(20), <1>3, <1>4, <2>2
  <2> QED
    BY <1>3, <1>4, <2>1, <2>2
<1>6. shipped + Len(batch) = emitted' /\ Len(batch) > 0 /\ emitted' \in 0..MaxRecords
  BY <1>2, <1>3, <1>4
<1>7. CASE Full(batch)
  <2>1. Ship(batch)
    BY <1>7 DEF Emit, batch
  <2>2. DataInv'
    BY <1>1, <1>2, <1>4, <1>5, <1>6, <2>1, ShipKeepsData DEF Control
  <2>3. pending' = << >> /\ age' = 0
    BY <2>1 DEF Ship
  <2>4. Control' /\ NotOlder'
    BY <1>1, <1>2, <2>3, PipelineAssumption DEF Control, NotOlder
  <2>5. Leaving'
    BY <1>1, <1>2 DEF Leaving
  <2> QED
    BY <2>2, <2>4, <2>5, PartsNext
<1>8. CASE ~Full(batch)
  <2>1. /\ pending' = batch
        /\ age' = IF pending = << >> THEN 0 ELSE age
        /\ UNCHANGED <<batches, shipped, received, out>>
    BY <1>8 DEF Emit, batch
  <2>2. Len(batch) < BatchSize
    BY <1>3, <1>4, <1>8, PipelineAssumption DEF Full
  <2>3. DataInv'
    <3>1. \A s \in wired : WrittenAll(s)'
      BY <1>1, <1>2, <2>1 DEF DataInv, WrittenAll
    <3>2. shipped' \in 0..emitted'
      BY <1>2, <1>3, <2>1
    <3> QED
      BY <1>1, <1>2, <1>4, <1>5, <1>6, <2>1, <2>2, <3>1, <3>2 DEF DataInv, BatchesNotEmpty
  <2>4. Control' /\ NotOlder'
    BY <1>1, <1>2, <2>1, PipelineAssumption DEF Control, NotOlder
  <2>5. Leaving'
    BY <1>1, <1>2 DEF Leaving
  <2> QED
    BY <2>3, <2>4, <2>5, PartsNext
<1> QED
  BY <1>7, <1>8

LEMMA TickStep == ASSUME IInv, Tick PROVE IInv'
<1>1. DataInv /\ Control /\ Leaving /\ NotOlder
  BY Parts
<1>2. /\ at = "poll" /\ at' = "ticked"
      /\ UNCHANGED <<emitted, wired, plan, leaving, joined>>
  BY DEF Tick
<1>3. Leaving'
  BY <1>1, <1>2 DEF Leaving
<1>4. CASE since < FlushInterval
  <2>1. UNCHANGED <<pending, age, batches, shipped, received, out, since>>
    BY <1>4 DEF Tick
  <2>2. DataInv'
    BY <1>1, <1>2, <2>1 DEF DataInv, WrittenAll, BatchesNotEmpty
  <2>3. Control' /\ NotOlder'
    BY <1>1, <1>2, <2>1 DEF Control, NotOlder
  <2> QED
    BY <1>3, <2>2, <2>3, PartsNext
<1>5. CASE ~(since < FlushInterval)
  <2>1. ShipPending /\ since' = 0
    BY <1>5 DEF Tick
  <2>2. DataInv' /\ pending' = << >>
    BY <1>1, <1>2, <2>1, ShipPendingKeepsData DEF Control
  <2>3. age' = 0 \/ age' = age
    BY <2>1 DEF ShipPending, Ship
  <2>4. Control' /\ NotOlder'
    BY <1>1, <1>2, <2>1, <2>2, <2>3, PipelineAssumption DEF Control, NotOlder
  <2> QED
    BY <1>3, <2>2, <2>4, PartsNext
<1> QED
  BY <1>4, <1>5

LEMMA FlushStep == ASSUME IInv, Flush PROVE IInv'
<1>1. DataInv /\ Control /\ Leaving /\ NotOlder
  BY Parts
<1>2. /\ at = "poll" /\ at' = "draining" /\ ShipPending /\ leaving' = wired
      /\ UNCHANGED <<emitted, since, wired, plan, joined>>
  BY DEF Flush
<1>3. DataInv' /\ pending' = << >>
  BY <1>1, <1>2, ShipPendingKeepsData DEF Control
<1>4. age' = 0 \/ age' = age
  BY <1>2 DEF ShipPending, Ship
<1>5. Control' /\ NotOlder'
  BY <1>1, <1>2, <1>3, <1>4, PipelineAssumption DEF Control, NotOlder
<1>6. Leaving'
  BY <1>1, <1>2, <1>3 DEF Leaving
<1> QED
  BY <1>3, <1>5, <1>6, PartsNext

-----------------------------------------------------------------------------
(* The sinks, the clock and the daemon.                                    *)

LEMMA SettleStep == ASSUME IInv, NEW s \in Sinks, Settle(s) PROVE IInv'
<1>1. DataInv /\ Control /\ Leaving /\ NotOlder
  BY Parts
<1>2. /\ UNCHANGED <<at, wired, plan, leaving, joined>>
      /\ UNCHANGED <<pending, emitted, since, batches, shipped, received, age>>
  BY DEF Settle, batching
<1>3. PICK b \in out[s] : out' = [out EXCEPT ![s] = @ \ {b}]
  BY DEF Settle
<1>4. /\ out' \in [Sinks -> SUBSET (1..batches)]
      /\ \A t \in Sinks : out'[t] \subseteq out[t]
  BY <1>1, <1>3 DEF DataInv
<1>5. DataInv'
  BY <1>1, <1>2, <1>4 DEF DataInv, WrittenAll, BatchesNotEmpty
<1>6. Control' /\ NotOlder'
  BY <1>1, <1>2 DEF Control, NotOlder
<1>7. Leaving'
  <2>1. \A t \in wired : out[t] = {} => out'[t] = {}
    BY <1>1, <1>4 DEF Control
  <2>2. \A t : WrittenAll(t)' <=> WrittenAll(t)
    BY <1>2 DEF WrittenAll
  <2> QED
    BY <1>1, <1>2, <2>1, <2>2 DEF Leaving
<1> QED
  BY <1>5, <1>6, <1>7, PartsNext

\* add_sink(): a sink begins with what is shipped next.
LEMMA AddSinkStep == ASSUME IInv, NEW s \in Sinks, AddSink(s) PROVE IInv'
<1>1. DataInv /\ Control /\ Leaving /\ NotOlder
  BY Parts
<1>2. /\ at = "reload" /\ plan.remove = {} /\ plan' = [plan EXCEPT !.add = @ \ {s}]
      /\ UNCHANGED <<at, leaving, out, pending, emitted, since, batches, shipped, age>>
  BY DEF AddSink
<1>3. plan' \in [remove : SUBSET Sinks, add : SUBSET Sinks] /\ plan'.remove = {}
  BY <1>1, <1>2 DEF Control
<1>4. CASE UNCHANGED <<wired, joined, received>>
  <2>1. DataInv'
    BY <1>1, <1>2, <1>4 DEF DataInv, WrittenAll, BatchesNotEmpty
  <2>2. Control' /\ NotOlder' /\ Leaving'
    BY <1>1, <1>2, <1>3, <1>4 DEF Control, NotOlder, Leaving
  <2> QED
    BY <2>1, <2>2, PartsNext
<1>5. CASE /\ wired' = wired \cup {s}
           /\ joined' = [joined EXCEPT ![s] = shipped]
           /\ received' = [received EXCEPT ![s] = << >>]
  <2>1. joined' \in [Sinks -> 0..shipped] /\ received' \in [Sinks -> Seq(1..MaxRecords)]
    BY <1>1, <1>5, EmptySeq DEF DataInv
  <2>2. WrittenAll(s)'
    <3>1. received'[s] = << >> /\ joined'[s] = shipped /\ Len(received'[s]) = 0
      BY <1>1, <1>5, EmptySeq DEF DataInv
    <3>2. shipped \in Nat
      BY <1>1 DEF DataInv
    <3> QED
      BY <1>2, <3>1, <3>2 DEF WrittenAll
  <2>3. ASSUME NEW t \in wired, t # s PROVE WrittenAll(t)'
    <3>1. t \in Sinks /\ WrittenAll(t)
      BY <1>1 DEF DataInv, Control
    <3>2. received'[t] = received[t] /\ joined'[t] = joined[t]
      BY <1>1, <1>5, <2>3, <3>1 DEF DataInv
    <3> QED
      BY <1>2, <3>1, <3>2 DEF WrittenAll
  <2>4. DataInv'
    BY <1>1, <1>2, <1>5, <2>1, <2>2, <2>3 DEF DataInv, BatchesNotEmpty
  <2>5. Control' /\ NotOlder' /\ Leaving'
    BY <1>1, <1>2, <1>3, <1>5 DEF Control, NotOlder, Leaving
  <2> QED
    BY <2>4, <2>5, PartsNext
<1> QED
  BY <1>4, <1>5 DEF AddSink

\* The steps that leave the records where they are.
LEMMA LoopStep ==
    ASSUME IInv,
           \/ TimePasses \/ NextTurn \/ Reload \/ Reloaded \/ Drained
           \/ \E s \in Sinks : RemoveSink(s) \/ FlushReturns(s)
    PROVE  IInv'
<1>1. DataInv /\ Control /\ Leaving /\ NotOlder
  BY Parts
<1>2. UNCHANGED <<pending, emitted, batches, out, shipped, joined, received>>
  BY DEF TimePasses, NextTurn, Reload, Reloaded, Drained, RemoveSink, FlushReturns, batching
<1>3. wired' \subseteq wired
  BY DEF TimePasses, NextTurn, Reload, Reloaded, Drained, RemoveSink, FlushReturns
<1>4. DataInv'
  BY <1>1, <1>2, <1>3 DEF DataInv, WrittenAll, BatchesNotEmpty
<1>5. \A s : WrittenAll(s)' <=> WrittenAll(s)
  BY <1>2 DEF WrittenAll
<1>6. CASE TimePasses
  <2>1. /\ UNCHANGED <<at, wired, plan, leaving>>
        /\ since' = Saturate(since)
        /\ age' = IF pending = << >> THEN age ELSE Saturate(age)
    BY <1>6 DEF TimePasses
  <2>2. Control'
    BY <1>1, <2>1, SaturateStays DEF Control
  <2>3. NotOlder'
    <3>1. pending # << >> /\ age <= since => Saturate(age) <= Saturate(since)
      BY <1>1, PipelineAssumption DEF Control, Saturate
    <3> QED
      BY <1>1, <1>2, <2>1, <3>1 DEF NotOlder
  <2>4. Leaving'
    BY <1>1, <1>2, <1>5, <2>1 DEF Leaving
  <2> QED
    BY <1>4, <2>2, <2>3, <2>4, PartsNext
<1>7. CASE NextTurn \/ Reload \/ Reloaded
  <2>1. /\ UNCHANGED <<wired, leaving, since, age>>
        /\ at \in {"ticked", "reload"} /\ at' \in {"poll", "reload"}
    BY <1>7 DEF NextTurn, Reload, Reloaded, batching
  <2>2. /\ plan' \in [remove : SUBSET Sinks, add : SUBSET Sinks]
        /\ at' = "reload" => plan'.remove \subseteq wired
    <3>1. CASE Reload
      <4>1. PICK remove \in SUBSET wired, add \in SUBSET Sinks :
              plan' = [remove |-> remove, add |-> add]
        BY <3>1 DEF Reload
      <4> QED
        BY <1>1, <4>1 DEF Control
    <3>2. CASE NextTurn \/ Reloaded
      BY <1>1, <3>2 DEF Control, NextTurn, Reloaded
    <3> QED
      BY <1>7, <3>1, <3>2
  <2>3. Control' /\ NotOlder' /\ Leaving'
    BY <1>1, <1>2, <2>1, <2>2 DEF Control, NotOlder, Leaving
  <2> QED
    BY <1>4, <2>3, PartsNext
<1>8. CASE Drained
  <2>1. /\ at = "draining" /\ at' = "exited" /\ leaving = {} /\ since' = 0
        /\ UNCHANGED <<wired, plan, leaving, age>>
    BY <1>8 DEF Drained
  <2>2. Control' /\ NotOlder' /\ Leaving'
    BY <1>1, <1>2, <2>1, PipelineAssumption DEF Control, NotOlder, Leaving
  <2> QED
    BY <1>4, <2>2, PartsNext
<1>9. ASSUME NEW s \in Sinks, RemoveSink(s) PROVE IInv'
  <2>1. /\ at = "reload" /\ at' = "removing" /\ s \in plan.remove
        /\ plan' = [plan EXCEPT !.remove = @ \ {s}]
        /\ wired' = wired \ {s} /\ leaving' = {s}
        /\ UNCHANGED <<since, age>>
    BY <1>9 DEF RemoveSink, batching
  <2>2. plan.remove \subseteq wired /\ s \in wired
    BY <1>1, <2>1 DEF Leaving
  <2>3. /\ plan' \in [remove : SUBSET Sinks, add : SUBSET Sinks]
        /\ plan'.remove \subseteq wired'
    BY <1>1, <2>1, <2>2 DEF Control
  <2>4. WrittenAll(s)'
    BY <1>1, <1>5, <2>2 DEF DataInv
  <2>5. Control' /\ NotOlder'
    BY <1>1, <1>2, <2>1, <2>3 DEF Control, NotOlder
  <2>6. Leaving'
    BY <2>1, <2>3, <2>4 DEF Leaving
  <2> QED
    BY <1>4, <2>5, <2>6, PartsNext
<1>10. ASSUME NEW s \in Sinks, FlushReturns(s) PROVE IInv'
  <2>1. /\ s \in leaving /\ out[s] = {} /\ leaving' = leaving \ {s}
        /\ at' = IF at = "removing" THEN "reload" ELSE at
        /\ UNCHANGED <<wired, plan, since, age>>
    BY <1>10 DEF FlushReturns, batching
  <2>2. Control' /\ NotOlder'
    BY <1>1, <1>2, <2>1 DEF Control, NotOlder
  <2>3. Leaving'
    BY <1>1, <1>2, <2>1 DEF Leaving
  <2> QED
    BY <1>4, <2>2, <2>3, PartsNext
<1> QED
  BY <1>6, <1>7, <1>8, <1>9, <1>10

-----------------------------------------------------------------------------
LEMMA NextIInv == IInv /\ [Next]_vars => IInv'
<1> SUFFICES ASSUME IInv, [Next]_vars PROVE IInv'
  OBVIOUS
<1>1. CASE Emit
  BY <1>1, EmitStep
<1>2. CASE Tick
  BY <1>2, TickStep
<1>3. CASE Flush
  BY <1>3, FlushStep
<1>4. CASE \E s \in Sinks : Settle(s)
  BY <1>4, SettleStep
<1>5. CASE \E s \in Sinks : AddSink(s)
  BY <1>5, AddSinkStep
<1>6. CASE \/ TimePasses \/ NextTurn \/ Reload \/ Reloaded \/ Drained
           \/ \E s \in Sinks : RemoveSink(s) \/ FlushReturns(s)
  BY <1>6, LoopStep
<1>7. CASE UNCHANGED vars
  <2>1. DataInv /\ Control /\ Leaving /\ NotOlder
    BY Parts
  <2>2. DataInv' /\ Control' /\ Leaving' /\ NotOlder'
    BY <1>7, <2>1
    DEF vars, DataInv, Control, Leaving, NotOlder, WrittenAll, BatchesNotEmpty
  <2> QED
    BY <2>2, PartsNext
<1> QED
  BY <1>1, <1>2, <1>3, <1>4, <1>5, <1>6, <1>7 DEF Next, Loop, Exited

\* The inductive invariant holds in every reachable state.
THEOREM Invariance == Spec => []IInv
BY InitIInv, NextIInv, PTL DEF Spec

\* Every wired sink has been written every record shipped since it was wired,
\* once and in order, for every batch size and whatever reloads did.
THEOREM EverySinkGetsEverything == Spec => []EverythingToEverySink
<1>1. IInv => EverythingToEverySink
  BY DEF IInv
<1> QED
  BY <1>1, Invariance, PTL

\* An orderly end leaves no record in the batch and none outstanding.
THEOREM NothingIsLeft == Spec => []NothingLeftAtExit
<1>1. IInv => NothingLeftAtExit
  <2> SUFFICES ASSUME IInv, at = "exited"
               PROVE  shipped = emitted /\ \A s \in wired : out[s] = {}
    BY DEF NothingLeftAtExit
  <2>1. leaving = {} /\ pending = << >> /\ \A s \in wired : s \in leaving \/ out[s] = {}
    BY DEF IInv, Leaving
  <2>2. Len(pending) = 0 /\ shipped \in Nat /\ shipped + Len(pending) = emitted
    BY <2>1, EmptySeq DEF IInv, EverythingToEverySink, TypeOK
  <2> QED
    BY <2>1, <2>2
<1> QED
  BY <1>1, Invariance, PTL

\* tick() leaves no record behind that is as old as the flush interval.
THEOREM PartialBatchStaysYoung == Spec => PartialBatchIsYoung
<1>1. IInv /\ [Next]_vars =>
        [at = "poll" /\ at' = "ticked" => pending' = << >> \/ age' < FlushInterval]_vars
  <2> SUFFICES ASSUME IInv, Next, at = "poll", at' = "ticked"
               PROVE  pending' = << >> \/ age' < FlushInterval
    BY DEF vars
  <2>1. Tick
    BY DEF Next, Emit, Loop, NextTurn, Reload, Reloaded, Drained, RemoveSink, AddSink,
           FlushReturns, Flush, Settle, TimePasses, Exited
  <2>2. CASE since < FlushInterval
    BY <2>1, <2>2, PipelineAssumption DEF Tick, IInv, NotOlder, EverythingToEverySink, TypeOK
  <2>3. CASE ~(since < FlushInterval)
    BY <2>1, <2>3 DEF Tick, ShipPending, Ship
  <2> QED
    BY <2>2, <2>3
<1> QED
  BY <1>1, Invariance, PTL DEF Spec, PartialBatchIsYoung

\* A sink that a reload removes has nothing outstanding when it is destroyed,
\* and has missed exactly the records that were pending, less than a batch.
THEOREM RemovalCostsPending == Spec => RemovedSinkMissesPending
<1>1. IInv /\ [Next]_vars =>
        [\A s \in Sinks :
            (at = "removing" /\ leaving = {s} /\ leaving' = {}) =>
                /\ out'[s] = {}
                /\ emitted' - joined'[s] - Len(received'[s]) = Len(pending')
                /\ pending' = << >> \/ Len(pending') < BatchSize]_vars
  <2> SUFFICES ASSUME IInv, Next, NEW s \in Sinks,
                      at = "removing", leaving = {s}, leaving' = {}
               PROVE  /\ out'[s] = {}
                      /\ emitted' - joined'[s] - Len(received'[s]) = Len(pending')
                      /\ pending' = << >> \/ Len(pending') < BatchSize
    BY DEF vars
  <2>1. PICK t \in Sinks : FlushReturns(t)
    BY DEF Next, Emit, Loop, Tick, NextTurn, Reload, Reloaded, Drained, RemoveSink, AddSink,
           Flush, Settle, TimePasses, Exited, vars
  <2>2. /\ out[s] = {}
        /\ UNCHANGED <<out, emitted, joined, received, pending>>
    BY <2>1 DEF FlushReturns, batching
  <2>3. WrittenAll(s)
    BY DEF IInv, Leaving
  <2>4. DataInv
    BY Parts
  <2>5. /\ shipped \in Nat /\ emitted \in Nat /\ joined[s] \in Nat /\ Len(pending) \in Nat
        /\ shipped + Len(pending) = emitted /\ Len(received[s]) = shipped - joined[s]
    BY <2>3, <2>4, LenProperties DEF DataInv, WrittenAll
  <2>6. emitted - joined[s] - Len(received[s]) = Len(pending)
    BY <2>5
  <2> QED
    BY <2>2, <2>4, <2>6 DEF DataInv
<1> QED
  BY <1>1, Invariance, PTL DEF Spec, RemovedSinkMissesPending
=============================================================================
