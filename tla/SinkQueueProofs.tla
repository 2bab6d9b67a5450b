--------------------------- MODULE SinkQueueProofs --------------------------
(***************************************************************************)
(* Safety of SinkQueue for every queue bound and every number of batches.  *)
(* The invariants the runs check are not inductive one by one; IInv is     *)
(* their conjunction with two parts that tie the program counters of the   *)
(* two threads to the data (Control) and say how far the worker has got    *)
(* (DeliveredOlder).                                                       *)
(***************************************************************************)
EXTENDS SinkQueue, SequenceTheorems, TLAPS

\* Where the threads are, and what that says about the data: the worker holds
\* a batch exactly while it handles and counts it; nothing is accepted while
\* flush() waits, so its target stays the current count; the worker leaves its
\* loop only with an empty queue and after the destructor set stopping_.
Control ==
    /\ held # 0 <=> worker \in {"handling", "counting"}
    /\ Flushing => target = queued
    /\ worker \in {"exiting", "done"} => queue = << >> /\ stopping
    /\ stopping <=> main \in {"stopNotify", "joining", "gone"}
    /\ main = "gone" => worker = "done"

\* What was delivered is older than what is queued and than what is being
\* handled.
DeliveredOlder ==
    \A i \in 1..Len(delivered) :
        /\ delivered[i] <= queued - Len(queue)
        /\ worker = "handling" => delivered[i] < held

IInv ==
    /\ TypeOK
    /\ Control
    /\ Accounting
    /\ NewestKept
    /\ NothingForgotten
    /\ DeliveredOlder
    /\ DeliveredInOrder
    /\ LossIsVisible
    /\ NoLostWakeup

-----------------------------------------------------------------------------
(* What the eviction loop pops and leaves.                                 *)

LEMMA CapacityNat == Capacity \in Nat
BY QueueAssumption DEF Capacity

\* The loop in write() pops no more than there is, and leaves one free place.
LEMMA ExcessFits ==
    ASSUME TypeOK, Capacity # 0
    PROVE  /\ Excess \in 0..Len(queue)
           /\ Len(queue) - Excess < Capacity
BY CapacityNat DEF TypeOK, Excess

\* What it leaves is the end of the queue.
LEMMA KeptIsTail ==
    ASSUME TypeOK, Capacity # 0
    PROVE  /\ Kept \in Seq(1..queued)
           /\ Len(Kept) = Len(queue) - Excess
           /\ \A i \in 1..Len(Kept) : Kept[i] = queue[i + Excess]
<1> DEFINE m == Excess + 1
           n == Len(queue)
<1>1. m \in Int /\ n \in Int /\ m >= 1
  BY ExcessFits DEF TypeOK
<1>2. \A i \in m..n : queue[i] \in 1..queued
  BY <1>1, ElementOfSeq DEF TypeOK
<1>3. /\ SubSeq(queue, m, n) \in Seq(1..queued)
      /\ Len(SubSeq(queue, m, n)) = IF m <= n THEN n - m + 1 ELSE 0
      /\ \A i \in 1..(n - m + 1) : SubSeq(queue, m, n)[i] = queue[m + i - 1]
  BY <1>1, <1>2, SubSeqProperties
<1>4. Len(SubSeq(queue, m, n)) = n - Excess
  BY <1>1, <1>3, ExcessFits
<1> QED
  BY SMTT(20), <1>1, <1>3, <1>4, ExcessFits DEF Kept

-----------------------------------------------------------------------------
LEMMA InitIInv == Init => IInv
<1> SUFFICES ASSUME Init PROVE IInv
  OBVIOUS
<1>0. << >> \in Seq(1..0) /\ Len(<< >>) = 0
  BY EmptySeq
<1>1. TypeOK
  <2>1. queue \in Seq(1..queued) /\ delivered \in Seq(1..queued)
    BY <1>0 DEF Init
  <2>2. Len(queue) <= Capacity
    BY <1>0, CapacityNat DEF Init
  <2>3. stopping \in BOOLEAN /\ worker \in WorkerStates /\ main \in MainStates
    BY Zenon DEF Init, WorkerStates, MainStates
  <2>4. queued \in 0..MaxBatches /\ held \in 0..queued /\ target \in 0..queued
    BY QueueAssumption DEF Init
  <2> QED
    BY <2>1, <2>2, <2>3, <2>4 DEF Init, TypeOK
<1>2. Control /\ NoLostWakeup
  BY DEF Init, Control, NoLostWakeup, Flushing
<1>3. Len(queue) = 0 /\ Len(delivered) = 0
  BY EmptySeq DEF Init
<1>4. Accounting /\ LossIsVisible /\ NewestKept
  BY <1>3 DEF Init, Accounting, LossIsVisible, NewestKept, InFlight
<1>5. NothingForgotten /\ DeliveredOlder /\ DeliveredInOrder
  BY <1>3 DEF Init, NothingForgotten, DeliveredOlder, DeliveredInOrder
<1> QED
  BY <1>1, <1>2, <1>4, <1>5 DEF IInv

-----------------------------------------------------------------------------
(* Steps that only move a thread: the calls, notifies and wakeups.         *)

DataInv ==
    /\ Accounting
    /\ NewestKept
    /\ NothingForgotten
    /\ DeliveredOlder
    /\ DeliveredInOrder
    /\ LossIsVisible

dataVars == <<queue, queued, written, dropped, held, delivered, evicted, failed>>

\* A step that leaves the data alone, and the worker neither begins nor ends
\* handling a batch, keeps everything that is said about the data.
LEMMA DataKept ==
    ASSUME DataInv, UNCHANGED dataVars,
           worker' = "handling" <=> worker = "handling",
           worker' = "counting" <=> worker = "counting"
    PROVE  DataInv'
<1> USE DEF dataVars
<1>1. Accounting' /\ NewestKept'
  BY DEF DataInv, Accounting, NewestKept, InFlight
<1>2. NothingForgotten'
  BY DEF DataInv, NothingForgotten, Settled
<1>3. DeliveredOlder' /\ DeliveredInOrder'
  BY DEF DataInv, DeliveredOlder, DeliveredInOrder
<1>4. LossIsVisible'
  BY DEF DataInv, LossIsVisible, InFlight
<1> QED
  BY <1>1, <1>2, <1>3, <1>4 DEF DataInv

\* The steps of the poll thread other than write()'s locked block.
LEMMA MainStep ==
    ASSUME IInv,
           WriteNotify \/ Flush \/ FlushRecheck \/ Stop \/ StopNotify \/ Join
           \/ SpuriousWakeFlush
    PROVE  IInv'
<1> USE DEF IInv
<1>1. UNCHANGED dataVars
  BY DEF dataVars, queueVars, history, WriteNotify, Flush, FlushRecheck, Stop,
         StopNotify, Join, SpuriousWakeFlush
<1>2. /\ worker' = "handling" <=> worker = "handling"
      /\ worker' = "counting" <=> worker = "counting"
  BY DEF WriteNotify, Flush, FlushRecheck, Stop, StopNotify, Join,
         SpuriousWakeFlush, WakeWorker
<1>3. DataInv'
  BY <1>1, <1>2, DataKept DEF DataInv
<1>4. TypeOK'
  <2>1. stopping' \in BOOLEAN
    BY Zenon DEF TypeOK, WriteNotify, Flush, FlushRecheck, Stop, StopNotify, Join,
           SpuriousWakeFlush
  <2>2. worker' \in WorkerStates /\ main' \in MainStates
    BY DEF TypeOK, WriteNotify, Flush, FlushRecheck, Stop, StopNotify, Join,
           SpuriousWakeFlush, WakeWorker, WorkerStates, MainStates
  <2>3. target' \in 0..queued
    BY DEF TypeOK, WriteNotify, Flush, FlushRecheck, Stop, StopNotify, Join,
           SpuriousWakeFlush
  <2> QED
    BY <1>1, <2>1, <2>2, <2>3 DEF TypeOK, dataVars
<1>5. Control'
  BY <1>1 DEF Control, TypeOK, dataVars, Flushing, WriteNotify, Flush, FlushRecheck,
              Stop, StopNotify, Join, SpuriousWakeFlush, WakeWorker
<1>6. NoLostWakeup'
  BY <1>1 DEF NoLostWakeup, Control, Flushing, TypeOK, dataVars, WriteNotify, Flush,
              FlushRecheck, Stop, StopNotify, Join, SpuriousWakeFlush, WakeWorker
<1> QED
  BY <1>3, <1>4, <1>5, <1>6 DEF DataInv

\* The worker announcing its progress, ending, or waking for no reason.
LEMMA WorkerStep ==
    ASSUME IInv, CountNotify \/ Exit \/ SpuriousWakeWorker
    PROVE  IInv'
<1> USE DEF IInv
<1>1. UNCHANGED dataVars /\ UNCHANGED <<stopping, target>>
  BY DEF dataVars, queueVars, history, CountNotify, Exit, SpuriousWakeWorker
<1>2. /\ worker' = "handling" <=> worker = "handling"
      /\ worker' = "counting" <=> worker = "counting"
  BY DEF CountNotify, Exit, SpuriousWakeWorker
<1>3. DataInv'
  BY <1>1, <1>2, DataKept DEF DataInv
<1>4. TypeOK'
  <2>1. stopping' \in BOOLEAN
    BY <1>1, Zenon DEF TypeOK
  <2>2. worker' \in WorkerStates /\ main' \in MainStates
    BY DEF TypeOK, CountNotify, Exit, SpuriousWakeWorker, WakeFlush, WorkerStates, MainStates
  <2> QED
    BY <1>1, <2>1, <2>2 DEF TypeOK, dataVars
<1>5. Control'
  BY <1>1 DEF Control, TypeOK, dataVars, Flushing, CountNotify, Exit, SpuriousWakeWorker,
              WakeFlush
<1>6. NoLostWakeup'
  BY <1>1 DEF NoLostWakeup, Control, Flushing, TypeOK, dataVars, CountNotify, Exit,
              SpuriousWakeWorker, WakeFlush
<1> QED
  BY <1>3, <1>4, <1>5, <1>6 DEF DataInv

-----------------------------------------------------------------------------
(* Steps that move a batch.                                                *)

\* The worker taking the oldest batch, blocking or leaving its loop.
LEMMA TakeStep == ASSUME IInv, Take PROVE IInv'
<1> USE DEF IInv
<1>1. CASE queue = << >>
  <2>1. UNCHANGED dataVars /\ UNCHANGED <<stopping, target, main>>
    BY <1>1 DEF dataVars, history, Take
  <2>2. worker = "check" /\ worker' = IF stopping THEN "exiting" ELSE "waiting"
    BY <1>1 DEF Take
  <2>3. DataInv'
    BY <2>1, <2>2, DataKept DEF DataInv
  <2>4. TypeOK'
    <3>1. stopping' \in BOOLEAN
      BY <2>1, Zenon DEF TypeOK
    <3> QED
      BY <2>1, <2>2, <3>1 DEF TypeOK, dataVars, WorkerStates
  <2>5. Control'
    BY <1>1, <2>1, <2>2 DEF Control, dataVars, Flushing
  <2>6. Len(queue) = 0 /\ held = 0
    BY <1>1, <2>2, EmptySeq DEF Control
  <2>7. NoLostWakeup'
    BY <1>1, <2>1, <2>2, <2>6
    DEF NoLostWakeup, Control, Accounting, InFlight, TypeOK, dataVars, Flushing
  <2> QED
    BY <2>3, <2>4, <2>5, <2>7 DEF DataInv
<1>2. CASE queue # << >>
  <2>1. /\ worker = "check" /\ worker' = "handling"
        /\ held' = Head(queue) /\ queue' = Tail(queue)
        /\ UNCHANGED <<queued, written, dropped, stopping, main, target>>
        /\ UNCHANGED <<delivered, evicted, failed>>
    BY <1>2 DEF Take, history
  <2>2. /\ held = 0
        /\ Len(queue) \in Nat \ {0}
    BY <1>2, <2>1, EmptySeq DEF Control, TypeOK
  <2>3. /\ queue' \in Seq(1..queued)
        /\ Len(queue') = Len(queue) - 1
        /\ \A i \in 1..Len(queue') : queue'[i] = queue[i + 1]
    BY <1>2, <2>1, HeadTailProperties DEF TypeOK
  <2>4. held' = queued - Len(queue) + 1 /\ held' = queue[1] /\ held' \in 1..queued
    BY <1>2, <2>1, <2>2 DEF TypeOK, NewestKept
  <2>5. TypeOK'
    <3>1. stopping' \in BOOLEAN
      BY <2>1, Zenon DEF TypeOK
    <3> QED
      BY <2>1, <2>2, <2>3, <2>4, <3>1, CapacityNat DEF TypeOK, WorkerStates
  <2>6. Control' /\ NoLostWakeup'
    BY <2>1, <2>4 DEF Control, NoLostWakeup, Flushing, TypeOK
  <2>7. Accounting' /\ LossIsVisible'
    <3>1. InFlight = 0 /\ InFlight' = 1
      BY <2>2, <2>4 DEF InFlight
    <3>2. Accounting'
      BY <2>1, <2>2, <2>3, <3>1 DEF Accounting, TypeOK
    <3>3. LossIsVisible'
      BY <2>1, <2>2, <2>3, <3>1, LenProperties DEF LossIsVisible, TypeOK
    <3> QED
      BY <3>2, <3>3
  <2>8. NewestKept'
    BY <2>1, <2>2, <2>3, <2>4 DEF NewestKept, TypeOK
  <2>9. NothingForgotten'
    <3> SUFFICES ASSUME NEW b \in 1..(queued - Len(queue) + 1)
                 PROVE  Settled(b)' \/ b = held'
      BY <2>1, <2>2, <2>3 DEF NothingForgotten, TypeOK
    <3>1. CASE b = queued - Len(queue) + 1
      BY <3>1, <2>4
    <3>2. CASE b \in 1..(queued - Len(queue))
      <4>1. Settled(b)
        BY <3>2, <2>1 DEF NothingForgotten
      <4> QED
        BY <4>1, <2>1 DEF Settled
    <3>3. b = queued - Len(queue) + 1 \/ b \in 1..(queued - Len(queue))
      BY <2>2 DEF TypeOK
    <3> QED
      BY <3>1, <3>2, <3>3
  <2>10. DeliveredOlder' /\ DeliveredInOrder'
    BY <2>1, <2>2, <2>3, <2>4 DEF DeliveredOlder, DeliveredInOrder, TypeOK
  <2> QED
    BY <2>5, <2>6, <2>7, <2>8, <2>9, <2>10
<1> QED
  BY <1>1, <1>2

\* The worker handing the batch to the destination, or giving up on it.
LEMMA HandleStep == ASSUME IInv, Handle PROVE IInv'
<1> USE DEF IInv
<1>1. /\ worker = "handling" /\ worker' = "counting"
      /\ UNCHANGED <<queue, queued, written, stopping, held, main, target, evicted>>
  BY DEF Handle, queueVars
<1>2. held \in 1..queued
  BY <1>1 DEF Control, TypeOK
<1>3. \/ /\ delivered' = Append(delivered, held)
         /\ UNCHANGED <<dropped, failed>>
      \/ /\ failed' = failed \cup {held}
         /\ dropped' = dropped + 1
         /\ UNCHANGED delivered
  BY DEF Handle
<1>4. /\ Len(delivered) \in Nat
      /\ delivered' \in Seq(1..queued)
      /\ Len(delivered') \in {Len(delivered), Len(delivered) + 1}
      /\ \A i \in 1..Len(delivered') :
            delivered'[i] = IF i <= Len(delivered) THEN delivered[i] ELSE held
  <2>1. Len(delivered) \in Nat /\ DOMAIN delivered = 1..Len(delivered)
    BY LenProperties DEF TypeOK
  <2>2. CASE delivered' = Append(delivered, held)
    <3>1. /\ delivered' \in Seq(1..queued)
          /\ Len(delivered') = Len(delivered) + 1
      BY <1>2, <2>2 DEF TypeOK
    <3>2. \A i \in 1..(Len(delivered) + 1) :
            delivered'[i] = IF i <= Len(delivered) THEN delivered[i] ELSE held
      BY SMTT(20), <1>2, <2>1, <2>2 DEF TypeOK
    <3> QED
      BY <2>1, <3>1, <3>2
  <2>3. CASE delivered' = delivered
    BY <2>1, <2>3 DEF TypeOK
  <2> QED
    BY <1>3, <2>2, <2>3
<1>5. TypeOK'
  <2>1. stopping' \in BOOLEAN
    BY <1>1, Zenon DEF TypeOK
  <2>2. dropped' \in Nat
    BY <1>3 DEF TypeOK
  <2>3. failed' \subseteq 1..queued
    BY <1>2, <1>3 DEF TypeOK
  <2> QED
    BY <1>1, <1>2, <1>4, <2>1, <2>2, <2>3 DEF TypeOK, WorkerStates
<1>6. Control' /\ NoLostWakeup'
  BY <1>1 DEF Control, NoLostWakeup, Flushing
<1>7. Accounting' /\ NewestKept'
  BY <1>1 DEF Accounting, NewestKept, InFlight
<1>8. LossIsVisible'
  <2>1. InFlight = 1 /\ InFlight' = 1
    BY <1>1, <1>2 DEF InFlight
  <2>2. Len(delivered') + dropped' = Len(delivered) + dropped + 1
    <3>1. Len(Append(delivered, held)) = Len(delivered) + 1
      BY <1>2 DEF TypeOK
    <3>2. dropped \in Nat /\ Len(delivered) \in Nat
      BY <1>4 DEF TypeOK
    <3> HIDE DEF IInv
    <3> QED
      BY <1>3, <3>1, <3>2
  <2>3. /\ Len(queue') = Len(queue) /\ Len(queue) \in Nat
        /\ dropped \in Nat /\ dropped' \in Nat
        /\ Len(delivered) \in Nat /\ Len(delivered') \in Nat
    BY <1>1, <1>3, <1>4 DEF TypeOK
  <2>4. queued = Len(queue) + 1 + Len(delivered) + dropped
    BY <1>1, <2>1, <2>3 DEF LossIsVisible
  <2>5. queued' = Len(queue') + 1 + Len(delivered') + dropped' - 1
    <3> HIDE DEF IInv
    <3> QED
      BY SMTT(20), <1>1, <2>2, <2>3, <2>4
  <2> QED
    BY <1>1, <2>1, <2>5 DEF LossIsVisible
<1>9. Settled(held)'
  BY <1>1, <1>3, <1>4 DEF Settled, TypeOK
<1>10. \A b : Settled(b) => Settled(b)'
  BY <1>1, <1>3, <1>4 DEF Settled
<1>11. NothingForgotten'
  BY <1>1, <1>9, <1>10 DEF NothingForgotten
<1>12. DeliveredOlder'
  BY <1>1, <1>2, <1>4 DEF DeliveredOlder, NewestKept
<1>13. DeliveredInOrder'
  BY <1>1, <1>2, <1>4 DEF DeliveredInOrder, DeliveredOlder
<1> QED
  BY <1>5, <1>6, <1>7, <1>8, <1>11, <1>12, <1>13

\* The worker counting the batch as written.
LEMMA CountStep == ASSUME IInv, Count PROVE IInv'
<1> USE DEF IInv
<1>1. /\ worker = "counting" /\ worker' = "notifying"
      /\ written' = written + 1 /\ held' = 0
      /\ UNCHANGED <<queue, queued, dropped, stopping, main, target>>
      /\ UNCHANGED <<delivered, evicted, failed>>
  BY DEF Count, queueVars, history
<1>2. InFlight = 1 /\ InFlight' = 0
  BY <1>1 DEF InFlight, Control
<1>3. TypeOK'
  <2>1. stopping' \in BOOLEAN
    BY <1>1, Zenon DEF TypeOK
  <2> QED
    BY <1>1, <2>1 DEF TypeOK, WorkerStates
<1>4. Control' /\ NoLostWakeup'
  BY <1>1 DEF Control, NoLostWakeup, Flushing
<1>5. Accounting'
  BY <1>1, <1>2 DEF Accounting, TypeOK
<1>6. LossIsVisible'
  <2>1. Len(queue) \in Nat /\ Len(delivered) \in Nat
    BY LenProperties DEF TypeOK
  <2>2. queued = Len(queue) + 1 + Len(delivered) + dropped - 1
    BY <1>1, <1>2 DEF LossIsVisible
  <2>3. queued = Len(queue) + 0 + Len(delivered) + dropped - 0
    BY <2>1, <2>2 DEF TypeOK
  <2> QED
    BY <1>1, <1>2, <2>3 DEF LossIsVisible
<1>7. NewestKept'
  BY <1>1 DEF NewestKept, TypeOK
<1>8. NothingForgotten'
  BY <1>1 DEF NothingForgotten, Settled
<1>9. DeliveredOlder' /\ DeliveredInOrder'
  BY <1>1 DEF DeliveredOlder, DeliveredInOrder
<1> QED
  BY <1>3, <1>4, <1>5, <1>6, <1>7, <1>8, <1>9

\* write() evicting the oldest batches and appending the new one.
LEMMA WriteStep == ASSUME IInv, Write PROVE IInv'
<1> USE DEF IInv
<1>1. CASE Capacity = 0
  <2>1. UNCHANGED dataVars /\ UNCHANGED <<stopping, target, worker>>
    BY <1>1 DEF Write, dataVars
  <2>2. main = "idle" /\ main' = "undefined"
    BY <1>1 DEF Write
  <2>3. DataInv'
    BY <2>1, DataKept DEF DataInv
  <2>4. TypeOK'
    <3>1. stopping' \in BOOLEAN
      BY <2>1, Zenon DEF TypeOK
    <3> QED
      BY <2>1, <2>2, <3>1 DEF TypeOK, dataVars, MainStates
  <2>5. Control' /\ NoLostWakeup'
    BY <2>1, <2>2 DEF Control, NoLostWakeup, dataVars, Flushing
  <2> QED
    BY <2>3, <2>4, <2>5 DEF DataInv
<1>2. CASE Capacity # 0
  <2>1. /\ main = "idle" /\ main' = "writeNotify"
        /\ queued < MaxBatches /\ queued' = queued + 1
        /\ queue' = Append(Kept, queued + 1)
        /\ written' = written + Excess
        /\ dropped' = dropped + Excess
        /\ UNCHANGED <<stopping, worker, held, target, delivered, failed>>
    BY <1>2 DEF Write, Evict
  <2>0. evicted' = evicted \cup {queue[i] : i \in 1..Excess}
    BY <1>2 DEF Write, Evict
  <2>2. /\ Excess \in Nat /\ Excess <= Len(queue) /\ Len(queue) \in Nat
        /\ Len(queue) - Excess < Capacity
        /\ Len(Kept) = Len(queue) - Excess
        /\ Kept \in Seq(1..queued)
        /\ \A i \in 1..Len(Kept) : Kept[i] = queue[i + Excess]
    BY <1>2, ExcessFits, KeptIsTail, LenProperties DEF TypeOK
  <2>3. queued \in Nat /\ queued + 1 \in 1..MaxBatches
    BY <2>1, QueueAssumption DEF TypeOK
  <2>4. Kept \in Seq(1..(queued + 1)) /\ delivered \in Seq(1..(queued + 1))
    <3>1. 1..queued \subseteq 1..(queued + 1)
      BY <2>3
    <3> QED
      BY <3>1, <2>2, SeqMonotonic DEF TypeOK
  <2>5. /\ queue' \in Seq(1..queued')
        /\ Len(queue') = Len(queue) - Excess + 1
        /\ \A i \in 1..Len(queue') :
              queue'[i] = IF i <= Len(Kept) THEN queue[i + Excess] ELSE queued + 1
    <3> HIDE DEF IInv
    <3>1. /\ Append(Kept, queued + 1) \in Seq(1..(queued + 1))
          /\ Len(Append(Kept, queued + 1)) = Len(Kept) + 1
          /\ \A i \in 1..(Len(Kept) + 1) :
                Append(Kept, queued + 1)[i] = IF i <= Len(Kept) THEN Kept[i] ELSE queued + 1
      BY <2>3, <2>4
    <3> QED
      BY <2>1, <2>2, <3>1
  <2>6. \A i \in 1..Excess : queue[i] \in 1..queued
    BY <2>2 DEF TypeOK
  <2>7. TypeOK'
    <3>1. stopping' \in BOOLEAN
      BY <2>1, Zenon DEF TypeOK
    <3>2. Len(queue') <= Capacity
      BY <2>2, <2>5, CapacityNat
    <3>3. written' \in Nat /\ dropped' \in Nat
      BY <2>1, <2>2 DEF TypeOK
    <3>4. evicted' \subseteq 1..queued'
      <4>1. {queue[i] : i \in 1..Excess} \subseteq 1..queued
        BY <2>6
      <4>2. evicted \subseteq 1..queued /\ 1..queued \subseteq 1..queued'
        BY <2>1, <2>3 DEF TypeOK
      <4> QED
        BY <2>0, <4>1, <4>2
    <3>5. held' \in 0..queued' /\ target' \in 0..queued' /\ failed' \subseteq 1..queued'
      BY <2>1, <2>3 DEF TypeOK
    <3>6. delivered' \in Seq(1..queued')
      BY <2>1, <2>4
    <3>7. queued' \in 0..MaxBatches /\ worker' \in WorkerStates /\ main' \in MainStates
      BY <2>1, <2>3 DEF TypeOK, MainStates
    <3> QED
      BY <2>5, <3>1, <3>2, <3>3, <3>4, <3>5, <3>6, <3>7 DEF TypeOK
  <2>8. Control' /\ NoLostWakeup'
    <3>1. worker \notin {"exiting", "done"} /\ ~stopping
      BY <2>1 DEF Control
    <3> QED
      BY <2>1, <3>1 DEF Control, NoLostWakeup, Flushing
  <2>9. Accounting'
    <3>1. InFlight' = InFlight /\ InFlight \in {0, 1}
      BY <2>1 DEF InFlight
    <3> QED
      BY SMTT(20), <2>1, <2>2, <2>5, <3>1 DEF Accounting, TypeOK
  <2>10. LossIsVisible'
    <3>1. InFlight' = InFlight /\ InFlight \in Nat
      BY <2>1 DEF InFlight
    <3>2. Len(delivered) \in Nat /\ dropped \in Nat
      BY LenProperties DEF TypeOK
    <3>3. Len(queue') + dropped' = Len(queue) + dropped + 1 /\ Len(queue') \in Nat
      <4>1. Excess \in Nat /\ Len(queue) \in Nat /\ Excess <= Len(queue)
        BY <2>2
      <4>2. Len(queue') = Len(queue) - Excess + 1 /\ dropped' = dropped + Excess
        BY <2>1, <2>5
      <4> HIDE DEF IInv
      <4> QED
        BY <3>2, <4>1, <4>2
    <3> DEFINE c == IF worker = "counting" THEN 1 ELSE 0
    <3>4. c \in Nat /\ queued = Len(queue) + InFlight + Len(delivered) + dropped - c
      BY DEF LossIsVisible
    <3> HIDE DEF c, IInv
    <3>5. queued' = Len(queue') + InFlight' + Len(delivered') + dropped' - c
      <4>1. Len(delivered') = Len(delivered) /\ queued' = queued + 1
        BY <2>1
      <4>2. dropped' \in Nat /\ Len(queue) \in Nat
        BY <2>1, <2>2, <3>2
      <4>3. queued + 1 = (Len(queue) + dropped + 1) + InFlight + Len(delivered) - c
        BY <3>1, <3>2, <3>4, <4>2
      <4>4. queued' = (Len(queue') + dropped') + InFlight' + Len(delivered') - c
        BY <3>1, <3>3, <4>1, <4>3
      <4>5. InFlight' \in Nat /\ Len(delivered') \in Nat
        BY <3>1, <3>2, <4>1
      <4> QED
        BY SMTT(20), <3>3, <3>4, <4>2, <4>4, <4>5
    <3> QED
      BY <2>1, <3>5 DEF LossIsVisible, c
  <2>11. NewestKept'
    <3>0. /\ Excess \in Nat /\ Len(queue) \in Nat /\ Excess <= Len(queue)
          /\ Len(queue') = Len(queue) - Excess + 1 /\ Len(Kept) = Len(queue) - Excess
          /\ queued \in Nat /\ queued' = queued + 1
      BY <2>1, <2>2, <2>3, <2>5
    <3>00. held' <= queued' - Len(queue')
      <4>1. held <= queued - Len(queue) /\ held \in Nat
        BY DEF NewestKept, TypeOK
      <4> QED
        BY <2>1, <3>0, <4>1
    <3> SUFFICES ASSUME NEW i \in 1..Len(queue')
                 PROVE  queue'[i] = queued' - Len(queue') + i
      BY <3>00 DEF NewestKept
    <3>1. CASE i <= Len(Kept)
      <4>1. i + Excess \in 1..Len(queue)
        BY <2>2, <2>5, <3>1
      <4>2. queue[i + Excess] = queued - Len(queue) + (i + Excess)
        BY <4>1 DEF NewestKept
      <4>3. queue'[i] = queue[i + Excess]
        BY <2>5, <3>1
      <4> HIDE DEF IInv
      <4> QED
        BY <3>0, <4>2, <4>3
    <3>2. CASE ~(i <= Len(Kept))
      <4>1. queue'[i] = queued + 1
        BY <2>5, <3>2
      <4> HIDE DEF IInv
      <4> QED
        BY <3>0, <3>2, <4>1
    <3> QED
      BY <3>1, <3>2
  <2>12. \A b : Settled(b) => Settled(b)'
    BY <2>0, <2>1 DEF Settled
  <2>13. NothingForgotten'
    <3> SUFFICES ASSUME NEW b \in 1..(queued - Len(queue) + Excess)
                 PROVE  Settled(b)' \/ (b = held' /\ worker' = "handling")
      BY SMTT(20), <2>1, <2>2, <2>3, <2>5 DEF NothingForgotten
    <3>1. CASE b \in 1..(queued - Len(queue))
      <4>1. Settled(b) \/ (b = held /\ worker = "handling")
        BY <3>1 DEF NothingForgotten
      <4> QED
        BY <4>1, <2>1, <2>12
    <3>2. CASE b > queued - Len(queue)
      <4> DEFINE i == b - (queued - Len(queue))
      <4>1. i \in 1..Excess /\ i \in 1..Len(queue)
        BY <2>2, <2>3, <3>2
      <4>2. queue[i] = queued - Len(queue) + i
        BY <4>1 DEF NewestKept
      <4>3. queue[i] = b
        BY <4>2, <2>2, <2>3
      <4>4. b \in evicted'
        BY <4>1, <4>3, <2>0
      <4> QED
        BY <4>4 DEF Settled
    <3>3. b \in 1..(queued - Len(queue)) \/ b > queued - Len(queue)
      BY <2>2, <2>3
    <3> QED
      BY <3>1, <3>2, <3>3
  <2>14. DeliveredOlder' /\ DeliveredInOrder'
    <3>1. DeliveredInOrder'
      BY <2>1 DEF DeliveredInOrder
    <3>2. \A i \in 1..Len(delivered) : delivered[i] \in Nat
      BY DEF TypeOK
    <3>3. queued' - Len(queue') >= queued - Len(queue)
      BY <2>1, <2>2, <2>3, <2>5
    <3>4. queued' - Len(queue') \in Int /\ queued - Len(queue) \in Int
      BY <2>1, <2>2, <2>3, <2>5
    <3>5. \A i \in 1..Len(delivered) :
            /\ delivered[i] <= queued' - Len(queue')
            /\ worker = "handling" => delivered[i] < held
      BY <3>2, <3>3, <3>4 DEF DeliveredOlder
    <3>6. DeliveredOlder'
      BY <2>1, <3>5 DEF DeliveredOlder
    <3> QED
      BY <3>1, <3>6
  <2> QED
    BY <2>7, <2>8, <2>9, <2>10, <2>11, <2>13, <2>14
<1> QED
  BY <1>1, <1>2

-----------------------------------------------------------------------------
LEMMA NextIInv == IInv /\ [Next]_vars => IInv'
<1> SUFFICES ASSUME IInv, [Next]_vars PROVE IInv'
  OBVIOUS
<1>1. CASE WriteNotify \/ Flush \/ FlushRecheck \/ Stop \/ StopNotify \/ Join
           \/ SpuriousWakeFlush
  BY <1>1, MainStep
<1>2. CASE CountNotify \/ Exit \/ SpuriousWakeWorker
  BY <1>2, WorkerStep
<1>3. CASE Write
  BY <1>3, WriteStep
<1>4. CASE Take
  BY <1>4, TakeStep
<1>5. CASE Handle
  BY <1>5, HandleStep
<1>6. CASE Count
  BY <1>6, CountStep
<1>7. CASE UNCHANGED vars
  <2>1. UNCHANGED dataVars /\ UNCHANGED <<stopping, worker, main, target>>
    BY <1>7 DEF vars, dataVars
  <2>2. DataInv'
    BY <2>1, DataKept DEF IInv, DataInv
  <2>3. TypeOK'
    <3>1. stopping' \in BOOLEAN
      BY <2>1, Zenon DEF IInv, TypeOK
    <3> QED
      BY <2>1, <3>1 DEF IInv, TypeOK, dataVars
  <2>4. Control' /\ NoLostWakeup'
    BY <2>1 DEF IInv, Control, NoLostWakeup, Flushing, dataVars
  <2> QED
    BY <2>2, <2>3, <2>4 DEF IInv, DataInv
<1> QED
  BY <1>1, <1>2, <1>3, <1>4, <1>5, <1>6, <1>7 DEF Next, Ended

\* The inductive invariant holds in every reachable state.
THEOREM Invariance == Spec => []IInv
BY InitIInv, NextIInv, PTL DEF Spec

\* Type correctness of the queue, its counters and both threads, the bound on
\* the queue included, for every max_queued_batches.
THEOREM TypeCorrect == Spec => []TypeOK
<1>1. IInv => TypeOK
  BY DEF IInv
<1> QED
  BY <1>1, Invariance, PTL

\* written_batches_ trails queued_batches_ by exactly what is queued or in the
\* worker's hands, whatever was evicted, delivered or lost.
THEOREM AccountingHolds == Spec => []Accounting
<1>1. IInv => Accounting
  BY DEF IInv
<1> QED
  BY <1>1, Invariance, PTL

\* The queue always holds the newest accepted batches, in order.
THEOREM NewestKeptHolds == Spec => []NewestKept
<1>1. IInv => NewestKept
  BY DEF IInv
<1> QED
  BY <1>1, Invariance, PTL

\* No accepted batch is ever forgotten.
THEOREM NothingForgottenHolds == Spec => []NothingForgotten
<1>1. IInv => NothingForgotten
  BY DEF IInv
<1> QED
  BY <1>1, Invariance, PTL

\* Batches reach the destination once each and in order.
THEOREM DeliveredInOrderHolds == Spec => []DeliveredInOrder
<1>1. IInv => DeliveredInOrder
  BY DEF IInv
<1> QED
  BY <1>1, Invariance, PTL

\* dropped() accounts for every batch that was accepted and not delivered.
THEOREM LossIsVisibleHolds == Spec => []LossIsVisible
<1>1. IInv => LossIsVisible
  BY DEF IInv
<1> QED
  BY <1>1, Invariance, PTL

\* Neither thread is ever blocked with work to do and no notify on its way.
THEOREM NoLostWakeupHolds == Spec => []NoLostWakeup
<1>1. IInv => NoLostWakeup
  BY DEF IInv
<1> QED
  BY <1>1, Invariance, PTL

\* When the two counters meet nothing is queued or in flight, so everything
\* accepted has been settled: what flush() relies on.
LEMMA CountersMeetSettled ==
    ASSUME IInv, written >= queued
    PROVE  queue = << >> /\ \A b \in 1..queued : Settled(b)
<1> USE DEF IInv
<1>1. Len(queue) \in Nat /\ queued \in Nat /\ written \in Nat /\ InFlight \in {0, 1}
  BY LenProperties DEF TypeOK, InFlight
<1>2. Len(queue) = 0 /\ InFlight = 0
  BY <1>1 DEF Accounting
<1>3. queue = << >>
  BY <1>2, EmptySeq DEF TypeOK
<1>4. held = 0 /\ worker # "handling"
  BY <1>2 DEF InFlight, Control
<1> QED
  BY <1>1, <1>2, <1>3, <1>4 DEF NothingForgotten

\* The sink is destroyed only after everything accepted has been settled.
THEOREM DestructorDrainsHolds == Spec => []DestructorDrains
<1>1. IInv => DestructorDrains
  <2> SUFFICES ASSUME IInv, main = "gone" PROVE DestructorDrains
    BY DEF DestructorDrains
  <2>1. worker = "done" /\ queue = << >> /\ held = 0
    BY DEF IInv, Control
  <2>2. Len(queue) = 0 /\ InFlight = 0
    BY <2>1, EmptySeq DEF InFlight
  <2>3. written >= queued
    BY <2>2 DEF IInv, Accounting, TypeOK
  <2> QED
    BY <2>1, <2>3, CountersMeetSettled DEF DestructorDrains
<1> QED
  BY <1>1, Invariance, PTL

\* flush() returns only when everything written before it has been settled.
THEOREM FlushSettlesHolds == Spec => FlushSettles
<1>1. IInv /\ [Next]_vars =>
        [(Flush \/ FlushRecheck) /\ main' = "idle" => \A b \in 1..queued : Settled(b)]_vars
  <2> SUFFICES ASSUME IInv, Flush \/ FlushRecheck, main' = "idle"
               PROVE  \A b \in 1..queued : Settled(b)
    OBVIOUS
  <2>1. ~stopping
    BY DEF IInv, Control, Flush, FlushRecheck
  <2>2. CASE Flush
    <3>1. written >= queued
      BY <2>1, <2>2 DEF Flush
    <3> QED
      BY <3>1, CountersMeetSettled
  <2>3. CASE FlushRecheck
    <3>1. target = queued
      BY <2>3 DEF FlushRecheck, IInv, Control, Flushing
    <3>2. written >= queued
      BY <2>1, <2>3, <3>1 DEF FlushRecheck
    <3> QED
      BY <3>2, CountersMeetSettled
  <2> QED
    BY <2>2, <2>3
<1> QED
  BY <1>1, Invariance, PTL DEF Spec, FlushSettles

-----------------------------------------------------------------------------
(* The queue implements SinkContract, step by step.  (That it also keeps   *)
(* the contract's fairness is liveness, and TLC's.)                        *)

InQueue  == {queue[i] : i \in 1..Len(queue)}
InHand   == IF worker = "handling" THEN {held} ELSE {}
Arrived  == {delivered[i] : i \in 1..Len(delivered)}

\* The batches queued are an interval that ends with the newest accepted, and
\* the one in the worker's hands is older than all of them.
LEMMA QueueInterval ==
    ASSUME IInv
    PROVE  /\ queued \in Nat /\ Len(queue) \in 0..queued
           /\ InQueue = (queued - Len(queue) + 1)..queued
           /\ \A b \in InHand : b \in Nat /\ b <= queued - Len(queue)
<1> USE DEF IInv
<1>1. queued \in Nat /\ Len(queue) \in Nat /\ written \in Nat /\ InFlight \in {0, 1}
  BY LenProperties DEF TypeOK, InFlight
<1>2. Len(queue) \in 0..queued
  BY <1>1 DEF Accounting
<1>3. InQueue \subseteq (queued - Len(queue) + 1)..queued
  BY <1>1, <1>2 DEF NewestKept, InQueue
<1>4. ASSUME NEW b \in (queued - Len(queue) + 1)..queued PROVE b \in InQueue
  <2> DEFINE i == b - (queued - Len(queue))
  <2>1. i \in 1..Len(queue)
    BY <1>1, <1>2
  <2>2. queue[i] = b
    BY <1>1, <1>2, <2>1 DEF NewestKept
  <2> QED
    BY <2>1, <2>2 DEF InQueue
<1>5. \A b \in InHand : b \in Nat /\ b <= queued - Len(queue)
  BY <1>1 DEF InHand, NewestKept, TypeOK
<1> QED
  BY <1>1, <1>2, <1>3, <1>4, <1>5

LEMMA QueueIntervalNext ==
    IInv' => (InQueue = (queued - Len(queue) + 1)..queued)'
<1>1. IInv => InQueue = (queued - Len(queue) + 1)..queued
  BY QueueInterval
<1> QED
  BY <1>1, PTL

LEMMA InitContract == Init => Contract!Init
<1> SUFFICES ASSUME Init PROVE Contract!Init
  OBVIOUS
<1>1. Len(queue) = 0 /\ Len(delivered) = 0
  BY EmptySeq DEF Init
<1>2. Outstanding = {} /\ {delivered[i] : i \in 1..Len(delivered)} = {}
  BY <1>1 DEF Init, Outstanding
<1>3. Caller = "free"
  BY DEF Init, Caller, Flushing
<1> QED
  BY <1>2, <1>3 DEF Init, Contract!Init

\* A step that leaves the batches where they are, and the caller doing what it
\* was doing, is invisible.
LEMMA Invisible ==
    ASSUME UNCHANGED <<queue, queued, held, delivered, evicted, failed>>,
           worker' = "handling" <=> worker = "handling",
           Caller' = Caller
    PROVE  UNCHANGED Contract!vars
<1>1. Outstanding' = Outstanding
  BY DEF Outstanding
<1> QED
  BY <1>1 DEF Contract!vars

\* write() is Accept, the batches it evicts being those that are not kept.
LEMMA WriteImplements ==
    ASSUME IInv, IInv', Write
    PROVE  [Contract!Next]_(Contract!vars)
<1>1. CASE Capacity = 0
  <2>1. /\ UNCHANGED <<queue, queued, held, delivered, evicted, failed, worker>>
        /\ main = "idle" /\ main' = "undefined"
    BY <1>1 DEF Write
  <2>2. Caller' = Caller
    BY <2>1 DEF Caller, Flushing
  <2> QED
    BY <2>1, <2>2, Invisible
<1>2. CASE Capacity # 0
  <2>1. /\ main = "idle" /\ main' = "writeNotify"
        /\ queued < MaxBatches /\ queued' = queued + 1
        /\ queue' = Append(Kept, queued + 1)
        /\ evicted' = evicted \cup {queue[i] : i \in 1..Excess}
        /\ UNCHANGED <<worker, held, delivered, failed>>
    BY <1>2 DEF Write, Evict
  <2>2. /\ Excess \in Nat /\ Excess <= Len(queue)
        /\ Len(Kept) = Len(queue) - Excess /\ Kept \in Seq(1..queued)
    BY <1>2, ExcessFits, KeptIsTail DEF IInv
  <2>3. Len(queue') = Len(queue) - Excess + 1
    <3>1. Len(Append(Kept, queued + 1)) = Len(Kept) + 1
      BY <2>2
    <3> QED
      BY <2>1, <2>2, <3>1
  <2> DEFINE low  == queued - Len(queue)
             kept == ((low + Excess + 1)..queued) \cup InHand
             gone == (low + 1)..(low + Excess)
  <2>4. /\ queued \in Nat /\ Len(queue) \in 0..queued
        /\ InQueue = (low + 1)..queued
        /\ \A b \in InHand : b \in Nat /\ b <= low
    BY QueueInterval
  <2>5. InQueue' = (queued' - Len(queue') + 1)..queued' /\ InHand' = InHand
    BY <2>1, QueueIntervalNext DEF InHand
  <2>6. InQueue' = ((low + Excess + 1)..queued) \cup {queued + 1}
    <3>1. queued' = queued + 1 /\ Excess \in Nat /\ Len(queue) \in Nat
      BY <2>1, <2>2, <2>4
    <3>2. queued' - Len(queue') + 1 = low + Excess + 1
      BY <2>3, <2>4, <3>1
    <3> HIDE DEF low
    <3>3. low \in Int
      BY <2>4 DEF low
    <3> QED
      BY SMTT(20), <2>1, <2>2, <2>4, <2>5, <3>2, <3>3
  <2>7. {queue[i] : i \in 1..Excess} = gone
    <3>1. \A i \in 1..Excess : queue[i] = low + i
      BY <2>2, <2>4 DEF IInv, NewestKept
    <3>2. ASSUME NEW b \in gone PROVE b \in {queue[i] : i \in 1..Excess}
      <4>1. b - low \in 1..Excess /\ low + (b - low) = b
        BY <2>2, <2>4
      <4> QED
        BY <3>1, <4>1
    <3>3. {queue[i] : i \in 1..Excess} \subseteq gone
      BY <2>2, <2>4, <3>1
    <3> QED
      BY <3>2, <3>3
  <2>8. kept \in SUBSET Outstanding /\ Outstanding \ kept = gone
    <3>1. Outstanding = InQueue \cup InHand
      BY DEF Outstanding, InQueue, InHand
    <3> QED
      BY <2>2, <2>4, <3>1
  <2>9. Outstanding' = kept \cup {queued + 1}
    BY <2>5, <2>6 DEF Outstanding, InQueue, InHand
  <2>10. (evicted \cup failed)' = (evicted \cup failed) \cup (Outstanding \ kept)
    BY <2>1, <2>7, <2>8
  <2>11. Caller = "free" /\ Caller' = "free"
    BY <2>1 DEF Caller, Flushing
  <2>12. Contract!Accept
    BY <2>1, <2>8, <2>9, <2>10, <2>11 DEF Contract!Accept
  <2> QED
    BY <2>12 DEF Contract!Next
<1> QED
  BY <1>1, <1>2

\* The worker taking a batch off the queue is invisible: it stays outstanding.
LEMMA TakeImplements ==
    ASSUME IInv, Take
    PROVE  [Contract!Next]_(Contract!vars)
<1>1. /\ worker = "check"
      /\ UNCHANGED <<queued, main, delivered, evicted, failed>>
  BY DEF Take, history
<1>2. Caller' = Caller
  BY <1>1 DEF Caller, Flushing
<1>3. CASE queue = << >>
  <2>1. UNCHANGED <<held, queue>> /\ worker' # "handling"
    BY <1>3 DEF Take
  <2> QED
    BY <1>1, <1>2, <2>1, Invisible
<1>4. CASE queue # << >>
  <2>1. held' = Head(queue) /\ queue' = Tail(queue) /\ worker' = "handling"
    BY <1>4 DEF Take
  <2>2. /\ Len(queue) \in Nat \ {0} /\ Len(queue') = Len(queue) - 1
        /\ \A i \in 1..Len(queue') : queue'[i] = queue[i + 1]
        /\ held' = queue[1]
    BY <1>4, <2>1, EmptySeq, HeadTailProperties DEF IInv, TypeOK
  <2>3. InQueue = InQueue' \cup {held'}
    <3>1. InQueue' \cup {held'} \subseteq InQueue
      BY <2>2 DEF InQueue
    <3>2. ASSUME NEW i \in 1..Len(queue) PROVE queue[i] \in InQueue' \cup {held'}
      <4>1. CASE i = 1
        BY <2>2, <4>1
      <4>2. CASE i # 1
        <5>1. i - 1 \in 1..Len(queue') /\ queue'[i - 1] = queue[i]
          BY <2>2, <4>2
        <5> QED
          BY <5>1 DEF InQueue
      <4> QED
        BY <4>1, <4>2
    <3> QED
      BY <3>1, <3>2 DEF InQueue
  <2>4. InHand = {} /\ InHand' = {held'}
    BY <1>1, <2>1 DEF InHand
  <2>5. Outstanding' = Outstanding
    BY <2>3, <2>4 DEF Outstanding, InQueue, InHand
  <2> QED
    BY <1>1, <1>2, <2>5 DEF Contract!vars
<1> QED
  BY <1>3, <1>4

\* The batch leaving the worker's hands, delivered or given up, is Settle: no
\* other outstanding batch is older.
LEMMA HandleImplements ==
    ASSUME IInv, Handle
    PROVE  [Contract!Next]_(Contract!vars)
<1>1. /\ worker = "handling" /\ worker' = "counting"
      /\ UNCHANGED <<queue, queued, held, main, evicted>>
  BY DEF Handle, queueVars
<1>2. Caller' = Caller
  BY <1>1 DEF Caller, Flushing
<1>3. /\ queued \in Nat /\ Len(queue) \in 0..queued
      /\ InQueue = (queued - Len(queue) + 1)..queued
      /\ held \in Nat /\ held <= queued - Len(queue)
      /\ InHand = {held}
  BY <1>1, QueueInterval DEF InHand
<1>4. Outstanding = InQueue \cup {held} /\ Outstanding' = InQueue
  BY <1>1, <1>3 DEF Outstanding, InQueue
<1>5. /\ held \in Outstanding
      /\ \A c \in Outstanding : held <= c
      /\ Outstanding' = Outstanding \ {held}
  BY <1>3, <1>4
<1>6. \/ Arrived' = Arrived \cup {held} /\ UNCHANGED <<evicted, failed>>
      \/ UNCHANGED delivered /\ (evicted \cup failed)' = (evicted \cup failed) \cup {held}
  <2>1. CASE delivered' = Append(delivered, held) /\ UNCHANGED <<dropped, failed>>
    <3>1. delivered \in Seq(1..queued) /\ held \in 1..queued /\ Len(delivered) \in Nat
      BY <1>1, LenProperties DEF IInv, TypeOK, Control
    <3>2. /\ Len(delivered') = Len(delivered) + 1
          /\ \A i \in 1..Len(delivered) : delivered'[i] = delivered[i]
          /\ delivered'[Len(delivered) + 1] = held
      BY <2>1, <3>1, AppendProperties
    <3>3. Arrived' = Arrived \cup {held}
      BY <3>1, <3>2 DEF Arrived
    <3> QED
      BY <1>1, <2>1, <3>3
  <2>2. CASE failed' = failed \cup {held} /\ UNCHANGED delivered
    BY <1>1, <2>2
  <2> QED
    BY <2>1, <2>2 DEF Handle
<1>7. Contract!Settle
  BY <1>1, <1>2, <1>5, <1>6 DEF Contract!Settle, Arrived
<1> QED
  BY <1>7 DEF Contract!Next

\* The calls, returns and notifies of the poll thread.
LEMMA CallImplements ==
    ASSUME IInv,
           WriteNotify \/ Flush \/ FlushRecheck \/ Stop \/ StopNotify \/ Join
           \/ SpuriousWakeFlush
    PROVE  [Contract!Next]_(Contract!vars)
<1>1. /\ UNCHANGED <<queue, queued, held, delivered, evicted, failed>>
      /\ worker' = "handling" <=> worker = "handling"
  BY DEF queueVars, history, WriteNotify, Flush, FlushRecheck, Stop, StopNotify, Join,
         SpuriousWakeFlush, WakeWorker
<1>2. CASE Caller' = Caller
  BY <1>1, <1>2, Invisible
<1>3. Outstanding' = Outstanding
  BY <1>1 DEF Outstanding
<1>4. CASE Flush /\ main' # "idle"
  <2>1. Caller = "free" /\ Caller' = "flushing"
    BY <1>4 DEF Flush, Caller, Flushing
  <2>2. Contract!FlushCall
    BY <1>1, <1>3, <2>1 DEF Contract!FlushCall
  <2> QED
    BY <2>2 DEF Contract!Next
<1>5. CASE FlushRecheck /\ main' = "idle"
  <2>1. ~stopping /\ target = queued
    BY <1>5 DEF IInv, Control, FlushRecheck, Flushing
  <2>2. written >= queued
    BY <1>5, <2>1 DEF FlushRecheck
  <2>3. queue = << >> /\ Len(queue) = 0
    BY <2>2, CountersMeetSettled, EmptySeq
  <2>4. worker # "handling"
    <3>1. InFlight = 0
      BY <2>2, <2>3 DEF IInv, Accounting, TypeOK, InFlight
    <3> QED
      BY <3>1 DEF InFlight, IInv, Control
  <2>5. Outstanding = {}
    BY <2>3, <2>4 DEF Outstanding
  <2>6. Caller = "flushing" /\ Caller' = "free"
    BY <1>5 DEF FlushRecheck, Caller, Flushing
  <2>7. Contract!FlushReturn
    BY <1>1, <1>3, <2>5, <2>6 DEF Contract!FlushReturn
  <2> QED
    BY <2>7 DEF Contract!Next
<1>6. CASE Stop
  <2>1. Caller = "free" /\ Caller' = "closing"
    BY <1>6 DEF Stop, Caller, Flushing
  <2>2. Contract!CloseCall
    BY <1>1, <1>3, <2>1 DEF Contract!CloseCall
  <2> QED
    BY <2>2 DEF Contract!Next
<1>7. CASE Join
  <2>1. Caller = "closing" /\ Caller' = "closed"
    BY <1>7 DEF Join, Caller, Flushing
  <2>2. worker = "done" /\ queue = << >> /\ Len(queue) = 0
    BY <1>7, EmptySeq DEF Join, IInv, Control
  <2>3. Outstanding = {}
    BY <2>2 DEF Outstanding
  <2>4. Contract!CloseReturn
    BY <1>1, <1>3, <2>1, <2>3 DEF Contract!CloseReturn
  <2> QED
    BY <2>4 DEF Contract!Next
<1>8. CASE Flush /\ main' = "idle"
  BY <1>2, <1>8 DEF Flush, Caller, Flushing
<1>9. CASE FlushRecheck /\ main' # "idle"
  BY <1>2, <1>9 DEF FlushRecheck, Caller, Flushing
<1>10. CASE WriteNotify \/ StopNotify \/ SpuriousWakeFlush
  BY <1>2, <1>10 DEF WriteNotify, StopNotify, SpuriousWakeFlush, Caller, Flushing
<1> QED
  BY <1>4, <1>5, <1>6, <1>7, <1>8, <1>9, <1>10

\* Every step is a step of the contract, or invisible to the caller.
LEMMA StepImplements ==
    ASSUME IInv, IInv', [Next]_vars
    PROVE  [Contract!Next]_(Contract!vars)
<1>1. CASE Write
  BY <1>1, WriteImplements
<1>2. CASE Take
  BY <1>2, TakeImplements
<1>3. CASE Handle
  BY <1>3, HandleImplements
<1>4. CASE WriteNotify \/ Flush \/ FlushRecheck \/ Stop \/ StopNotify \/ Join
           \/ SpuriousWakeFlush
  BY <1>4, CallImplements
<1>5. CASE Count \/ CountNotify \/ Exit \/ SpuriousWakeWorker
  <2>1. /\ UNCHANGED <<queue, queued, delivered, evicted, failed>>
        /\ worker # "handling" /\ worker' # "handling"
    BY <1>5 DEF Count, CountNotify, Exit, SpuriousWakeWorker, queueVars, history
  <2>2. Caller' = Caller
    BY <1>5 DEF Count, CountNotify, Exit, SpuriousWakeWorker, WakeFlush, Caller, Flushing
  <2>3. Outstanding' = Outstanding
    BY <2>1 DEF Outstanding
  <2> QED
    BY <2>1, <2>2, <2>3 DEF Contract!vars
<1>6. CASE UNCHANGED vars
  <2>1. Caller' = Caller
    BY <1>6 DEF vars, Caller, Flushing
  <2> QED
    BY <1>6, <2>1, Invisible DEF vars
<1> QED
  BY <1>1, <1>2, <1>3, <1>4, <1>5, <1>6 DEF Next, Ended

\* The bounded queue with its two threads, counters and condition variables does
\* only what sink.h allows: it starts as the contract does, and each of its
\* steps is a step of the contract or invisible, for every bound of the queue.
THEOREM StepsImplementContract ==
    Spec => Contract!Init /\ [][Contract!Next]_(Contract!vars)
<1>1. IInv /\ IInv' /\ [Next]_vars => [Contract!Next]_(Contract!vars)
  BY StepImplements
<1> QED
  BY <1>1, InitContract, Invariance, PTL DEF Spec
=============================================================================
