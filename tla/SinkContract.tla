---------------------------- MODULE SinkContract ----------------------------
(***************************************************************************)
(* What core/sink/sink.h promises the poll thread, with no queue, lock or  *)
(* condition variable in it: a batch handed to write() is outstanding      *)
(* until it is delivered or discarded; batches leave in the order they     *)
(* came; write() never waits for the destination, it discards instead;     *)
(* flush() returns only when nothing is outstanding; and a destroyed sink  *)
(* has nothing outstanding.  Batches are named by their acceptance number. *)
(***************************************************************************)
EXTENDS Integers

CONSTANTS MaxBatches   \* bound on the batches one behaviour accepts

VARIABLES accepted,      \* how many batches write() has taken
          outstanding,   \* batches neither delivered nor discarded yet
          delivered,     \* batches handed to the destination
          discarded,     \* batches given up on
          caller         \* what the poll thread is doing in the sink

vars == <<accepted, outstanding, delivered, discarded, caller>>

Batches == 1..MaxBatches

Init ==
    /\ accepted = 0
    /\ outstanding = {}
    /\ delivered = {}
    /\ discarded = {}
    /\ caller = "free"

\* Sink::write: the new batch becomes outstanding at once; older ones may be
\* given up to make room, the new one never is.
Accept ==
    /\ caller = "free"
    /\ accepted < MaxBatches
    /\ accepted' = accepted + 1
    /\ \E kept \in SUBSET outstanding :
          /\ outstanding' = kept \cup {accepted + 1}
          /\ discarded' = discarded \cup (outstanding \ kept)
    /\ UNCHANGED <<delivered, caller>>

\* The oldest outstanding batch reaches the destination, or is given up.
Settle ==
    \E b \in outstanding :
        /\ \A c \in outstanding : b <= c
        /\ outstanding' = outstanding \ {b}
        /\ \/ delivered' = delivered \cup {b} /\ UNCHANGED discarded
           \/ discarded' = discarded \cup {b} /\ UNCHANGED delivered
        /\ UNCHANGED <<accepted, caller>>

\* Sink::flush: "Blocks until queued batches have been written out."
FlushCall ==
    /\ caller = "free"
    /\ caller' = "flushing"
    /\ UNCHANGED <<accepted, outstanding, delivered, discarded>>

FlushReturn ==
    /\ caller = "flushing"
    /\ outstanding = {}
    /\ caller' = "free"
    /\ UNCHANGED <<accepted, outstanding, delivered, discarded>>

\* The destructor starts, and completes once nothing is outstanding.
CloseCall ==
    /\ caller = "free"
    /\ caller' = "closing"
    /\ UNCHANGED <<accepted, outstanding, delivered, discarded>>

CloseReturn ==
    /\ caller = "closing"
    /\ outstanding = {}
    /\ caller' = "closed"
    /\ UNCHANGED <<accepted, outstanding, delivered, discarded>>

Next == Accept \/ Settle \/ FlushCall \/ FlushReturn \/ CloseCall \/ CloseReturn

\* A sink keeps working on what it accepted, and its blocking calls return.
Fairness == WF_vars(Settle) /\ WF_vars(FlushReturn) /\ WF_vars(CloseReturn)

Spec == Init /\ [][Next]_vars /\ Fairness
=============================================================================
