--------------------------- MODULE HttpSinkProofs ---------------------------
(***************************************************************************)
(* Safety of the http worker's posting, for every number of batches and of *)
(* send() calls a request takes.                                           *)
(*                                                                         *)
(* Whatever the server does, the requests sent for a batch bound how often *)
(* it is ingested (Bounded).                                               *)
(*                                                                         *)
(* A connection carries at most one request at a time as long as all its   *)
(* responses are ones the worker delimits, so that the head in the inbox,  *)
(* or in hand, then answers the batch being posted (Delimited).  On one    *)
(* with an interim head or an unannounced body a batch may be given        *)
(* another's answer, and the history variable misled says which; even then *)
(* a response that acknowledges a batch comes after its ingestion          *)
(* (Truthful).                                                             *)
(***************************************************************************)
EXTENDS HttpSink, SequenceTheorems, FiniteSetTheorems, TLAPS

\* The worker's position and the send() calls it has made.
Position ==
    /\ pc \in {"connect", "done"} => sent = 0
    /\ pc = "send" => sent < Sends
    /\ pc \in {"send", "recv", "drain"} => batch <= MaxBatches

\* Where b is in a sequence of requests.
Places(s, b) == {k \in DOMAIN s : s[k] = b}

\* How often b was ingested or may still be.
Takes(b) == ingested[b] + Cardinality(Places(unanswered, b))

\* A batch is taken at most once for each request that was sent for it.
Requested ==
    \A b \in Batches :
        /\ b > batch => Takes(b) = 0
        /\ b = batch => Takes(b) <= IF pc \in {"recv", "drain"} THEN attempt ELSE attempt - 1
        /\ b < batch => Takes(b) <= 2

Bounded == TypeOK /\ Position /\ Requested

\* A response that acknowledges a batch is about one the server has taken.
Vouched(it) == it.ok /\ it.of # 0 => ingested[it.of] > 0

Truthful ==
    /\ \A k \in 1..Len(inbox) : Vouched(inbox[k])
    /\ Vouched(head)

\* As long as the worker delimits all that the connection carries, the server
\* has no request but the one the worker waits for, and what arrives or is in
\* hand is the one answer to it.
Delimited ==
    ~tainted =>
        /\ unanswered # << >> =>
              unanswered = <<batch>> /\ pc = "recv" /\ conn = "open" /\ inbox = << >>
        /\ inbox # << >> => pc = "recv" /\ Len(inbox) = 1 /\ inbox[1].of = batch
        /\ pc = "drain" => head.of = batch

IInv ==
    /\ Bounded
    /\ NoSilentLoss
    /\ Truthful
    /\ Delimited

\* The second part of NoSilentLoss.
Accounted ==
    \A b \in Batches : b < batch => ingested[b] > 0 \/ b \in dropped \/ b \in misled

LEMMA Parts == NoSilentLoss <=> TypeOK /\ Accounted
BY DEF NoSilentLoss, Accounted

LEMMA PartsNext == TypeOK' /\ Accounted' => NoSilentLoss'
BY DEF NoSilentLoss, Accounted

LEMMA Types ==
    ASSUME TypeOK
    PROVE  /\ batch \in Nat /\ attempt \in {1, 2} /\ sent \in Nat
           /\ MaxBatches \in Nat /\ Sends \in Nat
           /\ Len(inbox) \in Nat /\ head \in Answers
           /\ \A k \in 1..Len(inbox) : inbox[k] \in Answers
           /\ \A b \in Batches : b \in Nat /\ ingested[b] \in Nat
<1>1. batch \in Nat /\ attempt \in {1, 2} /\ sent \in Nat /\ MaxBatches \in Nat /\ Sends \in Nat
  BY HttpAssumption DEF TypeOK
<1>2. inbox \in Seq(Answers) /\ head \in Answers
  BY DEF TypeOK
<1>3. Len(inbox) \in Nat /\ \A k \in 1..Len(inbox) : inbox[k] \in Answers
  BY <1>2, ElementOfSeq, LenProperties
<1>4. \A b \in Batches : b \in Nat /\ ingested[b] \in Nat
  BY <1>1 DEF TypeOK, Batches
<1> QED
  BY <1>1, <1>2, <1>3, <1>4

\* The parts of TypeOK' that an action disturbs.
NetTypes ==
    /\ conn \in {"none", "open", "fin", "broken"}
    /\ inbox \in Seq(Answers)
    /\ tainted \in BOOLEAN

HandTypes == parts \in 0..MaxParts /\ head \in Answers

-----------------------------------------------------------------------------
(* Requests in a sequence of them.                                         *)

LEMMA PlacesFinite ==
    ASSUME NEW S, NEW s \in Seq(S), NEW b
    PROVE  IsFiniteSet(Places(s, b)) /\ Cardinality(Places(s, b)) \in Nat
<1>1. DOMAIN s = 1..Len(s) /\ Len(s) \in Nat
  BY LenProperties
<1>2. IsFiniteSet(1..Len(s))
  BY <1>1, FS_Interval
<1>3. Places(s, b) \in SUBSET (1..Len(s))
  BY <1>1 DEF Places
<1>4. IsFiniteSet(Places(s, b))
  BY <1>2, <1>3, FS_Subset
<1> QED
  BY <1>4, FS_CardinalityType

LEMMA PlacesNone == \A b : Cardinality(Places(<< >>, b)) = 0
<1> SUFFICES ASSUME NEW b PROVE Cardinality(Places(<< >>, b)) = 0
  OBVIOUS
<1>1. Places(<< >>, b) = {}
  BY DEF Places
<1> QED
  BY <1>1, FS_EmptySet, Zenon

LEMMA PlacesAppend ==
    ASSUME NEW S, NEW s \in Seq(S), NEW x \in S, NEW b
    PROVE  Cardinality(Places(Append(s, x), b))
              = Cardinality(Places(s, b)) + IF x = b THEN 1 ELSE 0
<1>1. /\ Append(s, x) \in Seq(S) /\ Len(Append(s, x)) = Len(s) + 1
      /\ \A k \in 1..Len(s) : Append(s, x)[k] = s[k]
      /\ Append(s, x)[Len(s) + 1] = x
  BY AppendProperties
<1>2. Len(s) \in Nat /\ DOMAIN s = 1..Len(s) /\ DOMAIN Append(s, x) = 1..(Len(s) + 1)
  BY <1>1, LenProperties
<1>3. IsFiniteSet(Places(s, b)) /\ Cardinality(Places(s, b)) \in Nat
  BY PlacesFinite
<1>4. CASE x = b
  <2>1. Places(Append(s, x), b) = Places(s, b) \cup {Len(s) + 1} /\ Len(s) + 1 \notin Places(s, b)
    BY <1>1, <1>2, <1>4 DEF Places
  <2> QED
    BY <1>3, <1>4, <2>1, FS_AddElement
<1>5. CASE x # b
  <2>1. Places(Append(s, x), b) = Places(s, b)
    BY <1>1, <1>2, <1>5 DEF Places
  <2> QED
    BY <1>3, <1>5, <2>1
<1> QED
  BY <1>4, <1>5

LEMMA PlacesTail ==
    ASSUME NEW S, NEW s \in Seq(S), s # << >>, NEW b
    PROVE  Cardinality(Places(Tail(s), b)) + (IF Head(s) = b THEN 1 ELSE 0)
              <= Cardinality(Places(s, b))
<1> DEFINE P == Places(Tail(s), b)
           Q == Places(s, b) \ {1}
           f == [k \in P |-> k + 1]
<1>1. /\ Tail(s) \in Seq(S) /\ Len(Tail(s)) = Len(s) - 1
      /\ \A k \in 1..Len(Tail(s)) : Tail(s)[k] = s[k + 1]
      /\ Head(s) = s[1]
  BY HeadTailProperties
<1>2. Len(s) \in Nat /\ DOMAIN s = 1..Len(s) /\ DOMAIN Tail(s) = 1..(Len(s) - 1) /\ Len(s) # 0
  BY <1>1, LenProperties, EmptySeq
<1>3. IsFiniteSet(Places(s, b)) /\ Cardinality(Places(s, b)) \in Nat
  BY PlacesFinite
<1>4. \A k \in P : k \in Nat /\ k + 1 \in Q
  BY <1>1, <1>2 DEF Places
<1>5. f \in [P -> Q] /\ \A j, k \in P : f[j] = f[k] => j = k
  BY <1>4
<1>6. f \in Injection(P, Q)
  <2> HIDE DEF f, P, Q
  <2> QED
    BY <1>5 DEF Injection, IsInjective
<1>7. IsFiniteSet(Q) /\ Cardinality(Q) = IF 1 \in Places(s, b) THEN Cardinality(Places(s, b)) - 1
                                         ELSE Cardinality(Places(s, b))
  BY <1>3, FS_RemoveElement
<1>8. Cardinality(P) <= Cardinality(Q)
  <2> HIDE DEF f, P, Q
  <2> QED
    BY <1>6, <1>7, FS_Injection
<1>9. Head(s) = b => 1 \in Places(s, b)
  BY <1>1, <1>2 DEF Places
<1>10. Cardinality(P) \in Nat
  BY <1>1, PlacesFinite
<1> HIDE DEF P, Q
<1>11. Cardinality(P) + (IF Head(s) = b THEN 1 ELSE 0) <= Cardinality(Places(s, b))
  BY <1>3, <1>7, <1>8, <1>9, <1>10
<1> QED
  BY <1>11 DEF P

-----------------------------------------------------------------------------
(* Bounded, whatever the server does.                                      *)

LEMMA TakesType ==
    ASSUME TypeOK, NEW b \in Batches
    PROVE  Takes(b) \in Nat /\ Cardinality(Places(unanswered, b)) \in Nat /\ ingested[b] \in Nat
<1>1. Cardinality(Places(unanswered, b)) \in Nat
  BY PlacesFinite DEF TypeOK
<1> QED
  BY <1>1, Types DEF Takes

LEMMA InitBounded == Init => Bounded
<1> SUFFICES ASSUME Init PROVE Bounded
  OBVIOUS
<1>0. MaxBatches \in Nat /\ Sends \in Nat \ {0}
  BY HttpAssumption
<1>1. \A S : << >> \in Seq(S)
  BY EmptySeq
<1>2. TypeOK
  <2>1. NoHead \in Answers
    BY <1>0 DEF NoHead, Answer, Answers
  <2>2. parts \in 0..MaxParts
    BY HttpAssumption DEF Init
  <2>3. tainted \in BOOLEAN
    BY Zenon DEF Init
  <2> QED
    BY <1>0, <1>1, <2>1, <2>2, <2>3 DEF Init, TypeOK, Batches
<1>3. Position
  BY <1>0 DEF Init, Position
<1>4. \A b \in Batches : Takes(b) = 0
  BY PlacesNone DEF Init, Takes
<1>5. Requested
  BY <1>4 DEF Init, Requested
<1> QED
  BY <1>2, <1>3, <1>5 DEF Bounded

\* The requests the server has are gone or stay.
LEMMA TakesKept ==
    ASSUME TypeOK, UNCHANGED ingested, unanswered' \in {unanswered, << >>}, NEW b \in Batches
    PROVE  Takes(b)' \in Nat /\ Takes(b)' <= Takes(b)
<1>1. Takes(b) \in Nat /\ Cardinality(Places(unanswered, b)) \in Nat /\ ingested[b] \in Nat
  BY TakesType
<1>2. CASE unanswered' = unanswered
  BY <1>1, <1>2 DEF Takes, Places
<1>3. CASE unanswered' = << >>
  <2>1. Cardinality(Places(unanswered', b)) = 0
    BY <1>3, PlacesNone
  <2> QED
    BY <1>1, <2>1 DEF Takes, Places
<1> QED
  BY <1>2, <1>3

LEMMA NoHeadType == NoHead \in Answers
BY HttpAssumption DEF NoHead, Answer, Answers

\* An attempt ends.
LEMMA BoundedEnds ==
    ASSUME Bounded, batch <= MaxBatches, UNCHANGED ingested,
           (RetryOrDrop /\ UNCHANGED <<acked, misled>>) \/ PostSucceeds,
           NetTypes', unanswered' \in {unanswered, << >>}
    PROVE  Bounded'
<1>0. TypeOK
  BY DEF Bounded
<1>1. /\ batch \in Nat /\ batch \in Batches /\ attempt \in {1, 2}
      /\ MaxBatches \in Nat /\ Sends \in Nat \ {0} /\ \A b \in Batches : b \in Nat
  BY <1>0, Types, HttpAssumption DEF TypeOK, Batches
<1>2. /\ pc' = "connect" /\ sent' = 0 /\ parts' = 0 /\ head' = NoHead
      /\ acked' \in {acked, acked \cup {batch}} /\ dropped' \in {dropped, dropped \cup {batch}}
      /\ misled' \in {misled, misled \cup {batch}}
      /\ \/ batch' = batch /\ attempt = 1 /\ attempt' = 2
         \/ batch' = batch + 1 /\ attempt' = 1
  BY DEF RetryOrDrop, PostSucceeds, NextBatch, PostAgain
<1>3. TypeOK'
  <2>1. conn' \in {"none", "open", "fin", "broken"} /\ inbox' \in Seq(Answers) /\ tainted' \in BOOLEAN
    BY DEF NetTypes
  <2>2. unanswered' \in Seq(Batches)
    BY <1>0, EmptySeq DEF TypeOK
  <2>3. /\ batch \in 1..(MaxBatches + 1) /\ acked \subseteq Batches /\ dropped \subseteq Batches
        /\ misled \subseteq Batches
    BY <1>0 DEF TypeOK
  <2>4. batch' \in 1..(MaxBatches + 1) /\ attempt' \in {1, 2} /\ sent' \in 0..Sends
    BY <1>1, <1>2, <2>3
  <2>5. acked' \subseteq Batches /\ dropped' \subseteq Batches /\ misled' \subseteq Batches
    BY <1>1, <1>2, <2>3
  <2>6. ingested' \in [Batches -> Nat]
    BY <1>0 DEF TypeOK
  <2>7. parts' \in 0..MaxParts /\ head' \in Answers
    BY <1>2, NoHeadType, HttpAssumption
  <2> QED
    BY <1>2, <2>1, <2>2, <2>4, <2>5, <2>6, <2>7 DEF TypeOK, Batches, Answers
<1>4. Position'
  BY <1>1, <1>2 DEF Position
<1>5. Requested'
  <2> SUFFICES ASSUME NEW b \in Batches
               PROVE  /\ b > batch' => Takes(b)' = 0
                      /\ b = batch' => Takes(b)' <= attempt' - 1
                      /\ b < batch' => Takes(b)' <= 2
    BY <1>2 DEF Requested, Batches
  <2>1. Takes(b)' \in Nat /\ Takes(b)' <= Takes(b) /\ Takes(b) \in Nat
    BY <1>0, TakesKept, TakesType
  <2>2. /\ b > batch => Takes(b) = 0
        /\ b = batch => Takes(b) <= attempt
        /\ b < batch => Takes(b) <= 2
    BY <1>1, <2>1 DEF Bounded, Requested
  <2> QED
    BY <1>1, <1>2, <2>1, <2>2
<1> QED
  BY <1>3, <1>4, <1>5 DEF Bounded

\* The server looks at the oldest request it has.
LEMMA BoundedServer ==
    ASSUME Bounded, unanswered # << >>, unanswered' \in {Tail(unanswered), << >>},
           \/ ingested' = ingested
           \/ ingested' = [ingested EXCEPT ![Head(unanswered)] = @ + 1],
           UNCHANGED <<batch, attempt, pc, sent, parts, head, acked, dropped, misled>>,
           NetTypes'
    PROVE  Bounded'
<1>0. TypeOK
  BY DEF Bounded
<1>1. unanswered \in Seq(Batches) /\ ingested \in [Batches -> Nat]
  BY <1>0 DEF TypeOK
<1>2. Head(unanswered) \in Batches /\ Tail(unanswered) \in Seq(Batches)
  BY <1>1, HeadTailProperties
<1>3. ingested' \in [Batches -> Nat] /\ unanswered' \in Seq(Batches)
  <2>1. ingested' \in [Batches -> Nat]
    BY <1>1, <1>2
  <2>2. << >> \in Seq(Batches)
    BY EmptySeq
  <2> QED
    BY <1>2, <2>1, <2>2
<1>4. TypeOK'
  BY <1>0, <1>3 DEF TypeOK, Batches, NetTypes, Answers
<1>5. Position'
  BY DEF Bounded, Position
<1>6. ASSUME NEW b \in Batches
      PROVE  Takes(b)' \in Nat /\ Takes(b)' <= Takes(b)
  <2>1. Cardinality(Places(unanswered, b)) \in Nat /\ ingested[b] \in Nat
    BY <1>0, TakesType
  <2>2. Cardinality(Places(unanswered', b)) \in Nat
    BY <1>3, PlacesFinite
  <2>3. Cardinality(Places(unanswered', b)) + (IF Head(unanswered) = b THEN 1 ELSE 0)
           <= Cardinality(Places(unanswered, b))
    <3>1. Cardinality(Places(Tail(unanswered), b)) + (IF Head(unanswered) = b THEN 1 ELSE 0)
           <= Cardinality(Places(unanswered, b))
      BY <1>1, PlacesTail
    <3>2. CASE unanswered' = Tail(unanswered)
      BY <3>1, <3>2
    <3>3. CASE unanswered' = << >>
      <4>1. Cardinality(Places(unanswered', b)) = 0
        BY <3>3, PlacesNone
      <4>2. Cardinality(Places(Tail(unanswered), b)) \in Nat
        BY <1>2, PlacesFinite
      <4> QED
        BY <2>1, <3>1, <4>1, <4>2
    <3> QED
      BY <3>2, <3>3
  <2>4. ingested'[b] \in Nat /\ ingested'[b] <= ingested[b] + IF Head(unanswered) = b THEN 1 ELSE 0
    BY <1>1, <1>2, <2>1
  <2>5. Takes(b)' = ingested'[b] + Cardinality(Places(unanswered', b))
    BY DEF Takes, Places, Batches
  <2>6. Takes(b) = ingested[b] + Cardinality(Places(unanswered, b))
    BY DEF Takes
  <2> QED
    BY <2>1, <2>2, <2>3, <2>4, <2>5, <2>6
<1>7. Requested'
  <2> SUFFICES ASSUME NEW b \in Batches
               PROVE  /\ b > batch => Takes(b)' = 0
                      /\ b = batch => Takes(b)' <= IF pc \in {"recv", "drain"} THEN attempt ELSE attempt - 1
                      /\ b < batch => Takes(b)' <= 2
    BY DEF Requested, Batches
  <2>1. Takes(b)' \in Nat /\ Takes(b)' <= Takes(b) /\ Takes(b) \in Nat
    BY <1>0, <1>6, TakesType
  <2>2. attempt \in Nat
    BY <1>0, Types
  <2> QED
    BY <2>1, <2>2 DEF Bounded, Requested
<1> QED
  BY <1>4, <1>5, <1>7 DEF Bounded

\* Nothing is asked and nothing is taken.
LEMMA BoundedIdle ==
    ASSUME Bounded, UNCHANGED <<batch, attempt, sent, ingested, acked, dropped, misled>>,
           pc' = pc \/ (pc = "recv" /\ pc' = "drain") \/ (pc = "connect" /\ pc' = "done")
             \/ (pc = "connect" /\ pc' = "send" /\ batch <= MaxBatches)
             \/ (pc = "send" /\ pc' = "killed"),
           NetTypes', HandTypes', unanswered' \in {unanswered, << >>}
    PROVE  Bounded'
<1>0. TypeOK /\ Sends \in Nat \ {0}
  BY HttpAssumption DEF Bounded
<1>1. TypeOK'
  <2>1. unanswered' \in Seq(Batches)
    BY <1>0, EmptySeq DEF TypeOK
  <2>2. pc' \in {"connect", "send", "recv", "drain", "done", "killed"}
    BY <1>0 DEF TypeOK
  <2> QED
    BY <1>0, <2>1, <2>2 DEF TypeOK, Batches, NetTypes, HandTypes, Answers
<1>2. Position'
  BY <1>0 DEF Bounded, Position
<1>3. Requested'
  <2> SUFFICES ASSUME NEW b \in Batches
               PROVE  /\ b > batch => Takes(b)' = 0
                      /\ b = batch => Takes(b)' <= IF pc \in {"recv", "drain"} THEN attempt ELSE attempt - 1
                      /\ b < batch => Takes(b)' <= 2
    BY DEF Requested, Batches
  <2>1. Takes(b)' \in Nat /\ Takes(b)' <= Takes(b) /\ Takes(b) \in Nat
    BY <1>0, TakesKept, TakesType
  <2>2. attempt \in Nat
    BY <1>0, Types
  <2> QED
    BY <2>1, <2>2 DEF Bounded, Requested
<1> QED
  BY <1>1, <1>2, <1>3 DEF Bounded

\* A send() of the request; the last one gives the server a request more.
LEMMA BoundedSend ==
    ASSUME Bounded, Send
    PROVE  Bounded'
<1>0. TypeOK /\ Sends \in Nat \ {0}
  BY HttpAssumption DEF Bounded
<1>1. /\ batch <= MaxBatches /\ pc = "send"
      /\ UNCHANGED <<batch, attempt, parts, head, conn, inbox, tainted, ingested, acked, dropped, misled>>
  BY DEF Send, Working, outcomes
<1>2. /\ NetTypes' /\ HandTypes'
      /\ unanswered \in Seq(Batches) /\ sent \in Nat /\ batch \in Batches /\ batch \in Nat
      /\ attempt \in {1, 2}
  <2>1. NetTypes' /\ HandTypes'
    BY <1>0, <1>1 DEF TypeOK, NetTypes, HandTypes, Answers
  <2> QED
    BY <1>0, <1>1, <2>1, Types, HttpAssumption DEF TypeOK, Batches
<1>3. CASE conn = "broken"
  <2>1. pc' = "killed" /\ UNCHANGED <<sent, unanswered>>
    BY <1>3 DEF Send
  <2> QED
    BY <1>1, <1>2, <2>1, BoundedIdle
<1>4. CASE conn # "broken"
  <2>1. /\ sent' = sent + 1
        /\ pc' = IF sent + 1 = Sends THEN "recv" ELSE "send"
        /\ unanswered' = IF sent + 1 = Sends /\ conn = "open"
                         THEN Append(unanswered, batch) ELSE unanswered
    BY <1>4 DEF Send
  <2>2. sent < Sends
    BY <1>1 DEF Bounded, Position
  <2>3. unanswered' \in Seq(Batches)
    BY <1>2, <2>1, AppendProperties
  <2>4. TypeOK'
    <3>1. sent' \in 0..Sends /\ pc' \in {"connect", "send", "recv", "drain", "done", "killed"}
      BY <1>0, <1>2, <2>1, <2>2
    <3> QED
      BY <1>0, <1>1, <2>3, <3>1 DEF TypeOK, Batches, Answers
  <2>5. Position'
    BY <1>0, <1>1, <1>2, <2>1, <2>2 DEF Position
  <2>6. Requested'
    <3> SUFFICES ASSUME NEW b \in Batches
                 PROVE  /\ b > batch => Takes(b)' = 0
                        /\ b = batch => Takes(b)' <= IF pc' \in {"recv", "drain"} THEN attempt ELSE attempt - 1
                        /\ b < batch => Takes(b)' <= 2
      BY <1>1 DEF Requested, Batches
    <3>1. Takes(b) \in Nat /\ Cardinality(Places(unanswered, b)) \in Nat /\ ingested[b] \in Nat
      BY <1>0, TakesType
    <3>2. /\ b > batch => Takes(b) = 0
          /\ b = batch => Takes(b) <= attempt - 1
          /\ b < batch => Takes(b) <= 2
      BY <1>1 DEF Bounded, Requested
    <3>3. Takes(b)' = ingested[b] + Cardinality(Places(unanswered', b))
      BY <1>1 DEF Takes, Places, Batches
    <3>4. Takes(b) = ingested[b] + Cardinality(Places(unanswered, b)) /\ b \in Nat
      BY <1>0, Types DEF Takes
    <3>5. CASE sent + 1 = Sends /\ conn = "open"
      <4>1. Cardinality(Places(unanswered', b))
               = Cardinality(Places(unanswered, b)) + IF batch = b THEN 1 ELSE 0
        BY <1>2, <2>1, <3>5, PlacesAppend
      <4>2. pc' = "recv"
        BY <2>1, <3>5
      <4> QED
        BY <1>2, <3>1, <3>2, <3>3, <3>4, <4>1, <4>2
    <3>6. CASE ~(sent + 1 = Sends /\ conn = "open")
      <4>1. Takes(b)' = Takes(b)
        BY <2>1, <3>3, <3>4, <3>6
      <4> QED
        BY <1>2, <3>1, <3>2, <4>1
    <3> QED
      BY <3>5, <3>6
  <2> QED
    BY <2>4, <2>5, <2>6 DEF Bounded
<1> QED
  BY <1>3, <1>4

\* What a response puts on the wire.
LEMMA WireType ==
    ASSUME NEW b \in Batches, NEW ok \in BOOLEAN, NEW framing \in Framings, NEW textOk \in BOOLEAN
    PROVE  Wire(b, ok, framing, textOk) \in Seq(Answers)
<1>1. \A g \in Framings \cup {"text", "interim", "length"}, o \in BOOLEAN, c \in 0..MaxBatches :
         Answer(c, o, g) \in Answers
  BY DEF Answer, Answers
<1>2. b \in 0..MaxBatches /\ 0 \in 0..MaxBatches
  BY HttpAssumption DEF Batches
<1>3. CASE framing = "interim"
  <2>1. Answer(b, FALSE, "interim") \in Answers /\ Answer(b, ok, "length") \in Answers
    BY <1>1, <1>2
  <2>2. PICK x \in Answers, y \in Answers :
          x = Answer(b, FALSE, "interim") /\ y = Answer(b, ok, "length")
    BY <2>1
  <2>3. Wire(b, ok, framing, textOk) = <<x, y>>
    BY <1>3, <2>2 DEF Wire
  <2>4. <<x, y>> \in Seq(Answers)
    OBVIOUS
  <2> QED
    BY <2>3, <2>4
<1>4. CASE framing = "body"
  <2>1. Answer(b, ok, "body") \in Answers /\ Text(textOk) \in Answers
    BY <1>1, <1>2, <1>4 DEF Text
  <2>2. PICK x \in Answers, y \in Answers : x = Answer(b, ok, "body") /\ y = Text(textOk)
    BY <2>1
  <2>3. Wire(b, ok, framing, textOk) = <<x, y>>
    BY <1>4, <2>2 DEF Wire
  <2>4. <<x, y>> \in Seq(Answers)
    OBVIOUS
  <2> QED
    BY <2>3, <2>4
<1>5. CASE framing # "interim" /\ framing # "body"
  <2>1. PICK x \in Answers : x = Answer(b, ok, framing)
    BY <1>1, <1>2
  <2>2. Wire(b, ok, framing, textOk) = <<x>>
    BY <1>5, <2>1 DEF Wire
  <2> QED
    BY <2>2
<1> QED
  BY <1>3, <1>4, <1>5

\* What is left in the inbox after a recv().
LEMMA Suffix ==
    ASSUME NEW S, NEW s \in Seq(S), NEW n \in 1..Len(s)
    PROVE  /\ SubSeq(s, n + 1, Len(s)) \in Seq(S)
           /\ Len(SubSeq(s, n + 1, Len(s))) = Len(s) - n
           /\ \A k \in 1..(Len(s) - n) : SubSeq(s, n + 1, Len(s))[k] = s[n + k]
<1>1. Len(s) \in Nat /\ n \in Nat /\ n + 1 >= 1
  BY LenProperties
<1>2. \A k \in (n + 1)..Len(s) : k \in 1..Len(s)
  BY <1>1
<1>3. \A k \in (n + 1)..Len(s) : s[k] \in S
  BY <1>2, ElementOfSeq
<1> QED
  BY <1>1, <1>3

LEMMA BoundedStep == Bounded /\ [Next]_vars => Bounded'
<1> SUFFICES ASSUME Bounded, [Next]_vars PROVE Bounded'
  OBVIOUS
<1>0. /\ TypeOK /\ inbox \in Seq(Answers) /\ << >> \in Seq(Answers) /\ tainted \in BOOLEAN
      /\ conn \in {"none", "open", "fin", "broken"} /\ unanswered \in Seq(Batches)
  BY EmptySeq DEF Bounded, TypeOK
<1>1. UNCHANGED <<parts, head>> => HandTypes'
  BY <1>0 DEF TypeOK, HandTypes, Answers
<1>2. UNCHANGED <<conn, inbox, tainted>> => NetTypes'
  BY <1>0 DEF NetTypes, Answers
<1>3. Closed => NetTypes'
  <2> SUFFICES ASSUME Closed PROVE NetTypes'
    OBVIOUS
  <2>1. tainted' \in BOOLEAN
    BY Zenon DEF Closed
  <2> QED
    BY <1>0, <2>1 DEF Closed, NetTypes, Answers
<1>4. CASE Respond
  <2>1. /\ unanswered # << >>
        /\ UNCHANGED <<batch, attempt, pc, sent, parts, head, acked, dropped, misled>>
    BY <1>4 DEF Respond, clientVars, outcomes
  <2>2. Head(unanswered) \in Batches
    BY <1>0, <2>1, HeadTailProperties
  <2>3. PICK ok \in BOOLEAN, textOk \in BOOLEAN, framing \in Framings :
           /\ inbox' = inbox \o Wire(Head(unanswered), ok, framing, textOk)
           /\ ingested' = IF ok THEN [ingested EXCEPT ![Head(unanswered)] = @ + 1] ELSE ingested
           /\ conn' = IF framing = "body" THEN "fin" ELSE conn
           /\ unanswered' = IF framing = "body" THEN << >> ELSE Tail(unanswered)
           /\ tainted' = (tainted \/ framing \in {"interim", "body"})
    BY <1>4 DEF Respond
  <2>4. inbox' \in Seq(Answers)
    BY <1>0, <2>2, <2>3, WireType, ConcatProperties
  <2>5. tainted' \in BOOLEAN
    BY <2>3, Zenon
  <2>6. NetTypes'
    BY <1>0, <2>3, <2>4, <2>5 DEF NetTypes, Answers
  <2> QED
    BY <1>0, <2>1, <2>3, <2>6, BoundedServer
<1>5. CASE IngestOnly
  <2>1. /\ unanswered # << >> /\ unanswered' = Tail(unanswered)
        /\ ingested' = [ingested EXCEPT ![Head(unanswered)] = @ + 1]
        /\ UNCHANGED <<batch, attempt, pc, sent, parts, head, acked, dropped, misled, conn, inbox, tainted>>
    BY <1>5 DEF IngestOnly, clientVars, outcomes
  <2> QED
    BY <1>2, <2>1, BoundedServer
<1>6. CASE PeerCloses \/ Reset
  <2>1. /\ UNCHANGED <<batch, attempt, pc, sent, parts, head, tainted, acked, dropped, misled, ingested>>
        /\ conn' \in {"fin", "broken"} /\ inbox' \in {inbox, << >>}
        /\ unanswered' \in {unanswered, << >>}
    BY <1>6 DEF PeerCloses, Reset, clientVars, outcomes
  <2>2. NetTypes'
    BY <1>0, <2>1 DEF NetTypes, Answers
  <2> QED
    BY <1>1, <2>1, <2>2, BoundedIdle
<1>7. ASSUME batch <= MaxBatches, UNCHANGED ingested, PostFailsClosed
      PROVE  Bounded'
  BY <1>3, <1>7, BoundedEnds DEF PostFailsClosed, Closed
<1>8. ASSUME batch <= MaxBatches, UNCHANGED ingested, Closed \/ UNCHANGED netVars,
             (RetryOrDrop /\ UNCHANGED <<acked, misled>>) \/ PostSucceeds
      PROVE  Bounded'
  <2>1. NetTypes' /\ unanswered' \in {unanswered, << >>}
    BY <1>2, <1>3, <1>8 DEF netVars, Closed
  <2> QED
    BY <1>8, <2>1, BoundedEnds
<1>9. CASE Connect
  <2>1. batch <= MaxBatches /\ pc = "connect" /\ UNCHANGED ingested
    BY <1>9 DEF Connect, Working
  <2>2. CASE PostFailsClosed
    BY <1>7, <2>1, <2>2
  <2>3. CASE ~PostFailsClosed
    <3>1. /\ pc' = "send" /\ conn' \in {"open", conn}
          /\ UNCHANGED <<batch, attempt, sent, parts, head, inbox, unanswered, tainted, acked, dropped, misled>>
      BY <1>9, <2>3 DEF Connect, outcomes
    <3>2. NetTypes'
      BY <1>0, <3>1 DEF NetTypes, Answers
    <3> QED
      BY <1>1, <2>1, <3>1, <3>2, BoundedIdle
  <2> QED
    BY <2>2, <2>3
<1>10. CASE Send
  BY <1>10, BoundedSend
<1>11. CASE SendFails \/ RecvFails
  BY <1>7, <1>11 DEF SendFails, RecvFails, Working
<1>12. CASE RecvPart \/ DrainPart
  <2>1. /\ UNCHANGED <<batch, attempt, pc, sent, head, conn, inbox, unanswered, tainted, ingested, acked, dropped, misled>>
        /\ parts < MaxParts /\ parts' = parts + 1
    BY <1>12 DEF RecvPart, DrainPart, netVars, outcomes
  <2>2. HandTypes'
    BY <1>0, <2>1, HttpAssumption DEF TypeOK, HandTypes, Answers
  <2> QED
    BY <1>2, <2>1, <2>2, BoundedIdle
<1>13. CASE RecvHead
  <2>1. /\ UNCHANGED <<batch, attempt, sent, conn, unanswered, tainted, ingested, acked, dropped, misled>>
        /\ pc = "recv" /\ pc' = "drain" /\ parts' = 0 /\ inbox # << >> /\ head' = Head(inbox)
    BY <1>13 DEF RecvHead, outcomes
  <2>2. inbox' \in Seq(Answers)
    <3>1. PICK n \in 1..Len(inbox) : inbox' = SubSeq(inbox, n + 1, Len(inbox))
      BY <1>13 DEF RecvHead
    <3> QED
      BY <1>0, <3>1, Suffix
  <2>3. NetTypes'
    BY <1>0, <2>1, <2>2 DEF NetTypes, Answers
  <2>4. head' \in Answers
    BY <1>0, <2>1, HeadTailProperties
  <2>5. HandTypes'
    BY <2>1, <2>4, HttpAssumption DEF HandTypes, Answers
  <2> QED
    BY <2>1, <2>3, <2>5, BoundedIdle
<1>14. CASE Answered
  <2>1. batch <= MaxBatches /\ UNCHANGED ingested
    BY <1>14 DEF Answered, Working
  <2>2. /\ Closed \/ UNCHANGED netVars
        /\ (RetryOrDrop /\ UNCHANGED <<acked, misled>>) \/ PostSucceeds
    BY <1>14 DEF Answered, PostFailsKept, PostFailsClosed
  <2> QED
    BY <1>8, <2>1, <2>2
<1>15. CASE Finish
  <2>1. /\ pc = "connect" /\ pc' = "done" /\ Closed
        /\ UNCHANGED <<batch, attempt, sent, parts, head, ingested, acked, dropped, misled>>
    BY <1>15 DEF Finish, outcomes
  <2>2. unanswered' = << >>
    BY <2>1 DEF Closed
  <2> QED
    BY <1>1, <1>3, <2>1, <2>2, BoundedIdle
<1>16. CASE UNCHANGED vars
  <2>1. UNCHANGED <<batch, attempt, pc, sent, parts, head, conn, inbox, unanswered, tainted,
                    ingested, acked, dropped, misled>>
    BY <1>16 DEF vars
  <2> QED
    BY <1>1, <1>2, <2>1, BoundedIdle
<1> QED
  BY <1>4, <1>5, <1>6, <1>9, <1>10, <1>11, <1>12, <1>13, <1>14, <1>15, <1>16
     DEF Next, Worker, Ended

\* run()'s retry makes the server take a batch twice at most, the request it has
\* not looked at included, however it frames its responses.
THEOREM TwiceAtMost == Spec => []AtMostTwice
<1>1. Init => Bounded
  BY InitBounded
<1>2. Bounded /\ [Next]_vars => Bounded'
  BY BoundedStep
<1>3. Bounded => AtMostTwice
  <2> SUFFICES ASSUME Bounded, NEW b \in Batches
               PROVE  ingested[b] + Cardinality({k \in DOMAIN unanswered : unanswered[k] = b}) <= 2
    BY DEF AtMostTwice
  <2>1. Takes(b) \in Nat /\ batch \in Nat /\ attempt \in {1, 2} /\ b \in Nat
    BY TakesType, Types DEF Bounded
  <2>2. Takes(b) <= 2
    BY <2>1 DEF Bounded, Requested
  <2> QED
    BY <2>2 DEF Takes, Places
<1> QED
  BY <1>1, <1>2, <1>3, PTL DEF Spec

-----------------------------------------------------------------------------
(* The responses.  A step keeps IInv if it keeps the three parts that are  *)
(* not Bounded's.                                                          *)

LEMMA Rest ==
    ASSUME IInv, [Next]_vars, Accounted', Truthful', Delimited'
    PROVE  IInv'
<1>1. Bounded'
  BY BoundedStep DEF IInv
<1> QED
  BY <1>1, PartsNext DEF IInv, Bounded

LEMMA Known ==
    ASSUME IInv
    PROVE  /\ TypeOK /\ Accounted /\ Position /\ Truthful /\ Delimited
           /\ batch \in Nat /\ inbox \in Seq(Answers) /\ Len(inbox) \in Nat
           /\ \A k \in 1..Len(inbox) : inbox[k] \in Answers
           /\ \A b \in Batches : b \in Nat /\ ingested[b] \in Nat
<1>1. TypeOK /\ Accounted /\ Position /\ Truthful /\ Delimited /\ inbox \in Seq(Answers)
  BY Parts DEF IInv, Bounded, TypeOK
<1> QED
  BY <1>1, Types

LEMMA NothingVouched == NoHead.ok = FALSE
BY DEF NoHead, Answer

LEMMA InitIInv == Init => IInv
<1> SUFFICES ASSUME Init PROVE IInv
  OBVIOUS
<1>1. Bounded
  BY InitBounded
<1>2. Accounted
  BY HttpAssumption DEF Init, Accounted, Batches
<1>3. Len(inbox) = 0
  BY EmptySeq DEF Init
<1>4. Truthful
  BY <1>3, NothingVouched DEF Init, Truthful, Vouched
<1>5. Delimited
  BY DEF Init, Delimited
<1> QED
  BY <1>1, <1>2, <1>4, <1>5, Parts DEF IInv, Bounded

\* What the server has taken stays taken.
LEMMA StillVouched ==
    ASSUME TypeOK, NEW it \in Answers, Vouched(it),
           \A b \in Batches : ingested[b] > 0 => ingested'[b] > 0
    PROVE  it.ok /\ it.of # 0 => ingested'[it.of] > 0
<1>1. it.of \in 0..MaxBatches
  BY DEF Answers
<1>2. it.of # 0 => it.of \in Batches
  BY <1>1, HttpAssumption DEF Batches
<1> QED
  BY <1>2 DEF Vouched

\* Nothing arrives, nothing new is in hand, and nothing is taken.
LEMMA TruthfulKept ==
    ASSUME Truthful, UNCHANGED ingested, inbox' \in {inbox, << >>}, head' \in {head, NoHead}
    PROVE  Truthful'
<1>1. CASE inbox' = inbox
  BY <1>1, NothingVouched DEF Truthful, Vouched
<1>2. CASE inbox' = << >>
  <2>1. Len(inbox') = 0
    BY <1>2, EmptySeq
  <2> QED
    BY <2>1, NothingVouched DEF Truthful, Vouched
<1> QED
  BY <1>1, <1>2

\* The answer in hand acknowledges the batch being posted, or another one on a
\* connection on which that can happen.
LEMMA OwnHead ==
    ASSUME IInv, pc = "drain"
    PROVE  /\ head.of = batch \/ tainted
           /\ head.ok => ingested[batch] > 0 \/ (tainted /\ head.of # batch)
<1>1. TypeOK /\ Truthful /\ Delimited /\ batch \in Nat
  BY Known
<1>2. head.of = batch \/ tainted
  BY <1>1 DEF Delimited
<1>3. batch # 0
  BY <1>1, HttpAssumption DEF TypeOK
<1> QED
  BY <1>1, <1>2, <1>3 DEF Truthful, Vouched

\* Whatever ended an attempt.
LEMMA Concluded ==
    ASSUME IInv, Next, batch <= MaxBatches, UNCHANGED ingested,
           \/ RetryOrDrop /\ UNCHANGED misled
           \/ PostSucceeds /\ pc = "drain" /\ head.ok,
           Closed \/ (pc = "drain" /\ UNCHANGED netVars)
    PROVE  IInv'
<1>1. /\ Accounted /\ Truthful /\ Delimited /\ batch \in Nat
      /\ \A b \in Batches : b \in Nat /\ ingested[b] \in Nat
  BY Known
<1>2. /\ pc' = "connect" /\ head' = NoHead
      /\ dropped \subseteq dropped' /\ misled \subseteq misled'
      /\ \/ batch' = batch
         \/ batch' = batch + 1 /\ (ingested[batch] > 0 \/ batch \in dropped' \/ batch \in misled')
  BY OwnHead DEF RetryOrDrop, PostSucceeds, NextBatch, PostAgain
<1>3. Accounted'
  <2> SUFFICES ASSUME NEW b \in Batches, b < batch'
               PROVE  ingested[b] > 0 \/ b \in dropped' \/ b \in misled'
    BY DEF Accounted, Batches
  <2>1. b < batch \/ (b = batch /\ batch' = batch + 1)
    BY <1>1, <1>2
  <2>2. b < batch => ingested[b] > 0 \/ b \in dropped \/ b \in misled
    BY <1>1 DEF Accounted
  <2> QED
    BY <1>2, <2>1, <2>2
<1>4. Truthful'
  <2>1. inbox' \in {inbox, << >>}
    BY DEF Closed, netVars
  <2> QED
    BY <1>1, <1>2, <2>1, TruthfulKept
<1>5. Delimited'
  <2>1. CASE Closed
    BY <1>2, <2>1 DEF Closed, Delimited
  <2>2. CASE pc = "drain" /\ UNCHANGED netVars
    <3>1. ~tainted => unanswered = << >> /\ inbox = << >>
      BY <1>1, <2>2 DEF Delimited
    <3> QED
      BY <1>2, <2>2, <3>1 DEF Delimited, netVars
  <2> QED
    BY <2>1, <2>2
<1> QED
  BY <1>3, <1>4, <1>5, Rest

LEMMA ConnectStep ==
    ASSUME IInv, Connect
    PROVE  IInv'
<1>0. Accounted /\ Truthful /\ Delimited
  BY Known
<1>1. batch <= MaxBatches /\ pc = "connect" /\ UNCHANGED ingested /\ Next
  BY DEF Connect, Working, Next, Worker
<1>2. CASE PostFailsClosed
  BY <1>1, <1>2, Concluded DEF PostFailsClosed
<1>3. CASE ~PostFailsClosed
  <2>1. /\ pc' = "send"
        /\ UNCHANGED <<batch, head, inbox, unanswered, tainted, dropped, misled>>
    BY <1>3 DEF Connect, outcomes
  <2>2. Accounted'
    BY <1>0, <1>1, <2>1 DEF Accounted, Batches
  <2>3. Truthful'
    BY <1>0, <1>1, <2>1, TruthfulKept
  <2>4. Delimited'
    BY <1>0, <1>1, <2>1 DEF Delimited
  <2> QED
    BY <1>1, <2>2, <2>3, <2>4, Rest
<1> QED
  BY <1>2, <1>3

LEMMA SendStep ==
    ASSUME IInv, Send
    PROVE  IInv'
<1>0. Accounted /\ Truthful /\ Delimited
  BY Known
<1>1. /\ pc = "send" /\ Next
      /\ UNCHANGED <<batch, head, conn, inbox, tainted, ingested, dropped, misled>>
  BY DEF Send, Next, Worker, outcomes
<1>2. ~tainted => unanswered = << >> /\ inbox = << >>
  BY <1>0, <1>1 DEF Delimited
<1>3. Accounted' /\ Truthful'
  BY <1>0, <1>1, TruthfulKept DEF Accounted, Batches
<1>4. Delimited'
  <2>1. CASE conn = "broken"
    BY <1>1, <1>2, <2>1 DEF Send, Delimited
  <2>2. CASE conn # "broken"
    <3>1. Append(<< >>, batch) = <<batch>>
      OBVIOUS
    <3>2. /\ pc' = IF sent + 1 = Sends THEN "recv" ELSE "send"
          /\ unanswered' = IF sent + 1 = Sends /\ conn = "open"
                           THEN Append(unanswered, batch) ELSE unanswered
      BY <2>2 DEF Send
    <3> QED
      BY <1>1, <1>2, <3>1, <3>2 DEF Delimited
  <2> QED
    BY <2>1, <2>2
<1> QED
  BY <1>1, <1>3, <1>4, Rest

LEMMA PartStep ==
    ASSUME IInv, RecvPart \/ DrainPart
    PROVE  IInv'
<1>0. Accounted /\ Truthful /\ Delimited
  BY Known
<1>1. /\ Next
      /\ UNCHANGED <<batch, pc, head, conn, inbox, unanswered, tainted, ingested, dropped, misled>>
  BY DEF RecvPart, DrainPart, netVars, outcomes, Next, Worker
<1>2. Accounted' /\ Truthful' /\ Delimited'
  BY <1>0, <1>1, TruthfulKept DEF Accounted, Batches, Delimited
<1> QED
  BY <1>1, <1>2, Rest

LEMMA RecvHeadStep ==
    ASSUME IInv, RecvHead
    PROVE  IInv'
<1>0. /\ Accounted /\ Truthful /\ Delimited
      /\ inbox \in Seq(Answers) /\ Len(inbox) \in Nat
  BY Known
<1>1. /\ Next /\ pc = "recv" /\ pc' = "drain" /\ inbox # << >> /\ head' = Head(inbox)
      /\ UNCHANGED <<batch, conn, unanswered, tainted, ingested, dropped, misled>>
  BY DEF RecvHead, outcomes, Next, Worker
<1>2. PICK n \in 1..Len(inbox) : inbox' = SubSeq(inbox, n + 1, Len(inbox))
  BY DEF RecvHead
<1>3. head' = inbox[1] /\ 1 \in 1..Len(inbox)
  BY <1>0, <1>1, EmptySeq, HeadTailProperties
<1>4. /\ inbox' \in Seq(Answers) /\ Len(inbox') = Len(inbox) - n
      /\ \A k \in 1..(Len(inbox) - n) : inbox'[k] = inbox[n + k]
  BY <1>0, <1>2, Suffix
<1>5. Accounted'
  BY <1>0, <1>1 DEF Accounted, Batches
<1>6. Truthful'
  <2>1. ASSUME NEW k \in 1..Len(inbox')
        PROVE  Vouched(inbox[n + k]) /\ inbox'[k] = inbox[n + k]
    <3>1. k \in 1..(Len(inbox) - n) /\ n + k \in 1..Len(inbox)
      BY <1>0, <1>2, <1>4
    <3> QED
      BY <1>0, <1>4, <3>1 DEF Truthful
  <2>2. Vouched(inbox[1])
    BY <1>0, <1>3 DEF Truthful
  <2> QED
    BY <1>1, <1>3, <2>1, <2>2 DEF Truthful, Vouched
<1>7. Delimited'
  <2> SUFFICES ASSUME ~tainted
               PROVE  unanswered' = << >> /\ inbox' = << >> /\ head'.of = batch'
    BY <1>1 DEF Delimited
  <2>1. unanswered = << >> /\ Len(inbox) = 1 /\ inbox[1].of = batch
    BY <1>0, <1>1 DEF Delimited
  <2>2. Len(inbox') = 0
    BY <1>2, <1>4, <2>1
  <2>3. inbox' = << >>
    BY <1>4, <2>2, EmptySeq
  <2> QED
    BY <1>1, <1>3, <2>1, <2>3
<1> QED
  BY <1>1, <1>5, <1>6, <1>7, Rest

LEMMA AnsweredStep ==
    ASSUME IInv, Answered
    PROVE  IInv'
<1>1. batch <= MaxBatches /\ pc = "drain" /\ UNCHANGED ingested /\ Next
  BY DEF Answered, Working, Next, Worker
<1>2. /\ Closed \/ UNCHANGED netVars
      /\ \/ RetryOrDrop /\ UNCHANGED misled
         \/ PostSucceeds /\ head.ok
  BY DEF Answered, PostFailsKept, PostFailsClosed
<1> QED
  BY <1>1, <1>2, Concluded

\* The server looks at a request: of what it has taken nothing is taken back.
LEMMA ServerAccounts ==
    ASSUME IInv, unanswered # << >>,
           \/ ingested' = ingested
           \/ ingested' = [ingested EXCEPT ![Head(unanswered)] = @ + 1],
           UNCHANGED <<batch, dropped, misled>>
    PROVE  /\ Accounted' /\ \A b \in Batches : ingested[b] > 0 => ingested'[b] > 0
<1>0. /\ TypeOK /\ Accounted
      /\ \A b \in Batches : b \in Nat /\ ingested[b] \in Nat
  BY Known
<1>1. ingested \in [Batches -> Nat] /\ Head(unanswered) \in Batches
  BY <1>0, HeadTailProperties DEF TypeOK
<1>2. \A b \in Batches : ingested[b] > 0 => ingested'[b] > 0
  BY <1>0, <1>1
<1> QED
  BY <1>0, <1>2 DEF Accounted, Batches

LEMMA RespondStep ==
    ASSUME IInv, Respond
    PROVE  IInv'
<1>0. /\ TypeOK /\ Truthful /\ Delimited /\ inbox \in Seq(Answers) /\ head \in Answers
      /\ Len(inbox) \in Nat /\ \A k \in 1..Len(inbox) : inbox[k] \in Answers
  BY Known, Types
<1>1. /\ unanswered # << >> /\ conn = "open" /\ Next
      /\ UNCHANGED <<batch, pc, head, dropped, misled>>
  BY DEF Respond, clientVars, outcomes, Next
<1>2. PICK b \in Batches : b = Head(unanswered)
  BY <1>0, <1>1, HeadTailProperties DEF TypeOK
<1>3. PICK ok \in BOOLEAN, textOk \in BOOLEAN, framing \in Framings :
         /\ inbox' = inbox \o Wire(b, ok, framing, textOk)
         /\ ingested' = IF ok THEN [ingested EXCEPT ![b] = @ + 1] ELSE ingested
         /\ unanswered' = IF framing = "body" THEN << >> ELSE Tail(unanswered)
         /\ tainted' = (tainted \/ framing \in {"interim", "body"})
  BY <1>2 DEF Respond
<1>4. Accounted' /\ \A c \in Batches : ingested[c] > 0 => ingested'[c] > 0
  BY <1>1, <1>2, <1>3, ServerAccounts
<1>5. ok => ingested'[b] > 0
  BY <1>0, <1>2, <1>3 DEF TypeOK
<1>6. PICK w \in Seq(Answers) : w = Wire(b, ok, framing, textOk)
  BY WireType
<1>7. \A k \in 1..Len(w) : w[k].ok /\ w[k].of # 0 => ingested'[w[k].of] > 0
  <2>1. /\ \A g : Answer(b, ok, g).of = b /\ Answer(b, ok, g).ok = ok
        /\ Answer(b, FALSE, "interim").ok = FALSE /\ Text(textOk).of = 0
    BY DEF Answer, Text
  <2>2. CASE framing = "interim"
    <3>1. PICK x, y : x = Answer(b, FALSE, "interim") /\ y = Answer(b, ok, "length")
      OBVIOUS
    <3>2. w = <<x, y>>
      BY <1>6, <2>2, <3>1 DEF Wire
    <3>3. x.ok = FALSE /\ y.of = b /\ y.ok = ok
      BY <2>1, <3>1
    <3>4. Len(w) = 2 /\ w[1] = x /\ w[2] = y
      BY <3>2
    <3>5. \A k \in 1..Len(w) : w[k] = x \/ w[k] = y
      BY <3>4
    <3> QED
      BY <1>5, <3>3, <3>5
  <2>3. CASE framing = "body"
    <3>1. PICK x, y : x = Answer(b, ok, "body") /\ y = Text(textOk)
      OBVIOUS
    <3>2. w = <<x, y>>
      BY <1>6, <2>3, <3>1 DEF Wire
    <3> QED
      BY <1>5, <2>1, <3>1, <3>2
  <2>4. CASE framing # "interim" /\ framing # "body"
    <3>1. PICK x : x = Answer(b, ok, framing)
      OBVIOUS
    <3>2. w = <<x>>
      BY <1>6, <2>4, <3>1 DEF Wire
    <3> QED
      BY <1>5, <2>1, <3>1, <3>2
  <2> QED
    BY <2>2, <2>3, <2>4
<1>8. /\ Len(inbox') = Len(inbox) + Len(w) /\ Len(w) \in Nat
      /\ \A k \in 1..Len(inbox') :
            inbox'[k] = IF k <= Len(inbox) THEN inbox[k] ELSE w[k - Len(inbox)]
  BY <1>0, <1>3, <1>6, ConcatProperties, LenProperties
<1>9. Truthful'
  <2>1. ASSUME NEW k \in 1..Len(inbox')
        PROVE  inbox'[k].ok /\ inbox'[k].of # 0 => ingested'[inbox'[k].of] > 0
    <3>1. CASE k <= Len(inbox)
      <4>1. k \in 1..Len(inbox) /\ inbox'[k] = inbox[k]
        BY <1>0, <1>8, <3>1
      <4>2. Vouched(inbox[k]) /\ inbox[k] \in Answers
        BY <1>0, <4>1 DEF Truthful
      <4> QED
        BY <1>0, <1>4, <4>1, <4>2, StillVouched
    <3>2. CASE ~(k <= Len(inbox))
      <4>1. k - Len(inbox) \in 1..Len(w) /\ inbox'[k] = w[k - Len(inbox)]
        BY <1>0, <1>8, <3>2
      <4> QED
        BY <1>7, <4>1
    <3> QED
      BY <3>1, <3>2
  <2>2. head.ok /\ head.of # 0 => ingested'[head.of] > 0
    BY <1>0, <1>4, StillVouched DEF Truthful
  <2> QED
    BY <1>1, <2>1, <2>2 DEF Truthful, Vouched
<1>10. Delimited'
  <2> SUFFICES ASSUME ~tainted'
               PROVE  /\ pc' = "recv" /\ unanswered' = << >>
                      /\ Len(inbox') = 1 /\ inbox'[1].of = batch'
    BY DEF Delimited
  <2>1. ~tainted /\ framing # "interim" /\ framing # "body"
    BY <1>3
  <2>2. unanswered = <<batch>> /\ pc = "recv" /\ inbox = << >>
    BY <1>0, <1>1, <2>1 DEF Delimited
  <2>3. b = batch /\ Tail(unanswered) = << >>
    BY <1>2, <2>2
  <2>4. PICK x : x = Answer(b, ok, framing)
    OBVIOUS
  <2>5. w = <<x>> /\ x.of = batch
    BY <1>6, <2>1, <2>3, <2>4 DEF Wire, Answer
  <2>6. Len(inbox) = 0
    BY <2>2, EmptySeq
  <2>7. Len(w) = 1 /\ w[1] = x
    BY <2>5
  <2>8. Len(inbox') = 1 /\ inbox'[1] = w[1]
    BY <1>8, <2>6, <2>7
  <2> QED
    BY <1>1, <1>3, <2>1, <2>2, <2>3, <2>5, <2>7, <2>8
<1> QED
  BY <1>1, <1>4, <1>9, <1>10, Rest

LEMMA IngestOnlyStep ==
    ASSUME IInv, IngestOnly
    PROVE  IInv'
<1>0. /\ TypeOK /\ Truthful /\ Delimited /\ head \in Answers
      /\ \A k \in 1..Len(inbox) : inbox[k] \in Answers
  BY Known, Types
<1>1. /\ unanswered # << >> /\ Next /\ unanswered' = Tail(unanswered)
      /\ ingested' = [ingested EXCEPT ![Head(unanswered)] = @ + 1]
      /\ UNCHANGED <<batch, pc, head, conn, inbox, tainted, dropped, misled>>
  BY DEF IngestOnly, clientVars, outcomes, Next
<1>2. Accounted' /\ \A c \in Batches : ingested[c] > 0 => ingested'[c] > 0
  BY <1>1, ServerAccounts
<1>3. Truthful'
  <2>1. ASSUME NEW k \in 1..Len(inbox)
        PROVE  inbox[k].ok /\ inbox[k].of # 0 => ingested'[inbox[k].of] > 0
    <3>1. Vouched(inbox[k]) /\ inbox[k] \in Answers
      BY <1>0 DEF Truthful
    <3> QED
      BY <1>0, <1>2, <3>1, StillVouched
  <2>2. head.ok /\ head.of # 0 => ingested'[head.of] > 0
    BY <1>0, <1>2, StillVouched DEF Truthful
  <2> QED
    BY <1>1, <2>1, <2>2 DEF Truthful, Vouched
<1>4. Delimited'
  <2>1. ~tainted => Tail(unanswered) = << >> /\ inbox = << >>
    <3>1. ~tainted => unanswered = <<batch>> /\ inbox = << >>
      BY <1>0, <1>1 DEF Delimited
    <3>2. Tail(<<batch>>) = << >>
      OBVIOUS
    <3> QED
      BY <3>1, <3>2
  <2> QED
    BY <1>0, <1>1, <2>1 DEF Delimited
<1> QED
  BY <1>1, <1>2, <1>3, <1>4, Rest

\* The peer closes, its reset arrives, or the worker leaves.
LEMMA CloseStep ==
    ASSUME IInv, PeerCloses \/ Reset \/ Finish
    PROVE  IInv'
<1>0. Accounted /\ Truthful /\ Delimited
  BY Known
<1>1. UNCHANGED <<batch, head, ingested, dropped, misled>> /\ Next
  BY DEF PeerCloses, Reset, Finish, clientVars, outcomes, Next, Worker
<1>2. \/ conn = "open" /\ unanswered' = << >> /\ inbox' = inbox /\ pc' = pc /\ tainted' = tainted
      \/ /\ conn = "fin" /\ unanswered' = unanswered /\ inbox' = << >>
         /\ pc' = pc /\ tainted' = tainted
      \/ unanswered' = << >> /\ inbox' = << >> /\ pc' = "done"
  BY DEF PeerCloses, Reset, Finish, Closed, clientVars
<1>3. Accounted'
  BY <1>0, <1>1 DEF Accounted, Batches
<1>4. Truthful'
  BY <1>0, <1>1, <1>2, TruthfulKept
<1>5. Delimited'
  <2>1. ASSUME ~tainted, conn = "fin" PROVE unanswered = << >>
    BY <1>0, <2>1 DEF Delimited
  <2>2. CASE unanswered' = << >> /\ inbox' = inbox /\ pc' = pc /\ tainted' = tainted
    BY <1>0, <1>1, <2>2 DEF Delimited
  <2>3. CASE /\ conn = "fin" /\ unanswered' = unanswered /\ inbox' = << >>
             /\ pc' = pc /\ tainted' = tainted
    BY <1>0, <1>1, <2>1, <2>3 DEF Delimited
  <2>4. CASE unanswered' = << >> /\ inbox' = << >> /\ pc' = "done"
    BY <2>4 DEF Delimited
  <2> QED
    BY <1>2, <2>2, <2>3, <2>4
<1> QED
  BY <1>1, <1>3, <1>4, <1>5, Rest

LEMMA StepIInv == IInv /\ [Next]_vars => IInv'
<1> SUFFICES ASSUME IInv, [Next]_vars PROVE IInv'
  OBVIOUS
<1>1. CASE Respond \/ IngestOnly \/ PeerCloses \/ Reset \/ Finish
  BY <1>1, RespondStep, IngestOnlyStep, CloseStep
<1>2. CASE Connect \/ Send \/ RecvPart \/ RecvHead \/ DrainPart \/ Answered
  BY <1>2, ConnectStep, SendStep, PartStep, RecvHeadStep, AnsweredStep
<1>3. CASE SendFails \/ RecvFails
  <2>1. batch <= MaxBatches /\ UNCHANGED <<ingested, misled>> /\ Closed /\ RetryOrDrop /\ Next
    BY <1>3 DEF SendFails, RecvFails, Working, PostFailsClosed, Next, Worker
  <2> QED
    BY <2>1, Concluded
<1>4. CASE UNCHANGED vars
  <2>1. UNCHANGED <<batch, pc, head, conn, inbox, unanswered, tainted, ingested, dropped, misled>>
    BY <1>4 DEF vars
  <2>2. Accounted' /\ Truthful' /\ Delimited'
    BY <2>1, Known, TruthfulKept DEF Accounted, Delimited, Batches
  <2> QED
    BY <2>2, Rest
<1> QED
  BY <1>1, <1>2, <1>3, <1>4 DEF Next, Worker, Ended

\* The strengthened invariant holds in every reachable state, whatever the
\* server sends and however its responses are framed.
THEOREM Invariance == Spec => []IInv
<1>1. Init => IInv
  BY InitIInv
<1>2. IInv /\ [Next]_vars => IInv'
  BY StepIInv
<1> QED
  BY <1>1, <1>2, PTL DEF Spec

\* A batch run() is done with was taken by the server, counted in dropped_, or
\* acknowledged by another's response on a connection that carried an interim
\* head or an unannounced body.
THEOREM NothingLostSilently == Spec => []NoSilentLoss
<1>1. IInv => NoSilentLoss
  BY DEF IInv
<1> QED
  BY <1>1, Invariance, PTL

\* post() returns true only on the response to its own request, although the
\* connection is shared by all batches, unless that connection carried an
\* interim head or an unannounced body.
THEOREM ResponseIsOwn == Spec => OwnResponse
<1>1. IInv /\ [Next]_vars
        => [\A b \in Batches : b \in acked' \ acked => head.of = b \/ tainted]_vars
  <2> SUFFICES ASSUME IInv, [Next]_vars, NEW b \in Batches, b \in acked' \ acked
               PROVE  head.of = b \/ tainted
    OBVIOUS
  <2>1. Answered
    <3>1. acked' # acked
      OBVIOUS
    <3> QED
      BY <3>1 DEF Next, Worker, Ended, vars, outcomes, Respond, IngestOnly, PeerCloses, Reset,
                  Connect, Send, SendFails, RecvPart, RecvFails, RecvHead, DrainPart, Finish,
                  PostFailsClosed
  <2>2. pc = "drain" /\ acked' \subseteq acked \cup {batch}
    BY <2>1 DEF Answered, PostSucceeds, PostFailsClosed, PostFailsKept
  <2> QED
    BY <2>2, OwnHead
<1> QED
  BY <1>1, Invariance, PTL DEF Spec, OwnResponse
=============================================================================
