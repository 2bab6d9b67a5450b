---------------------------- MODULE EnrichProofs ----------------------------
(***************************************************************************)
(* Safety of Enrich for every set of instances, users, names and ends, any *)
(* number of events and any way the wall clock is set.  IInv ties each     *)
(* record to its event through the one offset there is (Told), to the one  *)
(* name its user has in the cache (Named), and the cache to the calls of   *)
(* the user database (OncePerUser); Placed says what may be in a ring.     *)
(***************************************************************************)
EXTENDS Enrich, SequenceTheorems, TLAPS

\* What a program may have submitted, now or earlier.
Event ==
    [type : {"exec", "oom_kill"}, ts : Nat, uid : Uids, end : {None}]
        \cup [type : {"exit"}, ts : Nat, uid : Uids, end : Ends]

Record ==
    [probe : Instances, ts : Nat, uid : Uids, event : {"exec", "exit", "oom_kill"},
     user : Names \cup {None}, value : 0..255, signal : 0..127, source : Event,
     from : Instances]

Clocks ==
    /\ now \in 0..MaxTime
    /\ skew \in Skews
    /\ offset \in Skews \cup {None}

Placed ==
    /\ rings \in [Instances -> Seq({Busy} \cup Event)]
    /\ \A i \in Instances : \A k \in 1..Len(rings[i]) :
          rings[i][k] = Busy \/ rings[i][k].ts \in 0..now

\* The first lookup of a user is the last.
OncePerUser ==
    /\ DOMAIN cache \subseteq Uids
    /\ \A u \in DOMAIN cache : cache[u] \in Names \cup {None}
    /\ lookups \in [Uids -> Nat]
    /\ \A u \in Uids : lookups[u] = IF u \in DOMAIN cache THEN 1 ELSE 0

\* What a record says of the event it was made from, under an offset.
Tells(r, off) ==
    /\ r.ts = r.source.ts + off
    /\ r.probe = r.from
    /\ r.event = r.source.type /\ r.uid = r.source.uid
    /\ r.event = "exit" => /\ r.value = r.source.end.status
                           /\ r.signal = r.source.end.signal

\* No record before the offset is known, and every record under that offset.
Told ==
    /\ records \in Seq(Record)
    /\ Len(records) > 0 => offset # None
    /\ \A k \in 1..Len(records) : Tells(records[k], offset)

Named ==
    \A k \in 1..Len(records) :
        /\ records[k].uid \in DOMAIN cache
        /\ records[k].user = cache[records[k].uid]

IInv ==
    /\ Clocks
    /\ Placed
    /\ OncePerUser
    /\ Told
    /\ Named

-----------------------------------------------------------------------------
(* Translation.                                                            *)

\* Shifting and masking the packed exit code gives back the status and the
\* signal, with the core flag in between.
LEMMA ExitUnpacks ==
    ASSUME NEW s \in 0..255, NEW c \in 0..1, NEW g \in 0..127
    PROVE  /\ ((s * 256 + c * 128 + g) \div 256) % 256 = s
           /\ (s * 256 + c * 128 + g) % 128 = g
OBVIOUS

LEMMA ExitTells ==
    ASSUME NEW end \in Ends
    PROVE  /\ Exit(ExitCode(end)) = [value |-> end.status, signal |-> end.signal]
           /\ end.status \in 0..255 /\ end.signal \in 0..127
<1>1. end.status \in 0..255 /\ end.signal \in 0..127 /\ end.core \in 0..1
  BY EnrichAssumption
<1>2. PICK s \in 0..255, c \in 0..1, g \in 0..127 :
        s = end.status /\ c = end.core /\ g = end.signal
  BY <1>1
<1>3. /\ ((s * 256 + c * 128 + g) \div 256) % 256 = s
      /\ (s * 256 + c * 128 + g) % 128 = g
  BY ExitUnpacks
<1>4. ExitCode(end) = s * 256 + c * 128 + g
  BY <1>2 DEF ExitCode
<1> QED
  BY <1>1, <1>2, <1>3, <1>4 DEF Exit

\* A translated record is the event's, with what the event measured.
LEMMA TranslateTells ==
    ASSUME NEW plugin, NEW e \in Event, NEW r \in Translate(plugin, e)
    PROVE  \E m \in [value : 0..255, signal : 0..127] :
               /\ r = Copied(plugin, e, m)
               /\ e.type = "exit" => m = [value |-> e.end.status, signal |-> e.end.signal]
<1>1. Counted \in [value : 0..255, signal : 0..127]
  BY DEF Counted
<1>2. CASE e.type = "exit"
  <2>1. e.end \in Ends
    BY <1>2 DEF Event
  <2>2. /\ Exit(ExitCode(e.end)) = [value |-> e.end.status, signal |-> e.end.signal]
        /\ e.end.status \in 0..255 /\ e.end.signal \in 0..127
    BY <2>1, ExitTells
  <2>3. r = Copied(plugin, e, Exit(ExitCode(e.end)))
    BY <1>2 DEF Translate
  <2> QED
    BY <2>2, <2>3
<1>3. CASE e.type # "exit"
  <2>1. r = Copied(plugin, e, Counted)
    BY <1>3 DEF Translate
  <2> QED
    BY <1>1, <1>3, <2>1
<1> QED
  BY <1>2, <1>3

\* What the emitter and the pipeline make of it.
LEMMA EnrichedIs ==
    ASSUME NEW plugin, NEW e, NEW m, NEW i, NEW name
    PROVE  Enriched(Stamped(Copied(plugin, e, m), i), name) =
               [probe |-> i, ts |-> e.ts + BootOffset, uid |-> e.uid, event |-> e.type,
                user |-> name, value |-> m.value, signal |-> m.signal, source |-> e,
                from |-> i]
<1> DEFINE Rec(probe, ts, user, from) ==
             [probe |-> probe, ts |-> ts, uid |-> e.uid, event |-> e.type, user |-> user,
              value |-> m.value, signal |-> m.signal, source |-> e, from |-> from]
<1>1. PICK r : r = Copied(plugin, e, m)
  OBVIOUS
<1>2. r = Rec(plugin, e.ts, None, None)
  BY <1>1 DEF Copied
<1>3. PICK q : q = [r EXCEPT !.probe = i]
  OBVIOUS
<1>4. q = Rec(i, e.ts, None, None)
  BY <1>2, <1>3
<1>5. PICK s : s = Stamped(r, i)
  OBVIOUS
<1>6. s = [q EXCEPT !.from = i]
  BY <1>3, <1>5 DEF Stamped
<1>7. s = Rec(i, e.ts, None, i)
  BY <1>4, <1>6
<1>8. PICK ts : ts = e.ts + BootOffset
  OBVIOUS
<1>9. PICK t : t = [s EXCEPT !.ts = ts]
  OBVIOUS
<1>10. t = Rec(i, ts, None, i) /\ s.ts = e.ts
  BY <1>7, <1>9
<1>11. [t EXCEPT !.user = name] = Rec(i, ts, name, i)
  BY <1>10
<1>12. Enriched(s, name) = [t EXCEPT !.user = name]
  BY <1>8, <1>9, <1>10 DEF Enriched
<1> QED
  BY <1>1, <1>5, <1>8, <1>11, <1>12

-----------------------------------------------------------------------------
LEMMA InitIInv == Init => IInv
<1> SUFFICES ASSUME Init PROVE IInv
  OBVIOUS
<1> USE EnrichAssumption
<1>1. << >> \in Seq({Busy} \cup Event) /\ << >> \in Seq(Record) /\ Len(<< >>) = 0
  BY EmptySeq
<1>2. Clocks
  BY DEF Init, Clocks
<1>3. Placed
  BY <1>1 DEF Init, Placed
<1>4. OncePerUser
  <2>1. DOMAIN cache = {}
    BY DEF Init
  <2> QED
    BY <2>1 DEF Init, OncePerUser
<1>5. Told /\ Named
  BY <1>1 DEF Init, Told, Named
<1> QED
  BY <1>2, <1>3, <1>4, <1>5 DEF IInv

-----------------------------------------------------------------------------
(* The kernel.                                                             *)

LEMMA TimePassesKeeps ==
    ASSUME IInv, TimePasses
    PROVE  IInv'
<1>1. Clocks'
  BY EnrichAssumption DEF IInv, TimePasses, Clocks
<1>2. 0..now \subseteq 0..now'
  BY DEF IInv, Clocks, TimePasses
<1>3. Placed'
  BY <1>2 DEF IInv, TimePasses, Placed
<1>4. OncePerUser' /\ Told' /\ Named'
  BY DEF IInv, TimePasses, OncePerUser, Told, Named
<1> QED
  BY <1>1, <1>3, <1>4 DEF IInv

LEMMA ClocksSetKeep ==
    ASSUME IInv, Step
    PROVE  IInv'
BY DEF IInv, Step, Clocks, Placed, OncePerUser, Told, Named

LEMMA ScanSamplesKeeps ==
    ASSUME IInv, ScanSamples
    PROVE  IInv'
<1>1. Len(records) = 0 /\ Len(records') = 0
  BY EmptySeq DEF ScanSamples
<1>2. Clocks' /\ Placed' /\ OncePerUser'
  BY DEF IInv, ScanSamples, Clocks, Placed, OncePerUser
<1>3. Told' /\ Named'
  BY <1>1 DEF IInv, ScanSamples, Told, Named
<1> QED
  BY <1>2, <1>3 DEF IInv

LEMMA ReserveKeeps ==
    ASSUME IInv, NEW i \in Instances, Reserve(i)
    PROVE  IInv'
<1>1. rings' = [rings EXCEPT ![i] = Append(rings[i], Busy)]
  BY DEF Reserve
<1>2. /\ rings[i] \in Seq({Busy} \cup Event)
      /\ Append(rings[i], Busy) \in Seq({Busy} \cup Event)
      /\ Len(Append(rings[i], Busy)) = Len(rings[i]) + 1
      /\ \A k \in 1..Len(rings[i]) : Append(rings[i], Busy)[k] = rings[i][k]
      /\ Append(rings[i], Busy)[Len(rings[i]) + 1] = Busy
      /\ Len(rings[i]) \in Nat
  <2>1. rings[i] \in Seq({Busy} \cup Event) /\ Busy \in {Busy} \cup Event
    BY DEF IInv, Placed
  <2> QED
    BY <2>1, AppendProperties, LenProperties
<1>3. rings' \in [Instances -> Seq({Busy} \cup Event)]
  BY <1>1, <1>2 DEF IInv, Placed
<1>4. ASSUME NEW j \in Instances, NEW k \in 1..Len(rings'[j])
      PROVE  rings'[j][k] = Busy \/ rings'[j][k].ts \in 0..now'
  <2>1. CASE j # i
    BY <1>1, <2>1 DEF IInv, Placed, Reserve
  <2>2. CASE j = i
    <3>1. rings'[j] = Append(rings[i], Busy)
      BY <1>1, <2>2 DEF IInv, Placed
    <3>2. CASE k = Len(rings[i]) + 1
      BY <1>2, <3>1, <3>2
    <3>3. CASE k # Len(rings[i]) + 1
      <4>1. k \in 1..Len(rings[i])
        BY <1>2, <3>1, <3>3
      <4> QED
        BY <1>2, <3>1, <4>1 DEF IInv, Placed, Reserve
    <3> QED
      BY <3>2, <3>3
  <2> QED
    BY <2>1, <2>2
<1>5. Placed'
  BY <1>3, <1>4 DEF Placed
<1>6. Clocks' /\ OncePerUser' /\ Told' /\ Named'
  BY DEF IInv, Reserve, Clocks, OncePerUser, Told, Named
<1> QED
  BY <1>5, <1>6 DEF IInv

\* What the instance's program tells is an event of this moment.
LEMMA SeenNow ==
    ASSUME Clocks, NEW i, NEW e \in Seen(i)
    PROVE  e \in Event /\ e.ts \in 0..now
<1>1. now \in Nat /\ now \in 0..now
  BY EnrichAssumption DEF Clocks
<1>2. CASE e \in [type : {"oom_kill"}, ts : {now}, uid : Uids, end : {None}]
  BY <1>1, <1>2 DEF Event
<1>3. CASE e \in [type : {"exec"}, ts : {now}, uid : Uids, end : {None}]
  BY <1>1, <1>3 DEF Event
<1>4. CASE e \in [type : {"exit"}, ts : {now}, uid : Uids, end : Ends]
  BY <1>1, <1>4 DEF Event
<1> QED
  BY <1>2, <1>3, <1>4 DEF Seen

LEMMA SubmitKeeps ==
    ASSUME IInv, NEW i \in Instances, Submit(i)
    PROVE  IInv'
<1>1. PICK k \in DOMAIN rings[i], e \in Seen(i) : rings' = [rings EXCEPT ![i][k] = e]
  BY DEF Submit
<1>2. e \in Event /\ e.ts \in 0..now
  BY SeenNow DEF IInv
<1>3. rings[i] \in Seq({Busy} \cup Event) /\ rings \in [Instances -> Seq({Busy} \cup Event)]
  BY DEF IInv, Placed
<1>4. /\ k \in 1..Len(rings[i])
      /\ [rings[i] EXCEPT ![k] = e] \in Seq({Busy} \cup Event)
      /\ Len([rings[i] EXCEPT ![k] = e]) = Len(rings[i])
      /\ \A j \in 1..Len(rings[i]) :
            [rings[i] EXCEPT ![k] = e][j] = IF j = k THEN e ELSE rings[i][j]
  <2>1. k \in 1..Len(rings[i]) /\ e \in {Busy} \cup Event
    BY <1>2, <1>3, LenProperties
  <2> QED
    BY <1>3, <2>1, ExceptSeq
<1>5. rings' \in [Instances -> Seq({Busy} \cup Event)]
  BY <1>1, <1>3, <1>4
<1>6. ASSUME NEW j \in Instances, NEW l \in 1..Len(rings'[j])
      PROVE  rings'[j][l] = Busy \/ rings'[j][l].ts \in 0..now'
  <2>1. CASE j # i
    BY <1>1, <2>1 DEF IInv, Placed, Submit
  <2>2. CASE j = i
    <3>1. rings'[j] = [rings[i] EXCEPT ![k] = e]
      BY <1>1, <1>3, <2>2
    <3> QED
      BY <1>2, <1>4, <2>2, <3>1 DEF IInv, Placed, Submit
  <2> QED
    BY <2>1, <2>2
<1>7. Placed'
  BY <1>5, <1>6 DEF Placed
<1>8. Clocks' /\ OncePerUser' /\ Told' /\ Named'
  BY DEF IInv, Submit, Clocks, OncePerUser, Told, Named
<1> QED
  BY <1>7, <1>8 DEF IInv

-----------------------------------------------------------------------------
(* The event loop and the pipeline.                                        *)

LEMMA TakeKeepsPlaced ==
    ASSUME IInv, NEW i \in Instances, Consume(i)
    PROVE  Placed' /\ Clocks' /\ Head(rings[i]) \in Event /\ Head(rings[i]).ts \in 0..now
<1>1. rings' = [rings EXCEPT ![i] = Tail(rings[i])] /\ now' = now /\ skew' = skew
  BY DEF Consume
<1>2. /\ rings[i] \in Seq({Busy} \cup Event) /\ rings[i] # << >>
      /\ rings \in [Instances -> Seq({Busy} \cup Event)]
  BY DEF IInv, Placed, Consume
<1>3. /\ Head(rings[i]) \in {Busy} \cup Event /\ Head(rings[i]) = rings[i][1]
      /\ Tail(rings[i]) \in Seq({Busy} \cup Event)
      /\ Len(rings[i]) \in Nat /\ Len(rings[i]) > 0
      /\ Len(Tail(rings[i])) = Len(rings[i]) - 1
      /\ \A k \in 1..(Len(rings[i]) - 1) : Tail(rings[i])[k] = rings[i][k + 1]
  BY <1>2, HeadTailProperties, LenProperties, EmptySeq
<1>4. Head(rings[i]) \in Event /\ Head(rings[i]).ts \in 0..now
  BY <1>3 DEF IInv, Placed, Consume
<1>5. ASSUME NEW j \in Instances, NEW k \in 1..Len(rings'[j])
      PROVE  rings'[j][k] = Busy \/ rings'[j][k].ts \in 0..now'
  <2>1. CASE j # i
    BY <1>1, <2>1 DEF IInv, Placed
  <2>2. CASE j = i
    <3>1. rings'[j] = Tail(rings[i])
      BY <1>1, <1>2, <2>2
    <3>2. k \in 1..(Len(rings[i]) - 1) /\ k + 1 \in 1..Len(rings[i])
      BY <1>3, <3>1
    <3> QED
      BY <1>1, <1>3, <3>1, <3>2 DEF IInv, Placed
  <2> QED
    BY <2>1, <2>2
<1>6. Placed'
  BY <1>1, <1>2, <1>3, <1>5 DEF Placed
<1>7. Clocks'
  BY <1>1 DEF IInv, Clocks, Consume, BootOffset
<1> QED
  BY <1>4, <1>6, <1>7

\* A lookup keeps every name there is, and knows its user's from then on.
LEMMA LookupKeeps ==
    ASSUME OncePerUser, NEW u \in Uids, NEW name \in Names \cup {None}, Lookup(u, name)
    PROVE  /\ OncePerUser'
           /\ DOMAIN cache \subseteq DOMAIN cache'
           /\ \A v \in DOMAIN cache : cache'[v] = cache[v]
           /\ u \in DOMAIN cache' /\ cache'[u] = name
<1>1. CASE u \in DOMAIN cache
  BY <1>1 DEF Lookup, OncePerUser
<1>2. CASE u \notin DOMAIN cache
  <2>1. /\ cache' = [v \in DOMAIN cache \cup {u} |-> IF v = u THEN name ELSE cache[v]]
        /\ lookups' = [lookups EXCEPT ![u] = lookups[u] + 1]
    BY <1>2 DEF Lookup
  <2>2. lookups[u] = 0
    BY <1>2 DEF OncePerUser
  <2> QED
    BY <1>2, <2>1, <2>2 DEF OncePerUser
<1> QED
  BY <1>1, <1>2

LEMMA ConsumeKeeps ==
    ASSUME IInv, NEW i \in Instances, Consume(i)
    PROVE  IInv'
<1> DEFINE e == Head(rings[i])
<1>1. Placed' /\ Clocks' /\ e \in Event /\ e.ts \in 0..now
  BY TakeKeepsPlaced
<1>2. CASE Translate(PluginOf[i], e) = {} /\ UNCHANGED <<offset, cache, records, lookups>>
  <2>1. OncePerUser' /\ Told' /\ Named'
    BY <1>2 DEF IInv, OncePerUser, Told, Named
  <2> QED
    BY <1>1, <2>1 DEF IInv
<1>3. CASE \E r \in Translate(PluginOf[i], e), name \in Names \cup {None} :
              /\ Lookup(e.uid, name)
              /\ records' = Append(records, Enriched(Stamped(r, i), name))
              /\ offset' = BootOffset
  <2>1. PICK r \in Translate(PluginOf[i], e), name \in Names \cup {None} :
              /\ Lookup(e.uid, name)
              /\ records' = Append(records, Enriched(Stamped(r, i), name))
              /\ offset' = BootOffset
    BY <1>3
  <2>2. PICK m \in [value : 0..255, signal : 0..127] :
          /\ r = Copied(PluginOf[i], e, m)
          /\ e.type = "exit" => m = [value |-> e.end.status, signal |-> e.end.signal]
    BY <1>1, TranslateTells
  <2>3. PICK ev \in Event : ev = e
    BY <1>1
  <2> HIDE DEF e
  <2>4. offset' \in Nat /\ offset' # None /\ (offset # None => offset' = offset)
    BY <2>1, EnrichAssumption DEF IInv, Clocks, BootOffset
  <2>5. PICK n : n = [probe |-> i, ts |-> ev.ts + offset', uid |-> ev.uid, event |-> ev.type,
                      user |-> name, value |-> m.value, signal |-> m.signal,
                      source |-> ev, from |-> i]
    OBVIOUS
  <2>6. records' = Append(records, n)
    BY <2>1, <2>2, <2>3, <2>5, EnrichedIs
  <2>7. n \in Record /\ n.uid = ev.uid /\ n.user = name
    <3>1. ev.ts \in Nat /\ ev.uid \in Uids /\ ev.type \in {"exec", "exit", "oom_kill"}
      BY DEF Event
    <3>2. ev.ts + offset' \in Nat
      BY <2>4, <3>1
    <3> QED
      BY <2>5, <3>1, <3>2 DEF Record
  <2>8. Tells(n, offset')
    BY <2>2, <2>3, <2>5 DEF Tells
  <2>9. /\ records \in Seq(Record)
        /\ Append(records, n) \in Seq(Record)
        /\ Len(Append(records, n)) = Len(records) + 1
        /\ \A k \in 1..Len(records) : Append(records, n)[k] = records[k]
        /\ Append(records, n)[Len(records) + 1] = n
        /\ Len(records) \in Nat
    BY <2>7, AppendProperties, LenProperties DEF IInv, Told
  <2>10. /\ OncePerUser'
         /\ \A v \in DOMAIN cache : v \in DOMAIN cache' /\ cache'[v] = cache[v]
         /\ ev.uid \in DOMAIN cache' /\ cache'[ev.uid] = name
    <3>1. ev.uid \in Uids /\ OncePerUser /\ Lookup(ev.uid, name)
      BY <2>1, <2>3 DEF IInv, Event
    <3> QED
      BY <3>1, LookupKeeps
  <2>11. ASSUME NEW k \in 1..Len(records')
         PROVE  /\ Tells(records'[k], offset')
                /\ records'[k].uid \in DOMAIN cache'
                /\ records'[k].user = cache'[records'[k].uid]
    <3>1. CASE k = Len(records) + 1
      <4>1. records'[k] = n
        BY <2>6, <2>9, <3>1
      <4> QED
        BY <2>7, <2>8, <2>10, <4>1
    <3>2. CASE k # Len(records) + 1
      <4>1. k \in 1..Len(records) /\ records'[k] = records[k]
        BY <2>6, <2>9, <3>2
      <4>2. offset # None
        BY <2>9, <4>1 DEF IInv, Told
      <4>3. Tells(records[k], offset')
        BY <2>4, <4>1, <4>2 DEF IInv, Told
      <4> QED
        BY <2>10, <4>1, <4>3 DEF IInv, Named
    <3> QED
      BY <3>1, <3>2
  <2>12. Told' /\ Named'
    BY <2>4, <2>6, <2>9, <2>11 DEF Told, Named
  <2> QED
    BY <1>1, <2>10, <2>12 DEF IInv
<1> QED
  BY <1>2, <1>3 DEF Consume

-----------------------------------------------------------------------------
LEMMA NextKeeps == IInv /\ [Next]_vars => IInv'
<1> SUFFICES ASSUME IInv, [Next]_vars PROVE IInv'
  OBVIOUS
<1>1. CASE UNCHANGED vars
  BY <1>1 DEF vars, IInv, Clocks, Placed, OncePerUser, Told, Named
<1>2. CASE \E i \in Instances : Reserve(i) \/ Submit(i) \/ Consume(i)
  BY <1>2, ReserveKeeps, SubmitKeeps, ConsumeKeeps
<1> QED
  BY <1>1, <1>2, TimePassesKeeps, ClocksSetKeep, ScanSamplesKeeps DEF Next, Finished

\* Every record is its event's under the one offset, and its user's under the
\* one name the cache has, whatever the clock and the user database do.
THEOREM Invariance == Spec => []IInv
BY InitIInv, NextKeeps, PTL DEF Spec

\* The wall clock keeps the distances of the monotonic clock: boot_offset_ns()
\* is sampled once, by the bootstrap scan or the first event, and no setting of
\* the clock in between, nor the order in which events of several CPUs are
\* stamped and read, shows in the records.
THEOREM DistancesKept == Spec => []WallKeepsDistance
<1>1. IInv => WallKeepsDistance
  <2> SUFFICES ASSUME IInv, NEW j \in DOMAIN records, NEW k \in DOMAIN records
               PROVE  records[j].ts - records[k].ts
                          = records[j].source.ts - records[k].source.ts
    BY DEF WallKeepsDistance
  <2>1. j \in 1..Len(records) /\ k \in 1..Len(records)
    BY LenProperties DEF IInv, Told
  <2>2. offset \in Nat
    BY <2>1, LenProperties, EnrichAssumption DEF IInv, Told, Clocks
  <2>3. records[j].source.ts \in Nat /\ records[k].source.ts \in Nat
    <3>1. records[j] \in Record /\ records[k] \in Record
      BY <2>1, ElementOfSeq DEF IInv, Told
    <3> QED
      BY <3>1 DEF Record, Event
  <2>4. /\ records[j].ts = records[j].source.ts + offset
        /\ records[k].ts = records[k].source.ts + offset
    BY <2>1 DEF IInv, Told, Tells
  <2> QED
    BY <2>2, <2>3, <2>4
<1> QED
  BY <1>1, Invariance, PTL

\* lookup_user() asks the user database once for a user, whether it knows a
\* name, knows none or fails, and all records of the user agree.
THEOREM UsersHaveOneName == Spec => []OneName
<1>1. IInv => OneName
  <2> SUFFICES ASSUME IInv PROVE OneName
    OBVIOUS
  <2>1. TypeOK
    <3>1. ASSUME NEW i \in Instances, NEW k \in DOMAIN rings[i]
          PROVE  rings[i][k] = Busy \/ rings[i][k].ts \in 0..now
      <4>1. k \in 1..Len(rings[i])
        BY LenProperties DEF IInv, Placed
      <4> QED
        BY <4>1 DEF IInv, Placed
    <3>2. ASSUME NEW k \in DOMAIN records
          PROVE  records[k].value \in 0..255 /\ records[k].signal \in 0..127
      <4>1. records[k] \in Record
        BY LenProperties, ElementOfSeq DEF IInv, Told
      <4> QED
        BY <4>1 DEF Record
    <3> QED
      BY <3>1, <3>2 DEF TypeOK, IInv, Clocks, OncePerUser
  <2>2. \A u \in Uids : lookups[u] <= 1
    BY DEF IInv, OncePerUser
  <2>3. ASSUME NEW j \in DOMAIN records, NEW k \in DOMAIN records,
               records[j].uid = records[k].uid
        PROVE  records[j].user = records[k].user
    <3>1. j \in 1..Len(records) /\ k \in 1..Len(records)
      BY LenProperties DEF IInv, Told
    <3> QED
      BY <2>3, <3>1 DEF IInv, Named
  <2> QED
    BY <2>1, <2>2, <2>3 DEF OneName
<1> QED
  BY <1>1, Invariance, PTL

\* Translation, the emitter's stamp and the packed exit code lose nothing: a
\* record names the instance that saw the event, and the status and signal with
\* which the process ended.
THEOREM RecordsTell == Spec => []RecordTells
<1>1. IInv => RecordTells
  <2> SUFFICES ASSUME IInv, NEW k \in DOMAIN records PROVE Tells(records[k], offset)
    BY DEF RecordTells, Tells
  <2>1. k \in 1..Len(records)
    BY LenProperties DEF IInv, Told
  <2> QED
    BY <2>1 DEF IInv, Told
<1> QED
  BY <1>1, Invariance, PTL
=============================================================================
