-------------------------- MODULE AttributionProofs -------------------------
(***************************************************************************)
(* Safety of the resolver for every number of cgroups and ids, every ring  *)
(* size, grace period and wall-clock step.  The argument: cgroups of one   *)
(* id have disjoint lifetimes (Lifetimes), so an id's events are ordered,  *)
(* and both rings tell the truth about them (WatcherTells, ProbeTells); an *)
(* entry is never ahead of what is still in the watcher's ring             *)
(* (EntryBehind), and never older than the events it would be given        *)
(* wrongly (StaleGuard).                                                   *)
(***************************************************************************)
EXTENDS Attribution, SequenceTheorems, TLAPS

\* Cgroups are numbered in the order of their creation, and one that shares its
\* id with a later one was gone before the later one came.
Lifetimes ==
    /\ \A c \in Cgroups : cgroups[c].died # 0 => cgroups[c].born < cgroups[c].died
    /\ \A c, d \in Cgroups : c < d =>
          /\ cgroups[c].born < cgroups[d].born
          /\ cgroups[c].id = cgroups[d].id =>
                cgroups[c].died # 0 /\ cgroups[c].died < cgroups[d].born

\* The watcher's events carry the times of what they report, in order.
WatcherTells ==
    /\ \A k \in 1..Len(watcherRing) :
          LET e == watcherRing[k]
          IN  e.ts = IF e.op = "mkdir" THEN cgroups[e.cg].born ELSE cgroups[e.cg].died
    /\ \A j, k \in 1..Len(watcherRing) : j < k => watcherRing[j].ts < watcherRing[k].ts

\* A probe's event was stamped in the lifetime of its cgroup.
ProbeTells ==
    \A k \in 1..Len(probeRing) :
        LET e == probeRing[k]
        IN  /\ cgroups[e.cg].born < e.ts
            /\ cgroups[e.cg].died # 0 => e.ts < cgroups[e.cg].died

\* Before the programs are attached nothing is posted.
Quiet ==
    phase # "running" =>
        /\ watcherRing = << >> /\ probeRing = << >>
        /\ \A c \in Cgroups : <<"mkdir", c>> \in unseen

\* Whoever will still be entered although it is gone will be marked removed, or
\* nothing was posted.
RemovalFollows ==
    \A c \in Cgroups :
        ~Alive(c) /\ Pending("mkdir", c) => Pending("rmdir", c) \/ <<"rmdir", c>> \in unseen

\* An entry is that of a cgroup of its id; it was made when that cgroup was,
\* unless the bootstrap scan made it; and the cgroup was gone when it was marked.
EntryTells ==
    \A i \in Ids :
        LET e == entries[i]
        IN  e.attr # 0 =>
              /\ cgroups[e.attr].id = i
              /\ <<"mkdir", e.attr>> \notin unseen => e.created = cgroups[e.attr].born
              /\ e.removed # 0 => ~Alive(e.attr) /\ cgroups[e.attr].died <= e.removed

\* What the watcher's ring still holds on an id is about later cgroups than the
\* id's entry, but for the removal of its own.
EntryBehind ==
    \A k \in 1..Len(watcherRing) :
        LET e == watcherRing[k]
            a == entries[cgroups[e.cg].id].attr
        IN  a # 0 => e.cg >= a /\ (e.op = "mkdir" => e.cg > a)

\* An event of a predecessor is older than the entry.
StaleGuard ==
    \A k \in 1..Len(probeRing) :
        LET e == probeRing[k]
            entry == entries[cgroups[e.cg].id]
        IN  entry.attr > e.cg => e.ts < entry.created

\* The last cgroup of its id whose creation was told is the one entered, until
\* its grace period is over.
LastToldKnown ==
    \A c \in Cgroups :
        (/\ cgroups[c].job
         /\ ~Pending("mkdir", c)
         /\ <<"mkdir", c>> \notin unseen
         /\ Alive(c) \/ now - cgroups[c].died <= Grace
         /\ \A d \in Cgroups : d > c => cgroups[d].id # cgroups[c].id)
        => entries[cgroups[c].id].attr = c

IInv ==
    /\ GraceForTheDead
    /\ Lifetimes
    /\ WatcherTells
    /\ ProbeTells
    /\ Quiet
    /\ RemovalFollows
    /\ EntryTells
    /\ EntryBehind
    /\ StaleGuard
    /\ LiveJobKnown
    /\ LastToldKnown
    /\ NeverSuccessor

\* The second part of GraceForTheDead.
Marked ==
    \A i \in Ids :
        LET e == entries[i]
        IN  e.attr # 0 =>
               IF Alive(e.attr)
               THEN e.removed = 0
               ELSE \/ e.removed # 0
                    \/ Pending("rmdir", e.attr)
                    \/ <<"rmdir", e.attr>> \in unseen

LEMMA GraceParts == GraceForTheDead <=> TypeOK /\ Marked
BY DEF GraceForTheDead, Marked

LEMMA GracePartsNext == TypeOK' /\ Marked' => GraceForTheDead'
BY DEF GraceForTheDead, Marked

-----------------------------------------------------------------------------
(* Types, element by element.                                              *)

LEMMA Types ==
    ASSUME TypeOK
    PROVE  /\ Len(cgroups) \in Nat /\ Len(watcherRing) \in Nat /\ Len(probeRing) \in Nat
           /\ now \in Nat
           /\ \A c \in Cgroups : /\ cgroups[c].id \in Ids
                                 /\ cgroups[c].born \in 1..now
                                 /\ cgroups[c].died \in 0..now
           /\ \A k \in 1..Len(watcherRing) : /\ watcherRing[k].op \in {"mkdir", "rmdir"}
                                             /\ watcherRing[k].cg \in Cgroups
                                             /\ watcherRing[k].ts \in 1..now
           /\ \A k \in 1..Len(probeRing) : /\ probeRing[k].cg \in Cgroups
                                           /\ probeRing[k].ts \in 1..now
           /\ \A i \in Ids : /\ entries[i].attr \in 0..Len(cgroups)
                             /\ entries[i].created \in Nat
                             /\ entries[i].removed \in 0..now
<1>1. Len(cgroups) \in Nat /\ Len(watcherRing) \in Nat /\ Len(probeRing) \in Nat
  BY LenProperties DEF TypeOK
<1>2. now \in Nat
  BY AttributionAssumption DEF TypeOK
<1>3. \A c \in Cgroups : cgroups[c] \in [id : Ids, job : BOOLEAN, born : 1..now, died : 0..now]
  BY ElementOfSeq DEF TypeOK, Cgroups
<1>4. \A k \in 1..Len(watcherRing) :
        watcherRing[k] \in [op : {"mkdir", "rmdir"}, cg : Cgroups, ts : 1..now]
  BY ElementOfSeq DEF TypeOK
<1>5. \A k \in 1..Len(probeRing) : probeRing[k] \in [cg : Cgroups, ts : 1..now]
  BY ElementOfSeq DEF TypeOK
<1>6. \A i \in Ids : entries[i] \in EntryType
  BY DEF TypeOK
<1> QED
  BY <1>1, <1>2, <1>3, <1>4, <1>5, <1>6 DEF EntryType

\* A cgroup that exists is the last of its id.
LEMMA AliveIsLast ==
    ASSUME Lifetimes, NEW c \in Cgroups, NEW d \in Cgroups, TypeOK,
           Alive(c), cgroups[d].id = cgroups[c].id
    PROVE  d <= c
BY Types DEF Lifetimes, Alive, Cgroups

-----------------------------------------------------------------------------
LEMMA InitIInv == Init => IInv
<1> SUFFICES ASSUME Init PROVE IInv
  OBVIOUS
<1>1. Len(cgroups) = 0 /\ Len(watcherRing) = 0 /\ Len(probeRing) = 0 /\ Cgroups = {}
  BY EmptySeq DEF Init, Cgroups
<1>2. TypeOK
  <2>1. polling \in BOOLEAN
    BY Zenon DEF Init
  <2>2. \A S : << >> \in Seq(S)
    BY EmptySeq
  <2>3. entries \in [Ids -> EntryType]
    BY <1>1, AttributionAssumption DEF Init, EntryType, NoEntry
  <2>4. last \in [of : 0..Len(cgroups), as : 0..Len(cgroups),
                  how : {"none", "hit", "miss", "stale"}]
    BY <1>1 DEF Init
  <2> QED
    BY <1>1, <2>1, <2>2, <2>3, <2>4, AttributionAssumption DEF Init, TypeOK
<1>3. \A i \in Ids : entries[i].attr = 0
  BY DEF Init, NoEntry
<1>4. GraceForTheDead
  BY <1>2, <1>3 DEF GraceForTheDead
<1>5. Lifetimes /\ WatcherTells /\ ProbeTells /\ RemovalFollows /\ LiveJobKnown /\ LastToldKnown
  BY <1>1 DEF Lifetimes, WatcherTells, ProbeTells, RemovalFollows, LiveJobKnown, LastToldKnown
<1>6. Quiet
  BY <1>1 DEF Init, Quiet
<1>7. EntryTells /\ EntryBehind /\ StaleGuard
  BY <1>1, <1>3 DEF EntryTells, EntryBehind, StaleGuard
<1>8. NeverSuccessor
  BY DEF Init, NeverSuccessor
<1> QED
  BY <1>4, <1>5, <1>6, <1>7, <1>8 DEF IInv

-----------------------------------------------------------------------------
(* The kernel.                                                             *)

\* What posting an event about cgroup c does to the ring and to what was never
\* posted.
RingGrows(op, c) ==
    /\ Len(watcherRing) \in Nat /\ Len(watcherRing') \in Nat
    /\ Len(watcherRing) <= Len(watcherRing')
    /\ \A k \in 1..Len(watcherRing) : watcherRing'[k] = watcherRing[k]
    /\ \A k \in 1..Len(watcherRing') :
          \/ k \in 1..Len(watcherRing)
          \/ /\ k = Len(watcherRing) + 1
             /\ watcherRing'[k] = [op |-> op, cg |-> c, ts |-> now + 1]
    /\ watcherRing' \in
          Seq([op : {"mkdir", "rmdir"}, cg : 1..(Len(cgroups) + 1), ts : 1..(now + 1)])
    /\ unseen \subseteq unseen' /\ unseen' \subseteq unseen \cup {<<op, c>>}
    /\ \A o, d : Pending(o, d) => Pending(o, d)'
    /\ \A o, d : Pending(o, d)' => Pending(o, d) \/ (o = op /\ d = c)
    /\ Pending(op, c)' \/ <<op, c>> \in unseen'
    /\ phase # "running" => watcherRing' = watcherRing /\ <<op, c>> \in unseen'

LEMMA Posted ==
    ASSUME TypeOK, NEW op \in {"mkdir", "rmdir"}, NEW c \in 1..(Len(cgroups) + 1),
           PostWatcher(op, c)
    PROVE  RingGrows(op, c)
<1> USE DEF RingGrows
<1> DEFINE T == [op : {"mkdir", "rmdir"}, cg : 1..(Len(cgroups) + 1), ts : 1..(now + 1)]
           e == [op |-> op, cg |-> c, ts |-> now + 1]
<1>1. Len(cgroups) \in Nat /\ Len(watcherRing) \in Nat /\ now \in Nat
  BY Types
<1>2. watcherRing \in Seq(T)
  <2>1. [op : {"mkdir", "rmdir"}, cg : Cgroups, ts : 1..now] \subseteq T
    BY <1>1 DEF Cgroups
  <2> QED
    BY <2>1, SeqMonotonic DEF TypeOK
<1>3. e \in T
  BY <1>1
<1>4. CASE phase = "running" /\ Len(watcherRing) < RingSize
  <2>1. watcherRing' = Append(watcherRing, e) /\ UNCHANGED unseen
    BY <1>4 DEF PostWatcher
  <2> HIDE DEF T, e
  <2>2. /\ watcherRing' \in Seq(T)
        /\ Len(watcherRing') = Len(watcherRing) + 1
        /\ \A k \in 1..Len(watcherRing) : watcherRing'[k] = watcherRing[k]
        /\ watcherRing'[Len(watcherRing) + 1] = e
    BY <1>2, <1>3, <2>1, AppendProperties
  <2>3. \A k \in 1..Len(watcherRing') : k \in 1..Len(watcherRing) \/ k = Len(watcherRing) + 1
    BY <1>1, <2>2
  <2>4. \A k \in 1..Len(watcherRing) : k \in 1..Len(watcherRing')
    BY <1>1, <2>2
  <2>5. Len(watcherRing) + 1 \in 1..Len(watcherRing')
    BY <1>1, <2>2
  <2>6. e.op = op /\ e.cg = c
    BY DEF e
  <2>7. /\ \A o, d : Pending(o, d) => Pending(o, d)'
        /\ \A o, d : Pending(o, d)' => Pending(o, d) \/ (o = op /\ d = c)
        /\ Pending(op, c)'
    BY <2>2, <2>3, <2>4, <2>5, <2>6 DEF Pending
  <2>8. /\ Len(watcherRing') \in Nat /\ Len(watcherRing) <= Len(watcherRing')
        /\ \A k \in 1..Len(watcherRing') :
                 \/ k \in 1..Len(watcherRing)
                 \/ /\ k = Len(watcherRing) + 1
                    /\ watcherRing'[k] = e
    BY <1>1, <2>2, <2>3
  <2> QED
    BY <1>4, <2>1, <2>2, <2>7, <2>8 DEF T, e
<1>5. CASE ~(phase = "running" /\ Len(watcherRing) < RingSize)
  <2>1. unseen' = unseen \cup {<<op, c>>} /\ watcherRing' = watcherRing
    BY <1>5 DEF PostWatcher
  <2>2. \A o, d : Pending(o, d)' <=> Pending(o, d)
    BY <2>1 DEF Pending
  <2> QED
    BY <1>1, <1>2, <2>1, <2>2
<1> QED
  BY <1>4, <1>5

\* A new cgroup: it is nobody's successor among the living, and nothing is known
\* or told of it but its own creation.
LEMMA MkdirStep ==
    ASSUME IInv, NEW i \in Ids, NEW isJob \in BOOLEAN, Mkdir(i, isJob)
    PROVE  IInv'
<1>0. PICK n \in Nat : n = Len(cgroups) + 1
  BY Types, GraceParts DEF IInv
<1> DEFINE r == [id |-> i, job |-> isJob, born |-> now + 1, died |-> 0]
<1>1. /\ now < MaxTime /\ Len(cgroups) < MaxCgroups /\ ~InUse(i)
      /\ now' = now + 1
      /\ cgroups' = Append(cgroups, r)
      /\ PostWatcher("mkdir", n)
      /\ UNCHANGED <<phase, entries, probeRing, ready, draining, polling, last>>
  BY <1>0 DEF Mkdir, loopVars
<1>2. TypeOK /\ Marked
  BY GraceParts DEF IInv
<1>3. Len(cgroups) \in Nat /\ now \in Nat /\ Len(probeRing) \in Nat
  BY <1>2, Types
<1>4. /\ cgroups' \in Seq([id : Ids, job : BOOLEAN, born : 1..now', died : 0..now'])
      /\ Len(cgroups') = n
      /\ \A c \in Cgroups : cgroups'[c] = cgroups[c]
      /\ cgroups'[n] = r
  <2> DEFINE S == [id : Ids, job : BOOLEAN, born : 1..now', died : 0..now']
  <2>1. [id : Ids, job : BOOLEAN, born : 1..now, died : 0..now] \subseteq S
    BY <1>1, <1>3
  <2>2. cgroups \in Seq(S)
    BY <1>2, <2>1, SeqMonotonic DEF TypeOK
  <2>3. r \in S
    BY <1>1, <1>3
  <2> HIDE DEF S, r
  <2> QED
    BY <1>0, <1>1, <2>2, <2>3, AppendProperties DEF S, Cgroups
<1>5. Cgroups' = Cgroups \cup {n} /\ n \notin Cgroups /\ Cgroups \subseteq 1..n
  BY <1>0, <1>3, <1>4 DEF Cgroups
<1>6. r.id = i /\ r.born = now + 1 /\ r.died = 0
  OBVIOUS
<1>7. RingGrows("mkdir", n)
  <2>1. n \in 1..(Len(cgroups) + 1) /\ "mkdir" \in {"mkdir", "rmdir"}
    BY <1>0, <1>3
  <2> QED
    BY <1>1, <1>2, <2>1, Posted
<1>8. /\ \A c \in Cgroups : /\ cgroups[c].id \in Ids
                            /\ cgroups[c].born \in 1..now
                            /\ cgroups[c].died \in 0..now
      /\ \A k \in 1..Len(watcherRing) : /\ watcherRing[k].op \in {"mkdir", "rmdir"}
                                        /\ watcherRing[k].cg \in Cgroups
                                        /\ watcherRing[k].ts \in 1..now
      /\ \A k \in 1..Len(probeRing) : probeRing[k].cg \in Cgroups
      /\ \A j \in Ids : entries[j].attr \in 0..Len(cgroups)
  BY <1>2, Types
<1>9. \A c \in Cgroups : Alive(c)' <=> Alive(c)
  BY <1>4 DEF Alive
<1>10. Alive(n)'
  BY <1>4, <1>6 DEF Alive
<1>11. \A j \in Ids : entries[j].attr # 0 => entries[j].attr \in Cgroups
  BY <1>3, <1>8 DEF Cgroups
<1> HIDE DEF r
<1>12. TypeOK'
  <2>1. polling' \in BOOLEAN
    BY <1>1, <1>2, Zenon DEF TypeOK
  <2>2. Len(cgroups') <= MaxCgroups /\ now' \in 0..MaxTime
    BY <1>0, <1>1, <1>3, <1>4, AttributionAssumption
  <2>3. entries' \in [Ids -> EntryType']
    <3>1. EntryType \subseteq EntryType'
      BY <1>0, <1>1, <1>3, <1>4 DEF EntryType
    <3> QED
      BY <1>1, <1>2, <3>1 DEF TypeOK
  <2>4. watcherRing' \in Seq([op : {"mkdir", "rmdir"}, cg : Cgroups', ts : 1..now'])
    <3>1. 1..(Len(cgroups) + 1) = Cgroups' /\ 1..(now + 1) = 1..now'
      BY <1>0, <1>1, <1>4 DEF Cgroups
    <3> QED
      BY <1>7, <3>1 DEF RingGrows
  <2>5. probeRing' \in Seq([cg : Cgroups', ts : 1..now'])
    <3> DEFINE P == [cg : Cgroups, ts : 1..now]
               Q == [cg : Cgroups', ts : 1..now']
    <3>1. P \subseteq Q
      BY <1>1, <1>3, <1>5
    <3>2. probeRing \in Seq(P) /\ probeRing' = probeRing
      BY <1>1, <1>2 DEF TypeOK
    <3> HIDE DEF P, Q
    <3>3. probeRing' \in Seq(Q)
      BY <3>1, <3>2, SeqMonotonic
    <3> QED
      BY <3>3 DEF Q
  <2>6. last' \in [of : 0..Len(cgroups'), as : 0..Len(cgroups'),
                   how : {"none", "hit", "miss", "stale"}]
    BY <1>0, <1>1, <1>2, <1>3, <1>4 DEF TypeOK
  <2>7. unseen' \subseteq {"mkdir", "rmdir"} \X Cgroups'
    BY <1>2, <1>5, <1>7 DEF TypeOK, RingGrows
  <2> QED
    BY <1>1, <1>2, <1>4, <2>1, <2>2, <2>3, <2>4, <2>5, <2>6, <2>7 DEF TypeOK
<1>13. Marked'
  BY <1>1, <1>2, <1>7, <1>9, <1>11 DEF Marked, RingGrows
<1>14. Lifetimes'
  <2>1. \A c \in Cgroups' : cgroups'[c].died # 0 => cgroups'[c].born < cgroups'[c].died
    BY <1>4, <1>5, <1>6 DEF IInv, Lifetimes
  <2>2. ASSUME NEW c \in Cgroups', NEW d \in Cgroups', c < d
        PROVE  /\ cgroups'[c].born < cgroups'[d].born
               /\ cgroups'[c].id = cgroups'[d].id =>
                     cgroups'[c].died # 0 /\ cgroups'[c].died < cgroups'[d].born
    <3>1. CASE d \in Cgroups
      <4>1. c \in Cgroups
        BY <1>0, <1>3, <1>5, <2>2, <3>1 DEF Cgroups
      <4> QED
        BY <1>4, <2>2, <3>1, <4>1 DEF IInv, Lifetimes
    <3>2. CASE d = n
      <4>1. c \in Cgroups /\ cgroups'[c] = cgroups[c]
        BY <1>0, <1>3, <1>4, <1>5, <2>2, <3>2 DEF Cgroups
      <4>2. cgroups[c].id = i => cgroups[c].died # 0
        BY <1>1, <4>1 DEF InUse, Alive
      <4>3. cgroups'[d].id = i /\ cgroups'[d].born = now + 1
        BY <1>4, <1>6, <3>2
      <4>4. cgroups[c].born \in 1..now /\ cgroups[c].died \in 0..now
        BY <1>8, <4>1
      <4> QED
        BY <1>3, <4>1, <4>2, <4>3, <4>4
    <3> QED
      BY <1>5, <3>1, <3>2
  <2> QED
    BY <2>1, <2>2 DEF Lifetimes
<1>15. WatcherTells'
  <2>1. ASSUME NEW k \in 1..Len(watcherRing')
        PROVE  watcherRing'[k].ts = IF watcherRing'[k].op = "mkdir"
                                    THEN cgroups'[watcherRing'[k].cg].born
                                    ELSE cgroups'[watcherRing'[k].cg].died
    <3>1. CASE k \in 1..Len(watcherRing)
      <4>1. watcherRing'[k] = watcherRing[k]
        BY <1>7, <3>1 DEF RingGrows
      <4>2. cgroups'[watcherRing[k].cg] = cgroups[watcherRing[k].cg]
        BY <1>4, <1>8, <3>1
      <4>3. WatcherTells
        BY DEF IInv
      <4> QED
        BY <3>1, <4>1, <4>2, <4>3 DEF WatcherTells
    <3>2. CASE watcherRing'[k] = [op |-> "mkdir", cg |-> n, ts |-> now + 1]
      BY <1>4, <1>6, <3>2
    <3> QED
      BY <1>7, <3>1, <3>2 DEF RingGrows
  <2>2. ASSUME NEW j \in 1..Len(watcherRing'), NEW k \in 1..Len(watcherRing'), j < k
        PROVE  watcherRing'[j].ts < watcherRing'[k].ts
    <3>1. CASE k \in 1..Len(watcherRing)
      <4>1. j \in 1..Len(watcherRing)
        BY <1>7, <2>2, <3>1 DEF RingGrows
      <4> QED
        BY <1>7, <2>2, <3>1, <4>1 DEF IInv, WatcherTells, RingGrows
    <3>2. CASE k = Len(watcherRing) + 1
      <4>1. j \in 1..Len(watcherRing) /\ watcherRing'[k].ts = now + 1
        <5>1. Len(watcherRing) \in Nat
          BY <1>7 DEF RingGrows
        <5>2. k \notin 1..Len(watcherRing) /\ j \in 1..Len(watcherRing)
          BY <2>2, <3>2, <5>1
        <5>3. watcherRing'[k] = [op |-> "mkdir", cg |-> n, ts |-> now + 1]
          BY <1>7, <2>2, <5>2 DEF RingGrows
        <5> QED
          BY <5>2, <5>3
      <4>2. watcherRing'[j].ts \in 1..now
        BY <1>7, <1>8, <4>1 DEF RingGrows
      <4> QED
        BY <1>3, <4>1, <4>2
    <3> QED
      BY <1>7, <3>1, <3>2 DEF RingGrows
  <2> QED
    BY <2>1, <2>2 DEF WatcherTells
<1>16. ProbeTells'
  BY <1>1, <1>4, <1>8 DEF IInv, ProbeTells
<1>17. Quiet'
  BY <1>1, <1>5, <1>7 DEF IInv, Quiet, RingGrows
<1>18. RemovalFollows'
  <2> SUFFICES ASSUME NEW c \in Cgroups', ~Alive(c)', Pending("mkdir", c)'
               PROVE  Pending("rmdir", c)' \/ <<"rmdir", c>> \in unseen'
    BY DEF RemovalFollows
  <2>1. c \in Cgroups /\ c # n
    BY <1>5, <1>10
  <2>2. ~Alive(c) /\ Pending("mkdir", c)
    BY <1>7, <1>9, <2>1 DEF RingGrows
  <2> QED
    BY <1>7, <2>1, <2>2 DEF IInv, RemovalFollows, RingGrows
<1>19. EntryTells'
  <2> SUFFICES ASSUME NEW j \in Ids, entries[j].attr # 0
               PROVE  LET e == entries[j]
                      IN  /\ cgroups'[e.attr].id = j
                          /\ <<"mkdir", e.attr>> \notin unseen'
                                => e.created = cgroups'[e.attr].born
                          /\ e.removed # 0 =>
                                ~Alive(e.attr)' /\ cgroups'[e.attr].died <= e.removed
    BY <1>1 DEF EntryTells
  <2>1. entries[j].attr \in Cgroups
    BY <1>11
  <2>2. cgroups'[entries[j].attr] = cgroups[entries[j].attr]
    BY <1>4, <2>1
  <2>3. Alive(entries[j].attr)' <=> Alive(entries[j].attr)
    BY <1>1, <2>2 DEF Alive
  <2>4. unseen \subseteq unseen'
    BY <1>7 DEF RingGrows
  <2>5. EntryTells
    BY DEF IInv
  <2> QED
    BY <2>2, <2>3, <2>4, <2>5 DEF EntryTells
<1>20. EntryBehind'
  <2> SUFFICES ASSUME NEW k \in 1..Len(watcherRing'),
                      entries[cgroups'[watcherRing'[k].cg].id].attr # 0
               PROVE  LET e == watcherRing'[k]
                          a == entries[cgroups'[e.cg].id].attr
                      IN  e.cg >= a /\ (e.op = "mkdir" => e.cg > a)
    BY <1>1 DEF EntryBehind
  <2>1. CASE k \in 1..Len(watcherRing)
    <3>1. watcherRing'[k] = watcherRing[k]
      BY <1>7, <2>1 DEF RingGrows
    <3>2. cgroups'[watcherRing[k].cg] = cgroups[watcherRing[k].cg]
      BY <1>4, <1>8, <2>1
    <3>3. EntryBehind
      BY DEF IInv
    <3> QED
      BY <2>1, <3>1, <3>2, <3>3 DEF EntryBehind
  <2>2. CASE watcherRing'[k] = [op |-> "mkdir", cg |-> n, ts |-> now + 1]
    <3>1. cgroups'[watcherRing'[k].cg].id = i /\ watcherRing'[k].cg = n
      BY <1>4, <1>6, <2>2
    <3>2. entries[i].attr \in 0..Len(cgroups)
      BY <1>8
    <3> QED
      BY <1>0, <1>3, <3>1, <3>2
  <2> QED
    BY <1>7, <2>1, <2>2 DEF RingGrows
<1>21. StaleGuard'
  BY <1>1, <1>4, <1>8 DEF IInv, StaleGuard
<1>22. LiveJobKnown'
  <2> SUFFICES ASSUME NEW c \in Cgroups', phase # "boot", Alive(c)', cgroups'[c].job
               PROVE  \/ entries[cgroups'[c].id].attr = c
                      \/ Pending("mkdir", c)'
                      \/ <<"mkdir", c>> \in unseen'
    BY <1>1 DEF LiveJobKnown
  <2>1. CASE c \in Cgroups
    BY <1>4, <1>7, <1>9, <2>1 DEF IInv, LiveJobKnown, RingGrows
  <2>2. CASE c = n
    BY <1>7, <2>2 DEF RingGrows
  <2> QED
    BY <1>5, <2>1, <2>2
<1>23. LastToldKnown'
  <2> SUFFICES ASSUME NEW c \in Cgroups', cgroups'[c].job, ~Pending("mkdir", c)',
                      <<"mkdir", c>> \notin unseen',
                      Alive(c)' \/ now' - cgroups'[c].died <= Grace,
                      \A d \in Cgroups' : d > c => cgroups'[d].id # cgroups'[c].id
               PROVE  entries[cgroups'[c].id].attr = c
    BY <1>1 DEF LastToldKnown
  <2>1. c \in Cgroups
    BY <1>5, <1>7 DEF RingGrows
  <2>2. Alive(c) \/ now - cgroups[c].died <= Grace
    <3>1. cgroups'[c] = cgroups[c] /\ (Alive(c)' <=> Alive(c)) /\ cgroups[c].died \in 0..now
      BY <1>4, <1>8, <1>9, <2>1
    <3> QED
      BY SMTT(20), <1>1, <1>3, <3>1, AttributionAssumption
  <2>3. \A d \in Cgroups : d > c => cgroups[d].id # cgroups[c].id
    BY <1>4, <1>5, <2>1
  <2> QED
    BY <1>4, <1>7, <2>1, <2>2, <2>3 DEF IInv, LastToldKnown, RingGrows
<1>24. NeverSuccessor'
  BY <1>1 DEF IInv, NeverSuccessor
<1> QED
  BY <1>12, <1>13, <1>14, <1>15, <1>16, <1>17, <1>18, <1>19, <1>20, <1>21, <1>22, <1>23,
     <1>24, GracePartsNext DEF IInv

\* A cgroup goes: it was the last of its id, so nothing told or entered so far is
\* about a later one, and no removal of it was told before.
LEMMA RmdirStep ==
    ASSUME IInv, NEW c \in Cgroups, Rmdir(c)
    PROVE  IInv'
<1>1. /\ now < MaxTime /\ Alive(c)
      /\ now' = now + 1
      /\ cgroups' = [cgroups EXCEPT ![c].died = now + 1]
      /\ PostWatcher("rmdir", c)
      /\ UNCHANGED <<phase, entries, probeRing, ready, draining, polling, last>>
  BY DEF Rmdir, loopVars
<1>2. TypeOK /\ Marked
  BY GraceParts DEF IInv
<1>3. /\ Len(cgroups) \in Nat /\ now \in Nat /\ Len(probeRing) \in Nat
      /\ \A d \in Cgroups : /\ cgroups[d].id \in Ids
                            /\ cgroups[d].born \in 1..now
                            /\ cgroups[d].died \in 0..now
      /\ \A k \in 1..Len(watcherRing) : /\ watcherRing[k].op \in {"mkdir", "rmdir"}
                                        /\ watcherRing[k].cg \in Cgroups
                                        /\ watcherRing[k].ts \in 1..now
      /\ \A k \in 1..Len(probeRing) : probeRing[k].cg \in Cgroups /\ probeRing[k].ts \in 1..now
      /\ \A j \in Ids : entries[j].attr \in 0..Len(cgroups)
  BY <1>2, Types
<1>4. /\ cgroups' \in Seq([id : Ids, job : BOOLEAN, born : 1..now', died : 0..now'])
      /\ Len(cgroups') = Len(cgroups)
  <2> DEFINE R == [id : Ids, job : BOOLEAN, born : 1..now, died : 0..now]
             S == [id : Ids, job : BOOLEAN, born : 1..now', died : 0..now']
  <2>1. R \subseteq S
    BY <1>1, <1>3
  <2>2. cgroups \in Seq(R)
    BY <1>2 DEF TypeOK
  <2>3. cgroups[c] \in S
    BY <2>1, <2>2, ElementOfSeq DEF Cgroups
  <2>4. [cgroups[c] EXCEPT !.died = now + 1] \in S
    BY SMTT(20), <1>1, <1>3, <2>3
  <2>5. cgroups' = [cgroups EXCEPT ![c] = [cgroups[c] EXCEPT !.died = now + 1]]
    BY <1>1
  <2> HIDE DEF R, S
  <2>6. cgroups \in Seq(S)
    BY <2>1, <2>2, SeqMonotonic
  <2>7. cgroups' \in Seq(S) /\ Len(cgroups') = Len(cgroups)
    BY <2>4, <2>5, <2>6, ExceptSeq DEF Cgroups
  <2> QED
    BY <2>7 DEF S
<1>5. Cgroups' = Cgroups
  BY <1>4 DEF Cgroups
<1>6. /\ \A d \in Cgroups : /\ cgroups'[d].id = cgroups[d].id
                            /\ cgroups'[d].job = cgroups[d].job
                            /\ cgroups'[d].born = cgroups[d].born
                            /\ d # c => cgroups'[d].died = cgroups[d].died
      /\ cgroups'[c].died = now + 1
  <2>1. /\ \A d \in Cgroups : cgroups[d] \in [id : Ids, job : BOOLEAN, born : 1..now, died : 0..now]
        /\ DOMAIN cgroups = Cgroups
    BY <1>2, ElementOfSeq, LenProperties DEF TypeOK, Cgroups
  <2> QED
    BY <1>1, <2>1
<1>7. RingGrows("rmdir", c)
  <2>1. c \in 1..(Len(cgroups) + 1) /\ "rmdir" \in {"mkdir", "rmdir"}
    BY <1>3 DEF Cgroups
  <2> QED
    BY <1>1, <1>2, <2>1, Posted
<1>8. cgroups[c].died = 0
  BY <1>1 DEF Alive
<1>9. \A d \in Cgroups : Alive(d)' <=> Alive(d) /\ d # c
  BY <1>3, <1>6, <1>8 DEF Alive
<1>10. \A d \in Cgroups : Alive(d) <=> cgroups[d].died = 0
  BY DEF Alive
<1>11. \A j \in Ids : entries[j].attr # 0 => entries[j].attr \in Cgroups
  BY <1>3 DEF Cgroups
<1>12. TypeOK'
  <2>1. polling' \in BOOLEAN
    BY <1>1, <1>2, Zenon DEF TypeOK
  <2>2. Len(cgroups') <= MaxCgroups /\ now' \in 0..MaxTime
    BY SMTT(20), <1>1, <1>2, <1>3, <1>4, AttributionAssumption DEF TypeOK
  <2>3. entries' \in [Ids -> EntryType']
    <3>1. EntryType \subseteq EntryType'
      BY <1>1, <1>3, <1>4 DEF EntryType
    <3> QED
      BY <1>1, <1>2, <3>1 DEF TypeOK
  <2>4. watcherRing' \in Seq([op : {"mkdir", "rmdir"}, cg : Cgroups', ts : 1..now'])
    <3> DEFINE P == [op : {"mkdir", "rmdir"}, cg : Cgroups, ts : 1..now]
               Q == [op : {"mkdir", "rmdir"}, cg : Cgroups', ts : 1..now']
               e == [op |-> "rmdir", cg |-> c, ts |-> now + 1]
    <3>1. P \subseteq Q /\ e \in Q
      BY <1>1, <1>3, <1>5
    <3>2. watcherRing \in Seq(P)
      BY <1>2 DEF TypeOK
    <3>3. watcherRing' = Append(watcherRing, e) \/ watcherRing' = watcherRing
      BY <1>1 DEF PostWatcher
    <3> HIDE DEF P, Q, e
    <3>4. watcherRing \in Seq(Q)
      BY <3>1, <3>2, SeqMonotonic
    <3>5. watcherRing' \in Seq(Q)
      BY <3>1, <3>3, <3>4, AppendProperties
    <3> QED
      BY <3>5 DEF Q
  <2>5. probeRing' \in Seq([cg : Cgroups', ts : 1..now'])
    <3> DEFINE P == [cg : Cgroups, ts : 1..now]
               Q == [cg : Cgroups', ts : 1..now']
    <3>1. P \subseteq Q
      BY <1>1, <1>3, <1>5
    <3>2. probeRing \in Seq(P) /\ probeRing' = probeRing
      BY <1>1, <1>2 DEF TypeOK
    <3> HIDE DEF P, Q
    <3>3. probeRing' \in Seq(Q)
      BY <3>1, <3>2, SeqMonotonic
    <3> QED
      BY <3>3 DEF Q
  <2>6. last' \in [of : 0..Len(cgroups'), as : 0..Len(cgroups'),
                   how : {"none", "hit", "miss", "stale"}]
    BY <1>1, <1>2, <1>4 DEF TypeOK
  <2>7. unseen' \subseteq {"mkdir", "rmdir"} \X Cgroups'
    BY <1>2, <1>5, <1>7 DEF TypeOK, RingGrows
  <2> QED
    BY <1>1, <1>2, <1>4, <2>1, <2>2, <2>3, <2>4, <2>5, <2>6, <2>7 DEF TypeOK
<1>13. Marked'
  <2> SUFFICES ASSUME NEW j \in Ids, entries[j].attr # 0
               PROVE  IF Alive(entries[j].attr)'
                      THEN entries[j].removed = 0
                      ELSE \/ entries[j].removed # 0
                           \/ Pending("rmdir", entries[j].attr)'
                           \/ <<"rmdir", entries[j].attr>> \in unseen'
    BY <1>1 DEF Marked
  <2>1. PICK a \in Cgroups : a = entries[j].attr
    BY <1>11
  <2>2. Alive(entries[j].attr)' <=> Alive(a)'
    BY <1>1, <2>1
  <2>3. Pending("rmdir", a)' => Pending("rmdir", entries[j].attr)'
    BY <1>1, <2>1
  <2>4. IF Alive(a) THEN entries[j].removed = 0
        ELSE entries[j].removed # 0 \/ Pending("rmdir", a) \/ <<"rmdir", a>> \in unseen
    BY <1>2, <2>1 DEF Marked
  <2>5. a = c => Pending("rmdir", a)' \/ <<"rmdir", a>> \in unseen'
    BY <1>7 DEF RingGrows
  <2>6. Pending("rmdir", a) => Pending("rmdir", a)'
    BY <1>7 DEF RingGrows
  <2>7. unseen \subseteq unseen'
    BY <1>7 DEF RingGrows
  <2> QED
    BY <1>9, <2>1, <2>2, <2>3, <2>4, <2>5, <2>6, <2>7
<1>14. Lifetimes'
  <2>0. Lifetimes
    BY DEF IInv
  <2>1. ASSUME NEW d \in Cgroups, cgroups'[d].died # 0
        PROVE  cgroups'[d].born < cgroups'[d].died
    <3>1. CASE d = c
      BY <1>3, <1>6, <3>1
    <3>2. CASE d # c
      BY <1>6, <2>0, <2>1, <3>2 DEF Lifetimes
    <3> QED
      BY <3>1, <3>2
  <2>2. ASSUME NEW b \in Cgroups, NEW d \in Cgroups, b < d
        PROVE  /\ cgroups'[b].born < cgroups'[d].born
               /\ cgroups'[b].id = cgroups'[d].id =>
                     cgroups'[b].died # 0 /\ cgroups'[b].died < cgroups'[d].born
    <3>1. /\ cgroups[b].born < cgroups[d].born
          /\ cgroups[b].id = cgroups[d].id =>
                     cgroups[b].died # 0 /\ cgroups[b].died < cgroups[d].born
      BY <2>0, <2>2 DEF Lifetimes
    <3> QED
      BY <1>6, <1>8, <3>1
  <2> QED
    BY <1>5, <2>1, <2>2 DEF Lifetimes
<1>15. WatcherTells'
  <2>0. WatcherTells
    BY DEF IInv
  <2>1. ASSUME NEW k \in 1..Len(watcherRing')
        PROVE  watcherRing'[k].ts = IF watcherRing'[k].op = "mkdir"
                                    THEN cgroups'[watcherRing'[k].cg].born
                                    ELSE cgroups'[watcherRing'[k].cg].died
    <3>1. CASE k \in 1..Len(watcherRing)
      <4>1. watcherRing'[k] = watcherRing[k]
        BY <1>7, <3>1 DEF RingGrows
      <4>2. PICK d \in Cgroups : d = watcherRing[k].cg
        BY <1>3, <3>1
      <4>3. watcherRing[k].ts = IF watcherRing[k].op = "mkdir" THEN cgroups[d].born
                                ELSE cgroups[d].died
        BY <2>0, <3>1, <4>2 DEF WatcherTells
      <4>4. watcherRing[k].ts # 0
        BY <1>3, <3>1
      <4> QED
        BY <1>6, <1>8, <4>1, <4>2, <4>3, <4>4
    <3>2. CASE watcherRing'[k] = [op |-> "rmdir", cg |-> c, ts |-> now + 1]
      BY <1>6, <3>2
    <3> QED
      BY <1>7, <3>1, <3>2 DEF RingGrows
  <2>2. ASSUME NEW j \in 1..Len(watcherRing'), NEW k \in 1..Len(watcherRing'), j < k
        PROVE  watcherRing'[j].ts < watcherRing'[k].ts
    <3>0. Len(watcherRing) \in Nat
      BY <1>7 DEF RingGrows
    <3>1. CASE k \in 1..Len(watcherRing)
      <4>1. j \in 1..Len(watcherRing)
        BY <3>0, <2>2, <3>1
      <4> QED
        BY <1>7, <2>0, <2>2, <3>1, <4>1 DEF WatcherTells, RingGrows
    <3>2. CASE k = Len(watcherRing) + 1
      <4>1. k \notin 1..Len(watcherRing) /\ j \in 1..Len(watcherRing)
        BY <2>2, <3>0, <3>2
      <4>2. watcherRing'[k] = [op |-> "rmdir", cg |-> c, ts |-> now + 1]
        BY <1>7, <2>2, <4>1 DEF RingGrows
      <4>3. watcherRing'[j].ts \in 1..now
        BY <1>3, <1>7, <4>1 DEF RingGrows
      <4> QED
        BY <1>3, <4>2, <4>3
    <3> QED
      BY <1>7, <3>1, <3>2 DEF RingGrows
  <2> QED
    BY <2>1, <2>2 DEF WatcherTells
<1>16. ProbeTells'
  <2> SUFFICES ASSUME NEW k \in 1..Len(probeRing)
               PROVE  /\ cgroups'[probeRing[k].cg].born < probeRing[k].ts
                      /\ cgroups'[probeRing[k].cg].died # 0 =>
                            probeRing[k].ts < cgroups'[probeRing[k].cg].died
    BY <1>1 DEF ProbeTells
  <2>1. PICK d \in Cgroups : d = probeRing[k].cg
    BY <1>3
  <2>2. /\ cgroups[d].born < probeRing[k].ts
        /\ cgroups[d].died # 0 => probeRing[k].ts < cgroups[d].died
    BY <2>1 DEF IInv, ProbeTells
  <2>3. probeRing[k].ts \in 1..now
    BY <1>3
  <2> QED
    BY <1>3, <1>6, <2>1, <2>2, <2>3
<1>17. Quiet'
  BY <1>1, <1>5, <1>7 DEF IInv, Quiet, RingGrows
<1>18. RemovalFollows'
  <2> SUFFICES ASSUME NEW d \in Cgroups, ~Alive(d)', Pending("mkdir", d)'
               PROVE  Pending("rmdir", d)' \/ <<"rmdir", d>> \in unseen'
    BY <1>5 DEF RemovalFollows
  <2>1. CASE d = c
    BY <1>7, <2>1 DEF RingGrows
  <2>2. CASE d # c
    <3>1. ~Alive(d) /\ Pending("mkdir", d)
      BY <1>7, <1>9, <2>2 DEF RingGrows
    <3> QED
      BY <1>7, <3>1 DEF IInv, RemovalFollows, RingGrows
  <2> QED
    BY <2>1, <2>2
<1>19. EntryTells'
  <2> SUFFICES ASSUME NEW j \in Ids, entries[j].attr # 0
               PROVE  LET e == entries[j]
                      IN  /\ cgroups'[e.attr].id = j
                          /\ <<"mkdir", e.attr>> \notin unseen'
                                => e.created = cgroups'[e.attr].born
                          /\ e.removed # 0 =>
                                ~Alive(e.attr)' /\ cgroups'[e.attr].died <= e.removed
    BY <1>1 DEF EntryTells
  <2>1. PICK a \in Cgroups : a = entries[j].attr
    BY <1>11
  <2>2. Alive(entries[j].attr)' <=> Alive(a)'
    BY <1>1, <2>1
  <2>3. unseen \subseteq unseen'
    BY <1>7 DEF RingGrows
  <2>4. /\ cgroups[a].id = j
        /\ <<"mkdir", a>> \notin unseen => entries[j].created = cgroups[a].born
        /\ entries[j].removed # 0 => ~Alive(a) /\ cgroups[a].died <= entries[j].removed
    BY <2>1 DEF IInv, EntryTells
  <2> QED
    BY <1>1, <1>6, <1>9, <2>1, <2>2, <2>3, <2>4
<1>20. EntryBehind'
  <2> SUFFICES ASSUME NEW k \in 1..Len(watcherRing'),
                      entries[cgroups'[watcherRing'[k].cg].id].attr # 0
               PROVE  LET e == watcherRing'[k]
                          a == entries[cgroups'[e.cg].id].attr
                      IN  e.cg >= a /\ (e.op = "mkdir" => e.cg > a)
    BY <1>1 DEF EntryBehind
  <2>1. CASE k \in 1..Len(watcherRing)
    <3>1. watcherRing'[k] = watcherRing[k]
      BY <1>7, <2>1 DEF RingGrows
    <3>2. cgroups'[watcherRing[k].cg].id = cgroups[watcherRing[k].cg].id
      BY <1>3, <1>6, <2>1
    <3>3. EntryBehind
      BY DEF IInv
    <3> QED
      BY <2>1, <3>1, <3>2, <3>3 DEF EntryBehind
  <2>2. CASE watcherRing'[k] = [op |-> "rmdir", cg |-> c, ts |-> now + 1]
    <3>1. PICK i \in Ids : i = cgroups[c].id
      BY <1>3
    <3>2. cgroups'[watcherRing'[k].cg].id = i /\ watcherRing'[k].cg = c /\ watcherRing'[k].op = "rmdir"
      BY <1>6, <2>2, <3>1
    <3>3. PICK a \in Cgroups : a = entries[i].attr
      BY <1>11, <3>2
    <3>4. cgroups[a].id = cgroups[c].id
      BY <1>11, <3>1, <3>2, <3>3 DEF IInv, EntryTells
    <3>5. a <= c
      BY <1>1, <1>2, <3>4, AliveIsLast DEF IInv
    <3> QED
      BY <1>3, <3>2, <3>3, <3>5 DEF Cgroups
  <2> QED
    BY <1>7, <2>1, <2>2 DEF RingGrows
<1>21. StaleGuard'
  <2>1. \A k \in 1..Len(probeRing) : cgroups'[probeRing[k].cg].id = cgroups[probeRing[k].cg].id
    BY <1>3, <1>6
  <2>2. StaleGuard
    BY DEF IInv
  <2> QED
    BY <1>1, <2>1, <2>2 DEF StaleGuard
<1>22. LiveJobKnown'
  <2> SUFFICES ASSUME NEW d \in Cgroups, phase # "boot", Alive(d)', cgroups'[d].job
               PROVE  \/ entries[cgroups'[d].id].attr = d
                      \/ Pending("mkdir", d)'
                      \/ <<"mkdir", d>> \in unseen'
    BY <1>1, <1>5 DEF LiveJobKnown
  <2>1. LiveJobKnown
    BY DEF IInv
  <2> QED
    BY <1>6, <1>7, <1>9, <2>1 DEF LiveJobKnown, RingGrows
<1>23. LastToldKnown'
  <2> SUFFICES ASSUME NEW d \in Cgroups, cgroups'[d].job, ~Pending("mkdir", d)',
                      <<"mkdir", d>> \notin unseen',
                      Alive(d)' \/ now' - cgroups'[d].died <= Grace,
                      \A b \in Cgroups : b > d => cgroups'[b].id # cgroups'[d].id
               PROVE  entries[cgroups'[d].id].attr = d
    BY <1>1, <1>5 DEF LastToldKnown
  <2>1. Alive(d) \/ now - cgroups[d].died <= Grace
    <3>1. CASE d = c
      BY <1>1, <3>1
    <3>2. CASE d # c
      <4>1. cgroups'[d].died = cgroups[d].died /\ cgroups[d].died \in 0..now
        BY <1>3, <1>6, <3>2
      <4> QED
        BY SMTT(20), <1>1, <1>3, <1>9, <4>1, AttributionAssumption
    <3> QED
      BY <3>1, <3>2
  <2>2. \A b \in Cgroups : b > d => cgroups[b].id # cgroups[d].id
    BY <1>6
  <2>3. ~Pending("mkdir", d) /\ <<"mkdir", d>> \notin unseen
    BY <1>7 DEF RingGrows
  <2>4. LastToldKnown
    BY DEF IInv
  <2> QED
    BY <1>6, <2>1, <2>2, <2>3, <2>4 DEF LastToldKnown
<1>24. NeverSuccessor'
  BY <1>1 DEF IInv, NeverSuccessor
<1> QED
  BY <1>12, <1>13, <1>14, <1>15, <1>16, <1>17, <1>18, <1>19, <1>20, <1>21, <1>22, <1>23,
     <1>24, GracePartsNext DEF IInv

\* The clock alone: nothing that is older gets younger.
LEMMA ClockStep ==
    ASSUME IInv, now < MaxTime, now' = now + 1,
           UNCHANGED <<cgroups, phase, entries, watcherRing, ready, draining, polling, last,
                       unseen>>,
           probeRing' \in Seq([cg : Cgroups', ts : 1..now'])
    PROVE  /\ TypeOK' /\ Marked' /\ Lifetimes' /\ WatcherTells' /\ RemovalFollows'
           /\ EntryTells' /\ EntryBehind' /\ LiveJobKnown' /\ LastToldKnown'
           /\ NeverSuccessor'
<1>1. TypeOK /\ Marked
  BY GraceParts DEF IInv
<1>2. /\ Len(cgroups) \in Nat /\ now \in Nat
      /\ \A d \in Cgroups : cgroups[d].died \in 0..now
  BY <1>1, Types
<1>3. Cgroups' = Cgroups
  BY DEF Cgroups
<1>4. /\ \A d : Alive(d)' <=> Alive(d)
      /\ \A o, d : Pending(o, d)' <=> Pending(o, d)
  BY DEF Alive, Pending
<1>5. TypeOK'
  <2>1. polling' \in BOOLEAN
    BY <1>1, Zenon DEF TypeOK
  <2>2. now' \in 0..MaxTime
    BY <1>2, AttributionAssumption
  <2>3. entries' \in [Ids -> EntryType']
    <3>1. EntryType \subseteq EntryType'
      BY <1>2 DEF EntryType
    <3> QED
      BY <1>1, <3>1 DEF TypeOK
  <2>4. watcherRing' \in Seq([op : {"mkdir", "rmdir"}, cg : Cgroups', ts : 1..now'])
    <3> DEFINE P == [op : {"mkdir", "rmdir"}, cg : Cgroups, ts : 1..now]
               Q == [op : {"mkdir", "rmdir"}, cg : Cgroups', ts : 1..now']
    <3>1. P \subseteq Q
      BY <1>2, <1>3
    <3>2. watcherRing' \in Seq(P)
      BY <1>1 DEF TypeOK
    <3> HIDE DEF P, Q
    <3>3. watcherRing' \in Seq(Q)
      BY <3>1, <3>2, SeqMonotonic
    <3> QED
      BY <3>3 DEF Q
  <2>5. cgroups' \in Seq([id : Ids, job : BOOLEAN, born : 1..now', died : 0..now'])
    <3> DEFINE P == [id : Ids, job : BOOLEAN, born : 1..now, died : 0..now]
               Q == [id : Ids, job : BOOLEAN, born : 1..now', died : 0..now']
    <3>1. P \subseteq Q
      BY <1>2
    <3>2. cgroups' \in Seq(P)
      BY <1>1 DEF TypeOK
    <3> HIDE DEF P, Q
    <3>3. cgroups' \in Seq(Q)
      BY <3>1, <3>2, SeqMonotonic
    <3> QED
      BY <3>3 DEF Q
  <2> QED
    BY <1>1, <1>3, <2>1, <2>2, <2>3, <2>4, <2>5 DEF TypeOK
<1>6. Marked'
  BY <1>1, <1>4 DEF Marked
<1>7. Lifetimes' /\ WatcherTells' /\ EntryBehind' /\ NeverSuccessor'
  BY <1>3 DEF IInv, Lifetimes, WatcherTells, EntryBehind, NeverSuccessor
<1>8. RemovalFollows' /\ LiveJobKnown'
  BY <1>3, <1>4 DEF IInv, RemovalFollows, LiveJobKnown
<1>9. EntryTells'
  BY <1>4 DEF IInv, EntryTells
<1>10. LastToldKnown'
  <2> SUFFICES ASSUME NEW d \in Cgroups, cgroups[d].job, ~Pending("mkdir", d),
                      <<"mkdir", d>> \notin unseen,
                      Alive(d) \/ now' - cgroups[d].died <= Grace,
                      \A b \in Cgroups : b > d => cgroups[b].id # cgroups[d].id
               PROVE  entries[cgroups[d].id].attr = d
    BY <1>3, <1>4 DEF LastToldKnown
  <2>1. Alive(d) \/ now - cgroups[d].died <= Grace
    <3>1. cgroups[d].died \in 0..now
      BY <1>2
    <3> QED
      BY <1>2, <3>1, AttributionAssumption
  <2>2. LastToldKnown
    BY DEF IInv
  <2> QED
    BY <2>1, <2>2 DEF LastToldKnown
<1> QED
  BY <1>5, <1>6, <1>7, <1>8, <1>9, <1>10

LEMMA TimeStep ==
    ASSUME IInv, TimePasses
    PROVE  IInv'
<1>1. /\ now < MaxTime /\ now' = now + 1
      /\ UNCHANGED <<cgroups, phase, entries, watcherRing, probeRing, ready, draining,
                     polling, last, unseen>>
  BY DEF TimePasses, loopVars
<1>2. TypeOK /\ now \in Nat
  BY GraceParts, Types DEF IInv
<1>3. Cgroups' = Cgroups
  BY <1>1 DEF Cgroups
<1>4. probeRing' \in Seq([cg : Cgroups', ts : 1..now'])
  <2> DEFINE P == [cg : Cgroups, ts : 1..now]
             Q == [cg : Cgroups', ts : 1..now']
  <2>1. P \subseteq Q
    BY <1>1, <1>2, <1>3
  <2>2. probeRing' \in Seq(P)
    BY <1>1, <1>2 DEF TypeOK
  <2> HIDE DEF P, Q
  <2>3. probeRing' \in Seq(Q)
    BY <2>1, <2>2, SeqMonotonic
  <2> QED
    BY <2>3 DEF Q
<1>5. ProbeTells' /\ Quiet' /\ StaleGuard'
  BY <1>1, <1>3 DEF IInv, ProbeTells, Quiet, StaleGuard
<1> QED
  BY <1>1, <1>4, <1>5, ClockStep, GracePartsNext DEF IInv

\* An event is stamped while its cgroup lives, which is then the last of its id:
\* no entry can be of a later one.
LEMMA EventStep ==
    ASSUME IInv, NEW c \in Cgroups, Event(c)
    PROVE  IInv'
<1> DEFINE e == [cg |-> c, ts |-> now + 1]
<1>1. /\ now < MaxTime /\ now' = now + 1 /\ phase = "running" /\ Alive(c)
      /\ probeRing' = Append(probeRing, e)
      /\ UNCHANGED <<cgroups, phase, entries, watcherRing, ready, draining,
                     polling, last, unseen>>
  BY DEF Event, loopVars
<1>2. TypeOK
  BY GraceParts DEF IInv
<1>3. /\ now \in Nat /\ Len(probeRing) \in Nat /\ Len(cgroups) \in Nat
      /\ cgroups[c].id \in Ids /\ cgroups[c].born \in 1..now
      /\ \A j \in Ids : entries[j].attr \in 0..Len(cgroups)
  BY <1>2, Types
<1>4. Cgroups' = Cgroups
  BY <1>1 DEF Cgroups
<1>5. e.cg = c /\ e.ts = now + 1
  OBVIOUS
<1>6. /\ probeRing' \in Seq([cg : Cgroups', ts : 1..now'])
      /\ Len(probeRing') = Len(probeRing) + 1
      /\ \A k \in 1..Len(probeRing) : probeRing'[k] = probeRing[k]
      /\ probeRing'[Len(probeRing) + 1] = e
  <2> DEFINE P == [cg : Cgroups, ts : 1..now]
             Q == [cg : Cgroups', ts : 1..now']
  <2>1. P \subseteq Q /\ e \in Q
    BY <1>1, <1>3, <1>4
  <2>2. probeRing \in Seq(P)
    BY <1>2 DEF TypeOK
  <2> HIDE DEF P, Q, e
  <2>3. probeRing \in Seq(Q)
    BY <2>1, <2>2, SeqMonotonic
  <2>4. /\ probeRing' \in Seq(Q)
        /\ Len(probeRing') = Len(probeRing) + 1
        /\ \A k \in 1..Len(probeRing) : probeRing'[k] = probeRing[k]
        /\ probeRing'[Len(probeRing) + 1] = e
    BY <1>1, <2>1, <2>3, AppendProperties
  <2> QED
    BY <2>4 DEF Q
<1> HIDE DEF e
<1>7. \A k \in 1..Len(probeRing') :
        \/ k \in 1..Len(probeRing) /\ probeRing'[k] = probeRing[k]
        \/ probeRing'[k] = e
  BY <1>3, <1>6
<1>8. ProbeTells'
  <2> SUFFICES ASSUME NEW k \in 1..Len(probeRing')
               PROVE  /\ cgroups[probeRing'[k].cg].born < probeRing'[k].ts
                      /\ cgroups[probeRing'[k].cg].died # 0 =>
                            probeRing'[k].ts < cgroups[probeRing'[k].cg].died
    BY <1>1 DEF ProbeTells
  <2>1. CASE probeRing'[k] = e
    BY <1>1, <1>3, <1>5, <2>1 DEF Alive
  <2>2. CASE k \in 1..Len(probeRing) /\ probeRing'[k] = probeRing[k]
    BY <2>2 DEF IInv, ProbeTells
  <2> QED
    BY <1>7, <2>1, <2>2
<1>9. Quiet'
  BY <1>1 DEF Quiet
<1>10. StaleGuard'
  <2> SUFFICES ASSUME NEW k \in 1..Len(probeRing'),
                      entries[cgroups[probeRing'[k].cg].id].attr > probeRing'[k].cg
               PROVE  probeRing'[k].ts < entries[cgroups[probeRing'[k].cg].id].created
    BY <1>1 DEF StaleGuard
  <2>1. CASE probeRing'[k] = e
    <3>1. PICK i \in Ids : i = cgroups[c].id
      BY <1>3
    <3>2. entries[i].attr > c
      BY <1>5, <2>1, <3>1
    <3>3. PICK a \in Cgroups : a = entries[i].attr
      BY <1>3, <3>2 DEF Cgroups
    <3>4. cgroups[a].id = i
      <4>1. entries[i].attr # 0
        BY <1>3, <3>3 DEF Cgroups
      <4> QED
        BY <3>3, <4>1 DEF IInv, EntryTells
    <3>5. a <= c
      BY <1>1, <1>2, <3>1, <3>4, AliveIsLast DEF IInv
    <3> QED
      BY <1>3, <3>2, <3>3, <3>5 DEF Cgroups
  <2>2. CASE k \in 1..Len(probeRing) /\ probeRing'[k] = probeRing[k]
    BY <2>2 DEF IInv, StaleGuard
  <2> QED
    BY <1>7, <2>1, <2>2
<1> QED
  BY <1>1, <1>6, <1>8, <1>9, <1>10, ClockStep, GracePartsNext DEF IInv

-----------------------------------------------------------------------------
(* The daemon.                                                             *)

\* Steps that only move the poll loop, or attach the programs.
LEMMA LoopStep ==
    ASSUME IInv, UNCHANGED <<cgroups, now, watcherRing, probeRing, unseen, entries, last>>,
           phase' = phase \/ (phase = "scanned" /\ phase' = "running"),
           ready' \subseteq {"watcher", "probe"}, draining' \in {"none", "watcher", "probe"},
           polling' \in BOOLEAN
    PROVE  IInv'
<1>1. TypeOK /\ Marked
  BY GraceParts DEF IInv
<1>2. Cgroups' = Cgroups
  BY DEF Cgroups
<1>3. /\ \A d : Alive(d)' <=> Alive(d)
      /\ \A o, d : Pending(o, d)' <=> Pending(o, d)
  BY DEF Alive, Pending
<1>4. TypeOK'
  <2>1. EntryType' = EntryType
    BY DEF EntryType
  <2>2. phase' \in {"boot", "scanned", "running"}
    BY <1>1 DEF TypeOK
  <2>3. (polling \in BOOLEAN)'
    OBVIOUS
  <2> QED
    BY <1>1, <1>2, <2>1, <2>2, <2>3 DEF TypeOK
<1>5. Marked'
  BY <1>1, <1>3 DEF Marked
<1>6. Lifetimes' /\ WatcherTells' /\ EntryBehind' /\ NeverSuccessor'
  BY <1>2 DEF IInv, Lifetimes, WatcherTells, EntryBehind, NeverSuccessor
<1>7. RemovalFollows' /\ EntryTells' /\ LastToldKnown'
  BY <1>2, <1>3 DEF IInv, RemovalFollows, EntryTells, LastToldKnown
<1>8. ProbeTells' /\ Quiet' /\ StaleGuard'
  BY <1>2 DEF IInv, ProbeTells, Quiet, StaleGuard
<1>9. LiveJobKnown'
  BY <1>2, <1>3 DEF IInv, LiveJobKnown
<1> QED
  BY <1>4, <1>5, <1>6, <1>7, <1>8, <1>9, GracePartsNext DEF IInv

\* The bootstrap scan enters living cgroups, of which no creation was posted.
LEMMA ScanStep ==
    ASSUME IInv, Scan
    PROVE  IInv'
<1> DEFINE Lives(i, c) == cgroups[c].id = i /\ Alive(c)
           Found(i) == \E c \in Cgroups : cgroups[c].id = i /\ Alive(c) /\ cgroups[c].job
           First(i) == CHOOSE c \in Cgroups : cgroups[c].id = i /\ Alive(c)
<1>1. /\ phase = "boot" /\ phase' = "scanned"
      /\ UNCHANGED <<cgroups, now, watcherRing, probeRing, unseen, ready, draining, polling,
                     last>>
      /\ entries' = [i \in Ids |->
            IF Found(i)
            THEN [attr |-> First(i), created |-> CreatedFromCtime(First(i)), removed |-> 0]
            ELSE NoEntry]
  BY DEF Scan, kernelVars, loopVars
<1>2. TypeOK
  BY GraceParts DEF IInv
<1>3. /\ now \in Nat /\ Len(cgroups) \in Nat
      /\ \A c \in Cgroups : cgroups[c].born \in 1..now
  BY <1>2, Types
<1>4. Cgroups' = Cgroups
  BY <1>1 DEF Cgroups
<1>5. /\ watcherRing = << >> /\ probeRing = << >>
      /\ \A c \in Cgroups : <<"mkdir", c>> \in unseen
  BY <1>1 DEF IInv, Quiet
<1>6. \A i \in Ids : Found(i) => First(i) \in Cgroups /\ Lives(i, First(i))
  OBVIOUS
<1>7. /\ \A d : Alive(d)' <=> Alive(d)
      /\ \A o, d : Pending(o, d)' <=> Pending(o, d)
  BY <1>1 DEF Alive, Pending
<1>8. \A i \in Ids :
        \/ entries'[i] = NoEntry
        \/ \E c \in Cgroups : /\ cgroups[c].id = i /\ Alive(c)
                              /\ entries'[i] = [attr |-> c, created |-> CreatedFromCtime(c),
                                                removed |-> 0]
  <2> SUFFICES ASSUME NEW i \in Ids, Found(i)
               PROVE \E c \in Cgroups : /\ cgroups[c].id = i /\ Alive(c)
                              /\ entries'[i] = [attr |-> c, created |-> CreatedFromCtime(c),
                                                removed |-> 0]
    BY <1>1
  <2>1. First(i) \in Cgroups /\ cgroups[First(i)].id = i /\ Alive(First(i))
    BY <1>6
  <2>2. entries'[i] = [attr |-> First(i), created |-> CreatedFromCtime(First(i)), removed |-> 0]
    BY <1>1
  <2> HIDE DEF First
  <2> QED
    BY <2>1, <2>2
<1>9. DOMAIN entries' = Ids /\ entries' = [i \in Ids |-> entries'[i]]
  <2> HIDE DEF Found, First
  <2> QED
    BY <1>1
<1> HIDE DEF Lives, Found, First
<1>10. \A i \in Ids :
         /\ entries'[i].attr \in 0..Len(cgroups)
         /\ entries'[i].created \in Nat
         /\ entries'[i].removed = 0
         /\ entries'[i].attr # 0 =>
               entries'[i].attr \in Cgroups /\ cgroups[entries'[i].attr].id = i
                 /\ Alive(entries'[i].attr)
         /\ entries'[i] \in [attr : 0..Len(cgroups), created : Nat, removed : {0}]
  <2> SUFFICES ASSUME NEW i \in Ids
               PROVE  /\ entries'[i].removed = 0
                      /\ entries'[i].attr # 0 =>
                            entries'[i].attr \in Cgroups /\ cgroups[entries'[i].attr].id = i
                              /\ Alive(entries'[i].attr)
                      /\ entries'[i] \in [attr : 0..Len(cgroups), created : Nat, removed : {0}]
    OBVIOUS
  <2>1. CASE entries'[i] = NoEntry
    BY <1>3, <2>1 DEF NoEntry
  <2>2. CASE entries'[i] # NoEntry
    <3>1. PICK c \in Cgroups : /\ cgroups[c].id = i /\ Alive(c)
                               /\ entries'[i] = [attr |-> c, created |-> CreatedFromCtime(c),
                                                 removed |-> 0]
      BY <1>8, <2>2
    <3>2. CreatedFromCtime(c) \in Nat
      BY <1>3, AttributionAssumption DEF CreatedFromCtime
    <3>3. c \in 0..Len(cgroups)
      BY <1>3 DEF Cgroups
    <3> QED
      BY <3>1, <3>2, <3>3
  <2> QED
    BY <2>1, <2>2
<1>11. TypeOK'
  <2>1. entries' \in [Ids -> EntryType']
    <3>1. \A i \in Ids : entries'[i] \in EntryType'
      BY <1>1, <1>3, <1>10 DEF EntryType
    <3> QED
      BY <1>9, <3>1
  <2>2. polling' \in BOOLEAN
    BY <1>1, <1>2, Zenon DEF TypeOK
  <2> QED
    BY <1>1, <1>2, <1>4, <2>1, <2>2 DEF TypeOK
<1>13. Marked'
  <2> SUFFICES ASSUME NEW i \in Ids, entries'[i].attr # 0
               PROVE  Alive(entries[i].attr)' /\ entries'[i].removed = 0
    BY DEF Marked
  <2>1. cgroups'[entries'[i].attr].died = 0
    BY <1>1, <1>10 DEF Alive
  <2> QED
    BY <1>10, <2>1 DEF Alive
<1>14. EntryTells'
  BY <1>1, <1>5, <1>10 DEF EntryTells
<1>15. Lifetimes' /\ NeverSuccessor' /\ ProbeTells'
  BY <1>1, <1>4 DEF IInv, Lifetimes, NeverSuccessor, ProbeTells
<1>16. WatcherTells' /\ EntryBehind' /\ StaleGuard'
  <2>1. Len(watcherRing') = 0 /\ Len(probeRing') = 0
    BY <1>1, <1>5, EmptySeq
  <2> QED
    BY <2>1 DEF WatcherTells, EntryBehind, StaleGuard
<1>17. Quiet'
  BY <1>1, <1>4, <1>5 DEF Quiet
<1>18. RemovalFollows'
  BY <1>1, <1>4, <1>7 DEF IInv, RemovalFollows
<1>19. LiveJobKnown' /\ LastToldKnown'
  BY <1>1, <1>4, <1>5 DEF LiveJobKnown, LastToldKnown
<1> QED
  BY <1>11, <1>13, <1>14, <1>15, <1>16, <1>17, <1>18, <1>19, GracePartsNext DEF IInv

\* What an expiry takes is marked, so its cgroup is gone, for longer than Grace.
LEMMA TickStep ==
    ASSUME IInv, Tick
    PROVE  IInv'
<1>1. /\ polling' = FALSE
      /\ entries' = [i \in Ids |-> IF Expired(entries[i]) THEN NoEntry ELSE entries[i]]
      /\ UNCHANGED <<cgroups, now, watcherRing, probeRing, unseen, phase, ready, draining, last>>
  BY DEF Tick, kernelVars
<1>2. TypeOK /\ Marked
  BY GraceParts DEF IInv
<1>3. /\ now \in Nat /\ Len(cgroups) \in Nat
      /\ \A c \in Cgroups : cgroups[c].id \in Ids /\ cgroups[c].died \in 0..now
      /\ \A k \in 1..Len(watcherRing) : watcherRing[k].cg \in Cgroups
      /\ \A k \in 1..Len(probeRing) : probeRing[k].cg \in Cgroups
      /\ \A i \in Ids : /\ entries[i].attr \in 0..Len(cgroups)
                        /\ entries[i].removed \in 0..now
  BY <1>2, Types
<1>4. Cgroups' = Cgroups
  BY <1>1 DEF Cgroups
<1>5. /\ \A d : Alive(d)' <=> Alive(d)
      /\ \A o, d : Pending(o, d)' <=> Pending(o, d)
  BY <1>1 DEF Alive, Pending
<1>6. \A i \in Ids : /\ entries'[i].attr # 0 => entries'[i] = entries[i]
                     /\ entries'[i].attr = 0 \/ entries'[i].attr = entries[i].attr
                     /\ ~Expired(entries[i]) => entries'[i] = entries[i]
                     /\ entries'[i] = NoEntry \/ entries'[i] = entries[i]
  BY <1>1 DEF NoEntry
<1>7. TypeOK'
  <2>1. entries' \in [Ids -> EntryType']
    <3>1. NoEntry \in EntryType' /\ EntryType' = EntryType
      BY <1>1, <1>3 DEF NoEntry, EntryType
    <3>2. entries \in [Ids -> EntryType]
      BY <1>2 DEF TypeOK
    <3> QED
      BY <1>1, <3>1, <3>2
  <2>2. (polling \in BOOLEAN)'
    BY <1>1
  <2> QED
    BY <1>1, <1>2, <1>4, <2>1, <2>2 DEF TypeOK
<1>8. Marked'
  <2> SUFFICES ASSUME NEW i \in Ids, entries'[i].attr # 0
               PROVE  IF Alive(entries[i].attr)'
                      THEN entries'[i].removed = 0
                      ELSE \/ entries'[i].removed # 0
                           \/ Pending("rmdir", entries[i].attr)'
                           \/ <<"rmdir", entries'[i].attr>> \in unseen'
    BY DEF Marked
  <2>1. entries'[i] = entries[i]
    BY <1>6
  <2>2. /\ Alive(entries[i].attr)' <=> Alive(entries[i].attr)
        /\ Pending("rmdir", entries[i].attr)' <=> Pending("rmdir", entries[i].attr)
    BY <1>1, <2>1 DEF Alive, Pending
  <2> QED
    BY <1>1, <1>2, <2>1, <2>2 DEF Marked
<1>9. Lifetimes' /\ WatcherTells' /\ ProbeTells' /\ Quiet' /\ NeverSuccessor'
  BY <1>1, <1>4 DEF IInv, Lifetimes, WatcherTells, ProbeTells, Quiet, NeverSuccessor
<1>10. RemovalFollows'
  BY <1>1, <1>4, <1>5 DEF IInv, RemovalFollows
<1>11. EntryTells'
  <2> SUFFICES ASSUME NEW i \in Ids, entries'[i].attr # 0
               PROVE  LET e == entries'[i]
                      IN  /\ cgroups[e.attr].id = i
                          /\ <<"mkdir", e.attr>> \notin unseen => e.created = cgroups[e.attr].born
                          /\ e.removed # 0 => /\ ~Alive(entries[i].attr)'
                                              /\ cgroups[e.attr].died <= e.removed
    BY <1>1 DEF EntryTells
  <2>1. entries'[i] = entries[i]
    BY <1>6
  <2>2. Alive(entries[i].attr)' <=> Alive(entries[i].attr)
    BY <1>1, <2>1 DEF Alive
  <2>3. EntryTells
    BY DEF IInv
  <2> QED
    BY <2>1, <2>2, <2>3 DEF EntryTells
<1>12. EntryBehind'
  <2> SUFFICES ASSUME NEW k \in 1..Len(watcherRing),
                      entries'[cgroups[watcherRing[k].cg].id].attr # 0
               PROVE  LET e == watcherRing[k]
                          a == entries'[cgroups[e.cg].id].attr
                      IN  e.cg >= a /\ (e.op = "mkdir" => e.cg > a)
    BY <1>1 DEF EntryBehind
  <2>1. entries'[cgroups[watcherRing[k].cg].id] = entries[cgroups[watcherRing[k].cg].id]
    BY <1>3, <1>6
  <2>2. EntryBehind
    BY DEF IInv
  <2> QED
    BY <2>1, <2>2 DEF EntryBehind
<1>13. StaleGuard'
  <2> SUFFICES ASSUME NEW k \in 1..Len(probeRing),
                      entries'[cgroups[probeRing[k].cg].id].attr > probeRing[k].cg
               PROVE  probeRing[k].ts < entries'[cgroups[probeRing[k].cg].id].created
    BY <1>1 DEF StaleGuard
  <2>1. PICK c \in Cgroups : c = probeRing[k].cg
    BY <1>3
  <2>2. PICK i \in Ids : i = cgroups[c].id
    BY <1>3
  <2>3. entries'[i].attr # 0
    BY <1>3, <2>1, <2>2 DEF Cgroups
  <2>4. entries'[i] = entries[i]
    BY <1>6, <2>3
  <2>5. StaleGuard
    BY DEF IInv
  <2> QED
    BY <2>1, <2>2, <2>4, <2>5 DEF StaleGuard
<1>14. LiveJobKnown'
  <2> SUFFICES ASSUME NEW c \in Cgroups, phase # "boot", Alive(c), cgroups[c].job
               PROVE  \/ entries'[cgroups[c].id].attr = c
                      \/ Pending("mkdir", c)
                      \/ <<"mkdir", c>> \in unseen
    BY <1>1, <1>4, <1>5 DEF LiveJobKnown
  <2>1. \/ entries[cgroups[c].id].attr = c
        \/ Pending("mkdir", c)
        \/ <<"mkdir", c>> \in unseen
    BY DEF IInv, LiveJobKnown
  <2>2. CASE entries[cgroups[c].id].attr = c
    <3>1. c # 0 /\ cgroups[c].id \in Ids
      BY <1>3 DEF Cgroups
    <3>2. entries[cgroups[c].id].removed = 0
      BY <1>2, <2>2, <3>1 DEF Marked
    <3> QED
      BY <1>6, <2>2, <3>1, <3>2 DEF Expired
  <2> QED
    BY <2>1, <2>2
<1>15. LastToldKnown'
  <2> SUFFICES ASSUME NEW c \in Cgroups, cgroups[c].job, ~Pending("mkdir", c),
                      <<"mkdir", c>> \notin unseen,
                      Alive(c) \/ now - cgroups[c].died <= Grace,
                      \A d \in Cgroups : d > c => cgroups[d].id # cgroups[c].id
               PROVE  entries'[cgroups[c].id].attr = c
    BY <1>1, <1>4, <1>5 DEF LastToldKnown
  <2>1. PICK i \in Ids : i = cgroups[c].id
    BY <1>3
  <2>2. entries[i].attr = c /\ c # 0
    BY <1>3, <2>1 DEF IInv, LastToldKnown, Cgroups
  <2>3. entries[i].removed # 0 => ~Alive(c) /\ cgroups[c].died <= entries[i].removed
    BY <2>1, <2>2 DEF IInv, EntryTells
  <2>4. cgroups[c].died \in 0..now /\ entries[i].removed \in 0..now
    BY <1>3
  <2>5. ~Expired(entries[i])
    BY SMTT(20), <1>3, <2>3, <2>4, AttributionAssumption DEF Expired
  <2> QED
    BY <1>6, <2>1, <2>2, <2>5
<1> QED
  BY <1>7, <1>8, <1>9, <1>10, <1>11, <1>12, <1>13, <1>14, <1>15, GracePartsNext DEF IInv

\* An event of a predecessor of the entry's cgroup is stale.
LEMMA ConsumeProbeStep ==
    ASSUME IInv, ConsumeProbe
    PROVE  IInv'
<1> DEFINE e == Head(probeRing)
           a == Answer(cgroups[e.cg].id, e.ts)
<1>1. /\ probeRing # << >> /\ probeRing' = Tail(probeRing)
      /\ last' = [of |-> e.cg, as |-> a.as, how |-> a.how]
      /\ UNCHANGED <<cgroups, now, phase, entries, watcherRing, ready, draining, polling, unseen>>
  BY DEF ConsumeProbe, loopVars
<1>2. TypeOK /\ Marked
  BY GraceParts DEF IInv
<1>3. /\ now \in Nat /\ Len(cgroups) \in Nat /\ Len(probeRing) \in Nat
      /\ \A c \in Cgroups : cgroups[c].id \in Ids
      /\ \A k \in 1..Len(probeRing) : probeRing[k].cg \in Cgroups /\ probeRing[k].ts \in 1..now
      /\ \A i \in Ids : entries[i].attr \in 0..Len(cgroups)
  BY <1>2, Types
<1>4. /\ probeRing' \in Seq([cg : Cgroups, ts : 1..now])
      /\ Len(probeRing') = Len(probeRing) - 1
      /\ Len(probeRing) # 0
      /\ \A k \in 1..Len(probeRing') : probeRing'[k] = probeRing[k + 1]
      /\ e = probeRing[1]
  <2> DEFINE P == [cg : Cgroups, ts : 1..now]
  <2>1. probeRing \in Seq(P)
    BY <1>2 DEF TypeOK
  <2> HIDE DEF P
  <2>2. Len(probeRing) # 0
    BY <1>1, <2>1, EmptySeq
  <2>3. /\ probeRing' \in Seq(P)
        /\ Len(probeRing') = Len(probeRing) - 1
        /\ \A k \in 1..Len(probeRing') : probeRing'[k] = probeRing[k + 1]
    BY <1>1, <2>1, HeadTailProperties
  <2>4. e = probeRing[1]
    BY <2>1, <1>1, HeadTailProperties
  <2> QED
    BY <2>2, <2>3, <2>4 DEF P
<1>5. \A k \in 1..Len(probeRing') : k + 1 \in 1..Len(probeRing)
  BY <1>3, <1>4
<1>6. Cgroups' = Cgroups
  BY <1>1 DEF Cgroups
<1>7. /\ \A d : Alive(d)' <=> Alive(d)
      /\ \A o, d : Pending(o, d)' <=> Pending(o, d)
  BY <1>1 DEF Alive, Pending
<1>8. PICK c \in Cgroups : c = e.cg /\ e.ts \in 1..now
  BY <1>3, <1>4
<1>9. PICK i \in Ids : i = cgroups[c].id
  BY <1>3
<1>10. entries[i].attr > c => e.ts < entries[i].created
  <2>1. 1 \in 1..Len(probeRing)
    BY <1>3, <1>4
  <2>2. StaleGuard
    BY DEF IInv
  <2> QED
    BY <1>4, <1>8, <1>9, <2>1, <2>2 DEF StaleGuard
<1>11. /\ a.as \in 0..Len(cgroups) /\ a.how \in {"none", "hit", "miss", "stale"}
       /\ a.as <= c
  <2>0. c \in Nat /\ e.ts # 0
    BY <1>3, <1>8 DEF Cgroups
  <2>1. CASE entries[i].attr = 0
    BY <1>3, <1>8, <1>9, <2>0, <2>1 DEF Answer
  <2>2. CASE entries[i].attr # 0 /\ e.ts < entries[i].created
    BY <1>3, <1>8, <1>9, <2>0, <2>2 DEF Answer
  <2>3. CASE entries[i].attr # 0 /\ ~(e.ts < entries[i].created)
    <3>1. entries[i].attr <= c /\ entries[i].attr \in 0..Len(cgroups)
      BY <1>3, <1>10, <2>0, <2>3
    <3>2. a = [as |-> entries[i].attr, how |-> "hit"]
      BY <1>8, <1>9, <2>3 DEF Answer
    <3> QED
      BY <3>1, <3>2
  <2> QED
    BY <2>1, <2>2, <2>3
<1> HIDE DEF e, a
<1>12. TypeOK'
  <2>1. polling' \in BOOLEAN
    BY <1>1, <1>2, Zenon DEF TypeOK
  <2>2. EntryType' = EntryType
    BY <1>1 DEF EntryType
  <2>3. last' \in [of : 0..Len(cgroups'), as : 0..Len(cgroups'),
                   how : {"none", "hit", "miss", "stale"}]
    <3>1. e.cg \in 0..Len(cgroups)
      BY <1>3, <1>8 DEF Cgroups
    <3> QED
      BY <1>1, <1>11, <3>1
  <2>4. probeRing' \in Seq([cg : Cgroups', ts : 1..now'])
    BY <1>1, <1>4, <1>6
  <2> QED
    BY <1>1, <1>2, <1>6, <2>1, <2>2, <2>3, <2>4 DEF TypeOK
<1>13. Marked'
  BY <1>1, <1>2, <1>7 DEF Marked
<1>14. Lifetimes' /\ WatcherTells' /\ EntryBehind'
  BY <1>1, <1>6 DEF IInv, Lifetimes, WatcherTells, EntryBehind
<1>15. RemovalFollows' /\ EntryTells' /\ LiveJobKnown' /\ LastToldKnown'
  BY <1>1, <1>6, <1>7 DEF IInv, RemovalFollows, EntryTells, LiveJobKnown, LastToldKnown
<1>16. ProbeTells'
  <2>1. ProbeTells
    BY DEF IInv
  <2> QED
    BY <1>1, <1>4, <1>5, <2>1 DEF ProbeTells
<1>17. StaleGuard'
  <2>1. StaleGuard
    BY DEF IInv
  <2> QED
    BY <1>1, <1>4, <1>5, <2>1 DEF StaleGuard
<1>18. Quiet'
  BY <1>1 DEF IInv, Quiet
<1>19. NeverSuccessor'
  BY <1>1, <1>8, <1>11 DEF NeverSuccessor
<1> QED
  BY <1>12, <1>13, <1>14, <1>15, <1>16, <1>17, <1>18, <1>19, GracePartsNext DEF IInv

\* What taking the event of op on c from the watcher's ring leaves.
RingShrinks(op, c, ts) ==
    /\ op \in {"mkdir", "rmdir"} /\ c \in Cgroups /\ ts \in 1..now
    /\ ts = IF op = "mkdir" THEN cgroups[c].born ELSE cgroups[c].died
    /\ Len(watcherRing') \in Nat
    /\ watcherRing' \in Seq([op : {"mkdir", "rmdir"}, cg : Cgroups, ts : 1..now])
    /\ 1 \in 1..Len(watcherRing)
    /\ watcherRing[1].op = op /\ watcherRing[1].cg = c /\ watcherRing[1].ts = ts
    /\ \A k \in 1..Len(watcherRing') : /\ k + 1 \in 1..Len(watcherRing)
                                       /\ watcherRing'[k] = watcherRing[k + 1]
                                       /\ watcherRing[k + 1].ts > ts
    /\ \A o, d : Pending(o, d)' => Pending(o, d)
    /\ \A o, d : Pending(o, d) => Pending(o, d)' \/ (o = op /\ d = c)
    /\ Pending(op, c)

LEMMA Taken ==
    ASSUME TypeOK, WatcherTells, watcherRing # << >>, watcherRing' = Tail(watcherRing)
    PROVE  RingShrinks(Head(watcherRing).op, Head(watcherRing).cg, Head(watcherRing).ts)
<1> DEFINE e == Head(watcherRing)
           P == [op : {"mkdir", "rmdir"}, cg : Cgroups, ts : 1..now]
<1>0. watcherRing \in Seq(P)
  BY DEF TypeOK
<1> HIDE DEF P
<1>1. e = watcherRing[1]
  BY <1>0, HeadTailProperties
<1>2. Len(watcherRing) \in Nat /\ Len(watcherRing) # 0
  BY <1>0, EmptySeq, LenProperties
<1>3. /\ watcherRing' \in Seq(P)
      /\ Len(watcherRing') = Len(watcherRing) - 1
      /\ \A k \in 1..Len(watcherRing') : watcherRing'[k] = watcherRing[k + 1]
  BY <1>0, HeadTailProperties
<1>4. /\ 1 \in 1..Len(watcherRing) /\ Len(watcherRing') \in Nat
      /\ \A k \in 1..Len(watcherRing') : k + 1 \in 1..Len(watcherRing) /\ k + 1 > 1
      /\ \A k \in 1..Len(watcherRing) : k # 1 => k - 1 \in 1..Len(watcherRing') /\ (k - 1) + 1 = k
  BY <1>2, <1>3
<1>5. e.op \in {"mkdir", "rmdir"} /\ e.cg \in Cgroups /\ e.ts \in 1..now
  BY <1>1, <1>4, Types
<1>6. e.ts = IF e.op = "mkdir" THEN cgroups[e.cg].born ELSE cgroups[e.cg].died
  BY <1>1, <1>4 DEF WatcherTells
<1>7. \A k \in 1..Len(watcherRing') : watcherRing[k + 1].ts > e.ts
  <2> SUFFICES ASSUME NEW k \in 1..Len(watcherRing')
               PROVE  watcherRing[k + 1].ts > e.ts
    OBVIOUS
  <2>1. k + 1 \in 1..Len(watcherRing) /\ 1 < k + 1
    BY <1>4
  <2>2. watcherRing[1].ts < watcherRing[k + 1].ts
    BY <1>4, <2>1 DEF WatcherTells
  <2>3. watcherRing[k + 1].ts \in Int
    BY <2>1, Types
  <2> QED
    BY <1>1, <1>5, <2>2, <2>3
<1> HIDE DEF e
<1>8. /\ \A o, d : Pending(o, d)' => Pending(o, d)
      /\ \A o, d : Pending(o, d) => Pending(o, d)' \/ (o = e.op /\ d = e.cg)
      /\ Pending(e.op, e.cg)
  <2>1. ASSUME NEW o, NEW d, Pending(o, d)'
        PROVE  Pending(o, d)
    <3>1. PICK k \in 1..Len(watcherRing') : watcherRing'[k].op = o /\ watcherRing'[k].cg = d
      BY <2>1 DEF Pending
    <3> QED
      BY <1>3, <1>4, <3>1 DEF Pending
  <2>2. ASSUME NEW o, NEW d, Pending(o, d)
        PROVE  Pending(o, d)' \/ (o = e.op /\ d = e.cg)
    <3>1. PICK k \in 1..Len(watcherRing) : watcherRing[k].op = o /\ watcherRing[k].cg = d
      BY <2>2 DEF Pending
    <3>2. CASE k = 1
      BY <1>1, <3>1, <3>2
    <3>3. CASE k # 1
      <4>1. k - 1 \in 1..Len(watcherRing') /\ watcherRing'[k - 1] = watcherRing[k]
        <5>1. k - 1 \in 1..Len(watcherRing') /\ (k - 1) + 1 = k
          BY <1>4, <3>3
        <5>2. watcherRing'[k - 1] = watcherRing[(k - 1) + 1]
          BY <1>3, <5>1
        <5> QED
          BY <5>1, <5>2
      <4> QED
        BY <3>1, <4>1 DEF Pending
    <3> QED
      BY <3>2, <3>3
  <2>3. Pending(e.op, e.cg)
    BY <1>1, <1>4 DEF Pending
  <2> QED
    BY <2>1, <2>2, <2>3
<1> QED
  BY <1>1, <1>3, <1>4, <1>5, <1>6, <1>7, <1>8 DEF RingShrinks, P, e

\* What an event of the watcher disturbs: only the entry of its id.
LEMMA WatcherFrame ==
    ASSUME IInv, NEW op, NEW c, NEW ts, RingShrinks(op, c, ts),
           UNCHANGED <<cgroups, now, phase, probeRing, ready, draining, polling, last, unseen>>,
           entries' \in [Ids -> EntryType]
    PROVE  TypeOK' /\ Lifetimes' /\ WatcherTells' /\ ProbeTells' /\ Quiet' /\ NeverSuccessor'
<1>1. TypeOK
  BY GraceParts DEF IInv
<1>2. Cgroups' = Cgroups
  BY DEF Cgroups
<1>3. TypeOK'
  <2>1. polling' \in BOOLEAN
    BY <1>1, Zenon DEF TypeOK
  <2>2. EntryType' = EntryType
    BY DEF EntryType
  <2>3. watcherRing' \in Seq([op : {"mkdir", "rmdir"}, cg : Cgroups', ts : 1..now'])
    BY <1>2 DEF RingShrinks
  <2> QED
    BY <1>1, <1>2, <2>1, <2>2, <2>3 DEF TypeOK
<1>4. Lifetimes' /\ ProbeTells' /\ NeverSuccessor'
  BY <1>2 DEF IInv, Lifetimes, ProbeTells, NeverSuccessor
<1>5. WatcherTells'
  <2>0. WatcherTells
    BY DEF IInv
  <2>1. ASSUME NEW k \in 1..Len(watcherRing')
        PROVE  watcherRing'[k].ts = IF watcherRing'[k].op = "mkdir"
                                    THEN cgroups[watcherRing'[k].cg].born
                                    ELSE cgroups[watcherRing'[k].cg].died
    <3>1. k + 1 \in 1..Len(watcherRing) /\ watcherRing'[k] = watcherRing[k + 1]
      BY DEF RingShrinks
    <3> QED
      BY <2>0, <3>1 DEF WatcherTells
  <2>2. ASSUME NEW j \in 1..Len(watcherRing'), NEW k \in 1..Len(watcherRing'), j < k
        PROVE  watcherRing'[j].ts < watcherRing'[k].ts
    <3>1. /\ j + 1 \in 1..Len(watcherRing) /\ watcherRing'[j] = watcherRing[j + 1]
          /\ k + 1 \in 1..Len(watcherRing) /\ watcherRing'[k] = watcherRing[k + 1]
      BY DEF RingShrinks
    <3>2. j + 1 < k + 1
      BY <2>2 DEF RingShrinks
    <3> QED
      BY <2>0, <3>1, <3>2 DEF WatcherTells
  <2> QED
    BY <2>1, <2>2 DEF WatcherTells
<1>6. Quiet'
  <2>1. Len(watcherRing) # 0
    BY DEF RingShrinks
  <2>2. phase = "running"
    BY <2>1, EmptySeq DEF IInv, Quiet
  <2> QED
    BY <2>2 DEF Quiet
<1> QED
  BY <1>3, <1>4, <1>5, <1>6

\* on_created: the new entry is later than the old one, and older than whatever
\* the ring still holds on its id; the events of its predecessors are older than
\* its creation.
LEMMA CreatedStep ==
    ASSUME IInv, NEW c, NEW ts, RingShrinks("mkdir", c, ts), OnCreated(c, ts),
           UNCHANGED <<cgroups, now, phase, probeRing, ready, draining, polling, last, unseen>>
    PROVE  IInv'
<1>1. TypeOK /\ Marked
  BY GraceParts DEF IInv
<1>2. /\ c \in Cgroups /\ ts \in 1..now /\ ts = cgroups[c].born
      /\ \A k \in 1..Len(watcherRing') : /\ k + 1 \in 1..Len(watcherRing)
                                         /\ watcherRing'[k] = watcherRing[k + 1]
                                         /\ watcherRing[k + 1].ts > ts
      /\ \A o, d : Pending(o, d)' => Pending(o, d)
      /\ \A o, d : Pending(o, d) => Pending(o, d)' \/ (o = "mkdir" /\ d = c)
      /\ Pending("mkdir", c)
  BY DEF RingShrinks
<1>3. /\ now \in Nat /\ Len(cgroups) \in Nat
      /\ \A d \in Cgroups : /\ cgroups[d].id \in Ids
                            /\ cgroups[d].born \in 1..now
                            /\ cgroups[d].died \in 0..now
      /\ \A k \in 1..Len(watcherRing) : /\ watcherRing[k].op \in {"mkdir", "rmdir"}
                                        /\ watcherRing[k].cg \in Cgroups
                                        /\ watcherRing[k].ts \in 1..now
      /\ \A k \in 1..Len(probeRing) : probeRing[k].cg \in Cgroups /\ probeRing[k].ts \in 1..now
      /\ \A j \in Ids : entries[j].attr \in 0..Len(cgroups)
  BY <1>1, Types
<1>4. PICK i \in Ids : i = cgroups[c].id
  BY <1>2, <1>3
<1>5. Cgroups' = Cgroups
  BY DEF Cgroups
<1>6. \A d : Alive(d)' <=> Alive(d)
  BY DEF Alive
<1>7. entries[i].attr # 0 => c > entries[i].attr
  <2>1. 1 \in 1..Len(watcherRing) /\ watcherRing[1].op = "mkdir" /\ watcherRing[1].cg = c
    BY DEF RingShrinks
  <2> QED
    BY <1>4, <2>1 DEF IInv, EntryBehind
<1>8. Lifetimes /\ WatcherTells /\ ProbeTells /\ EntryTells /\ EntryBehind /\ StaleGuard
  BY DEF IInv
<1>9. /\ entries' \in [Ids -> EntryType]
      /\ \A j \in Ids : \/ entries'[j] = entries[j] /\ (j = i => ~cgroups[c].job)
                        \/ /\ j = i /\ cgroups[c].job
                           /\ entries'[j] = [attr |-> c, created |-> ts, removed |-> 0]
  <2>1. entries \in [Ids -> EntryType]
    BY <1>1 DEF TypeOK
  <2>2. CASE cgroups[c].job
    <3>1. entries' = [entries EXCEPT ![i] = [attr |-> c, created |-> ts, removed |-> 0]]
      BY <1>4, <2>2 DEF OnCreated
    <3>2. [attr |-> c, created |-> ts, removed |-> 0] \in EntryType
      BY <1>2, <1>3 DEF EntryType, Cgroups
    <3> QED
      BY <2>1, <2>2, <3>1, <3>2
  <2>3. CASE ~cgroups[c].job
    BY <2>1, <2>3 DEF OnCreated
  <2> QED
    BY <2>2, <2>3
<1>10. TypeOK' /\ Lifetimes' /\ WatcherTells' /\ ProbeTells' /\ Quiet' /\ NeverSuccessor'
  BY <1>9, WatcherFrame
<1>11. Marked'
  <2> SUFFICES ASSUME NEW j \in Ids, entries'[j].attr # 0
               PROVE  IF Alive(entries[j].attr)'
                      THEN entries'[j].removed = 0
                      ELSE \/ entries'[j].removed # 0
                           \/ Pending("rmdir", entries[j].attr)'
                           \/ <<"rmdir", entries'[j].attr>> \in unseen'
    BY DEF Marked
  <2>0. PICK a \in Nat : a = entries'[j].attr
    BY <1>9, <1>3 DEF EntryType
  <2>1. /\ Alive(entries[j].attr)' <=> Alive(a)
        /\ Pending("rmdir", entries[j].attr)' <=> Pending("rmdir", a)'
    BY <2>0 DEF Alive, Pending
  <2>2. Pending("rmdir", a) => Pending("rmdir", a)'
    BY <1>2
  <2>3. CASE entries'[j] = entries[j]
    BY <1>1, <2>0, <2>1, <2>2, <2>3 DEF Marked
  <2>4. CASE j = i /\ entries'[j] = [attr |-> c, created |-> ts, removed |-> 0]
    <3>1. a = c
      BY <2>0, <2>4
    <3>2. ~Alive(c) => Pending("rmdir", c) \/ <<"rmdir", c>> \in unseen
      BY <1>2 DEF IInv, RemovalFollows
    <3> QED
      BY <2>0, <2>1, <2>2, <2>4, <3>1, <3>2
  <2> QED
    BY <1>9, <2>3, <2>4
<1>12. RemovalFollows'
  <2> SUFFICES ASSUME NEW d \in Cgroups, ~Alive(d), Pending("mkdir", d)'
               PROVE  Pending("rmdir", d)' \/ <<"rmdir", d>> \in unseen
    BY <1>5, <1>6 DEF RemovalFollows
  <2>1. Pending("mkdir", d)
    BY <1>2
  <2>2. Pending("rmdir", d) \/ <<"rmdir", d>> \in unseen
    BY <2>1 DEF IInv, RemovalFollows
  <2>3. Pending("rmdir", d) => Pending("rmdir", d)'
    BY <1>2
  <2> QED
    BY <2>2, <2>3
<1>13. EntryTells'
  <2> SUFFICES ASSUME NEW j \in Ids, entries'[j].attr # 0
               PROVE  LET e == entries'[j]
                      IN  /\ cgroups[e.attr].id = j
                          /\ <<"mkdir", e.attr>> \notin unseen => e.created = cgroups[e.attr].born
                          /\ e.removed # 0 => /\ ~Alive(entries[j].attr)'
                                              /\ cgroups[e.attr].died <= e.removed
    BY DEF EntryTells
  <2>1. CASE entries'[j] = entries[j]
    <3>1. Alive(entries[j].attr)' <=> Alive(entries[j].attr)
      BY <2>1 DEF Alive
    <3> QED
      BY <1>8, <2>1, <3>1 DEF EntryTells
  <2>2. CASE j = i /\ entries'[j] = [attr |-> c, created |-> ts, removed |-> 0]
    BY <1>2, <1>4, <2>2
  <2> QED
    BY <1>9, <2>1, <2>2
<1>14. EntryBehind'
  <2> SUFFICES ASSUME NEW k \in 1..Len(watcherRing'),
                      entries'[cgroups[watcherRing'[k].cg].id].attr # 0
               PROVE  LET e == watcherRing'[k]
                          a == entries'[cgroups[e.cg].id].attr
                      IN  e.cg >= a /\ (e.op = "mkdir" => e.cg > a)
    BY DEF EntryBehind
  <2>1. k + 1 \in 1..Len(watcherRing) /\ watcherRing'[k] = watcherRing[k + 1]
        /\ watcherRing[k + 1].ts > ts
    BY <1>2
  <2>2. PICK d \in Cgroups : d = watcherRing[k + 1].cg
    BY <1>3, <2>1
  <2>3. PICK j \in Ids : j = cgroups[d].id
    BY <1>3
  <2>4. CASE entries'[j] = entries[j]
    BY <1>8, <2>1, <2>2, <2>3, <2>4 DEF EntryBehind
  <2>5. CASE j = i /\ entries'[j] = [attr |-> c, created |-> ts, removed |-> 0]
    <3>1. c \in Nat /\ d \in Nat
      BY <1>2, <1>3 DEF Cgroups
    <3>2. /\ watcherRing[k + 1].op \in {"mkdir", "rmdir"}
          /\ watcherRing[k + 1].ts = IF watcherRing[k + 1].op = "mkdir"
                                     THEN cgroups[d].born ELSE cgroups[d].died
      BY <1>3, <1>8, <2>1, <2>2 DEF WatcherTells
    <3>3. /\ cgroups[d].born \in Nat /\ cgroups[d].died \in Nat /\ cgroups[c].born \in Nat
      BY SMTT(20), <1>2, <1>3
    <3>4. d < c => cgroups[d].born < cgroups[c].born /\ cgroups[d].died < cgroups[c].born
      BY <1>2, <1>4, <1>8, <2>3, <2>5 DEF Lifetimes
    <3>5. ~(d < c)
      BY SMTT(20), <1>2, <2>1, <3>2, <3>3, <3>4
    <3>6. watcherRing[k + 1].op = "mkdir" => d # c
      BY <1>2, <2>1, <3>2, <3>3
    <3>7. entries'[cgroups[watcherRing'[k].cg].id].attr = c
      BY <2>1, <2>2, <2>3, <2>5
    <3> QED
      BY <2>1, <2>2, <3>1, <3>5, <3>6, <3>7
  <2> QED
    BY <1>9, <2>4, <2>5
<1>15. StaleGuard'
  <2> SUFFICES ASSUME NEW k \in 1..Len(probeRing),
                      entries'[cgroups[probeRing[k].cg].id].attr > probeRing[k].cg
               PROVE  probeRing[k].ts < entries'[cgroups[probeRing[k].cg].id].created
    BY DEF StaleGuard
  <2>1. PICK d \in Cgroups : d = probeRing[k].cg
    BY <1>3
  <2>2. PICK j \in Ids : j = cgroups[d].id
    BY <1>3
  <2>3. CASE entries'[j] = entries[j]
    BY <1>8, <2>1, <2>2, <2>3 DEF StaleGuard
  <2>4. CASE j = i /\ entries'[j] = [attr |-> c, created |-> ts, removed |-> 0]
    <3>1. d < c
      BY <1>2, <1>3, <2>1, <2>2, <2>4 DEF Cgroups
    <3>2. cgroups[d].died # 0 /\ cgroups[d].died < cgroups[c].born
      BY <1>2, <1>4, <1>8, <2>2, <2>4, <3>1 DEF Lifetimes
    <3>3. probeRing[k].ts < cgroups[d].died
      BY <1>8, <2>1, <3>2 DEF ProbeTells
    <3>4. probeRing[k].ts \in Nat /\ cgroups[d].died \in Nat /\ cgroups[c].born \in Nat
      BY <1>2, <1>3
    <3>5. entries'[cgroups[probeRing[k].cg].id].created = cgroups[c].born
      BY <1>2, <2>1, <2>2, <2>4
    <3> QED
      BY <3>2, <3>3, <3>4, <3>5
  <2> QED
    BY <1>9, <2>3, <2>4
<1>16. ASSUME NEW d \in Cgroups, entries[cgroups[d].id].attr = d,
              \A b \in Cgroups : cgroups[b].id = cgroups[d].id => b <= d
       PROVE  entries'[cgroups[d].id].attr = d
  <2>1. CASE cgroups[d].id # i
    BY <1>3, <1>9, <1>16, <2>1
  <2>2. CASE cgroups[d].id = i
    <3>1. c <= d
      BY <1>2, <1>4, <1>16, <2>2
    <3>2. entries[i].attr = d /\ d # 0
      BY <1>3, <1>16, <2>2 DEF Cgroups
    <3>3. c > d
      BY <1>7, <3>2
    <3> QED
      BY <1>2, <1>3, <3>1, <3>3 DEF Cgroups
  <2> QED
    BY <2>1, <2>2
<1>17. cgroups[c].job => entries'[cgroups[c].id].attr = c
  BY <1>4, <1>9
<1>18. LiveJobKnown'
  <2> SUFFICES ASSUME NEW d \in Cgroups, phase # "boot", Alive(d), cgroups[d].job
               PROVE  \/ entries'[cgroups[d].id].attr = d
                      \/ Pending("mkdir", d)'
                      \/ <<"mkdir", d>> \in unseen
    BY <1>5, <1>6 DEF LiveJobKnown
  <2>1. \/ entries[cgroups[d].id].attr = d
        \/ Pending("mkdir", d)
        \/ <<"mkdir", d>> \in unseen
    BY DEF IInv, LiveJobKnown
  <2>2. CASE entries[cgroups[d].id].attr = d
    <3>1. \A b \in Cgroups : cgroups[b].id = cgroups[d].id => b <= d
      BY <1>1, <1>8, AliveIsLast
    <3> QED
      BY <1>16, <2>2, <3>1
  <2>3. CASE Pending("mkdir", d)
    <3>1. Pending("mkdir", d)' \/ d = c
      BY <1>2, <2>3
    <3> QED
      BY <1>17, <3>1
  <2> QED
    BY <2>1, <2>2, <2>3
<1>19. LastToldKnown'
  <2> SUFFICES ASSUME NEW d \in Cgroups, cgroups[d].job, ~Pending("mkdir", d)',
                      <<"mkdir", d>> \notin unseen,
                      Alive(d) \/ now - cgroups[d].died <= Grace,
                      \A b \in Cgroups : b > d => cgroups[b].id # cgroups[d].id
               PROVE  entries'[cgroups[d].id].attr = d
    BY <1>5, <1>6 DEF LastToldKnown
  <2>1. CASE Pending("mkdir", d)
    <3>1. d = c
      BY <1>2, <2>1
    <3> QED
      BY <1>17, <3>1
  <2>2. CASE ~Pending("mkdir", d)
    <3>1. entries[cgroups[d].id].attr = d
      BY <2>2 DEF IInv, LastToldKnown
    <3>2. \A b \in Cgroups : cgroups[b].id = cgroups[d].id => b <= d
      BY <1>3 DEF Cgroups
    <3> QED
      BY <1>16, <3>1, <3>2
  <2> QED
    BY <2>1, <2>2
<1> QED
  BY <1>10, <1>11, <1>12, <1>13, <1>14, <1>15, <1>18, <1>19, GracePartsNext DEF IInv

\* on_removed: the removal is that of the entry's cgroup or of a later one of its
\* id, so the entry's cgroup is gone; and no creation of it is still to come.
LEMMA RemovedStep ==
    ASSUME IInv, NEW c, NEW ts, RingShrinks("rmdir", c, ts), OnRemoved(c, ts),
           UNCHANGED <<cgroups, now, phase, probeRing, ready, draining, polling, last, unseen>>
    PROVE  IInv'
<1>1. TypeOK /\ Marked
  BY GraceParts DEF IInv
<1>2. /\ c \in Cgroups /\ ts \in 1..now /\ ts = cgroups[c].died
      /\ \A k \in 1..Len(watcherRing') : /\ k + 1 \in 1..Len(watcherRing)
                                         /\ watcherRing'[k] = watcherRing[k + 1]
                                         /\ watcherRing[k + 1].ts > ts
      /\ \A o, d : Pending(o, d)' => Pending(o, d)
      /\ \A o, d : Pending(o, d) => Pending(o, d)' \/ (o = "rmdir" /\ d = c)
  BY DEF RingShrinks
<1>3. /\ now \in Nat /\ Len(cgroups) \in Nat
      /\ \A d \in Cgroups : /\ cgroups[d].id \in Ids
                            /\ cgroups[d].born \in 1..now
                            /\ cgroups[d].died \in 0..now
      /\ \A k \in 1..Len(watcherRing) : watcherRing[k].cg \in Cgroups
      /\ \A k \in 1..Len(probeRing) : probeRing[k].cg \in Cgroups
      /\ \A j \in Ids : entries[j].attr \in 0..Len(cgroups) /\ entries[j].removed \in 0..now
  BY <1>1, Types
<1>4. PICK i \in Ids : i = cgroups[c].id
  BY <1>2, <1>3
<1>5. Cgroups' = Cgroups
  BY DEF Cgroups
<1>6. \A d : Alive(d)' <=> Alive(d)
  BY DEF Alive
<1>7. Lifetimes /\ WatcherTells /\ EntryTells /\ EntryBehind /\ StaleGuard
  BY DEF IInv
<1>8. ASSUME entries[i].attr # 0
      PROVE  ~Alive(entries[i].attr) /\ cgroups[entries[i].attr].died <= ts
  <2>1. PICK a \in Cgroups : a = entries[i].attr
    BY <1>3, <1>8 DEF Cgroups
  <2>2. cgroups[a].id = i
    BY <1>7, <1>8, <2>1 DEF EntryTells
  <2>3. c >= a
    <3>1. 1 \in 1..Len(watcherRing) /\ watcherRing[1].cg = c
      BY DEF RingShrinks
    <3> QED
      BY <1>4, <1>7, <1>8, <2>1, <3>1 DEF EntryBehind
  <2>4. cgroups[c].died # 0 /\ cgroups[c].born < cgroups[c].died
    BY <1>2, <1>7 DEF Lifetimes
  <2>5. a < c => cgroups[a].died # 0 /\ cgroups[a].died < cgroups[c].born
    BY <1>2, <1>4, <1>7, <2>2 DEF Lifetimes
  <2>6. a = c \/ a < c
    BY <1>2, <1>3, <2>3 DEF Cgroups
  <2>7. cgroups[a].died \in Nat /\ cgroups[c].born \in Nat /\ cgroups[c].died \in Nat
    BY <1>2, <1>3
  <2>8. cgroups[a].died # 0 /\ cgroups[a].died <= ts
    BY <1>2, <2>4, <2>5, <2>6, <2>7
  <2> QED
    BY <2>1, <2>8 DEF Alive
<1>9. /\ entries' \in [Ids -> EntryType]
      /\ \A j \in Ids : /\ entries'[j].attr = entries[j].attr
                        /\ entries'[j].created = entries[j].created
                        /\ \/ entries'[j].removed = entries[j].removed
                           \/ j = i /\ entries[j].attr # 0 /\ entries'[j].removed = ts
      /\ entries[i].attr # 0 => entries'[i].removed # 0
  <2>1. entries \in [Ids -> EntryType]
    BY <1>1 DEF TypeOK
  <2>2. CASE entries[i].attr # 0 /\ entries[i].removed = 0
    <3>1. entries' = [entries EXCEPT ![i].removed = ts]
      BY <1>4, <2>2 DEF OnRemoved
    <3>2. [entries[i] EXCEPT !.removed = ts] \in EntryType
      BY <1>2, <1>3, <2>1 DEF EntryType
    <3>3. entries' = [entries EXCEPT ![i] = [entries[i] EXCEPT !.removed = ts]]
      BY <3>1
    <3>4. /\ [entries[i] EXCEPT !.removed = ts].attr = entries[i].attr
          /\ [entries[i] EXCEPT !.removed = ts].created = entries[i].created
          /\ [entries[i] EXCEPT !.removed = ts].removed = ts
      BY <2>1 DEF EntryType
    <3>5. ts # 0
      BY <1>2
    <3> QED
      BY <2>1, <2>2, <3>2, <3>3, <3>4, <3>5
  <2>3. CASE ~(entries[i].attr # 0 /\ entries[i].removed = 0)
    BY <1>4, <2>1, <2>3 DEF OnRemoved
  <2> QED
    BY <2>2, <2>3
<1>10. TypeOK' /\ Lifetimes' /\ WatcherTells' /\ ProbeTells' /\ Quiet' /\ NeverSuccessor'
  BY <1>9, WatcherFrame
<1>11. Marked'
  <2> SUFFICES ASSUME NEW j \in Ids, entries'[j].attr # 0
               PROVE  IF Alive(entries[j].attr)'
                      THEN entries'[j].removed = 0
                      ELSE \/ entries'[j].removed # 0
                           \/ Pending("rmdir", entries[j].attr)'
                           \/ <<"rmdir", entries'[j].attr>> \in unseen'
    BY DEF Marked
  <2>1. PICK a \in Cgroups : a = entries[j].attr
    BY <1>3, <1>9 DEF Cgroups
  <2>2. /\ Alive(entries[j].attr)' <=> Alive(a)
        /\ Pending("rmdir", entries[j].attr)' <=> Pending("rmdir", a)'
    BY <1>9, <2>1 DEF Alive, Pending
  <2>3. IF Alive(a) THEN entries[j].removed = 0
        ELSE entries[j].removed # 0 \/ Pending("rmdir", a) \/ <<"rmdir", a>> \in unseen
    BY <1>1, <1>9, <2>1 DEF Marked
  <2>4. Pending("rmdir", a) => Pending("rmdir", a)' \/ a = c
    BY <1>2
  <2>5. cgroups[a].id = j
    BY <1>7, <1>9, <2>1 DEF EntryTells
  <2>6. CASE j = i
    <3>1. ~Alive(a)
      BY <1>8, <1>9, <2>1, <2>6
    <3>2. entries'[j].removed # 0
      BY <1>9, <2>6
    <3> QED
      BY <2>2, <3>1, <3>2
  <2>7. CASE j # i
    <3>1. entries'[j].removed = entries[j].removed
      BY <1>9, <2>7
    <3>2. a # c
      BY <1>4, <2>5, <2>7
    <3> QED
      BY <1>9, <2>1, <2>2, <2>3, <2>4, <3>1, <3>2
  <2> QED
    BY <2>6, <2>7
<1>12. RemovalFollows'
  <2> SUFFICES ASSUME NEW d \in Cgroups, ~Alive(d), Pending("mkdir", d)'
               PROVE  Pending("rmdir", d)' \/ <<"rmdir", d>> \in unseen
    BY <1>5, <1>6 DEF RemovalFollows
  <2>1. Pending("mkdir", d)
    BY <1>2
  <2>2. Pending("rmdir", d) \/ <<"rmdir", d>> \in unseen
    BY <2>1 DEF IInv, RemovalFollows
  <2>3. d # c
    <3>1. PICK k \in 1..Len(watcherRing') : watcherRing'[k].op = "mkdir" /\ watcherRing'[k].cg = d
      BY DEF Pending
    <3>2. k + 1 \in 1..Len(watcherRing) /\ watcherRing'[k] = watcherRing[k + 1]
          /\ watcherRing[k + 1].ts > ts
      BY <1>2
    <3>3. watcherRing[k + 1].ts = cgroups[d].born
      BY <1>7, <3>1, <3>2 DEF WatcherTells
    <3>4. cgroups[c].died # 0 /\ cgroups[c].born < cgroups[c].died
      BY <1>2, <1>7 DEF Lifetimes
    <3>5. cgroups[c].born \in Nat /\ cgroups[c].died \in Nat
      BY <1>2, <1>3
    <3> QED
      BY <1>2, <3>2, <3>3, <3>4, <3>5
  <2>4. Pending("rmdir", d) => Pending("rmdir", d)'
    BY <1>2, <2>3
  <2> QED
    BY <2>2, <2>4
<1>13. EntryTells'
  <2> SUFFICES ASSUME NEW j \in Ids, entries'[j].attr # 0
               PROVE  LET e == entries'[j]
                      IN  /\ cgroups[e.attr].id = j
                          /\ <<"mkdir", e.attr>> \notin unseen => e.created = cgroups[e.attr].born
                          /\ e.removed # 0 => /\ ~Alive(entries[j].attr)'
                                              /\ cgroups[e.attr].died <= e.removed
    BY DEF EntryTells
  <2>1. Alive(entries[j].attr)' <=> Alive(entries[j].attr)
    BY <1>9 DEF Alive
  <2>2. LET e == entries[j]
        IN  /\ cgroups[e.attr].id = j
            /\ <<"mkdir", e.attr>> \notin unseen => e.created = cgroups[e.attr].born
            /\ e.removed # 0 => ~Alive(e.attr) /\ cgroups[e.attr].died <= e.removed
    BY <1>7, <1>9 DEF EntryTells
  <2>3. CASE entries'[j].removed = entries[j].removed
    BY <1>9, <2>1, <2>2, <2>3
  <2>4. CASE j = i /\ entries[j].attr # 0 /\ entries'[j].removed = ts
    BY <1>8, <1>9, <2>1, <2>2, <2>4
  <2> QED
    BY <1>9, <2>3, <2>4
<1>14. EntryBehind'
  <2> SUFFICES ASSUME NEW k \in 1..Len(watcherRing'),
                      entries'[cgroups[watcherRing'[k].cg].id].attr # 0
               PROVE  LET e == watcherRing'[k]
                          a == entries'[cgroups[e.cg].id].attr
                      IN  e.cg >= a /\ (e.op = "mkdir" => e.cg > a)
    BY DEF EntryBehind
  <2>1. k + 1 \in 1..Len(watcherRing) /\ watcherRing'[k] = watcherRing[k + 1]
    BY <1>2
  <2>2. PICK j \in Ids : j = cgroups[watcherRing[k + 1].cg].id
    BY <1>3, <2>1
  <2>3. entries'[j].attr = entries[j].attr
    BY <1>9
  <2> QED
    BY <1>7, <2>1, <2>2, <2>3 DEF EntryBehind
<1>15. StaleGuard'
  <2> SUFFICES ASSUME NEW k \in 1..Len(probeRing),
                      entries'[cgroups[probeRing[k].cg].id].attr > probeRing[k].cg
               PROVE  probeRing[k].ts < entries'[cgroups[probeRing[k].cg].id].created
    BY DEF StaleGuard
  <2>1. PICK j \in Ids : j = cgroups[probeRing[k].cg].id
    BY <1>3
  <2>2. entries'[j].attr = entries[j].attr /\ entries'[j].created = entries[j].created
    BY <1>9
  <2> QED
    BY <1>7, <2>1, <2>2 DEF StaleGuard
<1>16. /\ \A d \in Cgroups : entries'[cgroups[d].id].attr = entries[cgroups[d].id].attr
       /\ \A d : Pending("mkdir", d)' <=> Pending("mkdir", d)
  BY <1>2, <1>3, <1>9
<1>17. LiveJobKnown' /\ LastToldKnown'
  <2>1. LiveJobKnown /\ LastToldKnown
    BY DEF IInv
  <2> QED
    BY <1>5, <1>6, <1>16, <2>1 DEF LiveJobKnown, LastToldKnown
<1> QED
  BY <1>10, <1>11, <1>12, <1>13, <1>14, <1>15, <1>17, GracePartsNext DEF IInv

LEMMA ConsumeWatcherStep ==
    ASSUME IInv, ConsumeWatcher
    PROVE  IInv'
<1> DEFINE e == Head(watcherRing)
<1>1. /\ watcherRing # << >> /\ watcherRing' = Tail(watcherRing)
      /\ IF e.op = "mkdir" THEN OnCreated(e.cg, e.ts) ELSE OnRemoved(e.cg, e.ts)
      /\ UNCHANGED <<cgroups, now, phase, probeRing, ready, draining, polling, last, unseen>>
  BY DEF ConsumeWatcher, loopVars
<1>2. RingShrinks(e.op, e.cg, e.ts)
  BY <1>1, GraceParts, Taken DEF IInv
<1>3. PICK c, ts : c = e.cg /\ ts = e.ts
  OBVIOUS
<1>4. CASE e.op = "mkdir"
  <2>1. RingShrinks("mkdir", c, ts) /\ OnCreated(c, ts)
    BY <1>1, <1>2, <1>3, <1>4
  <2> QED
    BY <1>1, <2>1, CreatedStep
<1>5. CASE e.op # "mkdir"
  <2>1. e.op = "rmdir"
    BY <1>2, <1>5 DEF RingShrinks
  <2>2. RingShrinks("rmdir", c, ts) /\ OnRemoved(c, ts)
    BY <1>1, <1>2, <1>3, <2>1
  <2> QED
    BY <1>1, <2>2, RemovedStep
<1> QED
  BY <1>4, <1>5

-----------------------------------------------------------------------------
(* Every step, and the theorems.                                           *)

LEMMA StepIInv == IInv /\ [Next]_vars => IInv'
<1> SUFFICES ASSUME IInv, [Next]_vars PROVE IInv'
  OBVIOUS
<1>0. TypeOK
  BY GraceParts DEF IInv
<1>1. CASE \E i \in Ids, isJob \in BOOLEAN : Mkdir(i, isJob)
  BY <1>1, MkdirStep
<1>2. CASE \E c \in Cgroups : Rmdir(c) \/ Event(c)
  BY <1>2, RmdirStep, EventStep
<1>3. CASE TimePasses
  BY <1>3, TimeStep
<1>4. CASE Scan
  BY <1>4, ScanStep
<1>5. ready \subseteq {"watcher", "probe"} /\ draining \in {"none", "watcher", "probe"}
  BY <1>0 DEF TypeOK
<1>6. polling \in BOOLEAN
  BY <1>0, Zenon DEF TypeOK
<1>7. CASE Attach
  <2>1. /\ UNCHANGED <<cgroups, now, watcherRing, probeRing, unseen, entries, last,
                       ready, draining, polling>>
        /\ phase = "scanned" /\ phase' = "running"
    BY <1>7 DEF Attach, kernelVars, loopVars
  <2>2. polling' \in BOOLEAN
    BY <1>6, <2>1, Zenon
  <2> QED
    BY <1>5, <2>1, <2>2, LoopStep
<1>8. CASE Poll
  <2>1. /\ UNCHANGED <<cgroups, now, watcherRing, probeRing, unseen, entries, last, phase, draining>>
        /\ polling' = TRUE /\ ready' \subseteq {"watcher", "probe"}
    BY <1>8 DEF Poll, kernelVars
  <2>2. polling' \in BOOLEAN
    BY <2>1, Zenon
  <2> QED
    BY <1>5, <2>1, <2>2, LoopStep
<1>9. CASE \E r \in {"watcher", "probe"} : Drain(r)
  <2>1. /\ UNCHANGED <<cgroups, now, watcherRing, probeRing, unseen, entries, last, phase, polling>>
        /\ ready' \subseteq {"watcher", "probe"} /\ draining' \in {"none", "watcher", "probe"}
    BY <1>5, <1>9 DEF Drain, kernelVars
  <2>2. polling' \in BOOLEAN
    BY <1>6, <2>1, Zenon
  <2> QED
    BY <2>1, <2>2, LoopStep
<1>10. CASE Drained
  <2>1. /\ UNCHANGED <<cgroups, now, watcherRing, probeRing, unseen, entries, last, phase,
                       ready, polling>>
        /\ draining' = "none"
    BY <1>10 DEF Drained, kernelVars
  <2>2. polling' \in BOOLEAN
    BY <1>6, <2>1, Zenon
  <2> QED
    BY <1>5, <2>1, <2>2, LoopStep
<1>11. CASE ConsumeWatcher
  BY <1>11, ConsumeWatcherStep
<1>12. CASE ConsumeProbe
  BY <1>12, ConsumeProbeStep
<1>13. CASE Tick
  BY <1>13, TickStep
<1>14. CASE UNCHANGED vars
  <2>1. UNCHANGED <<cgroups, now, watcherRing, probeRing, unseen, entries, last, phase,
                    ready, draining, polling>>
    BY <1>14 DEF vars
  <2>2. polling' \in BOOLEAN
    BY <1>6, <2>1, Zenon
  <2> QED
    BY <1>5, <2>1, <2>2, LoopStep
<1> QED
  BY <1>1, <1>2, <1>3, <1>4, <1>7, <1>8, <1>9, <1>10, <1>11, <1>12, <1>13, <1>14 DEF Next

\* The strengthened invariant holds in every reachable state, for every number
\* of ids and cgroups, every ring size, grace period and wall-clock step.
THEOREM Invariance == Spec => []IInv
<1>1. Init => IInv
  BY InitIInv
<1>2. IInv /\ [Next]_vars => IInv'
  BY StepIInv
<1> QED
  BY <1>1, <1>2, PTL DEF Spec

\* resolve() never gives an event the identity of a cgroup that took its id
\* later, in whatever order the two rings are drained and whatever they lost.
THEOREM SuccessorNeverNamed == Spec => []NeverSuccessor
<1>1. IInv => NeverSuccessor
  BY DEF IInv
<1> QED
  BY <1>1, Invariance, PTL

\* The map holds every living job cgroup of whose creation the kernel told,
\* unless the event is still in the ring: neither expire() nor on_removed()
\* takes the entry of a living cgroup.
THEOREM LivingAreKnown == Spec => []LiveJobKnown
<1>1. IInv => LiveJobKnown
  BY DEF IInv
<1> QED
  BY <1>1, Invariance, PTL

\* on_removed() starts the grace period of the dead only, and of all of them
\* whose removal the kernel told; with it, type correctness.
THEOREM GraceOnlyForTheDead == Spec => []GraceForTheDead
<1>1. IInv => GraceForTheDead
  BY DEF IInv
<1> QED
  BY <1>1, Invariance, PTL

\* A step that consumes a probe's event of the last cgroup of its id attributes
\* it while the grace period runs: the entry is there (LastToldKnown), and it is
\* not younger than the event (EntryTells, ProbeTells).
LEMMA GraceAttributes ==
    ASSUME IInv, ConsumeProbe, cgroups[Head(probeRing).cg].job,
           ~Pending("mkdir", Head(probeRing).cg),
           <<"mkdir", Head(probeRing).cg>> \notin unseen,
           \/ Alive(Head(probeRing).cg)
           \/ now - cgroups[Head(probeRing).cg].died <= Grace,
           \A d \in Cgroups :
              d > Head(probeRing).cg => cgroups[d].id # cgroups[Head(probeRing).cg].id
    PROVE  last'.as = Head(probeRing).cg
<1> DEFINE e == Head(probeRing)
<1>1. TypeOK /\ probeRing # << >>
  BY GraceParts DEF IInv, ConsumeProbe
<1>2. e = probeRing[1] /\ 1 \in 1..Len(probeRing)
  <2> DEFINE P == [cg : Cgroups, ts : 1..now]
  <2>1. probeRing \in Seq(P)
    BY <1>1 DEF TypeOK
  <2> HIDE DEF P
  <2>2. Len(probeRing) # 0 /\ Len(probeRing) \in Nat
    BY <1>1, <2>1, EmptySeq, LenProperties
  <2>3. e = probeRing[1]
    BY <1>1, <2>1, HeadTailProperties
  <2> QED
    BY <2>2, <2>3
<1>3. PICK c \in Cgroups : c = e.cg
  BY <1>1, <1>2, Types
<1>4. PICK i \in Ids : i = cgroups[c].id
  BY <1>1, Types
<1>5. entries[i].attr = c /\ c # 0
  <2>1. LastToldKnown
    BY DEF IInv
  <2>2. c # 0
    BY <1>1, Types DEF Cgroups
  <2> QED
    BY <1>3, <1>4, <2>1, <2>2 DEF LastToldKnown
<1>6. entries[i].created = cgroups[c].born
  BY <1>3, <1>4, <1>5 DEF IInv, EntryTells
<1>7. cgroups[c].born < e.ts
  BY <1>2, <1>3 DEF IInv, ProbeTells
<1>8. cgroups[c].born \in Nat /\ e.ts \in Nat
  BY <1>1, <1>2, <1>3, Types
<1>9. ~(e.ts < entries[i].created)
  BY <1>6, <1>7, <1>8
<1>10. last' = [of |-> e.cg, as |-> Answer(cgroups[e.cg].id, e.ts).as,
                how |-> Answer(cgroups[e.cg].id, e.ts).how]
  BY DEF ConsumeProbe
<1>11. Answer(i, e.ts) = [as |-> c, how |-> "hit"]
  BY <1>5, <1>9 DEF Answer
<1> QED
  BY <1>3, <1>4, <1>10, <1>11

\* Through the grace period an event of a job is given that job, once the entry
\* was made and as long as no later cgroup took the id.
THEOREM GracePeriodAttributes == Spec => AttributedInGrace
<1>1. IInv /\ [Next]_vars =>
        [ConsumeProbe =>
           LET c == Head(probeRing).cg
           IN  (/\ cgroups[c].job
                /\ ~Pending("mkdir", c)
                /\ <<"mkdir", c>> \notin unseen
                /\ Alive(c) \/ now - cgroups[c].died <= Grace
                /\ \A d \in Cgroups : d > c => cgroups[d].id # cgroups[c].id)
               => last'.as = c]_vars
  BY GraceAttributes
<1> QED
  BY <1>1, Invariance, PTL DEF Spec, AttributedInGrace
=============================================================================
