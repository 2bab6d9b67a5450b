------------------------------- MODULE Enrich -------------------------------
(***************************************************************************)
(* The way of one event from the kernel to the batch: a probe's BPF        *)
(* program writes it to the instance's ring, on any CPU and while others   *)
(* do; the event loop hands it to that instance's on_event(), which        *)
(* translates it (probes/*/translate.cpp); the instance's emitter stamps   *)
(* its id on it (core/daemon.cpp); the pipeline converts its time and      *)
(* looks up its user (core/pipeline/pipeline.cpp, core/utilities/clock.    *)
(* cpp).  Meanwhile the wall clock is stepped and the user database        *)
(* changes, fails and recovers.  The job is Attribution's.                 *)
(***************************************************************************)
EXTENDS Integers, Sequences, FiniteSetsExt

CONSTANTS Instances,   \* probe instance ids
          PluginOf,    \* the plugin of each
          Uids, Names, \* users, and what the database may call them
          Ends,        \* how processes end: [status, signal, core]
          Skews,       \* the wall clock's distances from the monotonic clock
          MaxTime,     \* bound on the monotonic clock
          MaxEvents,   \* bound on the events of one behaviour
          None

ASSUME EnrichAssumption ==
    /\ PluginOf \in [Instances -> {"proc_lifecycle", "oom"}]
    /\ Ends \subseteq [status : 0..255, signal : 0..127, core : 0..1]
    /\ Skews \subseteq Nat
    /\ None \notin Names /\ None \notin Skews
    /\ MaxTime \in Nat /\ MaxEvents \in Nat

VARIABLES now,      \* CLOCK_MONOTONIC
          skew,     \* CLOCK_REALTIME - CLOCK_MONOTONIC, at the moment
          rings,    \* the ring of each instance, in the order of the reservations
          offset,   \* boot_offset_ns()'s static, None before its first use
          cache,    \* user_cache_: a name, None for the empty one
          records,  \* what the pipeline was given, in order
          lookups   \* history: the calls of getpwuid_r() for each user

vars == <<now, skew, rings, offset, cache, records, lookups>>

Init ==
    /\ now = 0
    /\ skew \in Skews
    /\ rings = [i \in Instances |-> << >>]
    /\ offset = None
    /\ cache = << >>
    /\ records = << >>
    /\ lookups = [u \in Uids |-> 0]

-----------------------------------------------------------------------------
(* The kernel.                                                             *)

TimePasses ==
    /\ now < MaxTime
    /\ now' = now + 1
    /\ UNCHANGED <<skew, rings, offset, cache, records, lookups>>

\* NTP, or the operator, sets the wall clock.
Step ==
    /\ skew' \in Skews
    /\ UNCHANGED <<now, rings, offset, cache, records, lookups>>

Posted == Len(records) + MapThenSumSet(LAMBDA i : Len(rings[i]), Instances)

Busy == [type |-> "busy"]

\* bpf_ringbuf_reserve(): a place in the ring, with nothing in it yet.
Reserve(i) ==
    /\ Posted < MaxEvents
    /\ rings' = [rings EXCEPT ![i] = Append(@, Busy)]
    /\ UNCHANGED <<now, skew, offset, cache, records, lookups>>

\* What the instance's program may have to tell; `end` is what the kernel packs
\* into the task's exit_code.
Seen(i) ==
    IF PluginOf[i] = "oom"
    THEN [type : {"oom_kill"}, ts : {now}, uid : Uids, end : {None}]
    ELSE [type : {"exec"}, ts : {now}, uid : Uids, end : {None}]
            \cup [type : {"exit"}, ts : {now}, uid : Uids, end : Ends]

\* The rest of emit() or on_mark_victim().  The time is taken after the
\* reservation, so events of two CPUs may be stamped in the other order.
Submit(i) ==
    /\ \E k \in DOMAIN rings[i], e \in Seen(i) :
          /\ rings[i][k] = Busy
          /\ rings' = [rings EXCEPT ![i][k] = e]
    /\ UNCHANGED <<now, skew, offset, cache, records, lookups>>

\* The status in the high byte, the core flag and the signal below it.
ExitCode(end) == end.status * 256 + end.core * 128 + end.signal

-----------------------------------------------------------------------------
(* Translation.                                                            *)

\* What every record is given: the plugin's name, the time, user and kind of the
\* event, and what was measured.  The event is kept as a history, and the user's
\* name is empty.
Copied(plugin, e, measured) ==
    [probe |-> plugin, ts |-> e.ts, uid |-> e.uid, event |-> e.type, user |-> None,
     value |-> measured.value, signal |-> measured.signal, source |-> e, from |-> None]

Counted == [value |-> 1, signal |-> 0]

\* Slip: the core flag read as part of the signal.
ExitWithCore(code) == [value |-> (code \div 256) % 256, signal |-> code % 256]

\* (exit_code >> 8) & 0xff and exit_code & 0x7f; no signal attribute for 0.
Exit(code) == [value |-> (code \div 256) % 256, signal |-> code % 128]

\* Slip: an event type the switch does not know.
TranslateExecOnly(plugin, e) ==
    IF e.type = "exit" THEN {} ELSE {Copied(plugin, e, Counted)}

\* translate(): one record, or none for a type the probe does not know.
Translate(plugin, e) ==
    CASE plugin = "proc_lifecycle" /\ e.type = "exec" -> {Copied(plugin, e, Counted)}
      [] plugin = "proc_lifecycle" /\ e.type = "exit" -> {Copied(plugin, e, Exit(ExitCode(e.end)))}
      [] plugin = "oom" /\ e.type = "oom_kill" -> {Copied(plugin, e, Counted)}
      [] OTHER -> {}

-----------------------------------------------------------------------------
(* The pipeline.                                                           *)

\* Slip: sampled again for every event.
BootOffsetFresh == skew

\* boot_offset_ns(), sampled on its first use.
BootOffset == IF offset = None THEN skew ELSE offset

\* The bootstrap scan may have been the first to use it (created_from_ctime).
ScanSamples ==
    /\ offset = None
    /\ records = << >>
    /\ offset' = skew
    /\ UNCHANGED <<now, skew, rings, cache, records, lookups>>

\* Slip: only names are kept.
LookupNamesKept(u, name) ==
    IF u \in DOMAIN cache
    THEN name = cache[u] /\ UNCHANGED <<cache, lookups>>
    ELSE /\ cache' = IF name = None THEN cache
                     ELSE [v \in DOMAIN cache \cup {u} |-> IF v = u THEN name ELSE cache[v]]
         /\ lookups' = [lookups EXCEPT ![u] = @ + 1]

\* lookup_user(): getpwuid_r() may know a name, know none, or fail; each outcome
\* is kept for good.
Lookup(u, name) ==
    IF u \in DOMAIN cache
    THEN name = cache[u] /\ UNCHANGED <<cache, lookups>>
    ELSE /\ cache' = [v \in DOMAIN cache \cup {u} |-> IF v = u THEN name ELSE cache[v]]
         /\ lookups' = [lookups EXCEPT ![u] = @ + 1]

\* InstanceEmitter: the id the instance was given wins; `from` is history.
Stamped(r, i) == [r EXCEPT !.probe = i, !.from = i]

\* enrich(), but for the job.
Enriched(r, name) == [r EXCEPT !.ts = @ + BootOffset, !.user = name]

\* The event loop takes the oldest event of a ring, unless it is not submitted.
Consume(i) ==
    /\ rings[i] # << >> /\ Head(rings[i]) # Busy
    /\ rings' = [rings EXCEPT ![i] = Tail(@)]
    /\ LET e == Head(rings[i])
       IN  \/ \E r \in Translate(PluginOf[i], e), name \in Names \cup {None} :
                 /\ Lookup(e.uid, name)
                 /\ records' = Append(records, Enriched(Stamped(r, i), name))
                 /\ offset' = BootOffset
          \/ /\ Translate(PluginOf[i], e) = {}
             /\ UNCHANGED <<offset, cache, records, lookups>>
    /\ UNCHANGED <<now, skew>>

Finished == Len(records) = MaxEvents /\ UNCHANGED vars

Next ==
    \/ TimePasses \/ Step \/ ScanSamples \/ Finished
    \/ \E i \in Instances : Reserve(i) \/ Submit(i) \/ Consume(i)

\* A BPF program that has a place runs to its end, and the poll comes round to
\* every ring.
Spec ==
    /\ Init /\ [][Next]_vars
    /\ \A i \in Instances : WF_vars(Submit(i)) /\ WF_vars(Consume(i))

-----------------------------------------------------------------------------
(* Properties.                                                             *)

TypeOK ==
    /\ now \in 0..MaxTime
    /\ skew \in Skews
    /\ offset \in Skews \cup {None}
    /\ \A i \in Instances : \A k \in DOMAIN rings[i] :
          rings[i][k] = Busy \/ rings[i][k].ts \in 0..now
    /\ DOMAIN cache \subseteq Uids
    /\ \A u \in DOMAIN cache : cache[u] \in Names \cup {None}
    /\ \A k \in DOMAIN records : records[k].value \in 0..255 /\ records[k].signal \in 0..127
    /\ lookups \in [Uids -> Nat]

\* "Re-sampling per event would let NTP steps show up as non-monotonic record
\* timestamps within a single job" (clock.h): two records are as far apart in
\* wall time as their events were, in whatever order they were stamped, read
\* and enriched, and however the clock was set in between.
WallKeepsDistance ==
    \A j, k \in DOMAIN records :
        records[j].ts - records[k].ts = records[j].source.ts - records[k].source.ts

\* A user is looked up once, "a uid with no passwd entry does not hit NSS on
\* every single event" (pipeline.cpp), and so has one name, or none, in all the
\* records there are, whatever the user database answered when.
OneName ==
    /\ TypeOK
    /\ \A u \in Uids : lookups[u] <= 1
    /\ \A j, k \in DOMAIN records :
          records[j].uid = records[k].uid => records[j].user = records[k].user

\* A record tells which instance saw what: two instances of one plugin are told
\* apart (InstanceEmitter), and the status and the signal are those the process
\* ended with, with or without a core dump.
RecordTells ==
    \A k \in DOMAIN records :
        LET r == records[k]
        IN  /\ r.probe = r.from
            /\ r.event = r.source.type /\ r.uid = r.source.uid
            /\ r.event = "exit" => /\ r.value = r.source.end.status
                                   /\ r.signal = r.source.end.signal

\* An event that got a place in a ring becomes a record, although the events
\* after it wait for the oldest to be submitted.
EveryEventRecorded == \A n \in 1..MaxEvents : Posted >= n ~> Len(records) >= n
=============================================================================
