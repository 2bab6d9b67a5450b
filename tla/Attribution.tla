----------------------------- MODULE Attribution ----------------------------
(***************************************************************************)
(* How an event is given its job: the kernel's cgroups, the cgroup         *)
(* watcher's feed, the probes' events, and CgroupResolver's map            *)
(* (core/attribution).  The kernel creates and removes cgroups and posts   *)
(* events while the poll thread drains the ring buffers, one ring after    *)
(* the other, and expires entries after every poll.                        *)
(*                                                                         *)
(* A cgroup of this model is one incarnation of a directory: cgroups are   *)
(* numbered as they are created, and a later one may have the id (inode    *)
(* number) of an earlier one.  The number stands for the identity          *)
(* (job, step, task) the path spells, so "attributed to cgroup c" is       *)
(* "given c's job".                                                        *)
(***************************************************************************)
EXTENDS Integers, Sequences

CONSTANTS Ids,          \* cgroup ids (inode numbers) the kernel hands out
          Grace,        \* grace_ns
          Skew,         \* wall clock at the scan minus the clock that stamped ctime
          RingSize,     \* events a ring buffer holds
          MaxCgroups,   \* bound on the cgroups one behaviour creates
          MaxTime       \* bound on the clock

ASSUME AttributionAssumption ==
    /\ Grace \in Nat
    /\ Skew \in Int
    /\ RingSize \in Nat
    /\ MaxCgroups \in Nat
    /\ MaxTime \in Nat

VARIABLES cgroups,     \* every cgroup so far: its id, whether it is job work, its lifetime
          now,         \* CLOCK_MONOTONIC, read by kernel and daemon alike
          phase,       \* "boot", "scanned" (map filled, nothing attached), "running"
          entries,     \* entries_: what the resolver holds for each id
          watcherRing, \* the watcher's ring buffer
          probeRing,   \* the probes' ring buffer
          ready,       \* rings this poll has still to drain
          draining,    \* the ring being drained, or "none"
          polling,     \* TRUE inside ring_buffer__poll
          last,        \* the last event resolved: its cgroup, the answer, how it came about
          unseen       \* history: mkdirs and rmdirs of which no event was ever posted

kernelVars == <<cgroups, now, watcherRing, probeRing, unseen>>
loopVars   == <<ready, draining, polling>>
vars == <<cgroups, now, phase, entries, watcherRing, probeRing, ready, draining,
          polling, last, unseen>>

\* No entry; cgroup 0 does not exist.
NoEntry == [attr |-> 0, created |-> 0, removed |-> 0]

Cgroups  == 1..Len(cgroups)
Alive(c) == cgroups[c].died = 0
InUse(i) == \E c \in Cgroups : cgroups[c].id = i /\ Alive(c)

Init ==
    /\ cgroups = << >>
    /\ now = 0
    /\ phase = "boot"
    /\ entries = [i \in Ids |-> NoEntry]
    /\ watcherRing = << >>
    /\ probeRing = << >>
    /\ ready = {}
    /\ draining = "none"
    /\ polling = FALSE
    /\ last = [of |-> 0, as |-> 0, how |-> "none"]
    /\ unseen = {}

-----------------------------------------------------------------------------
(* The kernel.  Each operation takes time, so no two share a timestamp.    *)

\* emit() in cgroup_watcher.bpf.c, for operation op on cgroup c: an event if
\* the program is attached and the ring has room, otherwise nothing.
PostWatcher(op, c) ==
    IF phase = "running" /\ Len(watcherRing) < RingSize
    THEN /\ watcherRing' = Append(watcherRing, [op |-> op, cg |-> c, ts |-> now + 1])
         /\ UNCHANGED unseen
    ELSE /\ unseen' = unseen \cup {<<op, c>>}
         /\ UNCHANGED watcherRing

\* A cgroup appears, of a job or not (slurmstepd's own, a service's), under an
\* id nobody uses at the moment.
Mkdir(i, isJob) ==
    /\ now < MaxTime
    /\ Len(cgroups) < MaxCgroups
    /\ ~InUse(i)
    /\ now' = now + 1
    /\ cgroups' = Append(cgroups, [id |-> i, job |-> isJob, born |-> now + 1, died |-> 0])
    /\ PostWatcher("mkdir", Len(cgroups) + 1)
    /\ UNCHANGED <<phase, entries, probeRing, loopVars, last>>

Rmdir(c) ==
    /\ now < MaxTime
    /\ Alive(c)
    /\ now' = now + 1
    /\ cgroups' = [cgroups EXCEPT ![c].died = now + 1]
    /\ PostWatcher("rmdir", c)
    /\ UNCHANGED <<phase, entries, probeRing, loopVars, last>>

\* A process in cgroup c trips a probe (exec, exit, OOM kill); a full ring
\* loses the event.
Event(c) ==
    /\ now < MaxTime
    /\ phase = "running"
    /\ Alive(c)
    /\ Len(probeRing) < RingSize
    /\ now' = now + 1
    /\ probeRing' = Append(probeRing, [cg |-> c, ts |-> now + 1])
    /\ UNCHANGED <<cgroups, phase, entries, watcherRing, loopVars, last, unseen>>

TimePasses ==
    /\ now < MaxTime
    /\ now' = now + 1
    /\ UNCHANGED <<cgroups, phase, entries, watcherRing, probeRing, loopVars, last, unseen>>

-----------------------------------------------------------------------------
(* The resolver.                                                           *)

\* created_from_ctime(): the directory's wall-clock ctime brought back to the
\* monotonic clock with an offset sampled when the daemon starts.  A wall clock
\* that was stepped since the directory was made shifts the result by Skew.
CreatedFromCtime(c) == IF cgroups[c].born + Skew > 0 THEN cgroups[c].born + Skew ELSE 0

\* start(): the bootstrap scan enters every job directory it finds, add_dir()
\* skipping the rest.  The walk is one step: a directory that comes or goes
\* while it runs is as if it came or went just before or just after it.
Scan ==
    /\ phase = "boot"
    /\ phase' = "scanned"
    /\ entries' = [i \in Ids |->
          IF \E c \in Cgroups : cgroups[c].id = i /\ Alive(c) /\ cgroups[c].job
          THEN LET c == CHOOSE c \in Cgroups : cgroups[c].id = i /\ Alive(c)
               IN  [attr |-> c, created |-> CreatedFromCtime(c), removed |-> 0]
          ELSE NoEntry]
    /\ UNCHANGED <<kernelVars, loopVars, last>>

\* start_cgroup_watcher() and the probes after it: from here on the kernel
\* posts events.  Daemon::start loads the sinks between the scan and this.
Attach ==
    /\ phase = "scanned"
    /\ phase' = "running"
    /\ UNCHANGED <<kernelVars, entries, loopVars, last>>

\* Slip: the old entry's fields updated in place, its removal time kept.
OnCreatedInPlace(c, ts) ==
    LET i == cgroups[c].id
    IN  IF cgroups[c].job
        THEN entries' = [entries EXCEPT ![i].attr = c, ![i].created = ts]
        ELSE UNCHANGED entries

\* on_created(): a path that names no job is ignored, whatever the map holds
\* for its id; any other replaces the entry.
OnCreated(c, ts) ==
    LET i == cgroups[c].id
    IN  IF cgroups[c].job
        THEN entries' = [entries EXCEPT ![i] = [attr |-> c, created |-> ts, removed |-> 0]]
        ELSE UNCHANGED entries

\* on_removed(): the grace period starts, unless it already has.
OnRemoved(c, ts) ==
    LET i == cgroups[c].id
    IN  IF entries[i].attr # 0 /\ entries[i].removed = 0
        THEN entries' = [entries EXCEPT ![i].removed = ts]
        ELSE UNCHANGED entries

\* Slips: an entry that was never removed looks infinitely old; the grace
\* period is cut short by one.
ExpiredAlive(e) == e.attr # 0 /\ now - e.removed > Grace
ExpiredEarly(e) == e.attr # 0 /\ e.removed # 0 /\ now - e.removed >= Grace

\* The condition under which expire() erases an entry.
Expired(e) == e.attr # 0 /\ e.removed # 0 /\ now - e.removed > Grace

\* Slip: no inode-reuse guard.
AnswerUnguarded(i, ts) ==
    IF entries[i].attr = 0 THEN [as |-> 0, how |-> "miss"]
    ELSE [as |-> entries[i].attr, how |-> "hit"]

\* resolve(): the entry's identity, unless there is none or the event is older
\* than the entry.
Answer(i, ts) ==
    IF entries[i].attr = 0 THEN [as |-> 0, how |-> "miss"]
    ELSE IF ts # 0 /\ ts < entries[i].created THEN [as |-> 0, how |-> "stale"]
    ELSE [as |-> entries[i].attr, how |-> "hit"]

-----------------------------------------------------------------------------
(* The poll loop: ring_buffer__poll drains every ring epoll reported, in   *)
(* the order epoll reported them, each until it is empty; then tick().     *)

RingOf(r) == IF r = "watcher" THEN watcherRing ELSE probeRing

Poll ==
    /\ phase = "running"
    /\ ~polling
    /\ polling' = TRUE
    /\ ready' = {r \in {"watcher", "probe"} : RingOf(r) # << >>}
    /\ UNCHANGED <<kernelVars, phase, entries, draining, last>>

Drain(r) ==
    /\ polling
    /\ draining = "none"
    /\ r \in ready
    /\ draining' = r
    /\ ready' = ready \ {r}
    /\ UNCHANGED <<kernelVars, phase, entries, polling, last>>

Drained ==
    /\ draining # "none"
    /\ RingOf(draining) = << >>
    /\ draining' = "none"
    /\ UNCHANGED <<kernelVars, phase, entries, ready, polling, last>>

\* CgroupWatcher::on_event
ConsumeWatcher ==
    /\ draining = "watcher"
    /\ watcherRing # << >>
    /\ watcherRing' = Tail(watcherRing)
    /\ LET e == Head(watcherRing)
       IN  IF e.op = "mkdir" THEN OnCreated(e.cg, e.ts) ELSE OnRemoved(e.cg, e.ts)
    /\ UNCHANGED <<cgroups, now, phase, probeRing, loopVars, last, unseen>>

\* A probe's on_event, and Pipeline::enrich of the record it emits.
ConsumeProbe ==
    /\ draining = "probe"
    /\ probeRing # << >>
    /\ probeRing' = Tail(probeRing)
    /\ LET e == Head(probeRing)
           a == Answer(cgroups[e.cg].id, e.ts)
       IN  last' = [of |-> e.cg, as |-> a.as, how |-> a.how]
    /\ UNCHANGED <<cgroups, now, phase, entries, watcherRing, loopVars, unseen>>

\* CgroupResolver::tick, when the poll is over.
Tick ==
    /\ polling
    /\ draining = "none"
    /\ ready = {}
    /\ polling' = FALSE
    /\ entries' = [i \in Ids |-> IF Expired(entries[i]) THEN NoEntry ELSE entries[i]]
    /\ UNCHANGED <<kernelVars, phase, ready, draining, last>>

Next ==
    \/ \E i \in Ids, isJob \in BOOLEAN : Mkdir(i, isJob)
    \/ \E c \in Cgroups : Rmdir(c) \/ Event(c)
    \/ TimePasses
    \/ Scan
    \/ Attach
    \/ Poll
    \/ \E r \in {"watcher", "probe"} : Drain(r)
    \/ Drained
    \/ ConsumeWatcher
    \/ ConsumeProbe
    \/ Tick

Spec == Init /\ [][Next]_vars

-----------------------------------------------------------------------------
(* Properties.                                                             *)

EntryType == [attr : 0..Len(cgroups), created : Nat, removed : 0..now]

TypeOK ==
    /\ cgroups \in Seq([id : Ids, job : BOOLEAN, born : 1..now, died : 0..now])
    /\ Len(cgroups) <= MaxCgroups
    /\ now \in 0..MaxTime
    /\ phase \in {"boot", "scanned", "running"}
    /\ entries \in [Ids -> EntryType]
    /\ watcherRing \in Seq([op : {"mkdir", "rmdir"}, cg : Cgroups, ts : 1..now])
    /\ probeRing \in Seq([cg : Cgroups, ts : 1..now])
    /\ ready \subseteq {"watcher", "probe"}
    /\ draining \in {"none", "watcher", "probe"}
    /\ polling \in BOOLEAN
    /\ last \in [of : 0..Len(cgroups), as : 0..Len(cgroups),
                 how : {"none", "hit", "miss", "stale"}]
    /\ unseen \subseteq {"mkdir", "rmdir"} \X Cgroups

\* The event of c's creation, or of its removal, is still to be consumed.
Pending(op, c) ==
    \E k \in 1..Len(watcherRing) : watcherRing[k].op = op /\ watcherRing[k].cg = c

\* The inode-reuse guard: an event of a cgroup is never given the identity of a
\* cgroup created later under the same id, in whatever order the two rings are
\* drained.
NeverSuccessor == last.as <= last.of

\* Every job cgroup that exists is in the map under its own identity, or its
\* mkdir event is on its way, or no event was ever posted for it: expire() and
\* on_removed() never take the entry of a live cgroup.
LiveJobKnown ==
    \A c \in Cgroups :
        (phase # "boot" /\ Alive(c) /\ cgroups[c].job) =>
            \/ entries[cgroups[c].id].attr = c
            \/ Pending("mkdir", c)
            \/ <<"mkdir", c>> \in unseen

\* The grace period runs for the dead and for nobody else.  A removal of an
\* earlier cgroup of the same id cannot mark its successor; and no entry is
\* immortal: that of a cgroup that is gone is in its grace period, or its removal
\* is still to be consumed, or the kernel never told.
GraceForTheDead ==
    /\ TypeOK
    /\ \A i \in Ids :
          LET e == entries[i]
          IN  e.attr # 0 =>
                 IF Alive(e.attr)
                 THEN e.removed = 0
                 ELSE \/ e.removed # 0
                      \/ Pending("rmdir", e.attr)
                      \/ <<"rmdir", e.attr>> \in unseen

\* Events of a job resolve to it through the grace period: once the job's entry
\* was made and for as long as no later cgroup took its id, an event consumed
\* at most Grace after the cgroup's removal is attributed.
AttributedInGrace ==
    [][ConsumeProbe =>
        LET c == Head(probeRing).cg
        IN  (/\ cgroups[c].job
             /\ ~Pending("mkdir", c)
             /\ <<"mkdir", c>> \notin unseen
             /\ Alive(c) \/ now - cgroups[c].died <= Grace
             /\ \A d \in Cgroups : d > c => cgroups[d].id # cgroups[c].id)
            => last'.as = c]_vars

\* DESIGN.md, section 4, point 3: "a recycled cgroup id must not inherit the
\* previous job's identity".  Stated for a kernel feed without losses, and a
\* cgroup whose creation the resolver has already been told of.
RecycledIdNotInherited ==
    [][ConsumeProbe =>
        LET c == Head(probeRing).cg
        IN  (unseen = {} /\ ~Pending("mkdir", c)) => last'.as \in {0, c}]_vars

\* attribution.h: "by the time an event for a cgroup exists, that cgroup's entry
\* already does too".  Stated for a live job whose mkdir event was posted.
EntryBeforeEvent ==
    [][ConsumeProbe =>
        LET c == Head(probeRing).cg
        IN  (cgroups[c].job /\ Alive(c) /\ <<"mkdir", c>> \notin unseen)
            => entries[cgroups[c].id].attr # 0]_vars
=============================================================================
