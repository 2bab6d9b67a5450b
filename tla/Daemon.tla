------------------------------- MODULE Daemon -------------------------------
(***************************************************************************)
(* The daemon's one thread: start, the poll loop, reload on SIGHUP and     *)
(* shutdown (core/daemon.cpp), with the state it shares out: the plugin    *)
(* loader's handles (core/plugin_loader.cpp), the event loop's bindings    *)
(* (core/event_loop.cpp) and the pipeline's sink pointers.  Every call     *)
(* that can fail does so at any time.  Signals and edits of the            *)
(* configuration file come between any two steps.  What a file says is     *)
(* Config's.                                                               *)
(*                                                                         *)
(* Adding or removing a component is a script of calls, run one at a time, *)
(* so that the pointers other parts hold can be looked at after each call. *)
(* A component is an instance id; probes and sinks have different ids here,*)
(* as they have different maps in the code.                                *)
(***************************************************************************)
EXTENDS Config, Sequences, FiniteSets

CONSTANTS Probes, Sinks,   \* instance ids, by kind
          Plugins,         \* plugin names
          None,            \* no plugin: a component that is absent
          Watcher,         \* the cgroup watcher, built in and no plugin
          Files,           \* the contents an operator may give the file, by name
          MaxEdits         \* bound on the edits of the file in one behaviour

Comps == Probes \cup Sinks

\* The plugin a configuration builds a component from, or None.
Chosen(conf, c) ==
    LET components == IF c \in Probes THEN conf.probes ELSE conf.sinks
    IN  IF Has(components, c) THEN PluginOf(c, components[c]) ELSE None

\* The configurations of these components and plugins.
WellFormed(conf) ==
    /\ DOMAIN conf.probes \subseteq Probes
    /\ DOMAIN conf.sinks \subseteq Sinks
    /\ \A c \in DOMAIN conf.probes : PluginOf(c, conf.probes[c]) \in Plugins
    /\ \A c \in DOMAIN conf.sinks : PluginOf(c, conf.sinks[c]) \in Plugins

\* What load_config_file() returns for each file; None is its nullopt.
Loaded == [f \in DOMAIN Files |-> IF Loads(Files[f]) THEN LoadConfigFile(Files[f]) ELSE None]

ASSUME DaemonAssumption ==
    /\ \A f \in DOMAIN Files : Loaded[f] # None => WellFormed(Loaded[f])
    /\ None \notin Plugins
    /\ Watcher \notin Comps
    /\ Probes \cap Sinks = {}
    /\ IsFiniteSet(Probes) /\ IsFiniteSet(Sinks)
    /\ MaxEdits \in Nat

VARIABLES at,        \* where the thread is in start(), run() or the destructor
          config,    \* config_
          file,      \* the configuration file
          plan,      \* what start() or reload_config() has still to remove and add
          script,    \* calls left of the component being added or removed
          dead,      \* probes remove() reported as dropped, not yet dealt with
          handles,   \* probe_handles_ and sink_handles_, by plugin opened
          refs,      \* the dynamic linker's reference count of each plugin
          alive,     \* the component objects that exist, by plugin built from
          running,   \* the ids in probes_ and sinks_
          attached,  \* probes whose BPF programs are attached
          bound,     \* bindings_: probes whose ring buffer is polled
          wired,     \* the pipeline's sink pointers
          stop, reload,              \* g_stop, g_reload
          version, asked, lastRead,  \* history: edits so far, at the last SIGHUP, at the last read
          applied                    \* history: the file config_ was last taken from

compVars == <<dead, handles, refs, alive, running, attached, bound, wired>>
envVars  == <<file, stop, reload, version, asked, lastRead, applied>>
vars == <<at, config, file, plan, script, dead, handles, refs, alive, running, attached,
          bound, wired, stop, reload, version, asked, lastRead, applied>>

\* A Config nobody has set anything in: main() without --config.
Unset == [general |-> Default, probes |-> << >>, sinks |-> << >>]

\* main() has parsed its arguments, loaded the file if one was named (it gives
\* up if that fails), set the signal handlers and constructed the daemon.
Init ==
    /\ at = "start"
    /\ file \in {f \in DOMAIN Files : Loaded[f] # None}
    /\ applied = file
    /\ config \in {Loaded[file], Unset}
    /\ plan = [rmSinks |-> {}, addSinks |-> DOMAIN config.sinks,
               rmProbes |-> {}, addProbes |-> DOMAIN config.probes,
               next |-> config]
    /\ script = << >>
    /\ dead = {}
    /\ handles = [c \in Comps |-> None]
    /\ refs = [p \in Plugins |-> 0]
    /\ alive = [c \in Comps |-> None]
    /\ running = {}
    /\ attached = {}
    /\ bound = {}
    /\ wired = {}
    /\ stop = FALSE
    /\ reload = FALSE
    /\ version = 0
    /\ asked = 0
    /\ lastRead = 0

-----------------------------------------------------------------------------
(* The operator and the signal handlers.                                   *)

Edit ==
    /\ version < MaxEdits
    /\ version' = version + 1
    /\ file' \in DOMAIN Files
    /\ UNCHANGED <<at, config, plan, script, compVars, stop, reload, asked, lastRead, applied>>

Sighup ==
    /\ reload' = TRUE
    /\ asked' = version
    /\ UNCHANGED <<at, config, file, plan, script, compVars, stop, version, lastRead, applied>>

Sigterm ==
    /\ stop' = TRUE
    /\ UNCHANGED <<at, config, file, plan, script, compVars, reload, version, asked, lastRead, applied>>

-----------------------------------------------------------------------------
(* Calls of a script.  A call takes itself off the script and may put the  *)
(* calls that follow from its outcome in front of the rest.                *)

Calling(call, c) == script # << >> /\ Head(script) = <<call, c>>
Continue(calls)  == script' = calls \o Tail(script)

\* PluginLoader::load_probe, load_sink: open_plugin()'s dlopen().  The handle is
\* open_plugin()'s own until the component is built, then the map's.
Load(c) ==
    LET p == Chosen(plan.next, c)
    IN  /\ Calling("load", c)
        /\ \/ /\ handles' = [handles EXCEPT ![c] = p]
              /\ refs' = [refs EXCEPT ![p] = @ + 1]
              /\ Continue(<< <<"build", c>> >>)
           \/ /\ Continue(<< >>)
              /\ UNCHANGED <<handles, refs>>
        /\ UNCHANGED <<dead, alive, running, attached, bound, wired>>

\* Slip: an early return of open_plugin() that forgets dlclose().
BuildFailsOpen(c) ==
    /\ handles' = [handles EXCEPT ![c] = None]
    /\ Continue(<< >>)

\* No entry point, another name registered, or no object from the factory: each
\* of the three returns closes the handle again.
BuildFails(c) ==
    /\ Continue(<< <<"unload", c>> >>)
    /\ UNCHANGED handles

\* The rest of open_plugin(): dlsym, registry, factory.  If one fails the
\* component is not added.
Build(c) ==
    /\ Calling("build", c)
    /\ \/ /\ alive' = [alive EXCEPT ![c] = Chosen(plan.next, c)]
          /\ Continue(<< <<IF c \in Probes THEN "start" ELSE "enlist", c>> >>)
          /\ UNCHANGED handles
       \/ /\ BuildFails(c)
          /\ UNCHANGED alive
    /\ UNCHANGED <<dead, refs, running, attached, bound, wired>>

\* What add_probe() does with a probe that does not open, load or attach.
NotStarted(c) == << <<"destroy", c>>, <<"unload", c>> >>

\* Probe open(), load(), attach() in add_probe().
StartProbe(c) ==
    /\ Calling("start", c)
    /\ \/ /\ attached' = attached \cup {c}
          /\ Continue(<< <<"arm", c>> >>)
       \/ /\ Continue(NotStarted(c))
          /\ UNCHANGED attached
    /\ UNCHANGED <<dead, handles, refs, alive, running, bound, wired>>

\* EventLoop::add in add_probe(); a probe that cannot be armed is taken down.
Arm(c) ==
    /\ Calling("arm", c)
    /\ \/ /\ bound' = bound \cup {c}
          /\ Continue(<< <<"enlist", c>> >>)
       \/ /\ Continue(<< <<"detach", c>>, <<"destroy", c>>, <<"unload", c>> >>)
          /\ UNCHANGED bound
    /\ UNCHANGED <<dead, handles, refs, alive, running, attached, wired>>

\* push_back to probes_ or sinks_; a sink is then wired, once there is a
\* pipeline.
Enlist(c) ==
    /\ Calling("enlist", c)
    /\ running' = running \cup {c}
    /\ Continue(IF c \in Sinks /\ at # "startSinks" THEN << <<"wire", c>> >> ELSE << >>)
    /\ UNCHANGED <<dead, handles, refs, alive, attached, bound, wired>>

\* Slip: nobody looks at what remove() returns.
CasualtiesIgnored(lost) == {}

\* The dropped probes that remove_probe() finds: it looks in probes_ only.
Casualties(lost) == lost \cap running

\* EventLoop::remove: the shared ring buffer is freed and rebuilt from the
\* other bindings, any of which may fail to re-arm and is dropped with it.
Disarm(c) ==
    /\ Calling("disarm", c)
    /\ \E lost \in IF c \in bound THEN SUBSET (bound \ {c}) ELSE {{}} :
          /\ bound' = bound \ (lost \cup {c})
          /\ dead' = Casualties(lost)
    /\ Continue(<< >>)
    /\ UNCHANGED <<handles, refs, alive, running, attached, wired>>

Detach(c) ==
    /\ Calling("detach", c)
    /\ attached' = attached \ {c}
    /\ Continue(<< >>)
    /\ UNCHANGED <<dead, handles, refs, alive, running, bound, wired>>

\* sinks_.erase() with the sink itself moved out, in remove_sink().
Erase(c) ==
    /\ Calling("erase", c)
    /\ running' = running \ {c}
    /\ Continue(<< >>)
    /\ UNCHANGED <<dead, handles, refs, alive, attached, bound, wired>>

\* wire_sinks(): the pipeline points at the sinks in sinks_, and no other.
Wire(c) ==
    /\ Calling("wire", c)
    /\ wired' = running \cap Sinks
    /\ Continue(<< >>)
    /\ UNCHANGED <<dead, handles, refs, alive, running, attached, bound>>

\* doomed->flush(); that it returns is SinkContract's FlushReturn.
Flush(c) ==
    /\ Calling("flush", c)
    /\ Continue(<< >>)
    /\ UNCHANGED compVars

\* probes_.erase(), probe.reset() or doomed.reset(): the destructor runs.
Destroy(c) ==
    /\ Calling("destroy", c)
    /\ alive' = [alive EXCEPT ![c] = None]
    /\ running' = running \ {c}
    /\ attached' = attached \ {c}
    /\ Continue(<< >>)
    /\ UNCHANGED <<dead, handles, refs, bound, wired>>

\* PluginLoader::unload_probe, unload_sink: close_handle(); or open_plugin()'s own
\* dlclose().
Unload(c) ==
    /\ Calling("unload", c)
    /\ IF handles[c] = None
       THEN UNCHANGED <<handles, refs>>
       ELSE /\ refs' = [refs EXCEPT ![handles[c]] = @ - 1]
            /\ handles' = [handles EXCEPT ![c] = None]
    /\ Continue(<< >>)
    /\ UNCHANGED <<dead, alive, running, attached, bound, wired>>

Call(c) ==
    /\ \/ Load(c) \/ Build(c) \/ StartProbe(c) \/ Arm(c) \/ Enlist(c)
       \/ Disarm(c) \/ Detach(c)
       \/ Erase(c) \/ Wire(c) \/ Flush(c)
       \/ Destroy(c) \/ Unload(c)
    /\ UNCHANGED <<at, config, plan, envVars>>

-----------------------------------------------------------------------------
(* Which component is next: sinks before probes, removals before           *)
(* additions.  The order within one list is the map's and does not matter. *)

Idle == script = << >> /\ dead = {}

\* Slip: the pipeline told after the fact.
RemoveSinkWiresLast(c) ==
    << <<"erase", c>>, <<"flush", c>>, <<"destroy", c>>, <<"wire", c>>, <<"unload", c>> >>

\* remove_sink(), past the early return for an id that is not running.
RemoveSinkCalls(c) ==
    << <<"erase", c>>, <<"wire", c>>, <<"flush", c>>, <<"destroy", c>>, <<"unload", c>> >>

\* remove_probe() likewise, up to the loop over the probes that were dropped.
RemoveProbeCalls(c) ==
    << <<"disarm", c>>, <<"detach", c>>, <<"destroy", c>>, <<"unload", c>> >>

RemoveSink(c) ==
    /\ at = "apply" /\ Idle
    /\ c \in plan.rmSinks
    /\ plan' = [plan EXCEPT !.rmSinks = @ \ {c}]
    /\ script' = IF c \in running THEN RemoveSinkCalls(c) ELSE << >>
    /\ UNCHANGED <<at, config, compVars, envVars>>

AddSink(c) ==
    /\ at \in {"startSinks", "apply"} /\ Idle
    /\ plan.rmSinks = {}
    /\ c \in plan.addSinks
    /\ plan' = [plan EXCEPT !.addSinks = @ \ {c}]
    /\ script' = << <<"load", c>> >>
    /\ UNCHANGED <<at, config, compVars, envVars>>

RemoveProbe(c) ==
    /\ at = "apply" /\ Idle
    /\ plan.rmSinks = {} /\ plan.addSinks = {}
    /\ c \in plan.rmProbes
    /\ plan' = [plan EXCEPT !.rmProbes = @ \ {c}]
    /\ script' = IF c \in running THEN RemoveProbeCalls(c) ELSE << >>
    /\ UNCHANGED <<at, config, compVars, envVars>>

AddProbe(c) ==
    /\ at \in {"startProbes", "apply"} /\ Idle
    /\ plan.rmSinks = {} /\ plan.addSinks = {} /\ plan.rmProbes = {}
    /\ c \in plan.addProbes
    /\ plan' = [plan EXCEPT !.addProbes = @ \ {c}]
    /\ script' = << <<"load", c>> >>
    /\ UNCHANGED <<at, config, compVars, envVars>>

\* The loop at the end of remove_probe(), one dropped probe at a time.
BuryDead(c) ==
    /\ script = << >>
    /\ c \in dead
    /\ dead' = dead \ {c}
    /\ script' = << <<"detach", c>>, <<"destroy", c>>, <<"unload", c>> >>
    /\ UNCHANGED <<at, config, plan, handles, refs, alive, running, attached, bound,
                   wired, envVars>>

-----------------------------------------------------------------------------
(* Daemon::start.                                                          *)

\* The first checks: a plugin_dir, a cgroup root, a bootstrap scan that works.
\* Without --config there is no plugin_dir, so whatever runs has a file.
Prepare ==
    /\ at = "start"
    /\ \/ at' = "startSinks" /\ config.general.plugin_dir # Word("")
       \/ at' = "exit"
    /\ UNCHANGED <<config, plan, script, compVars, envVars>>

\* All configured sinks tried: build the pipeline and wire it, or give up.
SinksStarted ==
    /\ at = "startSinks" /\ Idle
    /\ plan.addSinks = {}
    /\ IF running \cap Sinks = {}
       THEN at' = "exit" /\ UNCHANGED wired
       ELSE at' = "startWatcher" /\ wired' = running \cap Sinks
    /\ UNCHANGED <<config, plan, script, dead, handles, refs, alive, running, attached,
                   bound, envVars>>

\* start_cgroup_watcher(): attached and polled, or start() fails.
StartWatcher ==
    /\ at = "startWatcher"
    /\ \/ /\ attached' = attached \cup {Watcher}
          /\ bound' = bound \cup {Watcher}
          /\ at' = "startProbes"
       \/ /\ at' = "exit"
          /\ UNCHANGED <<attached, bound>>
    /\ UNCHANGED <<config, plan, script, dead, handles, refs, alive, running, wired, envVars>>

ProbesStarted ==
    /\ at = "startProbes" /\ Idle
    /\ plan.addProbes = {}
    /\ at' = IF running \cap Probes = {} THEN "exit" ELSE "poll"
    /\ UNCHANGED <<config, plan, script, compVars, envVars>>

-----------------------------------------------------------------------------
(* Daemon::run and reload_config.                                          *)

\* Slip: the loop does not look at g_stop.
PollRegardless ==
    /\ at = "poll"
    /\ at' \in {"ticked", "flush"}
    /\ UNCHANGED <<config, plan, script, compVars, envVars>>

\* One turn: poll, which ends the loop if it fails, and the two ticks.
PollOnce ==
    /\ at = "poll"
    /\ ~stop
    /\ at' \in {"ticked", "flush"}
    /\ UNCHANGED <<config, plan, script, compVars, envVars>>

SeeStop ==
    /\ at = "poll"
    /\ stop
    /\ at' = "flush"
    /\ UNCHANGED <<config, plan, script, compVars, envVars>>

\* if (reload != 0) ...
CheckReload ==
    /\ at = "ticked"
    /\ at' = IF reload THEN "clear" ELSE "poll"
    /\ UNCHANGED <<config, plan, script, compVars, envVars>>

\* ... reload = 0, before the file is read.
ClearReload ==
    /\ at = "clear"
    /\ reload' = FALSE
    /\ at' = "read"
    /\ UNCHANGED <<config, plan, script, compVars, file, stop, version, asked, lastRead, applied>>

\* Slip: everything restarted.
DiffersAlways(c, next) == TRUE

\* diff_components(): the id left, arrived, or names another plugin.
Differs(c, next) == Chosen(config, c) # Chosen(next, c)

DiffPlan(next) ==
    LET removed == {c \in Comps : Chosen(config, c) # None /\ Differs(c, next)}
        added   == {c \in Comps : Chosen(next, c) # None /\ Differs(c, next)}
    IN  [rmSinks |-> removed \cap Sinks, addSinks |-> added \cap Sinks,
         rmProbes |-> removed \cap Probes, addProbes |-> added \cap Probes,
         next |-> next]

\* diff_for_reload(): nothing outside "probes" and "sinks" has changed.
SameGeneral(next) == next.general = config.general

\* reload_config(): a file that does not load, or cannot be applied live, is
\* ignored whole.
ReadFile ==
    LET next == Loaded[file]
    IN  /\ at = "read"
        /\ lastRead' = version
        /\ IF next # None /\ SameGeneral(next)
           THEN at' = "apply" /\ plan' = DiffPlan(next) /\ applied' = file
           ELSE at' = "poll" /\ UNCHANGED <<plan, applied>>
        /\ UNCHANGED <<config, script, compVars, file, stop, reload, version, asked>>

NothingPlanned ==
    /\ plan.rmSinks = {} /\ plan.addSinks = {}
    /\ plan.rmProbes = {} /\ plan.addProbes = {}

\* Slip: `reload = 0` after reload_config().
AppliedThenClear ==
    /\ at = "apply" /\ Idle
    /\ NothingPlanned
    /\ config' = [config EXCEPT !.probes = plan.next.probes, !.sinks = plan.next.sinks]
    /\ at' = "poll"
    /\ reload' = FALSE
    /\ UNCHANGED <<plan, script, compVars, file, stop, version, asked, lastRead, applied>>

\* Everything removed and added: config_ becomes what was asked for, whether or
\* not it could be added.
Applied ==
    /\ at = "apply" /\ Idle
    /\ NothingPlanned
    /\ config' = [config EXCEPT !.probes = plan.next.probes, !.sinks = plan.next.sinks]
    /\ at' = "poll"
    /\ UNCHANGED <<plan, script, compVars, envVars>>

\* pipeline_->flush() and report_shutdown() after the loop.
FinalFlush ==
    /\ at = "flush"
    /\ at' = "exit"
    /\ UNCHANGED <<config, plan, script, compVars, envVars>>

-----------------------------------------------------------------------------
(* ~Daemon: detach everything, then the members in reverse order of their  *)
(* declaration: loop_, pipeline_, probes_, sinks_, ..., loader_.           *)

DetachAll ==
    /\ at = "exit"
    /\ attached' = attached \ ({Watcher} \cup running)
    /\ at' = "freeLoop"
    /\ UNCHANGED <<config, plan, script, dead, handles, refs, alive, running, bound,
                   wired, envVars>>

FreeLoop ==
    /\ at = "freeLoop"
    /\ bound' = {}
    /\ at' = "freePipeline"
    /\ UNCHANGED <<config, plan, script, dead, handles, refs, alive, running, attached,
                   wired, envVars>>

FreePipeline ==
    /\ at = "freePipeline"
    /\ wired' = {}
    /\ at' = "freeProbes"
    /\ UNCHANGED <<config, plan, script, dead, handles, refs, alive, running, attached,
                   bound, envVars>>

FreeMembers(kind, from, to) ==
    /\ at = from
    /\ alive' = [c \in Comps |-> IF c \in kind \cap running THEN None ELSE alive[c]]
    /\ running' = running \ kind
    /\ at' = to
    /\ UNCHANGED <<config, plan, script, dead, handles, refs, attached, bound, wired, envVars>>

FreeProbes == FreeMembers(Probes, "freeProbes", "freeSinks")
FreeSinks  == FreeMembers(Sinks, "freeSinks", "exited")

Exited == at = "exited" /\ UNCHANGED vars

DaemonStep ==
    \/ \E c \in Comps : Call(c)
    \/ \E c \in Sinks : RemoveSink(c) \/ AddSink(c)
    \/ \E c \in Probes : RemoveProbe(c) \/ AddProbe(c) \/ BuryDead(c)
    \/ Prepare \/ SinksStarted \/ StartWatcher \/ ProbesStarted
    \/ PollOnce \/ SeeStop
    \/ CheckReload \/ ClearReload \/ ReadFile \/ Applied
    \/ FinalFlush
    \/ DetachAll \/ FreeLoop \/ FreePipeline \/ FreeProbes \/ FreeSinks

Next == Edit \/ Sighup \/ Sigterm \/ DaemonStep \/ Exited

\* The daemon's thread keeps running: no call of it blocks for ever, flush()
\* included (SinkContract).  Signals and edits are never owed.
Spec == Init /\ [][Next]_vars /\ WF_vars(DaemonStep)

-----------------------------------------------------------------------------
(* Properties.                                                             *)

TypeOK ==
    /\ at \in {"start", "startSinks", "startWatcher", "startProbes", "poll", "ticked", "clear",
               "read", "apply", "flush", "exit", "freeLoop", "freePipeline",
               "freeProbes", "freeSinks", "exited"}
    /\ WellFormed(config) /\ DOMAIN config.general = DOMAIN Default
    /\ {file, applied} \subseteq DOMAIN Files
    /\ WellFormed(plan.next)
    /\ plan.rmSinks \subseteq Sinks /\ plan.addSinks \subseteq DOMAIN plan.next.sinks
    /\ plan.rmProbes \subseteq Probes /\ plan.addProbes \subseteq DOMAIN plan.next.probes
    /\ dead \subseteq Probes
    /\ handles \in [Comps -> Plugins \cup {None}]
    /\ refs \in [Plugins -> Nat]
    /\ alive \in [Comps -> Plugins \cup {None}]
    /\ running \subseteq Comps
    /\ attached \subseteq Probes \cup {Watcher}
    /\ bound \subseteq Probes \cup {Watcher}
    /\ wired \subseteq Sinks
    /\ stop \in BOOLEAN
    /\ reload \in BOOLEAN
    /\ version \in 0..MaxEdits
    /\ asked \in 0..MaxEdits
    /\ lastRead \in 0..MaxEdits

Exists(c) == alive[c] # None

\* After every single call, the sinks the pipeline points at and the probes the
\* event loop would dispatch to exist, and the code of all that exists is mapped:
\* no reload, failure or shutdown leaves a dangling pointer, and "a component is
\* destroyed before its plugin is unmapped" (DESIGN.md, section 5), also when
\* several instances share the plugin.
NoDangling ==
    /\ TypeOK
    /\ \A c \in wired \cup (bound \ {Watcher}) : Exists(c)
    /\ \A c \in Comps : Exists(c) => refs[alive[c]] > 0

\* "Each unload gives back exactly the reference its load took"
\* (plugin_loader.h): the dynamic linker's count of a plugin is the number of
\* instances that hold a handle, on the failure paths too.
RefsBalanced ==
    \A p \in Plugins : refs[p] = Cardinality({c \in Comps : handles[c] = p})

\* Between reloads what runs is what the accepted configuration names, built from
\* the plugin it names, and nothing else is there: no object and no handle of a
\* component that failed, was removed or was dropped, and no "zombie
\* indistinguishable from a healthy probe" (event_loop.cpp) that is attached and
\* not polled, no matter which ring buffers failed to re-arm.
RunningAsConfigured ==
    at = "poll" =>
        /\ \A c \in running : alive[c] = Chosen(config, c)
        /\ \A c \in Comps : /\ Exists(c) <=> c \in running
                            /\ handles[c] = alive[c]
        /\ attached \cap Probes = bound \cap Probes

\* "Ids that stayed keep running untouched" (DESIGN.md, section 7): a reload
\* stops or rebuilds a sink only if the new file removes it or changes its
\* plugin.
StayingSinkUntouched ==
    [][\A c \in Sinks :
        (at = "apply" /\ Exists(c) /\ alive'[c] # alive[c])
            => Chosen(config, c) # Chosen(plan.next, c)]_vars

\* SIGTERM ends the daemon, from wherever it is, through its destructor.
StopHonoured == stop ~> at = "exited"

\* No SIGHUP is lost, whenever it and the edits come: the file is read at least
\* once after it, and so an edit made before it is seen, unless the daemon is
\* ending.
SighupServed ==
    \A v \in 1..MaxEdits : asked >= v ~> lastRead >= v \/ at = "exited"

\* What a document says of a component, read without the loader: "presence
\* means enabled" (config.h), unless it is "explicitly marked" otherwise.
Says(f, section, c) ==
    LET members == f.members[section].members[c].members
    IN  IF \/ section \notin DOMAIN f.members \/ c \notin DOMAIN f.members[section].members
           \/ "enabled" \in DOMAIN members /\ Stringify(members["enabled"]) \in Falses
        THEN None
        ELSE IF "plugin" \in DOMAIN members THEN Stringify(members["plugin"]) ELSE Word(c)

\* A reload takes a file whole or not at all: between reloads the configuration
\* in force is, component by component and in every general setting, one file
\* the operator wrote, although rejected files were read in between and a
\* reload assigns only part of config_.
InForceAsWritten ==
    at = "poll" =>
        /\ config.general = Loaded[applied].general
        /\ \A c \in Probes : Chosen(config, c) = Says(Files[applied], "probes", c)
        /\ \A c \in Sinks : Chosen(config, c) = Says(Files[applied], "sinks", c)
=============================================================================
