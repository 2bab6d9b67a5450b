---------------------------- MODULE DaemonProofs ----------------------------
(***************************************************************************)
(* Safety of Daemon for every set of probes, sinks and plugins, any files  *)
(* an operator may write and any number of edits.  The invariants the runs *)
(* check say what holds of a component at rest.  IInv adds what holds of   *)
(* the one being worked on, by the calls left of its script (Stage), of    *)
(* the others meanwhile (Quiet), of the probes that were dropped (Dropped),*)
(* of the configuration and the plan (InForce, Planned), and of the        *)
(* pointers (Pointers) and counts (RefsBalanced) at every moment.          *)
(***************************************************************************)
EXTENDS Daemon, FiniteSetTheorems, SequenceTheorems, TLAPS

\* The configurations there are to run with.
Confs == {Unset} \cup {Loaded[f] : f \in {g \in DOMAIN Files : Loaded[g] # None}}

Starting == {"start", "startSinks", "startWatcher", "startProbes"}
Planning == Starting \cup {"apply"}
Polling  == {"poll", "ticked", "clear", "read"}
Ending   == {"flush", "exit", "freeLoop", "freePipeline", "freeProbes", "freeSinks", "exited"}

Removals  == plan.rmSinks \cup plan.rmProbes
Additions == plan.addSinks \cup plan.addProbes

\* The kinds of all that is not a configuration.
Types ==
    /\ at \in Planning \cup Polling \cup Ending
    /\ dead \subseteq Probes
    /\ handles \in [Comps -> Plugins \cup {None}]
    /\ refs \in [Plugins -> Nat]
    /\ alive \in [Comps -> Plugins \cup {None}]
    /\ running \subseteq Comps
    /\ attached \subseteq Probes \cup {Watcher}
    /\ bound \subseteq Probes \cup {Watcher}
    /\ wired \subseteq Sinks

History ==
    /\ stop \in BOOLEAN
    /\ reload \in BOOLEAN
    /\ version \in 0..MaxEdits
    /\ asked \in 0..MaxEdits
    /\ lastRead \in 0..MaxEdits

\* config_ is one file's, except on the way out of a daemon that had none.
InForce ==
    /\ file \in DOMAIN Files
    /\ applied \in DOMAIN Files /\ Loaded[applied] # None
    /\ config \in Confs
    /\ at = "start" => config \in {Loaded[applied], Unset}
    /\ at \in (Starting \ {"start"}) \cup Polling => config = Loaded[applied]
    /\ at \in Starting => plan.next = config
    /\ at = "apply" => plan.next = Loaded[applied] /\ config.general = plan.next.general

\* A reload removes only sinks that left or changed; start() removes nothing.
Planned ==
    /\ plan \in [rmSinks : SUBSET Sinks, addSinks : SUBSET Sinks,
                 rmProbes : SUBSET Probes, addProbes : SUBSET Probes, next : Confs]
    /\ plan.addSinks \subseteq DOMAIN plan.next.sinks
    /\ plan.addProbes \subseteq DOMAIN plan.next.probes
    /\ at \in Starting => Removals = {}
    /\ at = "apply" => \A c \in plan.rmSinks : Chosen(config, c) # Chosen(plan.next, c)

\* What exists has its plugin mapped, and what is pointed at exists.
Pointers ==
    /\ \A c \in Comps : Exists(c) => handles[c] = alive[c]
    /\ \A c \in running : Exists(c)
    /\ \A c \in wired \cup (bound \ {Watcher}) : Exists(c)

\* A running component is the one wanted, or is still to be removed.
AsWanted(c) ==
    IF at \in Planning
    THEN c \in Removals \/ (c \notin Additions /\ alive[c] = Chosen(plan.next, c))
    ELSE alive[c] = Chosen(config, c)

\* A component nobody works on.
Quiet(c) ==
    /\ handles[c] = alive[c]
    /\ Exists(c) => c \in running
    /\ c \in Probes => /\ c \in attached <=> c \in running
                       /\ c \in bound <=> c \in running /\ c \notin dead
    /\ c \in running => AsWanted(c)

\* The scripts there are, by the next call.
Only(call, c) == << <<call, c>> >>
ToDestroy(c)  == << <<"destroy", c>>, <<"unload", c>> >>
ToDetach(c)   == << <<"detach", c>>, <<"destroy", c>>, <<"unload", c>> >>
ToFlush(c)    == << <<"flush", c>>, <<"destroy", c>>, <<"unload", c>> >>
ToWire(c)     == << <<"wire", c>>, <<"flush", c>>, <<"destroy", c>>, <<"unload", c>> >>

\* Built for the configuration to come, and not yet listed.
New(c) ==
    /\ Exists(c) /\ alive[c] = Chosen(plan.next, c)
    /\ c \notin running
    /\ c \notin Additions

\* A reload takes a sink down only because it left or changed.
Leaves(c) == c \in Sinks /\ at = "apply" => Chosen(config, c) # Chosen(plan.next, c)

\* How far the component the script is about has come.
Stage(c) ==
    \/ /\ script = Only("load", c)
       /\ handles[c] = None /\ ~Exists(c) /\ c \notin running
       /\ c \notin attached
       /\ Chosen(plan.next, c) \in Plugins /\ c \notin Additions
    \/ /\ script = Only("build", c)
       /\ handles[c] = Chosen(plan.next, c) /\ ~Exists(c) /\ c \notin running
       /\ c \notin attached
       /\ Chosen(plan.next, c) \in Plugins /\ c \notin Additions
    \/ /\ script = Only("start", c)
       /\ c \in Probes /\ New(c) /\ c \notin attached /\ c \notin bound
    \/ /\ script = Only("arm", c)
       /\ c \in Probes /\ New(c) /\ c \in attached /\ c \notin bound
    \/ /\ script = Only("enlist", c)
       /\ New(c) /\ (c \in Probes => c \in attached /\ c \in bound)
    \/ /\ script = Only("wire", c)
       /\ c \in Sinks /\ Quiet(c)
    \/ /\ script = RemoveProbeCalls(c)
       /\ c \in Probes /\ dead = {} /\ at = "apply"
    \/ /\ script = ToDetach(c)
       /\ c \in Probes /\ c \notin bound
    \/ /\ script = RemoveSinkCalls(c)
       /\ c \in Sinks /\ Leaves(c)
    \/ /\ script = ToWire(c)
       /\ c \in Sinks /\ c \notin running /\ Leaves(c)
    \/ /\ script = ToFlush(c)
       /\ c \in Sinks /\ c \notin wired /\ Leaves(c)
    \/ /\ script = ToDestroy(c)
       /\ c \notin wired /\ c \notin bound /\ c \notin attached /\ Leaves(c)
    \/ /\ script = Only("unload", c)
       /\ ~Exists(c) /\ c \notin attached

About(c) == script # << >> /\ Head(script)[2] = c

Staged ==
    /\ script # << >> => at \in {"startSinks", "startProbes", "apply"} /\ \E c \in Comps : Stage(c)
    /\ at \notin Ending => \A c \in Comps : About(c) \/ Quiet(c)

\* Dropped probes are still listed, and wait for the script to end.
Dropped ==
    /\ dead # {} => at = "apply"
    /\ \A c \in dead : c \in running /\ ~About(c)

\* ~Daemon has let go of the pointers before it frees what they point at.
Unwound ==
    /\ at \in {"freePipeline", "freeProbes", "freeSinks", "exited"} => bound = {}
    /\ at \in {"freeProbes", "freeSinks", "exited"} => wired = {}

IInv ==
    /\ Types
    /\ History
    /\ InForce
    /\ Planned
    /\ RefsBalanced
    /\ Pointers
    /\ Staged
    /\ Dropped
    /\ Unwound

-----------------------------------------------------------------------------
(* The loader.                                                             *)

LEMMA LoadedIs ==
    ASSUME NEW f \in DOMAIN Files, Loaded[f] # None
    PROVE  Loads(Files[f]) /\ Loaded[f] = LoadConfigFile(Files[f])
BY DEF Loaded

LEMMA LoadedOrNot ==
    ASSUME NEW f \in DOMAIN Files, Loaded[f] # None
    PROVE  Loaded[f] \in Confs
BY DEF Confs

\* A configuration is three settings, made of the components and plugins there
\* are.
LEMMA ConfIs ==
    ASSUME NEW conf \in Confs
    PROVE  /\ conf = [general |-> conf.general, probes |-> conf.probes, sinks |-> conf.sinks]
           /\ WellFormed(conf)
           /\ DOMAIN conf.general = DOMAIN Default
<1>1. CASE conf = Unset
  <2>1. /\ conf.general = Default
        /\ conf.probes = << >> /\ conf.sinks = << >>
        /\ conf = [general |-> conf.general, probes |-> conf.probes, sinks |-> conf.sinks]
    BY <1>1 DEF Unset
  <2>2. DOMAIN conf.probes = {} /\ DOMAIN conf.sinks = {}
    BY <2>1
  <2> QED
    BY <2>1, <2>2 DEF WellFormed
<1>2. CASE \E f \in DOMAIN Files : Loaded[f] # None /\ conf = Loaded[f]
  <2>1. PICK f \in DOMAIN Files : Loaded[f] # None /\ conf = Loaded[f]
    BY <1>2
  <2>2. WellFormed(conf)
    BY <2>1, DaemonAssumption
  <2>3. conf = LoadConfigFile(Files[f])
    BY <2>1, LoadedIs
  <2>4. /\ conf = [general |-> conf.general, probes |-> conf.probes, sinks |-> conf.sinks]
        /\ conf.general = General(Section(Files[f], "node"), Section(Files[f], "slurm"))
    BY <2>3 DEF LoadConfigFile
  <2>5. DOMAIN conf.general = {"cluster", "node", "cgroup_root", "plugin_dir", "batch_size",
                               "flush_interval", "verbose"}
    BY <2>4 DEF General
  <2>6. DOMAIN Default = {"cluster", "node", "cgroup_root", "plugin_dir", "batch_size",
                          "flush_interval", "verbose"}
    BY DEF Default
  <2> QED
    BY <2>2, <2>4, <2>5, <2>6
<1> QED
  BY <1>1, <1>2 DEF Confs

\* The plugin of a component that is configured, and only of such a one.
LEMMA ChosenIs ==
    ASSUME NEW conf \in Confs, NEW c \in Comps
    PROVE  /\ Chosen(conf, c) \in Plugins \cup {None}
           /\ c \in Probes => (c \in DOMAIN conf.probes <=> Chosen(conf, c) # None)
           /\ c \in Sinks => (c \in DOMAIN conf.sinks <=> Chosen(conf, c) # None)
BY ConfIs, DaemonAssumption DEF Chosen, WellFormed, Has, Comps

\* Taking over the components of a configuration with the same general settings
\* gives that configuration.
LEMMA TakenOver ==
    ASSUME NEW old \in Confs, NEW new \in Confs, new.general = old.general
    PROVE  [old EXCEPT !.probes = new.probes, !.sinks = new.sinks] = new
<1>1. /\ old = [general |-> old.general, probes |-> old.probes, sinks |-> old.sinks]
      /\ new = [general |-> new.general, probes |-> new.probes, sinks |-> new.sinks]
  BY ConfIs
<1>2. PICK g, p, s, op, os :
        /\ g = old.general /\ op = old.probes /\ os = old.sinks
        /\ p = new.probes /\ s = new.sinks
  OBVIOUS
<1>3. old = [general |-> g, probes |-> op, sinks |-> os]
  BY <1>1, <1>2
<1>4. PICK mid : mid = [old EXCEPT !.probes = p]
  OBVIOUS
<1>5. mid = [general |-> g, probes |-> p, sinks |-> os]
  BY <1>3, <1>4
<1>6. [mid EXCEPT !.sinks = s] = [general |-> g, probes |-> p, sinks |-> s]
  BY <1>5
<1>7. new = [general |-> g, probes |-> p, sinks |-> s]
  BY <1>1, <1>2
<1>8. [old EXCEPT !.probes = new.probes, !.sinks = new.sinks] = [mid EXCEPT !.sinks = s]
  BY <1>2, <1>4
<1> QED
  BY <1>6, <1>7, <1>8

\* No text is both a yes and a no.
LEMMA YesOrNo == Trues \cap Falses = {}
BY DEF Trues, Falses, Word, Number, NoDigits

\* drop_disabled() drops what says so, and nothing else.
LEMMA DroppedIfDisabled ==
    ASSUME NEW settings
    PROVE  GetBool(settings, "enabled", TRUE)
               <=> ~("enabled" \in DOMAIN settings /\ settings["enabled"] \in Falses)
BY YesOrNo DEF GetBool, Has

\* What the loader makes of a section is what the section says of each
\* component.
LEMMA SectionSays ==
    ASSUME NEW root, NEW name \in {"probes", "sinks"}, NEW c, NEW components,
           components = DropDisabled(Components(Section(root, name)))
    PROVE  (IF Has(components, c) THEN PluginOf(c, components[c]) ELSE None)
               = Says(root, name, c)
<1>1. CASE ~Has(root.members, name)
  <2>1. Section(root, name).members = << >>
    BY <1>1 DEF Section, Obj
  <2>2. DOMAIN Components(Section(root, name)) = {}
    BY <2>1 DEF Components
  <2>3. ~Has(components, c)
    BY <2>2 DEF DropDisabled, Has
  <2> QED
    BY <1>1, <2>3 DEF Says, Has
<1>2. CASE Has(root.members, name)
  <2>1. PICK ids : ids = root.members[name].members
    OBVIOUS
  <2>2. Components(Section(root, name)) = [id \in DOMAIN ids |-> Texts(ids[id])]
    BY <1>2, <2>1 DEF Section, Components
  <2>3. Has(components, c)
          <=> c \in DOMAIN ids /\ GetBool(Texts(ids[c]), "enabled", TRUE)
    BY <2>2 DEF DropDisabled, Has
  <2>4. CASE c \notin DOMAIN ids
    BY <1>2, <2>1, <2>3, <2>4 DEF Says, Has
  <2>5. CASE c \in DOMAIN ids
    <3>1. PICK members : members = ids[c].members
      OBVIOUS
    <3>2. PICK texts : texts = [k \in DOMAIN members |-> Stringify(members[k])]
      OBVIOUS
    <3>3. Texts(ids[c]) = texts
      BY <3>1, <3>2 DEF Texts
    <3>4. Has(components, c)
            <=> ~("enabled" \in DOMAIN members /\ Stringify(members["enabled"]) \in Falses)
      BY <2>3, <2>5, <3>2, <3>3, DroppedIfDisabled
    <3>5. Has(components, c) => components[c] = texts
      BY <2>2, <3>3 DEF DropDisabled, Has
    <3>6. PluginOf(c, texts)
            = IF "plugin" \in DOMAIN members THEN Stringify(members["plugin"]) ELSE Word(c)
      BY <3>2 DEF PluginOf, Has
    <3>7. Says(root, name, c)
            = IF "enabled" \in DOMAIN members /\ Stringify(members["enabled"]) \in Falses
              THEN None
              ELSE IF "plugin" \in DOMAIN members THEN Stringify(members["plugin"])
                   ELSE Word(c)
      BY <1>2, <2>1, <2>5, <3>1 DEF Says, Has
    <3> QED
      BY <3>4, <3>5, <3>6, <3>7
  <2> QED
    BY <2>4, <2>5
<1> QED
  BY <1>1, <1>2

\* load_config_file() chooses for every component what the file says of it.
LEMMA LoadedSays ==
    ASSUME NEW f \in DOMAIN Files, Loaded[f] # None
    PROVE  /\ \A c \in Probes : Chosen(Loaded[f], c) = Says(Files[f], "probes", c)
           /\ \A c \in Sinks : Chosen(Loaded[f], c) = Says(Files[f], "sinks", c)
<1>1. /\ Loaded[f].probes = DropDisabled(Components(Section(Files[f], "probes")))
      /\ Loaded[f].sinks = DropDisabled(Components(Section(Files[f], "sinks")))
  <2>1. Loaded[f] = LoadConfigFile(Files[f])
    BY LoadedIs
  <2> QED
    BY <2>1 DEF LoadConfigFile
<1>2. ASSUME NEW c \in Probes PROVE Chosen(Loaded[f], c) = Says(Files[f], "probes", c)
  BY <1>1, SectionSays DEF Chosen
<1>3. ASSUME NEW c \in Sinks PROVE Chosen(Loaded[f], c) = Says(Files[f], "sinks", c)
  <2>1. c \notin Probes
    BY DaemonAssumption
  <2> QED
    BY <1>1, <2>1, SectionSays DEF Chosen
<1> QED
  BY <1>2, <1>3

-----------------------------------------------------------------------------
(* Scripts.                                                                *)

LEMMA Calls ==
    ASSUME NEW c
    PROVE  /\ \A call : /\ Only(call, c) # << >> /\ Head(Only(call, c)) = <<call, c>>
                        /\ Tail(Only(call, c)) = << >>
           /\ RemoveProbeCalls(c) # << >> /\ Head(RemoveProbeCalls(c)) = <<"disarm", c>>
           /\ Tail(RemoveProbeCalls(c)) = ToDetach(c)
           /\ ToDetach(c) # << >> /\ Head(ToDetach(c)) = <<"detach", c>>
           /\ Tail(ToDetach(c)) = ToDestroy(c)
           /\ RemoveSinkCalls(c) # << >> /\ Head(RemoveSinkCalls(c)) = <<"erase", c>>
           /\ Tail(RemoveSinkCalls(c)) = ToWire(c)
           /\ ToWire(c) # << >> /\ Head(ToWire(c)) = <<"wire", c>>
           /\ Tail(ToWire(c)) = ToFlush(c)
           /\ ToFlush(c) # << >> /\ Head(ToFlush(c)) = <<"flush", c>>
           /\ Tail(ToFlush(c)) = ToDestroy(c)
           /\ ToDestroy(c) # << >> /\ Head(ToDestroy(c)) = <<"destroy", c>>
           /\ Tail(ToDestroy(c)) = Only("unload", c)
<1>1. ASSUME NEW call
      PROVE  /\ Only(call, c) # << >> /\ Head(Only(call, c)) = <<call, c>>
             /\ Tail(Only(call, c)) = << >>
  BY DEF Only
<1>2. /\ RemoveProbeCalls(c) # << >> /\ Head(RemoveProbeCalls(c)) = <<"disarm", c>>
      /\ Tail(RemoveProbeCalls(c)) = ToDetach(c)
  BY DEF RemoveProbeCalls, ToDetach
<1>3. /\ ToDetach(c) # << >> /\ Head(ToDetach(c)) = <<"detach", c>>
      /\ Tail(ToDetach(c)) = ToDestroy(c)
  BY DEF ToDetach, ToDestroy
<1>4. /\ RemoveSinkCalls(c) # << >> /\ Head(RemoveSinkCalls(c)) = <<"erase", c>>
      /\ Tail(RemoveSinkCalls(c)) = ToWire(c)
  BY DEF RemoveSinkCalls, ToWire
<1>5. /\ ToWire(c) # << >> /\ Head(ToWire(c)) = <<"wire", c>> /\ Tail(ToWire(c)) = ToFlush(c)
  BY DEF ToWire, ToFlush
<1>6. /\ ToFlush(c) # << >> /\ Head(ToFlush(c)) = <<"flush", c>>
      /\ Tail(ToFlush(c)) = ToDestroy(c)
  BY DEF ToFlush, ToDestroy
<1>7. /\ ToDestroy(c) # << >> /\ Head(ToDestroy(c)) = <<"destroy", c>>
      /\ Tail(ToDestroy(c)) = Only("unload", c)
  BY DEF ToDestroy, Only
<1> QED
  BY <1>1, <1>2, <1>3, <1>4, <1>5, <1>6, <1>7

\* What Continue() may leave.
LEMMA Continued ==
    ASSUME NEW c
    PROVE  /\ \A call : Only(call, c) \o << >> = Only(call, c)
           /\ ToDestroy(c) \o << >> = ToDestroy(c)
           /\ ToDetach(c) \o << >> = ToDetach(c)
           /\ << >> \o << >> = << >>
           /\ << >> \o Only("unload", c) = Only("unload", c)
           /\ << >> \o ToDestroy(c) = ToDestroy(c)
           /\ << >> \o ToDetach(c) = ToDetach(c)
           /\ << >> \o ToFlush(c) = ToFlush(c)
           /\ << >> \o ToWire(c) = ToWire(c)
<1>1. ASSUME NEW call PROVE Only(call, c) \o << >> = Only(call, c)
  BY DEF Only
<1>2. ToDestroy(c) \o << >> = ToDestroy(c) /\ ToDetach(c) \o << >> = ToDetach(c)
  BY DEF ToDestroy, ToDetach
<1>3. << >> \o << >> = << >> /\ << >> \o Only("unload", c) = Only("unload", c)
  BY DEF Only
<1>4. << >> \o ToDestroy(c) = ToDestroy(c) /\ << >> \o ToDetach(c) = ToDetach(c)
  BY DEF ToDestroy, ToDetach
<1>5. << >> \o ToFlush(c) = ToFlush(c) /\ << >> \o ToWire(c) = ToWire(c)
  BY DEF ToFlush, ToWire
<1> QED
  BY <1>1, <1>2, <1>3, <1>4, <1>5

LEMMA StageAbout ==
    ASSUME NEW c, Stage(c)
    PROVE  About(c)
<1>1. PICK now : now = script
  OBVIOUS
<1>2. \/ \E call : now = Only(call, c)
      \/ now \in {RemoveProbeCalls(c), ToDetach(c), RemoveSinkCalls(c), ToWire(c),
                  ToFlush(c), ToDestroy(c)}
  BY <1>1 DEF Stage
<1>3. now # << >> /\ \E call : Head(now) = <<call, c>>
  BY <1>2, Calls
<1> QED
  BY <1>1, <1>3 DEF About

LEMMA StageAboutNext ==
    ASSUME NEW c, Stage(c)'
    PROVE  About(c)'
<1>1. PICK next : next = script'
  OBVIOUS
<1>2. \/ \E call : next = Only(call, c)
      \/ next \in {RemoveProbeCalls(c), ToDetach(c), RemoveSinkCalls(c), ToWire(c),
                   ToFlush(c), ToDestroy(c)}
  BY <1>1 DEF Stage
<1>3. next # << >> /\ \E call : Head(next) = <<call, c>>
  BY <1>2, Calls
<1> QED
  BY <1>1, <1>3 DEF About

\* A call is of the component the script is about, and nobody else is worked on.
LEMMA CallStage ==
    ASSUME IInv, NEW call, NEW c \in Comps, Calling(call, c),
           UNCHANGED <<at, config, plan, envVars>>
    PROVE  /\ Stage(c) /\ c \notin dead
           /\ \A d \in Comps : d # c => Quiet(d) /\ ~About(d)
           /\ at \in {"startSinks", "startProbes", "apply"}
           /\ History' /\ InForce' /\ Planned' /\ Unwound'
<1>1. script # << >> /\ Head(script) = <<call, c>> /\ Head(script)[2] = c
  BY DEF Calling
<1>2. at \in {"startSinks", "startProbes", "apply"} /\ \E d \in Comps : Stage(d)
  BY <1>1 DEF IInv, Staged
<1>3. Stage(c)
  <2>1. PICK d \in Comps : Stage(d)
    BY <1>2
  <2>2. d = c
    BY <1>1, <2>1, StageAbout DEF About
  <2> QED
    BY <2>1, <2>2
<1>4. About(c) /\ \A d \in Comps : d # c => ~About(d)
  BY <1>1 DEF About
<1>5. c \notin dead
  BY <1>4 DEF IInv, Dropped
<1>6. at \notin Ending
  BY <1>2 DEF Ending
<1>7. \A d \in Comps : d # c => Quiet(d)
  BY <1>4, <1>6 DEF IInv, Staged
<1>8. History' /\ Unwound'
  BY <1>2 DEF IInv, History, Unwound, envVars
<1>9. InForce'
  BY DEF IInv, InForce, envVars
<1>10. Planned'
  BY DEF IInv, Planned, Removals, envVars
<1> QED
  BY <1>2, <1>3, <1>4, <1>5, <1>7, <1>8, <1>9, <1>10

LEMMA QuietStays ==
    ASSUME NEW d, Quiet(d), UNCHANGED <<at, config, plan>>,
           handles'[d] = handles[d], alive'[d] = alive[d],
           d \in running' <=> d \in running,
           d \in Probes => /\ d \in attached' <=> d \in attached
                           /\ d \in bound' <=> d \in running /\ d \notin dead'
    PROVE  Quiet(d)'
BY DEF Quiet, AsWanted, Exists, Removals, Additions

\* The script goes on, or its component has come to rest.
LEMMA StagedAfter ==
    ASSUME NEW c \in Comps, at' = at, at \in {"startSinks", "startProbes", "apply"},
           \/ script' = << >> /\ Quiet(c)'
           \/ Stage(c)',
           \A d \in Comps : d # c => Quiet(d)'
    PROVE  Staged'
<1>1. Stage(c)' => About(c)'
  BY StageAboutNext
<1>2. CASE Stage(c)'
  BY <1>1, <1>2 DEF Staged
<1>3. CASE script' = << >> /\ Quiet(c)'
  BY <1>3 DEF Staged
<1> QED
  BY <1>2, <1>3

\* The dropped probes are not disturbed.
LEMMA DroppedAfter ==
    ASSUME Dropped, NEW c, c \notin dead, at' = at, dead' = dead,
           \A d \in dead : d \in running',
           script' = << >> \/ About(c)'
    PROVE  Dropped'
BY DEF Dropped, About

-----------------------------------------------------------------------------
(* The dynamic linker's counts.                                            *)

LEMMA CompsFinite == IsFiniteSet(Comps) /\ \A S \in SUBSET Comps : IsFiniteSet(S)
<1>1. IsFiniteSet(Comps)
  BY DaemonAssumption, FS_Union DEF Comps
<1> QED
  BY <1>1, FS_Subset

\* Who has opened p.
Holders(f, p) == {d \in Comps : f[d] = p}

\* One more holder of q, or one less, and the same of every other plugin.
LEMMA OneHolder ==
    ASSUME NEW c \in Comps, NEW q \in Plugins,
           NEW f \in [Comps -> Plugins \cup {None}], NEW g \in [Comps -> Plugins \cup {None}],
           f[c] = None, g[c] = q, \A d \in Comps : d # c => g[d] = f[d]
    PROVE  /\ Cardinality(Holders(g, q)) = Cardinality(Holders(f, q)) + 1
           /\ Cardinality(Holders(f, q)) \in Nat
           /\ \A p \in Plugins : p # q => Holders(g, p) = Holders(f, p)
<1>1. PICK H : H = Holders(f, q) /\ H = {d \in Comps : f[d] = q}
  BY DEF Holders
<1>2. IsFiniteSet(H) /\ Cardinality(H) \in Nat
  BY <1>1, CompsFinite, FS_CardinalityType
<1>3. c \notin H
  BY <1>1, DaemonAssumption
<1>4. Holders(g, q) = H \cup {c}
  BY <1>1 DEF Holders
<1>5. Cardinality(H \cup {c}) = Cardinality(H) + 1
  BY <1>2, <1>3, FS_AddElement
<1>6. ASSUME NEW p \in Plugins, p # q
      PROVE  Holders(g, p) = Holders(f, p)
  BY <1>6, DaemonAssumption DEF Holders
<1> QED
  BY <1>1, <1>2, <1>4, <1>5, <1>6

LEMMA LoadCounts ==
    ASSUME Types, RefsBalanced, NEW c \in Comps, NEW q \in Plugins, handles[c] = None,
           handles' = [handles EXCEPT ![c] = q], refs' = [refs EXCEPT ![q] = refs[q] + 1]
    PROVE  RefsBalanced' /\ refs' \in [Plugins -> Nat]
<1>1. PICK f, g \in [Comps -> Plugins \cup {None}] : f = handles /\ g = handles'
  BY DEF Types
<1>2. /\ Cardinality(Holders(g, q)) = Cardinality(Holders(f, q)) + 1
      /\ \A p \in Plugins : p # q => Holders(g, p) = Holders(f, p)
  <2>1. f[c] = None /\ g[c] = q /\ \A d \in Comps : d # c => g[d] = f[d]
    BY <1>1
  <2> QED
    BY <2>1, OneHolder
<1>3. \A p \in Plugins : refs[p] = Cardinality(Holders(f, p))
  BY <1>1 DEF RefsBalanced, Holders
<1>4. refs' \in [Plugins -> Nat]
  BY DEF Types
<1>5. ASSUME NEW p \in Plugins PROVE refs'[p] = Cardinality(Holders(g, p))
  <2>1. CASE p = q
    <3>1. refs'[q] = refs[q] + 1
      BY DEF Types
    <3>2. refs[q] = Cardinality(Holders(f, q))
      BY <1>3
    <3> QED
      BY <1>2, <2>1, <3>1, <3>2
  <2>2. CASE p # q
    <3>1. refs'[p] = refs[p]
      BY <2>2 DEF Types
    <3> QED
      BY <1>2, <1>3, <2>2, <3>1
  <2> QED
    BY <2>1, <2>2
<1> QED
  BY <1>1, <1>4, <1>5 DEF RefsBalanced, Holders

LEMMA UnloadCounts ==
    ASSUME Types, RefsBalanced, NEW c \in Comps, handles[c] # None,
           handles' = [handles EXCEPT ![c] = None],
           refs' = [refs EXCEPT ![handles[c]] = refs[handles[c]] - 1]
    PROVE  RefsBalanced' /\ refs' \in [Plugins -> Nat]
<1>1. PICK q \in Plugins : q = handles[c]
  BY DEF Types
<1>2. PICK f, g \in [Comps -> Plugins \cup {None}] : f = handles /\ g = handles'
  BY DEF Types
<1>3. g[c] = None /\ f[c] = q /\ \A d \in Comps : d # c => f[d] = g[d]
  BY <1>1, <1>2
<1>4. /\ Cardinality(Holders(f, q)) = Cardinality(Holders(g, q)) + 1
      /\ Cardinality(Holders(g, q)) \in Nat
      /\ \A p \in Plugins : p # q => Holders(f, p) = Holders(g, p)
  BY <1>3, OneHolder
<1>5. \A p \in Plugins : refs[p] = Cardinality(Holders(f, p))
  BY <1>2 DEF RefsBalanced, Holders
<1>6. refs[q] - 1 = Cardinality(Holders(g, q)) /\ refs[q] - 1 \in Nat
  <2>1. refs[q] = Cardinality(Holders(f, q))
    BY <1>5
  <2> QED
    BY <1>4, <2>1
<1>7. refs' \in [Plugins -> Nat] /\ refs'[q] = refs[q] - 1
  BY <1>1, <1>6 DEF Types
<1>8. ASSUME NEW p \in Plugins PROVE refs'[p] = Cardinality(Holders(g, p))
  <2>1. CASE p = q
    BY <1>6, <1>7, <2>1
  <2>2. CASE p # q
    <3>1. refs'[p] = refs[p]
      BY <1>1, <2>2 DEF Types
    <3> QED
      BY <1>4, <1>5, <2>2, <3>1
  <2> QED
    BY <2>1, <2>2
<1> QED
  BY <1>2, <1>7, <1>8 DEF RefsBalanced, Holders

LEMMA SameCounts ==
    ASSUME RefsBalanced, UNCHANGED <<handles, refs>>
    PROVE  RefsBalanced'
BY DEF RefsBalanced

-----------------------------------------------------------------------------
(* Calls.                                                                  *)

LEMMA LoadKeeps ==
    ASSUME IInv, NEW c \in Comps, Load(c), UNCHANGED <<at, config, plan, envVars>>
    PROVE  IInv'
<1>1. Calling("load", c)
  BY DEF Load
<1>2. /\ Stage(c) /\ c \notin dead
      /\ \A d \in Comps : d # c => Quiet(d) /\ ~About(d)
      /\ at \in {"startSinks", "startProbes", "apply"}
      /\ History' /\ InForce' /\ Planned' /\ Unwound'
  BY <1>1, CallStage
<1>3. /\ script = Only("load", c) /\ Tail(script) = << >>
      /\ handles[c] = None /\ ~Exists(c) /\ c \notin running /\ c \notin attached
      /\ Chosen(plan.next, c) \in Plugins /\ c \notin Additions
  BY <1>1, <1>2, Calls DEF Calling, Stage
<1>4. UNCHANGED <<dead, alive, running, attached, bound, wired>>
  BY DEF Load
<1>5. c \notin bound /\ c \notin wired /\ c # Watcher
  BY <1>3, DaemonAssumption DEF IInv, Pointers
<1>6. PICK p \in Plugins : p = Chosen(plan.next, c)
  BY <1>3
<1>7. CASE /\ handles' = [handles EXCEPT ![c] = p]
           /\ refs' = [refs EXCEPT ![p] = refs[p] + 1]
           /\ Continue(<< <<"build", c>> >>)
  <2>1. /\ handles'[c] = p
        /\ \A d \in Comps : d # c => handles'[d] = handles[d]
    BY <1>7 DEF IInv, Types
  <2>2. RefsBalanced' /\ refs' \in [Plugins -> Nat]
    BY <1>3, <1>7, LoadCounts DEF IInv
  <2>3. Types'
    BY <1>4, <1>7, <2>2 DEF IInv, Types
  <2>4. Pointers'
    BY <1>3, <1>4, <2>1 DEF IInv, Pointers, Exists
  <2>5. script' = Only("build", c)
    BY <1>3, <1>7, Continued DEF Continue, Only
  <2>6. Stage(c)'
    BY <1>3, <1>4, <1>6, <2>1, <2>5 DEF Stage, Exists, Additions
  <2>7. ASSUME NEW d \in Comps, d # c PROVE Quiet(d)'
    BY <1>2, <1>4, <2>1, <2>7, QuietStays DEF Quiet
  <2>8. Staged'
    BY <1>2, <2>6, <2>7, StagedAfter
  <2>9. Dropped'
    BY <1>2, <1>4, <2>6, StageAboutNext, DroppedAfter DEF IInv, Dropped
  <2> QED
    BY <1>2, <2>2, <2>3, <2>4, <2>8, <2>9 DEF IInv
<1>8. CASE Continue(<< >>) /\ UNCHANGED <<handles, refs>>
  <2>1. script' = << >> /\ UNCHANGED <<handles, refs, alive>>
    BY <1>3, <1>4, <1>8, Continued DEF Continue
  <2>2. Types' /\ Pointers' /\ RefsBalanced'
    BY <1>4, <2>1, SameCounts DEF IInv, Types, Pointers, Exists
  <2>3. Quiet(c)'
    BY <1>3, <1>4, <1>5, <2>1 DEF Quiet, Exists
  <2>4. ASSUME NEW d \in Comps, d # c PROVE Quiet(d)'
    BY <1>2, <1>4, <2>1, <2>4, QuietStays DEF Quiet
  <2>5. Staged'
    BY <1>2, <2>1, <2>3, <2>4, StagedAfter
  <2>6. Dropped'
    BY <1>2, <1>4, <2>1, DroppedAfter DEF IInv, Dropped
  <2> QED
    BY <1>2, <2>2, <2>5, <2>6 DEF IInv
<1> QED
  BY <1>6, <1>7, <1>8 DEF Load

LEMMA BuildKeeps ==
    ASSUME IInv, NEW c \in Comps, Build(c), UNCHANGED <<at, config, plan, envVars>>
    PROVE  IInv'
<1>1. Calling("build", c)
  BY DEF Build
<1>2. /\ Stage(c) /\ c \notin dead
      /\ \A d \in Comps : d # c => Quiet(d) /\ ~About(d)
      /\ at \in {"startSinks", "startProbes", "apply"}
      /\ History' /\ InForce' /\ Planned' /\ Unwound'
  BY <1>1, CallStage
<1>3. /\ script = Only("build", c) /\ Tail(script) = << >>
      /\ handles[c] = Chosen(plan.next, c) /\ ~Exists(c) /\ c \notin running /\ c \notin attached
      /\ Chosen(plan.next, c) \in Plugins /\ c \notin Additions
  BY <1>1, <1>2, Calls DEF Calling, Stage
<1>4. UNCHANGED <<dead, handles, refs, running, attached, bound, wired>>
  BY DEF Build, BuildFails
<1>5. c \notin bound /\ c \notin wired /\ c # Watcher
  BY <1>3, DaemonAssumption DEF IInv, Pointers
<1>6. PICK p \in Plugins : p = Chosen(plan.next, c)
  BY <1>3
<1>7. RefsBalanced'
  BY <1>4, SameCounts DEF IInv
<1>8. CASE /\ alive' = [alive EXCEPT ![c] = p]
           /\ Continue(<< <<IF c \in Probes THEN "start" ELSE "enlist", c>> >>)
  <2>1. /\ handles'[c] = p /\ alive'[c] = p /\ p # None
        /\ \A d \in Comps : d # c => handles'[d] = handles[d] /\ alive'[d] = alive[d]
    BY <1>3, <1>4, <1>6, <1>8, DaemonAssumption DEF IInv, Types
  <2>2. Types'
    BY <1>4, <1>8 DEF IInv, Types
  <2>3. Pointers'
    BY <1>4, <1>5, <2>1, DaemonAssumption DEF IInv, Pointers, Exists, Types, Comps
  <2>4. New(c)'
    BY <1>3, <1>4, <1>6, <2>1 DEF New, Exists, Additions
  <2>5. Stage(c)'
    <3>1. CASE c \in Probes
      <4>1. script' = Only("start", c)
        BY <1>3, <1>8, <3>1, Continued DEF Continue, Only
      <4> QED
        BY <1>3, <1>4, <1>5, <2>4, <3>1, <4>1 DEF Stage
    <3>2. CASE c \notin Probes
      <4>1. script' = Only("enlist", c)
        BY <1>3, <1>8, <3>2, Continued DEF Continue, Only
      <4> QED
        BY <2>4, <3>2, <4>1 DEF Stage
    <3> QED
      BY <3>1, <3>2
  <2>6. ASSUME NEW d \in Comps, d # c PROVE Quiet(d)'
    BY <1>2, <1>4, <2>1, <2>6, QuietStays DEF Quiet
  <2>7. Staged'
    BY <1>2, <2>5, <2>6, StagedAfter
  <2>8. Dropped'
    BY <1>2, <1>4, <2>5, StageAboutNext, DroppedAfter DEF IInv, Dropped
  <2> QED
    BY <1>2, <1>7, <2>2, <2>3, <2>7, <2>8 DEF IInv
<1>9. CASE BuildFails(c) /\ UNCHANGED alive
  <2>1. script' = Only("unload", c)
    BY <1>3, <1>9, Continued DEF Continue, BuildFails, Only
  <2>2. Types' /\ Pointers'
    BY <1>4, <1>9 DEF IInv, Types, Pointers, Exists
  <2>3. Stage(c)'
    BY <1>3, <1>4, <1>9, <2>1 DEF Stage, Exists
  <2>4. ASSUME NEW d \in Comps, d # c PROVE Quiet(d)'
    BY <1>2, <1>4, <1>9, <2>4, QuietStays DEF Quiet
  <2>5. Staged'
    BY <1>2, <2>3, <2>4, StagedAfter
  <2>6. Dropped'
    BY <1>2, <1>4, <2>3, StageAboutNext, DroppedAfter DEF IInv, Dropped
  <2> QED
    BY <1>2, <1>7, <2>2, <2>5, <2>6 DEF IInv
<1> QED
  BY <1>6, <1>8, <1>9 DEF Build

LEMMA StartProbeKeeps ==
    ASSUME IInv, NEW c \in Comps, StartProbe(c), UNCHANGED <<at, config, plan, envVars>>
    PROVE  IInv'
<1>1. Calling("start", c)
  BY DEF StartProbe
<1>2. /\ Stage(c) /\ c \notin dead
      /\ \A d \in Comps : d # c => Quiet(d) /\ ~About(d)
      /\ at \in {"startSinks", "startProbes", "apply"}
      /\ History' /\ InForce' /\ Planned' /\ Unwound'
  BY <1>1, CallStage
<1>3. /\ script = Only("start", c) /\ Tail(script) = << >>
      /\ c \in Probes /\ New(c) /\ c \notin attached /\ c \notin bound
  BY <1>1, <1>2, Calls DEF Calling, Stage
<1>4. UNCHANGED <<dead, handles, refs, alive, running, bound, wired>>
  BY DEF StartProbe
<1>5. New(c)' /\ c \notin wired
  BY <1>3, <1>4, DaemonAssumption DEF New, Exists, Additions, IInv, Types
<1>6. /\ attached \subseteq attached' /\ attached' \subseteq attached \cup {c}
      /\ Stage(c)'
  <2>1. CASE attached' = attached \cup {c} /\ Continue(<< <<"arm", c>> >>)
    <3>1. script' = Only("arm", c)
      BY <1>3, <2>1, Continued DEF Continue, Only
    <3> QED
      BY <1>3, <1>4, <1>5, <2>1, <3>1 DEF Stage
  <2>2. CASE Continue(NotStarted(c)) /\ UNCHANGED attached
    <3>1. script' = ToDestroy(c)
      BY <1>3, <2>2, Continued DEF Continue, NotStarted, ToDestroy
    <3>2. Leaves(c)'
      BY <1>3, DaemonAssumption DEF Leaves
    <3> QED
      BY <1>3, <1>4, <1>5, <2>2, <3>1, <3>2 DEF Stage
  <2> QED
    BY <2>1, <2>2 DEF StartProbe
<1>7. Types' /\ Pointers' /\ RefsBalanced'
  BY <1>3, <1>4, <1>6, SameCounts DEF IInv, Types, Pointers, Exists
<1>8. ASSUME NEW d \in Comps, d # c PROVE Quiet(d)'
  BY <1>2, <1>4, <1>6, <1>8, QuietStays DEF Quiet
<1>9. Staged'
  BY <1>2, <1>6, <1>8, StagedAfter
<1>10. Dropped'
  BY <1>2, <1>4, <1>6, StageAboutNext, DroppedAfter DEF IInv, Dropped
<1> QED
  BY <1>2, <1>7, <1>9, <1>10 DEF IInv

LEMMA ArmKeeps ==
    ASSUME IInv, NEW c \in Comps, Arm(c), UNCHANGED <<at, config, plan, envVars>>
    PROVE  IInv'
<1>1. Calling("arm", c)
  BY DEF Arm
<1>2. /\ Stage(c) /\ c \notin dead
      /\ \A d \in Comps : d # c => Quiet(d) /\ ~About(d)
      /\ at \in {"startSinks", "startProbes", "apply"}
      /\ History' /\ InForce' /\ Planned' /\ Unwound'
  BY <1>1, CallStage
<1>3. /\ script = Only("arm", c) /\ Tail(script) = << >>
      /\ c \in Probes /\ New(c) /\ c \in attached /\ c \notin bound
  BY <1>1, <1>2, Calls DEF Calling, Stage
<1>4. UNCHANGED <<dead, handles, refs, alive, running, attached, wired>>
  BY DEF Arm
<1>5. New(c)'
  BY <1>3, <1>4 DEF New, Exists, Additions
<1>6. /\ bound \subseteq bound' /\ bound' \subseteq bound \cup {c}
      /\ Stage(c)'
  <2>1. CASE bound' = bound \cup {c} /\ Continue(<< <<"enlist", c>> >>)
    <3>1. script' = Only("enlist", c)
      BY <1>3, <2>1, Continued DEF Continue, Only
    <3> QED
      BY <1>3, <1>4, <1>5, <2>1, <3>1 DEF Stage
  <2>2. CASE /\ Continue(<< <<"detach", c>>, <<"destroy", c>>, <<"unload", c>> >>)
             /\ UNCHANGED bound
    <3>1. script' = ToDetach(c)
      BY <1>3, <2>2, Continued DEF Continue, ToDetach
    <3> QED
      BY <1>3, <2>2, <3>1 DEF Stage
  <2> QED
    BY <2>1, <2>2 DEF Arm
<1>7. Types' /\ RefsBalanced'
  BY <1>3, <1>4, <1>6, SameCounts DEF IInv, Types
<1>8. Pointers'
  BY <1>3, <1>4, <1>6 DEF IInv, Pointers, Exists, New
<1>9. ASSUME NEW d \in Comps, d # c PROVE Quiet(d)'
  BY <1>2, <1>4, <1>6, <1>9, QuietStays DEF Quiet
<1>10. Staged'
  BY <1>2, <1>6, <1>9, StagedAfter
<1>11. Dropped'
  BY <1>2, <1>4, <1>6, StageAboutNext, DroppedAfter DEF IInv, Dropped
<1> QED
  BY <1>2, <1>7, <1>8, <1>10, <1>11 DEF IInv

LEMMA EnlistKeeps ==
    ASSUME IInv, NEW c \in Comps, Enlist(c), UNCHANGED <<at, config, plan, envVars>>
    PROVE  IInv'
<1>1. Calling("enlist", c)
  BY DEF Enlist
<1>2. /\ Stage(c) /\ c \notin dead
      /\ \A d \in Comps : d # c => Quiet(d) /\ ~About(d)
      /\ at \in {"startSinks", "startProbes", "apply"}
      /\ History' /\ InForce' /\ Planned' /\ Unwound'
  BY <1>1, CallStage
<1>3. /\ script = Only("enlist", c) /\ Tail(script) = << >>
      /\ New(c) /\ (c \in Probes => c \in attached /\ c \in bound)
  BY <1>1, <1>2, Calls DEF Calling, Stage
<1>4. UNCHANGED <<dead, handles, refs, alive, attached, bound, wired>> /\ running' = running \cup {c}
  BY DEF Enlist
<1>5. Types' /\ Pointers' /\ RefsBalanced'
  BY <1>3, <1>4, SameCounts DEF IInv, Types, Pointers, Exists, New
<1>6. Quiet(c)'
  <2>1. handles'[c] = alive'[c] /\ c \in running'
    BY <1>3, <1>4 DEF IInv, Pointers, New
  <2>2. c \in Probes => /\ c \in attached' <=> c \in running'
                        /\ c \in bound' <=> c \in running' /\ c \notin dead'
    BY <1>2, <1>3, <1>4
  <2>3. AsWanted(c)'
    BY <1>2, <1>3, <1>4 DEF AsWanted, New, Additions, Planning, Starting
  <2> QED
    BY <2>1, <2>2, <2>3 DEF Quiet
<1>7. script' = << >> \/ Stage(c)'
  <2>1. CASE c \in Sinks /\ at # "startSinks"
    <3>1. script' = Only("wire", c)
      BY <1>3, <2>1, Continued DEF Enlist, Continue, Only
    <3> QED
      BY <1>6, <2>1, <3>1 DEF Stage
  <2>2. CASE ~(c \in Sinks /\ at # "startSinks")
    BY <1>3, <2>2, Continued DEF Enlist, Continue
  <2> QED
    BY <2>1, <2>2
<1>8. ASSUME NEW d \in Comps, d # c PROVE Quiet(d)'
  BY <1>2, <1>4, <1>8, QuietStays DEF Quiet
<1>9. Staged'
  BY <1>2, <1>6, <1>7, <1>8, StagedAfter
<1>10. Dropped'
  BY <1>2, <1>4, <1>7, StageAboutNext, DroppedAfter DEF IInv, Dropped
<1> QED
  BY <1>2, <1>5, <1>9, <1>10 DEF IInv

LEMMA DisarmKeeps ==
    ASSUME IInv, NEW c \in Comps, Disarm(c), UNCHANGED <<at, config, plan, envVars>>
    PROVE  IInv'
<1>1. Calling("disarm", c)
  BY DEF Disarm
<1>2. /\ Stage(c) /\ c \notin dead
      /\ \A d \in Comps : d # c => Quiet(d) /\ ~About(d)
      /\ at \in {"startSinks", "startProbes", "apply"}
      /\ History' /\ InForce' /\ Planned' /\ Unwound'
  BY <1>1, CallStage
<1>3. /\ script = RemoveProbeCalls(c) /\ Tail(script) = ToDetach(c)
      /\ c \in Probes /\ dead = {} /\ at = "apply"
  BY <1>1, <1>2, Calls DEF Calling, Stage
<1>4. UNCHANGED <<handles, refs, alive, running, attached, wired>> /\ script' = ToDetach(c)
  BY <1>3, Continued DEF Disarm, Continue
<1>5. PICK lost : /\ lost \subseteq bound \ {c}
                  /\ bound' = bound \ (lost \cup {c})
                  /\ dead' = lost \cap running
  BY DEF Disarm, Casualties
<1>6. dead' \subseteq Probes
  <2>1. Watcher \notin running
    BY DaemonAssumption DEF IInv, Types
  <2> QED
    BY <1>5, <2>1 DEF IInv, Types
<1>7. Types' /\ Pointers' /\ RefsBalanced'
  BY <1>4, <1>5, <1>6, SameCounts DEF IInv, Types, Pointers, Exists
<1>8. Stage(c)'
  BY <1>3, <1>4, <1>5 DEF Stage
<1>9. ASSUME NEW d \in Comps, d # c PROVE Quiet(d)'
  <2>1. Quiet(d)
    BY <1>2, <1>9
  <2>2. d \in Probes => (d \in bound' <=> d \in running /\ d \notin dead')
    BY <1>3, <1>5, <1>9, <2>1 DEF Quiet
  <2> QED
    BY <1>4, <2>1, <2>2, QuietStays
<1>10. Staged'
  BY <1>2, <1>8, <1>9, StagedAfter
<1>11. Dropped'
  <2>1. About(c)'
    BY <1>8, StageAboutNext
  <2> QED
    BY <1>3, <1>4, <1>5, <2>1 DEF Dropped, About
<1> QED
  BY <1>2, <1>7, <1>10, <1>11 DEF IInv

LEMMA DetachKeeps ==
    ASSUME IInv, NEW c \in Comps, Detach(c), UNCHANGED <<at, config, plan, envVars>>
    PROVE  IInv'
<1>1. Calling("detach", c)
  BY DEF Detach
<1>2. /\ Stage(c) /\ c \notin dead
      /\ \A d \in Comps : d # c => Quiet(d) /\ ~About(d)
      /\ at \in {"startSinks", "startProbes", "apply"}
      /\ History' /\ InForce' /\ Planned' /\ Unwound'
  BY <1>1, CallStage
<1>3. /\ script = ToDetach(c) /\ Tail(script) = ToDestroy(c)
      /\ c \in Probes /\ c \notin bound
  BY <1>1, <1>2, Calls DEF Calling, Stage
<1>4. /\ UNCHANGED <<dead, handles, refs, alive, running, bound, wired>>
      /\ attached' = attached \ {c}
      /\ script' = ToDestroy(c)
  BY <1>3, Continued DEF Detach, Continue
<1>5. Types' /\ Pointers' /\ RefsBalanced'
  BY <1>4, SameCounts DEF IInv, Types, Pointers, Exists
<1>6. Stage(c)'
  <2>1. Leaves(c)' /\ c \notin wired
    BY <1>3, DaemonAssumption DEF Leaves, IInv, Types
  <2> QED
    BY <1>3, <1>4, <2>1 DEF Stage
<1>7. ASSUME NEW d \in Comps, d # c PROVE Quiet(d)'
  BY <1>2, <1>4, <1>7, QuietStays DEF Quiet
<1>8. Staged'
  BY <1>2, <1>6, <1>7, StagedAfter
<1>9. Dropped'
  BY <1>2, <1>4, <1>6, StageAboutNext, DroppedAfter DEF IInv, Dropped
<1> QED
  BY <1>2, <1>5, <1>8, <1>9 DEF IInv

LEMMA EraseKeeps ==
    ASSUME IInv, NEW c \in Comps, Erase(c), UNCHANGED <<at, config, plan, envVars>>
    PROVE  IInv'
<1>1. Calling("erase", c)
  BY DEF Erase
<1>2. /\ Stage(c) /\ c \notin dead
      /\ \A d \in Comps : d # c => Quiet(d) /\ ~About(d)
      /\ at \in {"startSinks", "startProbes", "apply"}
      /\ History' /\ InForce' /\ Planned' /\ Unwound'
  BY <1>1, CallStage
<1>3. /\ script = RemoveSinkCalls(c) /\ Tail(script) = ToWire(c)
      /\ c \in Sinks /\ Leaves(c)
  BY <1>1, <1>2, Calls DEF Calling, Stage
<1>4. /\ UNCHANGED <<dead, handles, refs, alive, attached, bound, wired>>
      /\ running' = running \ {c}
      /\ script' = ToWire(c)
  BY <1>3, Continued DEF Erase, Continue
<1>5. Types' /\ Pointers' /\ RefsBalanced'
  BY <1>4, SameCounts DEF IInv, Types, Pointers, Exists
<1>6. Stage(c)'
  <2>1. Leaves(c)'
    BY <1>3 DEF Leaves
  <2> QED
    BY <1>3, <1>4, <2>1 DEF Stage
<1>7. ASSUME NEW d \in Comps, d # c PROVE Quiet(d)'
  BY <1>2, <1>4, <1>7, QuietStays DEF Quiet
<1>8. Staged'
  BY <1>2, <1>6, <1>7, StagedAfter
<1>9. Dropped'
  BY <1>2, <1>4, <1>6, StageAboutNext, DroppedAfter DEF IInv, Dropped
<1> QED
  BY <1>2, <1>5, <1>8, <1>9 DEF IInv

LEMMA WireKeeps ==
    ASSUME IInv, NEW c \in Comps, Wire(c), UNCHANGED <<at, config, plan, envVars>>
    PROVE  IInv'
<1>1. Calling("wire", c)
  BY DEF Wire
<1>2. /\ Stage(c) /\ c \notin dead
      /\ \A d \in Comps : d # c => Quiet(d) /\ ~About(d)
      /\ at \in {"startSinks", "startProbes", "apply"}
      /\ History' /\ InForce' /\ Planned' /\ Unwound'
  BY <1>1, CallStage
<1>3. /\ UNCHANGED <<dead, handles, refs, alive, running, attached, bound>>
      /\ wired' = running \cap Sinks
  BY DEF Wire
<1>4. Types' /\ Pointers' /\ RefsBalanced'
  BY <1>3, SameCounts DEF IInv, Types, Pointers, Exists
<1>5. \/ script' = << >> /\ Quiet(c)'
      \/ Stage(c)'
  <2>1. CASE script = Only("wire", c) /\ Quiet(c)
    <3>1. script' = << >>
      BY <2>1, Calls, Continued DEF Wire, Continue
    <3>2. Quiet(c)'
      BY <1>3, <2>1, QuietStays DEF Quiet
    <3> QED
      BY <3>1, <3>2
  <2>2. CASE script = ToWire(c) /\ c \in Sinks /\ c \notin running /\ Leaves(c)
    <3>1. script' = ToFlush(c)
      BY <2>2, Calls, Continued DEF Wire, Continue
    <3>2. Leaves(c)'
      BY <2>2 DEF Leaves
    <3> QED
      BY <1>3, <2>2, <3>1, <3>2 DEF Stage
  <2> QED
    BY <1>1, <1>2, <2>1, <2>2, Calls DEF Calling, Stage
<1>6. ASSUME NEW d \in Comps, d # c PROVE Quiet(d)'
  BY <1>2, <1>3, <1>6, QuietStays DEF Quiet
<1>7. Staged'
  BY <1>2, <1>5, <1>6, StagedAfter
<1>8. Dropped'
  BY <1>2, <1>3, <1>5, StageAboutNext, DroppedAfter DEF IInv, Dropped
<1> QED
  BY <1>2, <1>4, <1>7, <1>8 DEF IInv

LEMMA FlushKeeps ==
    ASSUME IInv, NEW c \in Comps, Flush(c), UNCHANGED <<at, config, plan, envVars>>
    PROVE  IInv'
<1>1. Calling("flush", c)
  BY DEF Flush
<1>2. /\ Stage(c) /\ c \notin dead
      /\ \A d \in Comps : d # c => Quiet(d) /\ ~About(d)
      /\ at \in {"startSinks", "startProbes", "apply"}
      /\ History' /\ InForce' /\ Planned' /\ Unwound'
  BY <1>1, CallStage
<1>3. /\ script = ToFlush(c) /\ Tail(script) = ToDestroy(c)
      /\ c \in Sinks /\ c \notin wired /\ Leaves(c)
  BY <1>1, <1>2, Calls DEF Calling, Stage
<1>4. /\ UNCHANGED <<dead, handles, refs, alive, running, attached, bound, wired>>
      /\ script' = ToDestroy(c)
  BY <1>3, Continued DEF Flush, Continue, compVars
<1>5. Types' /\ Pointers' /\ RefsBalanced'
  BY <1>4, SameCounts DEF IInv, Types, Pointers, Exists
<1>6. Stage(c)'
  <2>1. c \notin bound /\ c \notin attached
    BY <1>3, DaemonAssumption DEF IInv, Types, Comps
  <2>2. Leaves(c)'
    BY <1>3 DEF Leaves
  <2> QED
    BY <1>3, <1>4, <2>1, <2>2 DEF Stage
<1>7. ASSUME NEW d \in Comps, d # c PROVE Quiet(d)'
  BY <1>2, <1>4, <1>7, QuietStays DEF Quiet
<1>8. Staged'
  BY <1>2, <1>6, <1>7, StagedAfter
<1>9. Dropped'
  BY <1>2, <1>4, <1>6, StageAboutNext, DroppedAfter DEF IInv, Dropped
<1> QED
  BY <1>2, <1>5, <1>8, <1>9 DEF IInv

LEMMA DestroyKeeps ==
    ASSUME IInv, NEW c \in Comps, Destroy(c), UNCHANGED <<at, config, plan, envVars>>
    PROVE  IInv'
<1>1. Calling("destroy", c)
  BY DEF Destroy
<1>2. /\ Stage(c) /\ c \notin dead
      /\ \A d \in Comps : d # c => Quiet(d) /\ ~About(d)
      /\ at \in {"startSinks", "startProbes", "apply"}
      /\ History' /\ InForce' /\ Planned' /\ Unwound'
  BY <1>1, CallStage
<1>3. /\ script = ToDestroy(c) /\ Tail(script) = Only("unload", c)
      /\ c \notin wired /\ c \notin bound /\ c \notin attached
  BY <1>1, <1>2, Calls DEF Calling, Stage
<1>4. /\ UNCHANGED <<dead, handles, refs, bound, wired>>
      /\ alive' = [alive EXCEPT ![c] = None]
      /\ running' = running \ {c} /\ attached' = attached \ {c}
      /\ script' = Only("unload", c)
  BY <1>3, Continued DEF Destroy, Continue
<1>5. alive'[c] = None /\ \A d \in Comps : d # c => alive'[d] = alive[d]
  BY <1>4 DEF IInv, Types
<1>6. Types' /\ RefsBalanced'
  BY <1>4, SameCounts DEF IInv, Types
<1>7. Pointers'
  BY <1>3, <1>4, <1>5, DaemonAssumption DEF IInv, Types, Pointers, Exists, Comps
<1>8. Stage(c)'
  BY <1>4, <1>5 DEF Stage, Exists
<1>9. ASSUME NEW d \in Comps, d # c PROVE Quiet(d)'
  BY <1>2, <1>4, <1>5, <1>9, QuietStays DEF Quiet
<1>10. Staged'
  BY <1>2, <1>8, <1>9, StagedAfter
<1>11. Dropped'
  BY <1>2, <1>4, <1>8, StageAboutNext, DroppedAfter DEF IInv, Dropped
<1> QED
  BY <1>2, <1>6, <1>7, <1>10, <1>11 DEF IInv

LEMMA UnloadKeeps ==
    ASSUME IInv, NEW c \in Comps, Unload(c), UNCHANGED <<at, config, plan, envVars>>
    PROVE  IInv'
<1>1. Calling("unload", c)
  BY DEF Unload
<1>2. /\ Stage(c) /\ c \notin dead
      /\ \A d \in Comps : d # c => Quiet(d) /\ ~About(d)
      /\ at \in {"startSinks", "startProbes", "apply"}
      /\ History' /\ InForce' /\ Planned' /\ Unwound'
  BY <1>1, CallStage
<1>3. /\ script = Only("unload", c) /\ Tail(script) = << >>
      /\ ~Exists(c) /\ c \notin attached
  BY <1>1, <1>2, Calls DEF Calling, Stage
<1>4. UNCHANGED <<dead, alive, running, attached, bound, wired>> /\ script' = << >>
  BY <1>3, Continued DEF Unload, Continue
<1>5. /\ RefsBalanced' /\ refs' \in [Plugins -> Nat]
      /\ handles' \in [Comps -> Plugins \cup {None}]
      /\ handles'[c] = None /\ \A d \in Comps : d # c => handles'[d] = handles[d]
  <2>1. CASE handles[c] = None
    BY <2>1, SameCounts DEF Unload, IInv, Types
  <2>2. CASE handles[c] # None
    <3>1. /\ handles' = [handles EXCEPT ![c] = None]
          /\ refs' = [refs EXCEPT ![handles[c]] = refs[handles[c]] - 1]
      BY <2>2 DEF Unload
    <3>2. RefsBalanced' /\ refs' \in [Plugins -> Nat]
      BY <2>2, <3>1, UnloadCounts DEF IInv
    <3> QED
      BY <3>1, <3>2 DEF IInv, Types
  <2> QED
    BY <2>1, <2>2
<1>6. Types'
  BY <1>4, <1>5 DEF IInv, Types
<1>7. Pointers'
  BY <1>3, <1>4, <1>5 DEF IInv, Pointers, Exists
<1>8. Quiet(c)'
  <2>1. c \notin running /\ c \notin bound
    BY <1>3, DaemonAssumption DEF IInv, Pointers
  <2> QED
    BY <1>3, <1>4, <1>5, <2>1 DEF Quiet, Exists
<1>9. ASSUME NEW d \in Comps, d # c PROVE Quiet(d)'
  BY <1>2, <1>4, <1>5, <1>9, QuietStays DEF Quiet
<1>10. Staged'
  BY <1>2, <1>4, <1>8, <1>9, StagedAfter
<1>11. Dropped'
  BY <1>2, <1>4, DroppedAfter DEF IInv, Dropped
<1> QED
  BY <1>2, <1>5, <1>6, <1>7, <1>10, <1>11 DEF IInv

LEMMA CallKeeps ==
    ASSUME IInv, NEW c \in Comps, Call(c)
    PROVE  IInv'
<1>1. UNCHANGED <<at, config, plan, envVars>>
  BY DEF Call
<1> QED
  BY <1>1, LoadKeeps, BuildKeeps, StartProbeKeeps, ArmKeeps, EnlistKeeps, DisarmKeeps, DetachKeeps,
     EraseKeeps, WireKeeps, FlushKeeps, DestroyKeeps, UnloadKeeps DEF Call

-----------------------------------------------------------------------------
(* Which component is next.                                                *)

\* At rest nobody is worked on.
LEMMA AtRest ==
    ASSUME IInv, script = << >>, at \notin Ending
    PROVE  \A c \in Comps : Quiet(c)
BY DEF IInv, Staged, About

\* Only the plan and the script change, and the plan loses c.
LEMMA PlanFrame ==
    ASSUME IInv, UNCHANGED <<at, config, envVars>>,
           plan'.next = plan.next,
           plan' \in [rmSinks : SUBSET Sinks, addSinks : SUBSET Sinks,
                      rmProbes : SUBSET Probes, addProbes : SUBSET Probes, next : Confs],
           plan'.rmSinks \subseteq plan.rmSinks, plan'.addSinks \subseteq plan.addSinks,
           plan'.rmProbes \subseteq plan.rmProbes, plan'.addProbes \subseteq plan.addProbes
    PROVE  History' /\ InForce' /\ Planned'
<1>1. History' /\ InForce'
  BY DEF IInv, History, InForce, envVars
<1>2. Planned'
  BY DEF IInv, Planned, Removals, envVars
<1> QED
  BY <1>1, <1>2

LEMMA ComponentsFrame ==
    ASSUME IInv, UNCHANGED <<handles, refs, alive, running, attached, bound, wired>>, at' = at,
           dead' \subseteq dead
    PROVE  Types' /\ RefsBalanced' /\ Pointers' /\ Unwound'
BY SameCounts DEF IInv, Types, Pointers, Exists, Unwound

LEMMA RemoveSinkKeeps ==
    ASSUME IInv, NEW c \in Sinks, RemoveSink(c)
    PROVE  IInv'
<1>1. /\ at = "apply" /\ script = << >> /\ dead = {} /\ c \in plan.rmSinks
      /\ UNCHANGED <<at, config, envVars, dead, handles, refs, alive, running, attached, bound,
                     wired>>
  BY DEF RemoveSink, Idle, compVars
<1>2. c \in Comps /\ at \notin Ending
  BY <1>1 DEF Comps, Ending
<1>3. \A d \in Comps : Quiet(d)
  BY <1>1, <1>2, AtRest
<1>4. /\ plan' \in [rmSinks : SUBSET Sinks, addSinks : SUBSET Sinks,
                    rmProbes : SUBSET Probes, addProbes : SUBSET Probes, next : Confs]
      /\ plan'.rmSinks = plan.rmSinks \ {c} /\ plan'.addSinks = plan.addSinks
      /\ plan'.rmProbes = plan.rmProbes /\ plan'.addProbes = plan.addProbes
      /\ plan'.next = plan.next
  BY DEF RemoveSink, IInv, Planned
<1>5. History' /\ InForce' /\ Planned'
  BY <1>1, <1>4, PlanFrame
<1>6. Types' /\ RefsBalanced' /\ Pointers' /\ Unwound'
  BY <1>1, ComponentsFrame
<1>7. ASSUME NEW d \in Comps, d # c \/ c \notin running PROVE Quiet(d)'
  BY <1>1, <1>3, <1>4, <1>7 DEF Quiet, AsWanted, Exists, Removals, Additions
<1>8. CASE c \in running
  <2>1. script' = RemoveSinkCalls(c)
    BY <1>8 DEF RemoveSink
  <2>2. Leaves(c)'
    BY <1>1, <1>4 DEF Leaves, IInv, Planned
  <2>3. Stage(c)'
    BY <2>1, <2>2 DEF Stage
  <2>4. Staged'
    BY <1>1, <1>2, <1>7, <2>3, StagedAfter
  <2> QED
    BY <1>1, <1>5, <1>6, <2>4 DEF IInv, Dropped
<1>9. CASE c \notin running
  <2>1. script' = << >>
    BY <1>9 DEF RemoveSink
  <2>2. Staged' /\ Dropped'
    BY <1>1, <1>7, <1>9, <2>1 DEF Staged, Dropped
  <2> QED
    BY <1>5, <1>6, <2>2 DEF IInv
<1> QED
  BY <1>8, <1>9

LEMMA RemoveProbeKeeps ==
    ASSUME IInv, NEW c \in Probes, RemoveProbe(c)
    PROVE  IInv'
<1>1. /\ at = "apply" /\ script = << >> /\ dead = {} /\ c \in plan.rmProbes
      /\ UNCHANGED <<at, config, envVars, dead, handles, refs, alive, running, attached, bound,
                     wired>>
  BY DEF RemoveProbe, Idle, compVars
<1>2. c \in Comps /\ at \notin Ending
  BY <1>1 DEF Comps, Ending
<1>3. \A d \in Comps : Quiet(d)
  BY <1>1, <1>2, AtRest
<1>4. /\ plan' \in [rmSinks : SUBSET Sinks, addSinks : SUBSET Sinks,
                    rmProbes : SUBSET Probes, addProbes : SUBSET Probes, next : Confs]
      /\ plan'.rmSinks = plan.rmSinks /\ plan'.addSinks = plan.addSinks
      /\ plan'.rmProbes = plan.rmProbes \ {c} /\ plan'.addProbes = plan.addProbes
      /\ plan'.next = plan.next
  BY DEF RemoveProbe, IInv, Planned
<1>5. History' /\ InForce' /\ Planned'
  BY <1>1, <1>4, PlanFrame
<1>6. Types' /\ RefsBalanced' /\ Pointers' /\ Unwound'
  BY <1>1, ComponentsFrame
<1>7. ASSUME NEW d \in Comps, d # c \/ c \notin running PROVE Quiet(d)'
  BY <1>1, <1>3, <1>4, <1>7 DEF Quiet, AsWanted, Exists, Removals, Additions
<1>8. CASE c \in running
  <2>1. script' = RemoveProbeCalls(c)
    BY <1>8 DEF RemoveProbe
  <2>2. Stage(c)'
    BY <1>1, <2>1 DEF Stage
  <2>3. Staged'
    BY <1>1, <1>2, <1>7, <2>2, StagedAfter
  <2> QED
    BY <1>1, <1>5, <1>6, <2>3 DEF IInv, Dropped
<1>9. CASE c \notin running
  <2>1. script' = << >>
    BY <1>9 DEF RemoveProbe
  <2>2. Staged' /\ Dropped'
    BY <1>1, <1>7, <1>9, <2>1 DEF Staged, Dropped
  <2> QED
    BY <1>5, <1>6, <2>2 DEF IInv
<1> QED
  BY <1>8, <1>9

\* A component that is only to be added is not there yet, and has a plugin.
LEMMA ToBeAdded ==
    ASSUME IInv, script = << >>, at \in Planning, NEW c \in Additions, c \notin Removals
    PROVE  /\ c \in Comps
           /\ handles[c] = None /\ ~Exists(c) /\ c \notin running /\ c \notin attached
           /\ Chosen(plan.next, c) \in Plugins
<1>1. c \in Comps
  BY DEF Additions, IInv, Planned, Comps
<1>2. Quiet(c)
  BY <1>1, AtRest DEF Planning, Starting, Ending
<1>3. c \notin running
  BY <1>2 DEF Quiet, AsWanted
<1>4. handles[c] = None /\ ~Exists(c)
  BY <1>2, <1>3 DEF Quiet, Exists
<1>5. c \notin attached
  BY <1>1, <1>2, <1>3, DaemonAssumption DEF Quiet, IInv, Types
<1>6. plan.next \in Confs
  BY DEF IInv, Planned
<1>7. Chosen(plan.next, c) \in Plugins \cup {None} /\ Chosen(plan.next, c) # None
  BY <1>1, <1>6, ChosenIs DEF Additions, IInv, Planned
<1> QED
  BY <1>1, <1>3, <1>4, <1>5, <1>7

LEMMA AddSinkKeeps ==
    ASSUME IInv, NEW c \in Sinks, AddSink(c)
    PROVE  IInv'
<1>1. /\ at \in {"startSinks", "apply"} /\ script = << >> /\ dead = {}
      /\ c \in plan.addSinks /\ plan.rmSinks = {}
      /\ script' = Only("load", c)
      /\ UNCHANGED <<at, config, envVars, dead, handles, refs, alive, running, attached, bound,
                     wired>>
  BY DEF AddSink, Idle, compVars, Only
<1>2. c \in Comps /\ at \notin Ending /\ at \in Planning
  BY <1>1 DEF Comps, Ending, Planning, Starting
<1>3. \A d \in Comps : Quiet(d)
  BY <1>1, <1>2, AtRest
<1>4. /\ plan' \in [rmSinks : SUBSET Sinks, addSinks : SUBSET Sinks,
                    rmProbes : SUBSET Probes, addProbes : SUBSET Probes, next : Confs]
      /\ plan'.rmSinks = plan.rmSinks /\ plan'.addSinks = plan.addSinks \ {c}
      /\ plan'.rmProbes = plan.rmProbes /\ plan'.addProbes = plan.addProbes
      /\ plan'.next = plan.next
  BY DEF AddSink, IInv, Planned
<1>5. History' /\ InForce' /\ Planned'
  BY <1>1, <1>4, PlanFrame
<1>6. Types' /\ RefsBalanced' /\ Pointers' /\ Unwound'
  BY <1>1, ComponentsFrame
<1>7. /\ handles[c] = None /\ ~Exists(c) /\ c \notin running /\ c \notin attached
      /\ Chosen(plan.next, c) \in Plugins
  <2>1. c \in Additions /\ c \notin Removals
    BY <1>1, DaemonAssumption DEF Additions, Removals, IInv, Planned
  <2> QED
    BY <1>1, <1>2, <2>1, ToBeAdded
<1>8. c \notin Additions'
  BY <1>4, DaemonAssumption DEF Additions
<1>9. Stage(c)'
  BY <1>1, <1>4, <1>7, <1>8 DEF Stage, Exists
<1>10. ASSUME NEW d \in Comps, d # c PROVE Quiet(d)'
  BY <1>1, <1>3, <1>4, <1>10 DEF Quiet, AsWanted, Exists, Removals, Additions
<1>11. Staged'
  BY <1>1, <1>2, <1>9, <1>10, StagedAfter
<1> QED
  BY <1>1, <1>5, <1>6, <1>11 DEF IInv, Dropped

LEMMA AddProbeKeeps ==
    ASSUME IInv, NEW c \in Probes, AddProbe(c)
    PROVE  IInv'
<1>1. /\ at \in {"startProbes", "apply"} /\ script = << >> /\ dead = {}
      /\ c \in plan.addProbes /\ plan.rmProbes = {}
      /\ script' = Only("load", c)
      /\ UNCHANGED <<at, config, envVars, dead, handles, refs, alive, running, attached, bound,
                     wired>>
  BY DEF AddProbe, Idle, compVars, Only
<1>2. c \in Comps /\ at \notin Ending /\ at \in Planning
  BY <1>1 DEF Comps, Ending, Planning, Starting
<1>3. \A d \in Comps : Quiet(d)
  BY <1>1, <1>2, AtRest
<1>4. /\ plan' \in [rmSinks : SUBSET Sinks, addSinks : SUBSET Sinks,
                    rmProbes : SUBSET Probes, addProbes : SUBSET Probes, next : Confs]
      /\ plan'.rmSinks = plan.rmSinks /\ plan'.addSinks = plan.addSinks
      /\ plan'.rmProbes = plan.rmProbes /\ plan'.addProbes = plan.addProbes \ {c}
      /\ plan'.next = plan.next
  BY DEF AddProbe, IInv, Planned
<1>5. History' /\ InForce' /\ Planned'
  BY <1>1, <1>4, PlanFrame
<1>6. Types' /\ RefsBalanced' /\ Pointers' /\ Unwound'
  BY <1>1, ComponentsFrame
<1>7. /\ handles[c] = None /\ ~Exists(c) /\ c \notin running /\ c \notin attached
      /\ Chosen(plan.next, c) \in Plugins
  <2>1. c \in Additions /\ c \notin Removals
    BY <1>1, DaemonAssumption DEF Additions, Removals, IInv, Planned
  <2> QED
    BY <1>1, <1>2, <2>1, ToBeAdded
<1>8. c \notin Additions'
  BY <1>4, DaemonAssumption DEF Additions
<1>9. Stage(c)'
  BY <1>1, <1>4, <1>7, <1>8 DEF Stage, Exists
<1>10. ASSUME NEW d \in Comps, d # c PROVE Quiet(d)'
  BY <1>1, <1>3, <1>4, <1>10 DEF Quiet, AsWanted, Exists, Removals, Additions
<1>11. Staged'
  BY <1>1, <1>2, <1>9, <1>10, StagedAfter
<1> QED
  BY <1>1, <1>5, <1>6, <1>11 DEF IInv, Dropped

LEMMA BuryDeadKeeps ==
    ASSUME IInv, NEW c \in Probes, BuryDead(c)
    PROVE  IInv'
<1>1. /\ script = << >> /\ c \in dead /\ dead' = dead \ {c}
      /\ script' = ToDetach(c)
      /\ UNCHANGED <<at, config, plan, envVars, handles, refs, alive, running, attached, bound,
                     wired>>
  BY DEF BuryDead, ToDetach
<1>2. c \in Comps /\ at = "apply" /\ at \notin Ending
  BY <1>1 DEF Comps, Ending, IInv, Dropped
<1>3. \A d \in Comps : Quiet(d)
  BY <1>1, <1>2, AtRest
<1>4. History' /\ InForce' /\ Planned'
  BY <1>1 DEF IInv, History, InForce, Planned, Removals, envVars
<1>5. Types' /\ RefsBalanced' /\ Pointers' /\ Unwound'
  BY <1>1, ComponentsFrame
<1>6. Stage(c)'
  BY <1>1, <1>2, <1>3 DEF Stage, Quiet
<1>7. ASSUME NEW d \in Comps, d # c PROVE Quiet(d)'
  <2>1. Quiet(d) /\ (d \in dead' <=> d \in dead)
    BY <1>1, <1>3, <1>7
  <2> QED
    BY <1>1, <2>1, QuietStays DEF Quiet
<1>8. Staged'
  BY <1>1, <1>2, <1>6, <1>7, StagedAfter
<1>9. Dropped'
  <2>1. About(c)'
    BY <1>6, StageAboutNext
  <2> QED
    BY <1>1, <1>2, <2>1 DEF IInv, Dropped, About
<1> QED
  BY <1>4, <1>5, <1>8, <1>9 DEF IInv

-----------------------------------------------------------------------------
(* Daemon::start, run and reload_config: nobody is worked on.              *)

\* The thread moves on, and each running component stays wanted.
LEMMA MoveOn ==
    ASSUME IInv, script = << >>, dead = {},
           UNCHANGED <<script, dead, handles, refs, alive, running, attached, bound, wired>>,
           at' \in Planning \cup Polling \cup Ending,
           History', InForce', Planned', Unwound',
           at' \notin Ending =>
               at \notin Ending /\ \A c \in running : AsWanted(c) => AsWanted(c)'
    PROVE  IInv'
<1>1. Types' /\ RefsBalanced' /\ Pointers'
  BY SameCounts DEF IInv, Types, Pointers, Exists
<1>2. ASSUME at' \notin Ending, NEW c \in Comps PROVE Quiet(c)'
  <2>1. Quiet(c)
    BY <1>2, AtRest
  <2> QED
    BY <1>2, <2>1 DEF Quiet, Exists
<1>3. Staged' /\ Dropped'
  BY <1>2 DEF Staged, Dropped
<1> QED
  BY <1>1, <1>3 DEF IInv

\* Outside start(), and away from the additions and removals, nobody is worked on.
LEMMA Resting ==
    ASSUME IInv, at \notin {"startSinks", "startProbes", "apply"}
    PROVE  script = << >> /\ dead = {}
BY DEF IInv, Staged, Dropped

LEMMA PrepareKeeps ==
    ASSUME IInv, Prepare
    PROVE  IInv'
<1>1. /\ at = "start" /\ at' \in {"startSinks", "exit"}
      /\ at' = "startSinks" => config.general.plugin_dir # Word("")
      /\ UNCHANGED <<config, plan, script, compVars, envVars>>
  BY DEF Prepare
<1>2. script = << >> /\ dead = {}
  BY <1>1, Resting
<1>3. at' = "startSinks" => config = Loaded[applied]
  <2>1. Unset.general.plugin_dir = Word("")
    BY DEF Unset, Default
  <2> QED
    BY <1>1, <2>1 DEF IInv, InForce
<1>4. InForce'
  BY <1>1, <1>3 DEF IInv, InForce, Starting, Polling, envVars
<1>5. Planned' /\ History' /\ Unwound'
  BY <1>1 DEF IInv, Planned, History, Unwound, Removals, Starting, envVars
<1>6. \A c \in running : AsWanted(c) /\ at' \notin Ending => AsWanted(c)'
  BY <1>1 DEF AsWanted, Planning, Starting, Ending, Removals, Additions, compVars
<1>7. at' \in Planning \cup Polling \cup Ending /\ at \notin Ending
  BY <1>1 DEF Planning, Starting, Ending
<1> QED
  BY <1>1, <1>2, <1>4, <1>5, <1>6, <1>7, MoveOn DEF compVars

LEMMA SinksStartedKeeps ==
    ASSUME IInv, SinksStarted
    PROVE  IInv'
<1>1. /\ at = "startSinks" /\ script = << >> /\ dead = {}
      /\ at' \in {"startWatcher", "exit"}
      /\ wired' \in {wired, running \cap Sinks}
      /\ UNCHANGED <<config, plan, script, dead, handles, refs, alive, running, attached,
                     bound, envVars>>
  BY DEF SinksStarted, Idle
<1>2. Types' /\ RefsBalanced'
  BY <1>1, SameCounts DEF IInv, Types, Planning, Starting, Ending
<1>3. Pointers'
  BY <1>1 DEF IInv, Pointers, Exists
<1>4. InForce'
  BY <1>1 DEF IInv, InForce, Starting, Polling, envVars
<1>5. Planned' /\ History' /\ Unwound'
  BY <1>1 DEF IInv, Planned, History, Unwound, Removals, Starting, envVars
<1>6. ASSUME at' \notin Ending, NEW c \in Comps PROVE Quiet(c)'
  <2>1. at \notin Ending /\ at' = "startWatcher"
    BY <1>1, <1>6 DEF Ending
  <2>2. Quiet(c)
    BY <1>1, <2>1, AtRest
  <2> QED
    BY <1>1, <2>1, <2>2 DEF Quiet, Exists, AsWanted, Planning, Starting, Removals, Additions
<1>7. Staged' /\ Dropped'
  BY <1>1, <1>6 DEF Staged, Dropped
<1> QED
  BY <1>2, <1>3, <1>4, <1>5, <1>7 DEF IInv

LEMMA StartWatcherKeeps ==
    ASSUME IInv, StartWatcher
    PROVE  IInv'
<1>1. /\ at = "startWatcher" /\ at' \in {"startProbes", "exit"}
      /\ attached' \in {attached, attached \cup {Watcher}}
      /\ bound' \in {bound, bound \cup {Watcher}}
      /\ UNCHANGED <<config, plan, script, dead, handles, refs, alive, running, wired, envVars>>
  BY DEF StartWatcher
<1>2. script = << >> /\ dead = {}
  BY <1>1, Resting
<1>3. Types' /\ RefsBalanced'
  BY <1>1, SameCounts DEF IInv, Types, Planning, Starting, Ending
<1>4. Pointers'
  BY <1>1 DEF IInv, Pointers, Exists
<1>5. InForce'
  BY <1>1 DEF IInv, InForce, Starting, Polling, envVars
<1>6. Planned' /\ History' /\ Unwound'
  BY <1>1 DEF IInv, Planned, History, Unwound, Removals, Starting, envVars
<1>7. ASSUME at' \notin Ending, NEW c \in Comps PROVE Quiet(c)'
  <2>1. at \notin Ending /\ at' = "startProbes" /\ c # Watcher
    BY <1>1, <1>7, DaemonAssumption DEF Ending
  <2>2. Quiet(c)
    BY <1>2, <2>1, AtRest
  <2> QED
    BY <1>1, <2>1, <2>2 DEF Quiet, Exists, AsWanted, Planning, Starting, Removals, Additions
<1>8. Staged' /\ Dropped'
  BY <1>1, <1>2, <1>7 DEF Staged, Dropped
<1> QED
  BY <1>3, <1>4, <1>5, <1>6, <1>8 DEF IInv

LEMMA ProbesStartedKeeps ==
    ASSUME IInv, ProbesStarted
    PROVE  IInv'
<1>1. /\ at = "startProbes" /\ script = << >> /\ dead = {} /\ at' \in {"poll", "exit"}
      /\ UNCHANGED <<config, plan, script, compVars, envVars>>
  BY DEF ProbesStarted, Idle
<1>2. InForce'
  BY <1>1 DEF IInv, InForce, Starting, Polling, envVars
<1>3. Planned' /\ History' /\ Unwound'
  BY <1>1 DEF IInv, Planned, History, Unwound, Removals, Starting, envVars
<1>4. \A c \in running : AsWanted(c) => AsWanted(c)'
  <2>1. Removals = {} /\ plan.next = config /\ at \in Planning /\ at' \notin Planning
    BY <1>1 DEF IInv, Planned, InForce, Planning, Starting
  <2> QED
    BY <1>1, <2>1 DEF AsWanted, compVars
<1>5. at' \in Planning \cup Polling \cup Ending /\ at \notin Ending
  BY <1>1 DEF Polling, Ending
<1> QED
  BY <1>1, <1>2, <1>3, <1>4, <1>5, MoveOn DEF compVars

\* A step within the poll loop, or out of it.
LEMMA TurnKeeps ==
    ASSUME IInv, PollOnce \/ SeeStop \/ CheckReload \/ ClearReload \/ FinalFlush
    PROVE  IInv'
<1>1. /\ at \in Polling \cup {"flush"} /\ at' \in Polling \cup {"flush", "exit"}
      /\ at = "flush" => at' = "exit"
      /\ reload' \in {reload, FALSE}
      /\ UNCHANGED <<config, plan, script, compVars, file, stop, version, asked, lastRead,
                     applied>>
  BY DEF PollOnce, SeeStop, CheckReload, ClearReload, FinalFlush, Polling, envVars
<1>2. script = << >> /\ dead = {}
  BY <1>1, Resting DEF Polling
<1>3. InForce'
  BY <1>1 DEF IInv, InForce, Starting, Polling
<1>4. Planned' /\ Unwound'
  BY <1>1 DEF IInv, Planned, Unwound, Removals, Starting, Polling
<1>5. History'
  BY <1>1, Zenon DEF IInv, History
<1>6. \A c \in running : AsWanted(c) /\ at' \notin Ending => AsWanted(c)'
  BY <1>1 DEF AsWanted, Planning, Starting, Polling, Ending, compVars
<1>7. at' \in Planning \cup Polling \cup Ending /\ (at' \notin Ending => at \notin Ending)
  BY <1>1 DEF Polling, Ending
<1> QED
  BY <1>1, <1>2, <1>3, <1>4, <1>5, <1>6, <1>7, MoveOn DEF compVars

LEMMA ReadFileKeeps ==
    ASSUME IInv, ReadFile
    PROVE  IInv'
<1>1. /\ at = "read" /\ lastRead' = version
      /\ UNCHANGED <<config, script, compVars, file, stop, reload, version, asked>>
  BY DEF ReadFile
<1>2. script = << >> /\ dead = {} /\ config = Loaded[applied] /\ config \in Confs
  BY <1>1, Resting DEF IInv, InForce, Polling
<1>3. History' /\ Unwound'
  <2>1. at' \in {"apply", "poll"}
    BY DEF ReadFile
  <2> QED
    BY <1>1, <2>1 DEF IInv, History, Unwound
<1>4. CASE Loaded[file] # None /\ SameGeneral(Loaded[file])
  <2>1. /\ at' = "apply" /\ plan' = DiffPlan(Loaded[file]) /\ applied' = file
    BY <1>4 DEF ReadFile
  <2>2. PICK next \in Confs : next = Loaded[file] /\ next.general = config.general
    BY <1>4, LoadedOrNot DEF IInv, InForce, SameGeneral
  <2>3. /\ plan'.rmSinks = {c \in Sinks : Chosen(config, c) # None /\ Differs(c, next)}
        /\ plan'.addSinks = {c \in Sinks : Chosen(next, c) # None /\ Differs(c, next)}
        /\ plan'.rmProbes = {c \in Probes : Chosen(config, c) # None /\ Differs(c, next)}
        /\ plan'.addProbes = {c \in Probes : Chosen(next, c) # None /\ Differs(c, next)}
        /\ plan'.next = next
        /\ plan' \in [rmSinks : SUBSET Sinks, addSinks : SUBSET Sinks,
                      rmProbes : SUBSET Probes, addProbes : SUBSET Probes, next : Confs]
    BY <2>1, <2>2 DEF DiffPlan, Comps
  <2>4. InForce'
    BY <1>1, <1>2, <1>4, <2>1, <2>2, <2>3 DEF IInv, InForce, Starting, Polling
  <2>5. Planned'
    <3>1. plan'.addSinks \subseteq DOMAIN next.sinks /\ plan'.addProbes \subseteq DOMAIN next.probes
      BY <2>3, ChosenIs DEF Comps
    <3> QED
      BY <1>1, <2>1, <2>3, <3>1 DEF Planned, Differs, Starting
  <2>6. ASSUME NEW c \in running, AsWanted(c) PROVE AsWanted(c)'
    <3>1. c \in Comps /\ alive[c] # None
      BY DEF IInv, Types, Pointers, Exists
    <3>2. alive[c] = Chosen(config, c)
      BY <1>1, <2>6 DEF AsWanted, Planning, Starting
    <3>3. CASE Differs(c, next)
      BY <2>1, <2>3, <3>1, <3>2, <3>3 DEF AsWanted, Planning, Removals, Comps
    <3>4. CASE ~Differs(c, next)
      <4>1. Chosen(config, c) = Chosen(next, c)
        BY <3>4 DEF Differs
      <4>2. c \notin Additions' /\ alive' = alive /\ at' \in Planning
        BY <1>1, <2>1, <2>3, <3>4 DEF Additions, compVars, Planning
      <4> QED
        BY <2>3, <3>2, <4>1, <4>2 DEF AsWanted
    <3> QED
      BY <3>3, <3>4
  <2>7. at' \in Planning \cup Polling \cup Ending /\ at \notin Ending
    BY <1>1, <2>1 DEF Planning, Ending
  <2> QED
    BY <1>1, <1>2, <1>3, <2>4, <2>5, <2>6, <2>7, MoveOn DEF compVars
<1>5. CASE ~(Loaded[file] # None /\ SameGeneral(Loaded[file]))
  <2>1. at' = "poll" /\ UNCHANGED <<plan, applied>>
    BY <1>5 DEF ReadFile
  <2>2. InForce' /\ Planned'
    BY <1>1, <1>2, <2>1 DEF IInv, InForce, Planned, Removals, Starting, Polling
  <2>3. \A c \in running : AsWanted(c) => AsWanted(c)'
    BY <1>1, <2>1 DEF AsWanted, Planning, Starting, compVars
  <2>4. at' \in Planning \cup Polling \cup Ending /\ at \notin Ending
    BY <1>1, <2>1 DEF Polling, Ending
  <2> QED
    BY <1>1, <1>2, <1>3, <2>1, <2>2, <2>3, <2>4, MoveOn DEF compVars
<1> QED
  BY <1>4, <1>5

LEMMA AppliedKeeps ==
    ASSUME IInv, Applied
    PROVE  IInv'
<1>1. /\ at = "apply" /\ script = << >> /\ dead = {} /\ NothingPlanned /\ at' = "poll"
      /\ config' = [config EXCEPT !.probes = plan.next.probes, !.sinks = plan.next.sinks]
      /\ UNCHANGED <<plan, script, compVars, envVars>>
  BY DEF Applied, Idle
<1>2. /\ config \in Confs /\ plan.next \in Confs /\ plan.next.general = config.general
      /\ plan.next = Loaded[applied]
  BY <1>1 DEF IInv, InForce, Planned
<1>3. config' = plan.next
  BY <1>1, <1>2, TakenOver
<1>4. InForce'
  BY <1>1, <1>2, <1>3 DEF IInv, InForce, Starting, Polling, envVars
<1>5. Planned' /\ History' /\ Unwound'
  BY <1>1 DEF IInv, Planned, History, Unwound, Removals, Starting, envVars
<1>6. \A c \in running : AsWanted(c) => AsWanted(c)'
  <2>1. Removals = {} /\ at \in Planning /\ at' \notin Planning
    BY <1>1 DEF NothingPlanned, Removals, Planning, Starting
  <2> QED
    BY <1>1, <1>3, <2>1 DEF AsWanted, compVars
<1>7. at' \in Planning \cup Polling \cup Ending /\ at \notin Ending
  BY <1>1 DEF Polling, Ending
<1> QED
  BY <1>1, <1>4, <1>5, <1>6, <1>7, MoveOn DEF compVars

-----------------------------------------------------------------------------
(* ~Daemon.                                                                *)

LEMMA EndFrame ==
    ASSUME IInv, at \in Ending, at' \in Ending,
           UNCHANGED <<config, plan, script, dead, handles, refs, envVars>>
    PROVE  /\ History' /\ InForce' /\ Planned' /\ RefsBalanced' /\ Staged' /\ Dropped'
           /\ at' \in Planning \cup Polling \cup Ending
<1>1. script = << >> /\ dead = {}
  BY Resting DEF Ending
<1>2. at' \notin Starting \cup Polling \cup {"apply"}
  BY DEF Ending, Starting, Polling
<1>3. History' /\ RefsBalanced'
  BY SameCounts DEF IInv, History, envVars
<1>4. InForce' /\ Planned'
  BY <1>2 DEF IInv, InForce, Planned, Starting, Polling, envVars
<1>5. Staged' /\ Dropped'
  BY <1>1 DEF Staged, Dropped
<1> QED
  BY <1>3, <1>4, <1>5

LEMMA DetachAllKeeps ==
    ASSUME IInv, DetachAll
    PROVE  IInv'
<1>1. /\ at = "exit" /\ at' = "freeLoop" /\ attached' \subseteq attached
      /\ UNCHANGED <<config, plan, script, dead, handles, refs, alive, running, bound, wired,
                     envVars>>
  BY DEF DetachAll
<1>2. /\ History' /\ InForce' /\ Planned' /\ RefsBalanced' /\ Staged' /\ Dropped'
      /\ at' \in Planning \cup Polling \cup Ending
  BY <1>1, EndFrame DEF Ending
<1>3. Types' /\ Pointers' /\ Unwound'
  BY <1>1, <1>2 DEF IInv, Types, Pointers, Exists, Unwound
<1> QED
  BY <1>2, <1>3 DEF IInv

LEMMA FreeLoopKeeps ==
    ASSUME IInv, FreeLoop
    PROVE  IInv'
<1>1. /\ at = "freeLoop" /\ at' = "freePipeline" /\ bound' = {}
      /\ UNCHANGED <<config, plan, script, dead, handles, refs, alive, running, attached, wired,
                     envVars>>
  BY DEF FreeLoop
<1>2. /\ History' /\ InForce' /\ Planned' /\ RefsBalanced' /\ Staged' /\ Dropped'
      /\ at' \in Planning \cup Polling \cup Ending
  BY <1>1, EndFrame DEF Ending
<1>3. Types' /\ Pointers' /\ Unwound'
  BY <1>1, <1>2 DEF IInv, Types, Pointers, Exists, Unwound
<1> QED
  BY <1>2, <1>3 DEF IInv

LEMMA FreePipelineKeeps ==
    ASSUME IInv, FreePipeline
    PROVE  IInv'
<1>1. /\ at = "freePipeline" /\ at' = "freeProbes" /\ wired' = {}
      /\ UNCHANGED <<config, plan, script, dead, handles, refs, alive, running, attached, bound,
                     envVars>>
  BY DEF FreePipeline
<1>2. /\ History' /\ InForce' /\ Planned' /\ RefsBalanced' /\ Staged' /\ Dropped'
      /\ at' \in Planning \cup Polling \cup Ending
  BY <1>1, EndFrame DEF Ending
<1>3. Types' /\ Pointers' /\ Unwound'
  BY <1>1, <1>2 DEF IInv, Types, Pointers, Exists, Unwound
<1> QED
  BY <1>2, <1>3 DEF IInv

\* probes_ and sinks_ are freed when nobody points at them any more.
LEMMA FreeMembersKeeps ==
    ASSUME IInv, NEW kind \in {Probes, Sinks}, NEW from \in {"freeProbes", "freeSinks"},
           NEW to \in {"freeSinks", "exited"}, FreeMembers(kind, from, to)
    PROVE  IInv'
<1>1. /\ at = from /\ at' = to /\ running' = running \ kind
      /\ alive' = [c \in Comps |-> IF c \in kind \cap running THEN None ELSE alive[c]]
      /\ UNCHANGED <<config, plan, script, dead, handles, refs, attached, bound, wired, envVars>>
  BY DEF FreeMembers
<1>2. /\ History' /\ InForce' /\ Planned' /\ RefsBalanced' /\ Staged' /\ Dropped'
      /\ at' \in Planning \cup Polling \cup Ending
  BY <1>1, EndFrame DEF Ending
<1>3. bound = {} /\ wired = {}
  BY <1>1 DEF IInv, Unwound
<1>4. Types'
  BY <1>1, <1>2 DEF IInv, Types
<1>5. Pointers' /\ Unwound'
  BY <1>1, <1>3 DEF IInv, Types, Pointers, Exists, Unwound
<1> QED
  BY <1>2, <1>4, <1>5 DEF IInv

-----------------------------------------------------------------------------
(* The operator and the signal handlers.                                   *)

LEMMA SignalsKeep ==
    ASSUME IInv, Edit \/ Sighup \/ Sigterm
    PROVE  IInv'
<1>1. /\ UNCHANGED <<at, config, plan, script, compVars, lastRead, applied>>
      /\ file' \in DOMAIN Files
  BY DEF Edit, Sighup, Sigterm, IInv, InForce
<1>2. version' \in 0..MaxEdits /\ asked' \in 0..MaxEdits
  BY DaemonAssumption DEF Edit, Sighup, Sigterm, IInv, History
<1>3. stop' \in BOOLEAN /\ reload' \in BOOLEAN
  BY Zenon DEF Edit, Sighup, Sigterm, IInv, History
<1>4. History'
  BY <1>1, <1>2, <1>3 DEF IInv, History
<1>5. InForce' /\ Planned'
  BY <1>1 DEF IInv, InForce, Planned, Removals
<1>6. Types' /\ RefsBalanced' /\ Pointers' /\ Unwound'
  BY <1>1, ComponentsFrame DEF compVars
<1>7. ASSUME NEW c PROVE /\ Quiet(c) => Quiet(c)'
                         /\ Stage(c) => Stage(c)'
                         /\ About(c) <=> About(c)'
  <2>1. Quiet(c) => Quiet(c)'
    BY <1>1, QuietStays DEF compVars, Quiet
  <2>2. Stage(c) => Stage(c)'
    BY <1>1, <2>1 DEF compVars, Stage, New, Leaves, Exists, Additions
  <2> QED
    BY <1>1, <2>1, <2>2 DEF About
<1>8. Staged'
  BY <1>1, <1>7 DEF IInv, Staged
<1>9. Dropped'
  BY <1>1, <1>7 DEF IInv, Dropped, compVars
<1> QED
  BY <1>4, <1>5, <1>6, <1>8, <1>9 DEF IInv

-----------------------------------------------------------------------------
LEMMA InitIInv == Init => IInv
<1> SUFFICES ASSUME Init PROVE IInv
  OBVIOUS
<1>1. config \in Confs /\ file \in DOMAIN Files /\ Loaded[file] # None
  BY LoadedOrNot DEF Init, Confs
<1>2. DOMAIN config.sinks \subseteq Sinks /\ DOMAIN config.probes \subseteq Probes
  BY <1>1, ConfIs DEF WellFormed
<1>3. Types
  BY DEF Init, Types, Planning, Starting
<1>4. History
  <2>1. stop \in BOOLEAN /\ reload \in BOOLEAN
    BY Zenon DEF Init
  <2>2. 0 \in 0..MaxEdits
    BY DaemonAssumption
  <2> QED
    BY <2>1, <2>2 DEF Init, History
<1>5. InForce
  BY <1>1 DEF Init, InForce, Starting, Polling
<1>6. Planned
  BY <1>1, <1>2 DEF Init, Planned, Removals
<1>7. RefsBalanced
  <2>1. ASSUME NEW p \in Plugins PROVE Holders(handles, p) = {}
    BY DaemonAssumption DEF Init, Holders
  <2>2. Cardinality({}) = 0
    BY FS_EmptySet
  <2>3. ASSUME NEW p \in Plugins PROVE refs[p] = Cardinality(Holders(handles, p))
    <3>1. refs[p] = 0
      BY DEF Init
    <3> QED
      BY <2>1, <2>2, <3>1
  <2> QED
    BY <2>3 DEF RefsBalanced, Holders
<1>8. Pointers
  BY DEF Init, Pointers, Exists
<1>9. Staged
  <2>1. ASSUME NEW c \in Comps PROVE Quiet(c)
    BY DEF Init, Quiet, Exists
  <2> QED
    BY <2>1 DEF Init, Staged
<1>10. Dropped /\ Unwound
  BY DEF Init, Dropped, Unwound
<1> QED
  BY <1>3, <1>4, <1>5, <1>6, <1>7, <1>8, <1>9, <1>10 DEF IInv

LEMMA NextKeeps == IInv /\ [Next]_vars => IInv'
<1> SUFFICES ASSUME IInv, [Next]_vars PROVE IInv'
  OBVIOUS
<1>1. CASE UNCHANGED vars
  <2>1. UNCHANGED <<at, config, plan, script, compVars, envVars>>
    BY <1>1 DEF vars, compVars, envVars
  <2>2. History' /\ InForce' /\ Planned'
    BY <2>1 DEF IInv, History, InForce, Planned, Removals, envVars
  <2>3. Types' /\ RefsBalanced' /\ Pointers' /\ Unwound'
    BY <2>1, ComponentsFrame DEF compVars
  <2>4. ASSUME NEW c PROVE /\ Quiet(c) => Quiet(c)'
                           /\ Stage(c) => Stage(c)'
                           /\ About(c) <=> About(c)'
    <3>1. Quiet(c) => Quiet(c)'
      BY <2>1, QuietStays DEF compVars, Quiet
    <3>2. Stage(c) => Stage(c)'
      BY <2>1, <3>1 DEF compVars, Stage, New, Leaves, Exists, Additions
    <3> QED
      BY <2>1, <3>1, <3>2 DEF About
  <2>5. Staged' /\ Dropped'
    BY <2>1, <2>4 DEF IInv, Staged, Dropped, compVars
  <2> QED
    BY <2>2, <2>3, <2>5 DEF IInv
<1>2. CASE \E c \in Comps : Call(c)
  BY <1>2, CallKeeps
<1>3. CASE \E c \in Sinks : RemoveSink(c) \/ AddSink(c)
  BY <1>3, RemoveSinkKeeps, AddSinkKeeps
<1>4. CASE \E c \in Probes : RemoveProbe(c) \/ AddProbe(c) \/ BuryDead(c)
  BY <1>4, RemoveProbeKeeps, AddProbeKeeps, BuryDeadKeeps
<1>5. CASE Prepare \/ SinksStarted \/ StartWatcher \/ ProbesStarted
  BY <1>5, PrepareKeeps, SinksStartedKeeps, StartWatcherKeeps, ProbesStartedKeeps
<1>6. CASE PollOnce \/ SeeStop \/ CheckReload \/ ClearReload \/ FinalFlush
  BY <1>6, TurnKeeps
<1>7. CASE ReadFile \/ Applied
  BY <1>7, ReadFileKeeps, AppliedKeeps
<1>8. CASE DetachAll \/ FreeLoop \/ FreePipeline
  BY <1>8, DetachAllKeeps, FreeLoopKeeps, FreePipelineKeeps
<1>9. CASE FreeProbes \/ FreeSinks
  BY <1>9, FreeMembersKeeps DEF FreeProbes, FreeSinks
<1>10. CASE Edit \/ Sighup \/ Sigterm
  BY <1>10, SignalsKeep
<1>11. CASE Exited
  BY <1>1, <1>11 DEF Exited
<1> QED
  BY <1>1, <1>2, <1>3, <1>4, <1>5, <1>6, <1>7, <1>8, <1>9, <1>10, <1>11 DEF Next, DaemonStep

\* Every call of every script finds its component where the calls before it left
\* it, and everyone else at rest.
THEOREM Invariance == Spec => []IInv
BY InitIInv, NextKeeps, PTL DEF Spec

\* No pointer of the pipeline or the event loop dangles, after any single call of
\* a start, a reload or the destructor, whichever calls fail; and a component is
\* destroyed before its plugin is unmapped.
THEOREM NothingDangles == Spec => []NoDangling
<1>1. IInv => NoDangling
  <2> SUFFICES ASSUME IInv PROVE NoDangling
    OBVIOUS
  <2>1. /\ WellFormed(config) /\ DOMAIN config.general = DOMAIN Default
        /\ WellFormed(plan.next)
    BY ConfIs DEF IInv, InForce, Planned
  <2>2. at \in {"start", "startSinks", "startWatcher", "startProbes", "poll", "ticked", "clear",
                "read", "apply", "flush", "exit", "freeLoop", "freePipeline",
                "freeProbes", "freeSinks", "exited"}
    BY DEF IInv, Types, Planning, Starting, Polling, Ending
  <2>3. TypeOK
    BY <2>1, <2>2 DEF IInv, Types, History, InForce, Planned, TypeOK
  <2>4. ASSUME NEW c \in Comps, Exists(c) PROVE refs[alive[c]] > 0
    <3>1. PICK p \in Plugins : p = alive[c] /\ p = handles[c]
      BY <2>4 DEF IInv, Types, Pointers, Exists
    <3>2. PICK H : H = {d \in Comps : handles[d] = p}
      OBVIOUS
    <3>3. c \in H /\ H \subseteq Comps
      BY <3>1, <3>2
    <3>4. Cardinality(H) \in Nat /\ Cardinality(H) # 0
      BY <3>3, CompsFinite, FS_CardinalityType, FS_EmptySet
    <3>5. refs[p] = Cardinality(H)
      BY <3>2 DEF IInv, RefsBalanced
    <3> QED
      BY <3>1, <3>4, <3>5
  <2> QED
    BY <2>3, <2>4 DEF IInv, Pointers, NoDangling
<1> QED
  BY <1>1, Invariance, PTL

\* The dynamic linker's count of a plugin is the number of instances that hold a
\* handle of it, for any number of instances and on every failure path.
THEOREM ReferencesBalance == Spec => []RefsBalanced
<1>1. IInv => RefsBalanced
  BY DEF IInv
<1> QED
  BY <1>1, Invariance, PTL

\* Between reloads what runs is what the accepted configuration names, and nothing
\* else is there; no probe is attached and not polled.
THEOREM RunsAsConfigured == Spec => []RunningAsConfigured
<1>1. IInv => RunningAsConfigured
  <2> SUFFICES ASSUME IInv, at = "poll"
               PROVE  /\ \A c \in running : alive[c] = Chosen(config, c)
                      /\ \A c \in Comps : /\ Exists(c) <=> c \in running
                                          /\ handles[c] = alive[c]
                      /\ attached \cap Probes = bound \cap Probes
    BY DEF RunningAsConfigured
  <2>1. script = << >> /\ dead = {} /\ at \notin Ending /\ at \notin Planning
    BY Resting DEF Ending, Planning, Starting
  <2>2. \A c \in Comps : Quiet(c)
    BY <2>1, AtRest
  <2>3. running \subseteq Comps
    BY DEF IInv, Types
  <2>4. \A c \in running : alive[c] = Chosen(config, c)
    BY <2>1, <2>2, <2>3 DEF Quiet, AsWanted
  <2>5. \A c \in Comps : (Exists(c) <=> c \in running) /\ handles[c] = alive[c]
    BY <2>2 DEF Quiet, IInv, Pointers
  <2>6. attached \cap Probes = bound \cap Probes
    BY <2>1, <2>2 DEF Quiet, Comps
  <2> QED
    BY <2>4, <2>5, <2>6
<1> QED
  BY <1>1, Invariance, PTL

\* A reload takes a file whole or not at all: what is in force between reloads is
\* what one file says, of every component and in every general setting.
THEOREM ForceAsWritten == Spec => []InForceAsWritten
<1>1. IInv => InForceAsWritten
  <2> SUFFICES ASSUME IInv, at = "poll"
               PROVE  /\ config.general = Loaded[applied].general
                      /\ \A c \in Probes :
                            Chosen(config, c) = Says(Files[applied], "probes", c)
                      /\ \A c \in Sinks :
                            Chosen(config, c) = Says(Files[applied], "sinks", c)
    BY DEF InForceAsWritten
  <2>1. applied \in DOMAIN Files /\ Loaded[applied] # None /\ config = Loaded[applied]
    BY DEF IInv, InForce, Polling
  <2> QED
    BY <2>1, LoadedSays
<1> QED
  BY <1>1, Invariance, PTL

\* A reload stops or rebuilds a sink only if the new file removes it or changes
\* its plugin, whatever happens to the components around it.
THEOREM StayingSinksUntouched == Spec => StayingSinkUntouched
<1>1. ASSUME IInv, [Next]_vars
      PROVE  [\A c \in Sinks :
                  (at = "apply" /\ Exists(c) /\ alive'[c] # alive[c])
                      => Chosen(config, c) # Chosen(plan.next, c)]_vars
  <2> SUFFICES ASSUME Next, NEW c \in Sinks, at = "apply", Exists(c), alive'[c] # alive[c]
               PROVE  Chosen(config, c) # Chosen(plan.next, c)
    BY <1>1 DEF vars
  <2>1. c \in Comps
    BY DEF Comps
  <2>2. PICK d \in Comps : Call(d) /\ (Build(d) \/ Destroy(d))
    BY DEF Next, Edit, Sighup, Sigterm, Exited, vars, compVars, DaemonStep, Call, Load,
           StartProbe, Arm, Enlist, Disarm, Detach, Erase, Wire, Flush, Unload, RemoveSink, AddSink,
           RemoveProbe, AddProbe, BuryDead, Prepare, SinksStarted, StartWatcher,
           ProbesStarted, PollOnce, SeeStop, CheckReload, ClearReload, ReadFile, Applied,
           FinalFlush, DetachAll, FreeLoop, FreePipeline, FreeProbes, FreeSinks, FreeMembers
  <2>3. UNCHANGED <<at, config, plan, envVars>>
    BY <2>2 DEF Call
  <2>4. CASE Build(d)
    <3>1. Calling("build", d)
      BY <2>4 DEF Build
    <3>2. Stage(d)
      BY <1>1, <2>3, <3>1, CallStage
    <3>3. script = Only("build", d) /\ ~Exists(d)
      BY <3>1, <3>2, Calls DEF Calling, Stage
    <3>4. \A b \in Comps : b # d => alive'[b] = alive[b]
      BY <1>1, <2>4 DEF Build, IInv, Types
    <3> QED
      BY <2>1, <3>3, <3>4
  <2>5. CASE Destroy(d)
    <3>1. Calling("destroy", d)
      BY <2>5 DEF Destroy
    <3>2. Stage(d)
      BY <1>1, <2>3, <3>1, CallStage
    <3>3. script = ToDestroy(d) /\ Leaves(d)
      BY <3>1, <3>2, Calls DEF Calling, Stage
    <3>4. \A b \in Comps : b # d => alive'[b] = alive[b]
      BY <1>1, <2>5 DEF Destroy, IInv, Types
    <3> QED
      BY <2>1, <3>3, <3>4 DEF Leaves
  <2> QED
    BY <2>2, <2>4, <2>5
<1> QED
  BY <1>1, Invariance, PTL DEF Spec, StayingSinkUntouched
=============================================================================
