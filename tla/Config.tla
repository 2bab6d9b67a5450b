------------------------------- MODULE Config -------------------------------
(***************************************************************************)
(* What a configuration file means: the loader (core/config/config_file.   *)
(* cpp), the getters that turn text into values, and the diff a reload     *)
(* acts on (core/config/config.cpp).  Pure operators, used by Daemon.      *)
(*                                                                         *)
(* A text is what the getters tell apart of a string: the number its       *)
(* leading digits spell, and what follows them, letter case left out.  A   *)
(* JSON value is a record with its type; a file that cannot be opened or   *)
(* does not parse has the type "unreadable".                               *)
(***************************************************************************)
EXTENDS Integers

CONSTANTS Width,    \* bits of an unsigned long long
          PerUnit   \* milliseconds in each unit a duration may be given in

ASSUME ConfigAssumption ==
    /\ Width \in Nat \ {0}
    /\ PerUnit \in [{"", "ms", "s", "m", "h"} -> Nat \ {0}]

NoDigits == -1
Word(w) == [digits |-> NoDigits, rest |-> w]
Number(n) == [digits |-> n, rest |-> ""]

Obj(members) == [type |-> "object", members |-> members]
Has(f, key) == key \in DOMAIN f

\* Two's complement: what the build makes of a value that does not fit.
Signed(n) == LET m == n % 2^Width IN IF m < 2^(Width - 1) THEN m ELSE m - 2^Width

-----------------------------------------------------------------------------
(* ComponentConfig: settings kept as text, converted when read.            *)

\* stringify()
Stringify(v) ==
    CASE v.type = "string"  -> v.text
      [] v.type = "boolean" -> Word(IF v.value THEN "true" ELSE "false")
      [] v.type = "integer" -> IF Signed(v.value) < 0 THEN Word("-") ELSE Number(Signed(v.value))
      [] v.type = "float"   -> [digits |-> v.value, rest |-> ".000000"]
      [] OTHER              -> Word("{}")

Trues  == {Word("true"), Word("yes"), Word("on"), Number(1)}
Falses == {Word("false"), Word("no"), Word("off"), Number(0)}

GetBool(c, key, fallback) ==
    IF Has(c, key) /\ c[key] \in Trues \cup Falses THEN c[key] \in Trues ELSE fallback

\* strtoull() reports a number that does not fit.
Fits(t) == t.digits # NoDigits /\ t.digits < 2^Width

GetUint(c, key, fallback) ==
    IF Has(c, key) /\ Fits(c[key]) /\ c[key].rest = "" THEN c[key].digits ELSE fallback

\* parse_duration_ms(); std::chrono multiplies without looking.
GetDuration(c, key, fallback) ==
    IF Has(c, key) /\ Fits(c[key]) /\ Has(PerUnit, c[key].rest)
    THEN Signed(Signed(c[key].digits) * PerUnit[c[key].rest])
    ELSE fallback

\* plugin_of()
PluginOf(id, c) == IF Has(c, "plugin") THEN c["plugin"] ELSE Word(id)

-----------------------------------------------------------------------------
(* load_config_file().                                                     *)

Sections   == {"node", "slurm", "probes", "sinks"}
StringKeys == {"cluster", "node", "plugin_dir", "cgroup_root"}
NodeKeys   == {"cluster", "node", "plugin_dir", "batch_size", "flush_interval", "verbose"}
SlurmKeys  == {"cgroup_root"}

\* A Config nobody has set anything in.
Default ==
    [cluster |-> Word("local"), node |-> Word(""), cgroup_root |-> Word(""),
     plugin_dir |-> Word(""), batch_size |-> 64, flush_interval |-> 1000, verbose |-> FALSE]

\* load_object(): an unknown key, or no string where get<std::string>() wants
\* one, fails the file.
ObjectLoads(section, keys) ==
    /\ section.type = "object"
    /\ DOMAIN section.members \subseteq keys
    /\ \A k \in DOMAIN section.members \cap StringKeys : section.members[k].type = "string"

\* load_components(): each member is an object; what is in it is not looked at.
ComponentsLoad(section) ==
    /\ section.type = "object"
    /\ \A id \in DOMAIN section.members : section.members[id].type = "object"

Texts(section) == [k \in DOMAIN section.members |-> Stringify(section.members[k])]
Components(section) == [id \in DOMAIN section.members |-> Texts(section.members[id])]

\* Slip: a component is off unless it says otherwise.
DropUnlessEnabled(components) ==
    [id \in {i \in DOMAIN components : GetBool(components[i], "enabled", FALSE)}
        |-> components[id]]

\* drop_disabled()
DropDisabled(components) ==
    [id \in {i \in DOMAIN components : GetBool(components[i], "enabled", TRUE)}
        |-> components[id]]

\* The assignments of the "node" and "slurm" handlers.  A number or a switch
\* that does not parse leaves the default.
General(node, slurm) ==
    LET n == Texts(node)
        s == Texts(slurm)
        text(f, k) == IF Has(f, k) THEN f[k] ELSE Default[k]
    IN  [cluster |-> text(n, "cluster"), node |-> text(n, "node"),
         cgroup_root |-> text(s, "cgroup_root"), plugin_dir |-> text(n, "plugin_dir"),
         batch_size |-> GetUint(n, "batch_size", Default.batch_size),
         flush_interval |-> GetDuration(n, "flush_interval", Default.flush_interval),
         verbose |-> GetBool(n, "verbose", Default.verbose)]

Section(root, name) == IF Has(root.members, name) THEN root.members[name] ELSE Obj(<< >>)

\* Whether load_config_file() returns a Config ...
Loads(root) ==
    /\ root.type = "object"
    /\ DOMAIN root.members \subseteq Sections
    /\ ObjectLoads(Section(root, "node"), NodeKeys)
    /\ ObjectLoads(Section(root, "slurm"), SlurmKeys)
    /\ ComponentsLoad(Section(root, "probes"))
    /\ ComponentsLoad(Section(root, "sinks"))

\* ... and which.
LoadConfigFile(root) ==
    [general |-> General(Section(root, "node"), Section(root, "slurm")),
     probes |-> DropDisabled(Components(Section(root, "probes"))),
     sinks |-> DropDisabled(Components(Section(root, "sinks")))]
=============================================================================
