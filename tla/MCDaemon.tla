------------------------------ MODULE MCDaemon ------------------------------
(* Daemon for TLC: two probes that may share a plugin, one sink, and what  *)
(* an operator may write, mistakes included.                               *)
EXTENDS Daemon, TLC

Text(w) == [type |-> "string", text |-> w]
Whole(n) == [type |-> "integer", value |-> n]
Node(members) == "node" :> Obj("plugin_dir" :> Text(Word("lib")) @@ members)

\* A component, with the plugin it names and its other settings.
Comp(plugin, settings) == Obj("plugin" :> Text(Word(plugin)) @@ settings)

\* Two instances of a probe and a sink that is its own plugin, with and without
\* saying that they are wanted.
Both == "probes" :> Obj("p1" :> Comp("A", "enabled" :> Whole(1)) @@ "p2" :> Comp("A", << >>))
           @@ "sinks" :> Obj("s1" :> Obj("enabled" :> [type |-> "boolean", value |-> TRUE]))

MCFiles ==
    [ \* an interval beyond the range leaves the default
      both |-> Obj(Node("flush_interval" :> Text(Number(4096))) @@ Both),
      \* p2 switched off, the sink's plugin changed; "1s" is the default
      one |-> Obj(Node("flush_interval" :> Text([digits |-> 1, rest |-> "s"]))
                  @@ "probes" :> Obj("p1" :> Comp("A", << >>)
                                     @@ "p2" :> Comp("A", "enabled" :> Text(Word("off"))))
                  @@ "sinks" :> Obj("s1" :> Comp("T", "max_queued_batches" :> Whole(8)))),
      \* p2 alone, of another plugin, with a switch that does not parse; a batch
      \* size that is no number
      other |-> Obj(Node("batch_size" :> Text(Word("many")))
                    @@ "probes" :> Obj("p2" :> Comp("B", "enabled" :> Text(Word("maybe"))))
                    @@ "sinks" :> Obj("s1" :> Obj("enabled" :> [type |-> "boolean",
                                                                value |-> FALSE]))),
      \* another batch size, and no sink
      general |-> Obj(Node("batch_size" :> Whole(128)) @@ [Both EXCEPT !["sinks"] = Obj(<< >>)]),
      \* no plugin_dir
      nowhere |-> Obj(Both),
      \* files that do not load
      number |-> Obj(Node("cluster" :> Whole(1)) @@ Both),
      unknown |-> Obj("nodes" :> Obj(<< >>) @@ Both),
      garbled |-> [type |-> "unreadable"] ]

MCPlugins == {Word("A"), Word("B"), Word("s1"), Word("T")}
MCPerUnit == "" :> 1 @@ "ms" :> 1 @@ "s" :> 1000 @@ "m" :> 60000 @@ "h" :> 3600000
=============================================================================
