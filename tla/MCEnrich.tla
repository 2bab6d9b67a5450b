------------------------------ MODULE MCEnrich ------------------------------
(* Enrich for TLC: two instances of proc_lifecycle and one of oom, a user  *)
(* without a name, an exit and a core dump.                                *)
EXTENDS Enrich, TLC

MCPluginOf == "a" :> "proc_lifecycle" @@ "b" :> "proc_lifecycle" @@ "c" :> "oom"

MCEnds == {[status |-> 3, signal |-> 0, core |-> 0], [status |-> 0, signal |-> 11, core |-> 1]}
=============================================================================
