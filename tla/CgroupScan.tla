----------------------------- MODULE CgroupScan -----------------------------
(***************************************************************************)
(* The bootstrap walk of the cgroup tree (CgroupResolver::start in core/   *)
(* attribution/attribution.cpp) while Slurm goes on making and removing    *)
(* cgroups under it, and how a path becomes a job, a step and a task.      *)
(*                                                                         *)
(* A path is the sequence of its segments; a segment is one of the         *)
(* prefixes the parser knows, or "", and the text after it: the number its *)
(* leading digits spell (NoDigits if none) and what follows them.  The map *)
(* is told for the directories there are: an entry goes with its           *)
(* directory, whose id no other gets (Attribution has ids come back).      *)
(***************************************************************************)
EXTENDS Integers, SequencesExt

CONSTANTS Root,    \* root_, as discover_cgroup_root() found it
          Paths,   \* the directories that may exist under it
          MaxId,   \* UINT32_MAX
          None     \* std::nullopt

NoDigits == -1

Parent(p) == Front(p)
Children(p) == {c \in Paths : Parent(c) = p}

Segments == [prefix : STRING, digits : {NoDigits} \cup Nat, rest : STRING]

ASSUME ScanAssumption ==
    /\ Root \in Seq(Segments) /\ Paths \subseteq Seq(Segments)
    /\ \A p \in Paths : p # << >> /\ (Parent(p) \in Paths \/ Parent(p) = << >>)
    /\ MaxId \in Nat /\ None \notin 0..MaxId

VARIABLES dirs,     \* the directories there are
          at,       \* "pop", "open", "read", "done"
          stack,    \* directories still to visit, the next one last
          current,  \* the directory being visited
          listed,   \* its children there were at some time since it was opened
          seen,     \* those readdir() has returned
          entries,  \* entries_: the identity each directory was entered with
          steady    \* history: the directories there have been since the walk began

walk == <<at, stack, current, entries>>
vars == <<dirs, at, stack, current, listed, seen, entries, steady>>

-----------------------------------------------------------------------------
(* parse_cgroup_path().                                                    *)

\* parse_numeric_suffix(): no junk after the digits, and no number too large.
Numeric(seg, prefix) ==
    /\ seg.prefix = prefix
    /\ seg.digits # NoDigits /\ seg.rest = ""
    /\ seg.digits <= MaxId

IsJob(seg)  == Numeric(seg, "job_")
IsStep(seg) == seg.prefix = "step_" /\ (seg.digits # NoDigits \/ seg.rest # "")
IsTask(seg) == Numeric(seg, "task_")

Suffix(seg) == [digits |-> seg.digits, rest |-> seg.rest]

\* Slip: a nested job keeps the step and the task it found before.
RefineMixing(attr, seg) ==
    IF IsJob(seg) THEN [attr EXCEPT !.job = seg.digits]
    ELSE IF IsStep(seg) THEN [attr EXCEPT !.step = Suffix(seg), !.task = None]
    ELSE IF IsTask(seg) THEN [attr EXCEPT !.task = seg.digits]
    ELSE attr

\* What one more segment says.
Refine(attr, seg) ==
    IF IsJob(seg) THEN [job |-> seg.digits, step |-> None, task |-> None]
    ELSE IF IsStep(seg) THEN [attr EXCEPT !.step = Suffix(seg), !.task = None]
    ELSE IF IsTask(seg) THEN [attr EXCEPT !.task = seg.digits]
    ELSE attr

Unattributed == [job |-> None, step |-> None, task |-> None]

ParseCgroupPath(path) ==
    LET attr == FoldLeft(Refine, Unattributed, path)
    IN  IF attr.job = None THEN None ELSE attr

-----------------------------------------------------------------------------
(* Slurm.                                                                  *)

\* CgroupResolver::start(), past its test that the root is a directory.
Init ==
    /\ dirs \in {d \in SUBSET Paths : \A p \in d : Parent(p) \in d \cup {<< >>}}
    /\ at = "pop"
    /\ stack = << << >> >>
    /\ current = << >>
    /\ listed = {}
    /\ seen = {}
    /\ entries = [p \in Paths |-> None]
    /\ steady = dirs

Mkdir(p) ==
    /\ at # "done"
    /\ p \notin dirs
    /\ Parent(p) \in dirs \cup {<< >>}
    /\ dirs' = dirs \cup {p}
    /\ listed' = IF at = "read" /\ Parent(p) = current THEN listed \cup {p} ELSE listed
    /\ UNCHANGED <<walk, seen, steady>>

Rmdir(p) ==
    /\ at # "done"
    /\ p \in dirs
    /\ Children(p) \cap dirs = {}
    /\ dirs' = dirs \ {p}
    /\ steady' = steady \ {p}
    /\ entries' = [entries EXCEPT ![p] = None]
    /\ UNCHANGED <<at, stack, current, listed, seen>>

-----------------------------------------------------------------------------
(* add_subtree().                                                          *)

\* Take the next directory and, unless it is the root, add_dir() it: nothing if
\* it has gone, nothing if its path names no job.
Pop ==
    /\ at = "pop"
    /\ stack # << >>
    /\ current' = Last(stack)
    /\ stack' = Front(stack)
    /\ entries' = IF Last(stack) \in dirs
                  THEN [entries EXCEPT ![Last(stack)] = ParseCgroupPath(Root \o Last(stack))]
                  ELSE entries
    /\ at' = "open"
    /\ UNCHANGED <<dirs, listed, seen, steady>>

\* Slip: a directory that cannot be opened is tried again later.
GoneAgain == stack' = Append(stack, current)

\* What becomes of a directory that has gone before it is opened.
Gone == UNCHANGED stack

\* opendir(): fails if the directory has gone.
Open ==
    /\ at = "open"
    /\ IF current \in dirs \cup {<< >>}
       THEN /\ at' = "read"
            /\ listed' = Children(current) \cap dirs
            /\ seen' = {}
            /\ UNCHANGED stack
       ELSE /\ at' = "pop"
            /\ Gone
            /\ UNCHANGED <<listed, seen>>
    /\ UNCHANGED <<dirs, current, entries, steady>>

\* Slip: an entry of unknown type taken for no directory.
ReadTrustingType(c) ==
    /\ at = "read"
    /\ c \in listed \ seen
    /\ seen' = seen \cup {c}
    /\ stack' \in {stack, Append(stack, c)}
    /\ UNCHANGED <<dirs, at, current, listed, entries, steady>>

\* readdir() returns a name at most once, and may return one that has gone or
\* has come since the directory was opened.  A child that has gone is pushed if
\* its type was known, and not if is_dir() has to be asked.
Read(c) ==
    /\ at = "read"
    /\ c \in listed \ seen
    /\ seen' = seen \cup {c}
    /\ \/ stack' = Append(stack, c)
       \/ c \notin dirs /\ UNCHANGED stack
    /\ UNCHANGED <<dirs, at, current, listed, entries, steady>>

\* readdir() returns null once every child that was there all along was returned.
Close ==
    /\ at = "read"
    /\ Children(current) \cap steady \subseteq seen
    /\ at' = "pop"
    /\ listed' = {}
    /\ seen' = {}
    /\ UNCHANGED <<dirs, stack, current, entries, steady>>

Scanned ==
    /\ at = "pop"
    /\ stack = << >>
    /\ at' = "done"
    /\ current' = << >>
    /\ UNCHANGED <<dirs, stack, listed, seen, entries, steady>>

Done == at = "done" /\ UNCHANGED vars

Walk == Pop \/ Open \/ (\E c \in Paths : Read(c)) \/ Close \/ Scanned
Slurm == \E p \in Paths : Mkdir(p) \/ Rmdir(p)
Next == Walk \/ Slurm \/ Done

\* The walk is given the processor now and then; Slurm is never quiet for its
\* sake.
Spec == Init /\ [][Next]_vars /\ WF_vars(Walk)

-----------------------------------------------------------------------------
(* Properties.                                                             *)

TypeOK ==
    /\ dirs \subseteq Paths /\ \A p \in dirs : Parent(p) \in dirs \cup {<< >>}
    /\ at \in {"pop", "open", "read", "done"}
    /\ \A i \in DOMAIN stack : stack[i] \in Paths \cup {<< >>}
    /\ current \in Paths \cup {<< >>}
    /\ seen \subseteq listed /\ listed \subseteq Children(current)
    /\ DOMAIN entries = Paths
    /\ steady \subseteq dirs

\* Whose work a path is, told by positions and not segment by segment: the last
\* job on it, the last step below that job, the last task below both.
LastAfter(path, low, Is(_)) ==
    LET found == {i \in DOMAIN path : i > low /\ Is(path[i])}
    IN  IF found = {} THEN 0 ELSE Max(found)

Reference(path) ==
    LET job  == LastAfter(path, 0, IsJob)
        step == LastAfter(path, job, IsStep)
        task == LastAfter(path, Max({job, step}), IsTask)
    IN  IF job = 0 THEN None
        ELSE [job |-> path[job].digits,
              step |-> IF step = 0 THEN None ELSE Suffix(path[step]),
              task |-> IF task = 0 THEN None ELSE path[task].digits]

\* What is entered is right: no directory has the identity of another job, or
\* the step of one job and the task of another, or a job that "job_12x" is not.
EnteredRight ==
    /\ TypeOK
    /\ \A p \in Paths : entries[p] # None => entries[p] = Reference(Root \o p)

\* The bootstrap misses nobody who was there: when the walk ends, every job's
\* directory that was there before it began and still is has been entered,
\* whatever came and went around it, at any depth.
SteadyFound ==
    at = "done" => \A p \in steady : entries[p] = Reference(Root \o p)

\* The walk ends, and the daemon starts, on a node where cgroups come and go all
\* the time.
ScanEnds == <>(at = "done")
=============================================================================
