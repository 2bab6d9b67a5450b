-------------------------- MODULE CgroupScanProofs --------------------------
(***************************************************************************)
(* Safety of CgroupScan for every root, every tree of paths and any limit  *)
(* on ids.  Two arguments.  The parser, a fold over the segments, computes *)
(* what Reference tells by positions, for every path: a function of the    *)
(* sets of positions that solves the fold's equation (AttrSolves) is the   *)
(* only one (FoldIs), by a least counterexample.  And the walk: a steady   *)
(* directory that is not entered has an ancestor whose turn is still to    *)
(* come (Covered).                                                         *)
(***************************************************************************)
EXTENDS CgroupScan, WellFoundedInduction, SequenceTheorems, TLAPS

-----------------------------------------------------------------------------
(* Numbers.                                                                *)

LEMMA Least ==
    ASSUME NEW T \in SUBSET Nat, T # {}
    PROVE  \E x \in T : \A y \in T : x <= y
<1>1. PICK R : R = OpToRel(<, Nat)
  OBVIOUS
<1>2. IsWellFoundedOn(R, Nat)
  BY <1>1, NatLessThanWellFounded
<1>3. PICK x \in T : \A y \in T : ~(<<y, x>> \in R)
  BY <1>2, WFMin
<1>4. R = {ss \in Nat \X Nat : ss[1] < ss[2]}
  BY <1>1 DEF OpToRel
<1>5. \A y \in Nat : y < x => <<y, x>> \in R
  BY <1>4
<1>6. ASSUME NEW y \in T PROVE x <= y
  <2>1. x \in Nat /\ y \in Nat /\ ~(y < x)
    BY <1>3, <1>5
  <2> QED
    BY <2>1
<1> QED
  BY <1>6

LEMMA MaxIs ==
    ASSUME NEW S \in SUBSET Nat, NEW m \in S, \A y \in S : y <= m
    PROVE  Max(S) = m
<1>1. \A x \in S : (\A y \in S : x >= y) <=> x = m
  OBVIOUS
<1> QED
  BY <1>1 DEF Max

\* A set of positions has a last one.
LEMMA MaxOf ==
    ASSUME NEW n \in Nat, NEW S \in SUBSET (1..n), S # {}
    PROVE  Max(S) \in S /\ \A y \in S : y <= Max(S)
<1>1. PICK T : T = {n - x : x \in S}
  OBVIOUS
<1>2. T \in SUBSET Nat /\ T # {}
  <2>1. \A x \in S : n - x \in Nat
    OBVIOUS
  <2>2. PICK x \in S : TRUE
    OBVIOUS
  <2>3. n - x \in T
    BY <1>1, <2>2
  <2> QED
    BY <1>1, <2>1, <2>3
<1>3. PICK k \in T : \A y \in T : k <= y
  BY <1>2, Least
<1>4. PICK m \in S : k = n - m
  BY <1>1
<1>5. ASSUME NEW y \in S PROVE y <= m
  <2>1. n - m <= n - y
    BY <1>1, <1>3, <1>4
  <2> QED
    BY <2>1
<1>6. S \in SUBSET Nat
  OBVIOUS
<1>7. Max(S) = m
  BY <1>5, <1>6, MaxIs
<1> QED
  BY <1>5, <1>7

LEMMA MaxOfTwo ==
    ASSUME NEW a \in Nat, NEW b \in Nat
    PROVE  Max({a, b}) = IF a >= b THEN a ELSE b
<1>1. {a, b} \in SUBSET Nat
  OBVIOUS
<1>2. CASE a >= b
  BY <1>1, <1>2, MaxIs
<1>3. CASE ~(a >= b)
  BY <1>1, <1>3, MaxIs
<1> QED
  BY <1>2, <1>3

-----------------------------------------------------------------------------
(* The parser.                                                             *)

\* The last of some positions, 0 if there are none.
LastOf(S) == IF S = {} THEN 0 ELSE Max(S)

LEMMA LastOfType ==
    ASSUME NEW n \in Nat, NEW S \in SUBSET (1..n)
    PROVE  /\ LastOf(S) \in 0..n
           /\ S # {} => LastOf(S) \in S
           /\ \A y \in S : y <= LastOf(S)
<1>1. CASE S = {}
  BY <1>1 DEF LastOf
<1>2. CASE S # {}
  <2>1. LastOf(S) = Max(S)
    BY <1>2 DEF LastOf
  <2>2. Max(S) \in S /\ \A y \in S : y <= Max(S)
    BY <1>2, MaxOf
  <2>3. \A x \in S : x \in 0..n
    OBVIOUS
  <2> QED
    BY <2>1, <2>2, <2>3
<1> QED
  BY <1>1, <1>2

LEMMA LastOfTop ==
    ASSUME NEW S \in SUBSET Nat, NEW m \in S, \A y \in S : y <= m
    PROVE  LastOf(S) = m
<1>1. S # {}
  OBVIOUS
<1> QED
  BY <1>1, MaxIs DEF LastOf

\* The last job, step and task there are at the positions s of a path.
JobAt(path, s)  == LastOf({i \in s : IsJob(path[i])})
StepAt(path, s) == LastOf({i \in s : i > JobAt(path, s) /\ IsStep(path[i])})
TaskAt(path, s) ==
    LastOf({i \in s : i > Max({JobAt(path, s), StepAt(path, s)}) /\ IsTask(path[i])})

\* What they say.
Told(path, job, step, task) ==
    [job |-> IF job = 0 THEN None ELSE path[job].digits,
     step |-> IF step = 0 THEN None ELSE Suffix(path[step]),
     task |-> IF task = 0 THEN None ELSE path[task].digits]

Attr(path, s) == Told(path, JobAt(path, s), StepAt(path, s), TaskAt(path, s))

LEMMA PositionsType ==
    ASSUME NEW n \in Nat, NEW path, NEW s \in SUBSET (1..n)
    PROVE  /\ JobAt(path, s) \in 0..n /\ (JobAt(path, s) # 0 => JobAt(path, s) \in s)
           /\ StepAt(path, s) \in 0..n /\ (StepAt(path, s) # 0 => StepAt(path, s) \in s)
           /\ TaskAt(path, s) \in 0..n /\ (TaskAt(path, s) # 0 => TaskAt(path, s) \in s)
<1>1. PICK J, S, T \in SUBSET (1..n) :
        /\ J = {i \in s : IsJob(path[i])}
        /\ S = {i \in s : i > JobAt(path, s) /\ IsStep(path[i])}
        /\ T = {i \in s : i > Max({JobAt(path, s), StepAt(path, s)}) /\ IsTask(path[i])}
  OBVIOUS
<1>2. JobAt(path, s) = LastOf(J) /\ StepAt(path, s) = LastOf(S) /\ TaskAt(path, s) = LastOf(T)
  BY <1>1 DEF JobAt, StepAt, TaskAt
<1>3. /\ LastOf(J) \in 0..n /\ (J # {} => LastOf(J) \in J)
      /\ LastOf(S) \in 0..n /\ (S # {} => LastOf(S) \in S)
      /\ LastOf(T) \in 0..n /\ (T # {} => LastOf(T) \in T)
  BY LastOfType
<1>4. LastOf({}) = 0
  BY DEF LastOf
<1>5. /\ LastOf(J) # 0 => LastOf(J) \in J
      /\ LastOf(S) # 0 => LastOf(S) \in S
      /\ LastOf(T) # 0 => LastOf(T) \in T
  BY <1>3, <1>4
<1>6. J \subseteq s /\ S \subseteq s /\ T \subseteq s
  BY <1>1
<1> QED
  BY <1>2, <1>3, <1>5, <1>6

\* The prefixes tell the kinds apart.
LEMMA OneKind ==
    ASSUME NEW seg
    PROVE  /\ ~(IsJob(seg) /\ IsStep(seg))
           /\ ~(IsJob(seg) /\ IsTask(seg))
           /\ ~(IsStep(seg) /\ IsTask(seg))
BY DEF IsJob, IsStep, IsTask, Numeric

LEMMA ExceptStepTask ==
    ASSUME NEW j, NEW s, NEW t, NEW x
    PROVE  [[job |-> j, step |-> s, task |-> t] EXCEPT !.step = x, !.task = None]
               = [job |-> j, step |-> x, task |-> None]
<1>1. PICK a : a = [job |-> j, step |-> s, task |-> t]
  OBVIOUS
<1>2. PICK b : b = [a EXCEPT !.step = x]
  OBVIOUS
<1>3. b = [job |-> j, step |-> x, task |-> t]
  BY <1>1, <1>2
<1>4. [b EXCEPT !.task = None] = [job |-> j, step |-> x, task |-> None]
  BY <1>3
<1>5. [a EXCEPT !.step = x, !.task = None] = [b EXCEPT !.task = None]
  BY <1>2
<1> QED
  BY <1>1, <1>4, <1>5

\* Nothing at no position.
LEMMA AttrNothing ==
    ASSUME NEW path
    PROVE  Attr(path, {}) = Unattributed
<1>1. JobAt(path, {}) = 0 /\ StepAt(path, {}) = 0 /\ TaskAt(path, {}) = 0
  BY DEF JobAt, StepAt, TaskAt, LastOf
<1> QED
  BY <1>1 DEF Attr, Told, Unattributed

\* One more position: what Refine makes of its segment.
LEMMA AttrSolves ==
    ASSUME NEW n \in Nat, NEW path, NEW s \in SUBSET (1..n), s # {}
    PROVE  Attr(path, s) = Refine(Attr(path, s \ {Max(s)}), path[Max(s)])
<1>1. PICK m : m = Max(s)
  OBVIOUS
<1>2. /\ m \in s /\ m \in 1..n /\ m \in Nat
      /\ \A y \in s : y \in Nat /\ y <= m /\ ~(y > m)
  <2>1. m \in s /\ \A y \in s : y <= m
    BY <1>1, MaxOf
  <2>2. \A y \in s : y \in 1..n
    OBVIOUS
  <2> QED
    BY <2>1, <2>2
<1>3. PICK r : r = s \ {m}
  OBVIOUS
<1>4. r \in SUBSET (1..n) /\ \A y \in r : y < m
  BY <1>2, <1>3
<1>5. PICK j, k, l \in 0..n : j = JobAt(path, r) /\ k = StepAt(path, r) /\ l = TaskAt(path, r)
  BY <1>4, PositionsType
<1>6. j < m /\ k < m
  <2>1. (j # 0 => j \in r) /\ (k # 0 => k \in r)
    BY <1>4, <1>5, PositionsType
  <2> QED
    BY <1>2, <1>4, <2>1
<1>7. Attr(path, r) = Told(path, j, k, l)
  BY <1>5 DEF Attr
<1>8. PICK seg : seg = path[m]
  OBVIOUS
<1>9. LastOf({}) = 0
  BY DEF LastOf
<1>10. Attr(path, s) = Refine(Told(path, j, k, l), seg)
  <2>1. CASE IsJob(seg)
    <3>1. JobAt(path, s) = m
      <4>1. PICK J : J = {i \in s : IsJob(path[i])}
        OBVIOUS
      <4>2. J \in SUBSET Nat /\ m \in J /\ \A y \in J : y <= m
        BY <1>2, <1>8, <2>1, <4>1
      <4> QED
        BY <4>1, <4>2, LastOfTop DEF JobAt
    <3>2. StepAt(path, s) = 0
      <4>1. {i \in s : i > m /\ IsStep(path[i])} = {}
        BY <1>2
      <4> QED
        BY <1>9, <3>1, <4>1 DEF StepAt
    <3>3. TaskAt(path, s) = 0
      <4>1. Max({m, 0}) = m
        BY <1>2, MaxOfTwo
      <4>2. {i \in s : i > m /\ IsTask(path[i])} = {}
        BY <1>2
      <4> QED
        BY <1>9, <3>1, <3>2, <4>1, <4>2 DEF TaskAt
    <3>4. Attr(path, s) = [job |-> seg.digits, step |-> None, task |-> None]
      BY <1>2, <1>8, <3>1, <3>2, <3>3 DEF Attr, Told
    <3> QED
      BY <2>1, <3>4 DEF Refine
  <2>2. CASE ~IsJob(seg)
    <3>1. JobAt(path, s) = j
      <4>1. {i \in s : IsJob(path[i])} = {i \in r : IsJob(path[i])}
        BY <1>3, <1>8, <2>2
      <4> QED
        BY <1>5, <4>1 DEF JobAt
    <3>2. CASE IsStep(seg)
      <4>1. StepAt(path, s) = m
        <5>1. PICK S : S = {i \in s : i > j /\ IsStep(path[i])}
          OBVIOUS
        <5>2. S \in SUBSET Nat /\ m \in S /\ \A y \in S : y <= m
          BY <1>2, <1>6, <1>8, <3>2, <5>1
        <5> QED
          BY <3>1, <5>1, <5>2, LastOfTop DEF StepAt
      <4>2. TaskAt(path, s) = 0
        <5>1. Max({j, m}) = m
          BY <1>2, <1>6, MaxOfTwo
        <5>2. {i \in s : i > m /\ IsTask(path[i])} = {}
          BY <1>2
        <5> QED
          BY <1>9, <3>1, <4>1, <5>1, <5>2 DEF TaskAt
      <4>3. PICK a, b, c : Told(path, j, k, l) = [job |-> a, step |-> b, task |-> c]
                           /\ a = (IF j = 0 THEN None ELSE path[j].digits)
        BY DEF Told
      <4>4. Attr(path, s) = [job |-> a, step |-> Suffix(seg), task |-> None]
        BY <1>2, <1>8, <3>1, <4>1, <4>2, <4>3 DEF Attr, Told
      <4>5. Refine(Told(path, j, k, l), seg) = [[job |-> a, step |-> b, task |-> c]
                                                EXCEPT !.step = Suffix(seg), !.task = None]
        BY <2>2, <3>2, <4>3 DEF Refine
      <4> QED
        BY <4>4, <4>5, ExceptStepTask
    <3>3. CASE ~IsStep(seg)
      <4>1. StepAt(path, s) = k
        <5>1. {i \in s : i > j /\ IsStep(path[i])} = {i \in r : i > j /\ IsStep(path[i])}
          BY <1>3, <1>8, <3>3
        <5> QED
          BY <1>5, <3>1, <5>1 DEF StepAt
      <4>2. PICK h : h = Max({j, k})
        OBVIOUS
      <4>3. h < m
        BY <1>6, <4>2, MaxOfTwo
      <4>4. CASE IsTask(seg)
        <5>1. TaskAt(path, s) = m
          <6>1. PICK T : T = {i \in s : i > h /\ IsTask(path[i])}
            OBVIOUS
          <6>2. T \in SUBSET Nat /\ m \in T /\ \A y \in T : y <= m
            BY <1>2, <4>3, <1>8, <4>4, <6>1
          <6> QED
            BY <3>1, <4>1, <4>2, <6>1, <6>2, LastOfTop DEF TaskAt
        <5>2. PICK a, b, c : Told(path, j, k, l) = [job |-> a, step |-> b, task |-> c]
                             /\ a = (IF j = 0 THEN None ELSE path[j].digits)
                             /\ b = (IF k = 0 THEN None ELSE Suffix(path[k]))
          BY DEF Told
        <5>3. Attr(path, s) = [job |-> a, step |-> b, task |-> seg.digits]
          BY <1>2, <1>8, <3>1, <4>1, <5>1, <5>2 DEF Attr, Told
        <5>4. Refine(Told(path, j, k, l), seg) = [[job |-> a, step |-> b, task |-> c]
                                                  EXCEPT !.task = seg.digits]
          BY <2>2, <3>3, <4>4, <5>2 DEF Refine
        <5> QED
          BY <5>3, <5>4
      <4>5. CASE ~IsTask(seg)
        <5>1. TaskAt(path, s) = l
          <6>1. {i \in s : i > h /\ IsTask(path[i])} = {i \in r : i > h /\ IsTask(path[i])}
            BY <1>3, <1>8, <4>5
          <6> QED
            BY <1>5, <3>1, <4>1, <4>2, <6>1 DEF TaskAt
        <5>2. Attr(path, s) = Told(path, j, k, l)
          BY <3>1, <4>1, <5>1 DEF Attr
        <5> QED
          BY <2>2, <3>3, <4>5, <5>2 DEF Refine
      <4> QED
        BY <4>4, <4>5
    <3> QED
      BY <3>2, <3>3
  <2> QED
    BY <2>1, <2>2
<1> QED
  BY <1>1, <1>3, <1>7, <1>8, <1>10

\* The fold is the function of the sets of positions that Refine defines, and
\* Attr is that function.
LEMMA FoldIs ==
    ASSUME NEW path \in Seq(Segments)
    PROVE  FoldLeft(Refine, Unattributed, path) = Attr(path, DOMAIN path)
<1> DEFINE Solves(g) == g = [s \in SUBSET (DOMAIN path) |->
                               IF s = {} THEN Unattributed
                               ELSE Refine(g[s \ {Max(s)}], path[Max(s)])]
<1>1. PICK n \in Nat : n = Len(path) /\ DOMAIN path = 1..n
  OBVIOUS
<1>2. PICK h : h = CHOOSE g : Solves(g)
  OBVIOUS
<1>3. FoldLeft(Refine, Unattributed, path) = h[DOMAIN path]
  BY <1>2 DEF FoldLeft, MapThenFoldSet
<1>4. \E g : Solves(g)
  <2>1. PICK a : a = [s \in SUBSET (DOMAIN path) |-> Attr(path, s)]
    OBVIOUS
  <2>2. ASSUME NEW s \in SUBSET (DOMAIN path)
        PROVE  a[s] = IF s = {} THEN Unattributed
                      ELSE Refine(a[s \ {Max(s)}], path[Max(s)])
    <3>1. CASE s = {}
      BY <2>1, <3>1, AttrNothing
    <3>2. CASE s # {}
      <4>1. PICK r \in SUBSET (DOMAIN path) : r = s \ {Max(s)}
        OBVIOUS
      <4>2. a[s] = Attr(path, s) /\ a[r] = Attr(path, r)
        BY <2>1
      <4>3. Attr(path, s) = Refine(Attr(path, s \ {Max(s)}), path[Max(s)])
        BY <1>1, <3>2, AttrSolves
      <4> QED
        BY <3>2, <4>1, <4>2, <4>3
    <3> QED
      BY <3>1, <3>2
  <2>3. Solves(a)
    BY <2>1, <2>2
  <2> QED
    BY <2>3
<1>5. Solves(h)
  BY <1>2, <1>4
<1> HIDE DEF Solves
<1>6. ASSUME NEW s \in SUBSET (DOMAIN path)
      PROVE  h[s] = IF s = {} THEN Unattributed
                    ELSE Refine(h[s \ {Max(s)}], path[Max(s)])
  BY <1>5 DEF Solves
<1> DEFINE Wrong(k) == \E s \in SUBSET (DOMAIN path) : s \in SUBSET (1..k) /\ h[s] # Attr(path, s)
<1>7. ASSUME NEW k \in Nat, Wrong(k)
      PROVE  \E l \in Nat : l < k /\ Wrong(l)
  <2>1. PICK s \in SUBSET (DOMAIN path) : s \in SUBSET (1..k) /\ h[s] # Attr(path, s)
    BY <1>7
  <2>2. s # {}
    BY <1>6, <2>1, AttrNothing
  <2>3. PICK m : m = Max(s)
    OBVIOUS
  <2>4. m \in 1..k /\ m \in s /\ \A y \in s : y <= m
    BY <2>1, <2>2, <2>3, MaxOf
  <2>5. PICK r \in SUBSET (DOMAIN path) : r = s \ {m}
    OBVIOUS
  <2>6. r \in SUBSET (1..(m - 1))
    <3>1. \A y \in s : y \in 1..k
      BY <2>1
    <3> QED
      BY <2>4, <2>5, <3>1
  <2>7. h[r] # Attr(path, r)
    <3>1. h[s] = Refine(h[r], path[m])
      BY <1>6, <2>2, <2>3, <2>5
    <3>2. Attr(path, s) = Refine(Attr(path, r), path[m])
      BY <1>1, <2>2, <2>3, <2>5, AttrSolves
    <3> QED
      BY <2>1, <3>1, <3>2
  <2>8. Wrong(m - 1)
    BY <2>6, <2>7
  <2>9. m - 1 \in Nat /\ m - 1 < k
    BY <2>4
  <2> QED
    BY <2>8, <2>9
<1>8. Wrong(n) = FALSE
  <2>1. SUFFICES ASSUME Wrong(n) PROVE FALSE
    OBVIOUS
  <2>2. PICK T : T = {k \in Nat : Wrong(k)}
    OBVIOUS
  <2> HIDE DEF Wrong
  <2>3. T \in SUBSET Nat /\ T # {}
    BY <2>1, <2>2
  <2>4. PICK x \in T : \A y \in T : x <= y
    BY <2>3, Least
  <2>5. PICK l \in Nat : l < x /\ Wrong(l)
    BY <1>7, <2>2, <2>4
  <2> QED
    BY <2>2, <2>4, <2>5
<1>9. h[DOMAIN path] = Attr(path, DOMAIN path)
  BY <1>1, <1>8
<1> QED
  BY <1>3, <1>9

\* A number that Numeric accepts is one, so no job is None.
LEMMA JobHasNumber ==
    ASSUME NEW seg \in Segments, IsJob(seg)
    PROVE  seg.digits # None
<1>1. seg.digits \in {NoDigits} \cup Nat
  BY DEF Segments
<1>2. seg.digits # NoDigits /\ seg.digits <= MaxId
  BY DEF IsJob, Numeric
<1> QED
  BY <1>1, <1>2, ScanAssumption DEF NoDigits

\* parse_cgroup_path() reads the path one segment at a time and keeps what the
\* last ones said; what it returns, for every path there is, is the last job on
\* the path, the last step below that job and the last task below both.
THEOREM ParserTells ==
    ASSUME NEW path \in Seq(Segments)
    PROVE  ParseCgroupPath(path) = Reference(path)
<1>1. PICK n \in Nat : n = Len(path) /\ DOMAIN path = 1..n
  OBVIOUS
<1>2. PICK D : D = DOMAIN path
  OBVIOUS
<1>3. PICK j, k, l \in 0..n : j = JobAt(path, D) /\ k = StepAt(path, D) /\ l = TaskAt(path, D)
  BY <1>1, <1>2, PositionsType
<1>4. FoldLeft(Refine, Unattributed, path) = Told(path, j, k, l)
  BY <1>2, <1>3, FoldIs DEF Attr
<1>5. LastAfter(path, 0, IsJob) = j
  <2>1. {i \in D : i > 0 /\ IsJob(path[i])} = {i \in D : IsJob(path[i])}
    BY <1>1, <1>2
  <2> QED
    BY <1>2, <1>3, <2>1 DEF LastAfter, JobAt, LastOf
<1>6. LastAfter(path, j, IsStep) = k
  BY <1>2, <1>3 DEF LastAfter, StepAt, LastOf
<1>7. LastAfter(path, Max({j, k}), IsTask) = l
  BY <1>2, <1>3 DEF LastAfter, TaskAt, LastOf
<1>8. Reference(path) = IF j = 0 THEN None ELSE Told(path, j, k, l)
  BY <1>5, <1>6, <1>7 DEF Reference, Told
<1>9. Told(path, j, k, l).job = None <=> j = 0
  <2>1. CASE j = 0
    BY <2>1 DEF Told
  <2>2. CASE j # 0
    <3>1. j \in D /\ IsJob(path[j])
      <4>1. PICK J : J = {i \in D : IsJob(path[i])}
        OBVIOUS
      <4>2. j = LastOf(J)
        BY <1>3, <4>1 DEF JobAt
      <4>3. J \in SUBSET (1..n)
        BY <1>1, <1>2, <4>1
      <4>4. J # {}
        BY <2>2, <4>2 DEF LastOf
      <4>5. j \in J
        BY <4>2, <4>3, <4>4, LastOfType
      <4> QED
        BY <4>1, <4>5
    <3>2. path[j] \in Segments
      BY <1>2, <3>1
    <3>3. path[j].digits # None
      BY <3>1, <3>2, JobHasNumber
    <3> QED
      BY <2>2, <3>3 DEF Told
  <2> QED
    BY <2>1, <2>2
<1> QED
  BY <1>4, <1>8, <1>9 DEF ParseCgroupPath

-----------------------------------------------------------------------------
(* Paths and the directories above them.                                   *)

\* The first k segments of a path.
Cut(p, k) == SubSeq(p, 1, k)

LEMMA CutFacts ==
    ASSUME NEW p \in Seq(Segments)
    PROVE  /\ Len(p) \in Nat /\ Cut(p, 0) = << >> /\ Cut(p, Len(p)) = p
           /\ \A k \in 1..Len(p) : Cut(p, k) # << >>
           /\ \A k \in 1..Len(p) : Parent(Cut(p, k)) = Cut(p, k - 1)
<1>1. Len(p) \in Nat
  OBVIOUS
<1>2. Cut(p, 0) = << >> /\ Cut(p, Len(p)) = p
  BY DEF Cut
<1>3. ASSUME NEW k \in 1..Len(p)
      PROVE  Cut(p, k) # << >> /\ Parent(Cut(p, k)) = Cut(p, k - 1)
  <2>1. PICK q : q = Cut(p, k)
    OBVIOUS
  <2>2. q \in Seq(Segments) /\ Len(q) = k /\ \A i \in 1..k : q[i] = p[i]
    BY <2>1 DEF Cut
  <2>3. PICK a : a = SubSeq(q, 1, k - 1)
    OBVIOUS
  <2>4. PICK b : b = SubSeq(p, 1, k - 1)
    OBVIOUS
  <2>5. a \in Seq(Segments) /\ Len(a) = k - 1 /\ \A i \in 1..(k - 1) : a[i] = q[i]
    BY <2>2, <2>3
  <2>6. b \in Seq(Segments) /\ Len(b) = k - 1 /\ \A i \in 1..(k - 1) : b[i] = p[i]
    BY <2>4
  <2>7. \A i \in 1..(k - 1) : a[i] = b[i]
    BY <2>2, <2>5, <2>6
  <2>8. a = b
    BY <2>5, <2>6, <2>7
  <2>9. Parent(q) = a
    BY <2>2, <2>3 DEF Parent, Front
  <2>10. Cut(p, k - 1) = b
    BY <2>4 DEF Cut
  <2>11. q # << >>
    BY <2>2
  <2> QED
    BY <2>1, <2>8, <2>9, <2>10, <2>11
<1> QED
  BY <1>1, <1>2, <1>3

\* Parents belong to a set of directories.
Rooted(D) == \A q \in D : Parent(q) \in D \cup {<< >>}

\* So does every directory on the way to one of them.
LEMMA AllTheWay ==
    ASSUME NEW D \in SUBSET Paths, Rooted(D), NEW p \in D, NEW k \in 1..Len(p)
    PROVE  Cut(p, k) \in D
<1>1. p \in Seq(Segments)
  BY ScanAssumption
<1>2. PICK n \in Nat : n = Len(p)
  BY <1>1
<1>3. PICK T : T = {j \in 0..(n - 1) : Cut(p, n - j) \notin D}
  OBVIOUS
<1>4. SUFFICES T = {}
  <2>1. n - k \in 0..(n - 1) /\ n - (n - k) = k
    BY <1>2
  <2>2. n - k \notin T => Cut(p, n - (n - k)) \in D
    BY <1>3, <2>1
  <2> QED
    BY <2>1, <2>2
<1>5. SUFFICES ASSUME T # {} PROVE FALSE
  OBVIOUS
<1>6. T \in SUBSET Nat
  BY <1>2, <1>3
<1>7. PICK x \in T : \A y \in T : x <= y
  BY <1>5, <1>6, Least
<1>8. x \in 0..(n - 1) /\ Cut(p, n - x) \notin D
  BY <1>3, <1>7
<1>9. x # 0
  <2>1. Cut(p, n) = p
    BY <1>1, <1>2, CutFacts
  <2>2. x = 0 => n - x = n
    BY <1>2
  <2> QED
    BY <1>8, <2>1, <2>2
<1>10. PICK m : m = n - x
  OBVIOUS
<1>11. m \in 1..n /\ m + 1 \in 1..n /\ (m + 1) - 1 = m
  BY <1>2, <1>8, <1>9, <1>10
<1>12. Cut(p, m + 1) \in D
  <2>1. x - 1 \in 0..(n - 1) /\ ~(x <= x - 1) /\ n - (x - 1) = m + 1
    BY <1>2, <1>8, <1>9, <1>10
  <2>2. x - 1 \notin T
    BY <1>7, <2>1
  <2> QED
    BY <1>3, <2>1, <2>2
<1>13. Parent(Cut(p, m + 1)) = Cut(p, m)
  BY <1>1, <1>2, <1>11, CutFacts
<1>14. Cut(p, m) # << >>
  BY <1>1, <1>2, <1>11, CutFacts
<1>15. Cut(p, m) \in D
  BY <1>12, <1>13, <1>14 DEF Rooted
<1> QED
  BY <1>8, <1>10, <1>15

-----------------------------------------------------------------------------
(* The walk.                                                               *)

Right(p) == ParseCgroupPath(Root \o p)

Shape ==
    /\ stack \in Seq(Paths \cup {<< >>})
    /\ Rooted(dirs) /\ Rooted(steady)
    /\ at # "read" => listed = {} /\ seen = {}
    /\ at = "done" => stack = << >>

Entered == \A p \in Paths : entries[p] # None => entries[p] = Right(p)

OnStack(q) == \E i \in DOMAIN stack : stack[i] = q

\* The turn of the directory k levels down on the way to p is still to come, or
\* the next level down is still to be read from it.
Pending(p, k) ==
    \/ OnStack(Cut(p, k))
    \/ /\ k < Len(p) /\ current = Cut(p, k)
       /\ at = "open" \/ (at = "read" /\ Cut(p, k + 1) \notin seen)

Covered == \A p \in steady : entries[p] = Right(p) \/ \E k \in 0..Len(p) : Pending(p, k)

IInv == TypeOK /\ Shape /\ Entered /\ Covered

LEMMA PathFacts ==
    ASSUME NEW p \in Paths
    PROVE  p \in Seq(Segments) /\ p # << >> /\ Root \o p \in Seq(Segments)
<1>1. p \in Seq(Segments) /\ p # << >> /\ Root \in Seq(Segments)
  BY ScanAssumption
<1> QED
  BY <1>1

LEMMA InitIInv ==
    ASSUME Init
    PROVE  IInv
<1>1. /\ dirs \subseteq Paths /\ Rooted(dirs) /\ steady = dirs /\ at = "pop"
      /\ stack = << << >> >> /\ current = << >> /\ listed = {} /\ seen = {}
      /\ entries = [p \in Paths |-> None]
  BY DEF Init, Rooted
<1>2. TypeOK
  BY <1>1 DEF TypeOK, Rooted, Children
<1>3. Shape
  BY <1>1 DEF Shape
<1>4. Entered
  BY <1>1 DEF Entered
<1>5. Covered
  <2>1. SUFFICES ASSUME NEW p \in steady PROVE \E k \in 0..Len(p) : Pending(p, k)
    BY DEF Covered
  <2>2. p \in Seq(Segments)
    BY <1>1, PathFacts
  <2>3. Cut(p, 0) = << >> /\ 0 \in 0..Len(p)
    BY <2>2, CutFacts
  <2>4. OnStack(<< >>)
    BY <1>1 DEF OnStack
  <2>5. Pending(p, 0)
    BY <2>3, <2>4 DEF Pending
  <2> QED
    BY <2>3, <2>5
<1> QED
  BY <1>2, <1>3, <1>4, <1>5 DEF IInv

LEMMA MkdirIInv ==
    ASSUME IInv, NEW q \in Paths, Mkdir(q)
    PROVE  IInv'
<1>1. /\ dirs' = dirs \cup {q} /\ Parent(q) \in dirs \cup {<< >>}
      /\ listed' = IF at = "read" /\ Parent(q) = current THEN listed \cup {q} ELSE listed
      /\ UNCHANGED <<at, stack, current, entries, seen, steady>>
  BY DEF Mkdir, walk
<1>2. Rooted(dirs)'
  BY <1>1 DEF IInv, Shape, Rooted
<1>3. TypeOK'
  BY <1>1 DEF IInv, TypeOK, Children
<1>4. Rooted(steady)'
  BY <1>1 DEF IInv, Shape, Rooted
<1>5. Shape'
  BY <1>1, <1>2, <1>4 DEF IInv, Shape
<1>6. Entered'
  BY <1>1 DEF IInv, Entered
<1>7. Covered'
  BY <1>1 DEF IInv, Covered, Pending, OnStack
<1> QED
  BY <1>3, <1>5, <1>6, <1>7 DEF IInv

LEMMA RmdirIInv ==
    ASSUME IInv, NEW q \in Paths, Rmdir(q)
    PROVE  IInv'
<1>1. /\ q \in dirs /\ Children(q) \cap dirs = {}
      /\ dirs' = dirs \ {q} /\ steady' = steady \ {q}
      /\ entries' = [entries EXCEPT ![q] = None]
      /\ UNCHANGED <<at, stack, current, listed, seen>>
  BY DEF Rmdir
<1>2. \A p \in dirs : Parent(p) # q
  BY <1>1 DEF IInv, TypeOK, Children
<1>3. Rooted(dirs)' /\ Rooted(steady)'
  BY <1>1, <1>2 DEF IInv, TypeOK, Shape, Rooted
<1>4. TypeOK'
  BY <1>1, <1>3 DEF IInv, TypeOK, Rooted
<1>5. Shape'
  BY <1>1, <1>3 DEF IInv, Shape
<1>6. \A p \in Paths : entries'[p] = IF p = q THEN None ELSE entries[p]
  BY <1>1 DEF IInv, TypeOK
<1>7. Entered'
  BY <1>6 DEF IInv, Entered
<1>8. \A p, k : Pending(p, k)' <=> Pending(p, k)
  BY <1>1 DEF Pending, OnStack
<1>9. ASSUME NEW p \in steady'
      PROVE  entries'[p] = Right(p) \/ \E k \in 0..Len(p) : Pending(p, k)'
  <2>1. p \in steady /\ p \in Paths /\ p # q
    BY <1>1, <1>9 DEF IInv, TypeOK
  <2> QED
    BY <1>6, <1>8, <2>1 DEF IInv, Covered
<1>10. Covered'
  BY <1>9 DEF Covered
<1> QED
  BY <1>4, <1>5, <1>7, <1>10 DEF IInv

LEMMA PopIInv ==
    ASSUME IInv, Pop
    PROVE  IInv'
<1>1. PICK q, n : q = Last(stack) /\ n = Len(stack)
  OBVIOUS
<1>2. /\ at = "pop" /\ stack # << >> /\ at' = "open"
      /\ current' = q /\ stack' = Front(stack)
      /\ entries' = IF q \in dirs THEN [entries EXCEPT ![q] = Right(q)] ELSE entries
      /\ UNCHANGED <<dirs, listed, seen, steady>>
  BY <1>1 DEF Pop, Right
<1>3. /\ stack \in Seq(Paths \cup {<< >>}) /\ n \in Nat /\ n # 0 /\ q = stack[n]
      /\ q \in Paths \cup {<< >>}
  BY <1>1, <1>2 DEF IInv, Shape, Last
<1>4. /\ stack' \in Seq(Paths \cup {<< >>}) /\ Len(stack') = n - 1
      /\ \A i \in 1..(n - 1) : stack'[i] = stack[i]
  BY <1>1, <1>2, <1>3 DEF Front
<1>5. listed = {} /\ seen = {}
  BY <1>2 DEF IInv, Shape
<1>6. Rooted(dirs)' /\ Rooted(steady)'
  BY <1>2 DEF IInv, Shape, Rooted
<1>7. TypeOK'
  <2>1. DOMAIN entries' = Paths
    BY <1>2 DEF IInv, TypeOK
  <2>2. \A i \in DOMAIN stack' : stack'[i] \in Paths \cup {<< >>}
    BY <1>4
  <2>3. at' \in {"pop", "open", "read", "done"} /\ current' \in Paths \cup {<< >>}
    BY <1>2, <1>3
  <2> QED
    BY <1>2, <1>5, <2>1, <2>2, <2>3 DEF IInv, TypeOK
<1>8. Shape'
  BY <1>2, <1>4, <1>5, <1>6 DEF Shape
<1>9. \A p \in Paths : entries'[p] = IF p = q /\ q \in dirs THEN Right(q) ELSE entries[p]
  BY <1>2 DEF IInv, TypeOK
<1>10. Entered'
  BY <1>9 DEF IInv, Entered
<1>11. ASSUME NEW p \in steady
       PROVE  entries'[p] = Right(p) \/ \E k \in 0..Len(p) : Pending(p, k)'
  <2>1. p \in Paths /\ p \in dirs /\ p \in Seq(Segments)
    BY PathFacts DEF IInv, TypeOK
  <2>2. CASE entries[p] = Right(p)
    BY <1>9, <2>1, <2>2
  <2>3. CASE entries[p] # Right(p)
    <3>1. PICK k \in 0..Len(p) : Pending(p, k)
      BY <2>3 DEF IInv, Covered
    <3>2. PICK i \in DOMAIN stack : stack[i] = Cut(p, k)
      BY <1>2, <3>1 DEF Pending, OnStack
    <3>3. i \in 1..n
      BY <1>1, <1>3
    <3>4. CASE i # n
      <4>1. i \in DOMAIN stack' /\ stack'[i] = Cut(p, k)
        BY <1>3, <1>4, <3>2, <3>3, <3>4
      <4> QED
        BY <4>1 DEF Pending, OnStack
    <3>5. CASE i = n
      <4>1. q = Cut(p, k)
        BY <1>3, <3>2, <3>5
      <4>2. CASE k = Len(p)
        <5>1. q = p
          BY <2>1, <4>1, <4>2, CutFacts
        <5> QED
          BY <1>9, <2>1, <5>1
      <4>3. CASE k # Len(p)
        <5>1. k < Len(p)
          BY <2>1, <4>3, CutFacts
        <5>2. Pending(p, k)'
          BY <1>2, <4>1, <5>1 DEF Pending
        <5> QED
          BY <5>2
      <4> QED
        BY <4>2, <4>3
    <3> QED
      BY <3>4, <3>5
  <2> QED
    BY <2>2, <2>3
<1>12. Covered'
  BY <1>2, <1>11 DEF Covered
<1> QED
  BY <1>7, <1>8, <1>10, <1>12 DEF IInv

\* A directory on the way to a steady one is there, and steady, and is a child of
\* the one before.
LEMMA OnTheWay ==
    ASSUME IInv, NEW p \in steady, NEW k \in 0..Len(p), k < Len(p)
    PROVE  /\ Cut(p, k) \in dirs \cup {<< >>}
           /\ k + 1 \in 0..Len(p)
           /\ Cut(p, k + 1) \in dirs \cap steady
           /\ Cut(p, k + 1) \in Children(Cut(p, k))
<1>1. steady \in SUBSET Paths /\ steady \subseteq dirs /\ Rooted(steady)
  BY DEF IInv, TypeOK, Shape
<1>2. p \in Seq(Segments) /\ Len(p) \in Nat
  BY <1>1, PathFacts
<1>3. k + 1 \in 1..Len(p) /\ (k + 1) - 1 = k
  BY <1>2
<1>4. Cut(p, k + 1) \in steady
  BY <1>1, <1>3, AllTheWay
<1>5. Parent(Cut(p, k + 1)) = Cut(p, k)
  BY <1>2, <1>3, CutFacts
<1>6. Cut(p, k) \in steady \cup {<< >>}
  BY <1>1, <1>4, <1>5 DEF Rooted
<1> QED
  BY <1>1, <1>3, <1>4, <1>5, <1>6 DEF Children

LEMMA OpenIInv ==
    ASSUME IInv, Open
    PROVE  IInv'
<1>1. /\ at = "open" /\ UNCHANGED <<dirs, stack, current, entries, steady>>
      /\ IF current \in dirs \cup {<< >>}
         THEN at' = "read" /\ listed' = Children(current) \cap dirs /\ seen' = {}
         ELSE at' = "pop" /\ UNCHANGED <<listed, seen>>
  BY DEF Open, Gone
<1>2. listed = {} /\ seen = {}
  BY <1>1 DEF IInv, Shape
<1>3. Rooted(dirs)' /\ Rooted(steady)'
  BY <1>1 DEF IInv, Shape, Rooted
<1>4. at' \in {"read", "pop"} /\ seen' = {} /\ listed' \subseteq Children(current)
      /\ (at' # "read" => listed' = {})
  BY <1>1, <1>2
<1>5. TypeOK'
  BY <1>1, <1>4 DEF IInv, TypeOK
<1>6. Shape'
  BY <1>1, <1>3, <1>4 DEF IInv, Shape
<1>7. Entered'
  BY <1>1 DEF IInv, Entered
<1>8. ASSUME NEW p \in steady
      PROVE  entries[p] = Right(p) \/ \E k \in 0..Len(p) : Pending(p, k)'
  <2>1. CASE entries[p] = Right(p)
    BY <2>1
  <2>2. CASE entries[p] # Right(p)
    <3>1. PICK k \in 0..Len(p) : Pending(p, k)
      BY <2>2 DEF IInv, Covered
    <3>2. CASE OnStack(Cut(p, k))
      BY <1>1, <3>2 DEF Pending, OnStack
    <3>3. CASE k < Len(p) /\ current = Cut(p, k)
      <4>1. current \in dirs \cup {<< >>}
        BY <3>3, OnTheWay
      <4>2. Pending(p, k)'
        BY <1>1, <3>3, <4>1 DEF Pending
      <4> QED
        BY <4>2
    <3> QED
      BY <3>1, <3>2, <3>3 DEF Pending
  <2> QED
    BY <2>1, <2>2
<1>9. Covered'
  BY <1>1, <1>8 DEF Covered
<1> QED
  BY <1>5, <1>6, <1>7, <1>9 DEF IInv

LEMMA ReadIInv ==
    ASSUME IInv, NEW c \in Paths, Read(c)
    PROVE  IInv'
<1>1. /\ at = "read" /\ c \in listed /\ seen' = seen \cup {c}
      /\ stack' = Append(stack, c) \/ (c \notin dirs /\ stack' = stack)
      /\ UNCHANGED <<dirs, at, current, listed, entries, steady>>
  BY DEF Read
<1>2. stack \in Seq(Paths \cup {<< >>})
  BY DEF IInv, Shape
<1>3. stack' \in Seq(Paths \cup {<< >>})
  BY <1>1, <1>2
<1>4. Rooted(dirs)' /\ Rooted(steady)'
  BY <1>1 DEF IInv, Shape, Rooted
<1>5. TypeOK'
  <2>1. \A i \in DOMAIN stack' : stack'[i] \in Paths \cup {<< >>}
    BY <1>3
  <2> QED
    BY <1>1, <2>1 DEF IInv, TypeOK
<1>6. Shape'
  BY <1>1, <1>3, <1>4 DEF IInv, Shape
<1>7. Entered'
  BY <1>1 DEF IInv, Entered
<1>8. \A q : OnStack(q) => OnStack(q)'
  <2>1. SUFFICES ASSUME NEW i \in DOMAIN stack PROVE i \in DOMAIN stack' /\ stack'[i] = stack[i]
    BY DEF OnStack
  <2>2. CASE stack' = Append(stack, c)
    BY <1>2, <2>2
  <2>3. CASE stack' = stack
    BY <2>3
  <2> QED
    BY <1>1, <2>2, <2>3
<1>9. c \in dirs => OnStack(c)'
  <2>1. SUFFICES ASSUME stack' = Append(stack, c) PROVE \E i \in DOMAIN stack' : stack'[i] = c
    BY <1>1 DEF OnStack
  <2>2. Len(stack) + 1 \in DOMAIN stack' /\ stack'[Len(stack) + 1] = c
    BY <1>2, <2>1
  <2> QED
    BY <2>2
<1>10. ASSUME NEW p \in steady
       PROVE  entries[p] = Right(p) \/ \E k \in 0..Len(p) : Pending(p, k)'
  <2>1. CASE entries[p] = Right(p)
    BY <2>1
  <2>2. CASE entries[p] # Right(p)
    <3>1. PICK k \in 0..Len(p) : Pending(p, k)
      BY <2>2 DEF IInv, Covered
    <3>2. CASE OnStack(Cut(p, k))
      <4>1. PICK q : q = Cut(p, k)
        OBVIOUS
      <4>2. OnStack(q)'
        BY <1>8, <3>2, <4>1
      <4>3. Pending(p, k)'
        BY <4>1, <4>2 DEF Pending
      <4> QED
        BY <4>3
    <3>3. CASE k < Len(p) /\ current = Cut(p, k) /\ Cut(p, k + 1) \notin seen
      <4>1. k + 1 \in 0..Len(p) /\ Cut(p, k + 1) \in dirs
        BY <3>3, OnTheWay
      <4>2. CASE Cut(p, k + 1) = c
        <5>1. OnStack(c)'
          BY <1>9, <4>1, <4>2
        <5>2. Pending(p, k + 1)'
          BY <4>2, <5>1 DEF Pending
        <5> QED
          BY <4>1, <5>2
      <4>3. CASE Cut(p, k + 1) # c
        <5>1. Pending(p, k)'
          BY <1>1, <3>3, <4>3 DEF Pending
        <5> QED
          BY <5>1
      <4> QED
        BY <4>2, <4>3
    <3> QED
      BY <1>1, <3>1, <3>2, <3>3 DEF Pending
  <2> QED
    BY <2>1, <2>2
<1>11. Covered'
  BY <1>1, <1>10 DEF Covered
<1> QED
  BY <1>5, <1>6, <1>7, <1>11 DEF IInv

LEMMA CloseIInv ==
    ASSUME IInv, Close
    PROVE  IInv'
<1>1. /\ at = "read" /\ Children(current) \cap steady \subseteq seen
      /\ at' = "pop" /\ listed' = {} /\ seen' = {}
      /\ UNCHANGED <<dirs, stack, current, entries, steady>>
  BY DEF Close
<1>2. Rooted(dirs)' /\ Rooted(steady)'
  BY <1>1 DEF IInv, Shape, Rooted
<1>3. TypeOK'
  BY <1>1 DEF IInv, TypeOK
<1>4. Shape'
  BY <1>1, <1>2 DEF IInv, Shape
<1>5. Entered'
  BY <1>1 DEF IInv, Entered
<1>6. ASSUME NEW p \in steady
      PROVE  entries[p] = Right(p) \/ \E k \in 0..Len(p) : Pending(p, k)'
  <2>1. CASE entries[p] = Right(p)
    BY <2>1
  <2>2. CASE entries[p] # Right(p)
    <3>1. PICK k \in 0..Len(p) : Pending(p, k)
      BY <2>2 DEF IInv, Covered
    <3>2. CASE OnStack(Cut(p, k))
      BY <1>1, <3>2 DEF Pending, OnStack
    <3>3. CASE k < Len(p) /\ current = Cut(p, k) /\ Cut(p, k + 1) \notin seen
      <4>1. Cut(p, k + 1) \in steady /\ Cut(p, k + 1) \in Children(current)
        BY <3>3, OnTheWay
      <4> QED
        BY <1>1, <3>3, <4>1
    <3> QED
      BY <1>1, <3>1, <3>2, <3>3 DEF Pending
  <2> QED
    BY <2>1, <2>2
<1>7. Covered'
  BY <1>1, <1>6 DEF Covered
<1> QED
  BY <1>3, <1>4, <1>5, <1>7 DEF IInv

\* With nothing on the stack and no directory open, nothing is pending.
LEMMA AllEntered ==
    ASSUME IInv, stack = << >>, at \in {"pop", "done"}
    PROVE  \A p \in steady : entries[p] = Right(p)
<1>1. \A p, k : ~Pending(p, k)
  BY DEF Pending, OnStack
<1> QED
  BY <1>1 DEF IInv, Covered

LEMMA ScannedIInv ==
    ASSUME IInv, Scanned
    PROVE  IInv'
<1>1. /\ at = "pop" /\ stack = << >> /\ at' = "done" /\ current' = << >>
      /\ UNCHANGED <<dirs, stack, listed, seen, entries, steady>>
  BY DEF Scanned
<1>2. Rooted(dirs)' /\ Rooted(steady)' /\ listed = {} /\ seen = {}
  BY <1>1 DEF IInv, Shape, Rooted
<1>3. TypeOK'
  BY <1>1, <1>2 DEF IInv, TypeOK
<1>4. Shape'
  BY <1>1, <1>2 DEF IInv, Shape
<1>5. Entered'
  BY <1>1 DEF IInv, Entered
<1>6. Covered'
  BY <1>1, AllEntered DEF Covered
<1> QED
  BY <1>3, <1>4, <1>5, <1>6 DEF IInv

LEMMA StutterIInv ==
    ASSUME IInv, UNCHANGED vars
    PROVE  IInv'
BY DEF IInv, TypeOK, Shape, Rooted, Entered, Covered, Pending, OnStack, vars

\* The walk's invariant: what is entered is what the parser makes of the path,
\* and add_subtree() still has before it, on its stack or in the directory it is
\* reading, the way to every steady directory it has not entered.
THEOREM Invariance == Spec => []IInv
<1>1. Init => IInv
  BY InitIInv
<1>2. IInv /\ [Next]_vars => IInv'
  <2>1. SUFFICES ASSUME IInv, [Next]_vars PROVE IInv'
    OBVIOUS
  <2>2. CASE Walk
    BY <2>1, <2>2, PopIInv, OpenIInv, ReadIInv, CloseIInv, ScannedIInv DEF Walk
  <2>3. CASE Slurm
    BY <2>1, <2>3, MkdirIInv, RmdirIInv DEF Slurm
  <2>4. CASE Done
    BY <2>1, <2>4, StutterIInv DEF Done
  <2>5. CASE UNCHANGED vars
    BY <2>1, <2>5, StutterIInv
  <2> QED
    BY <2>1, <2>2, <2>3, <2>4, <2>5 DEF Next
<1> QED
  BY <1>1, <1>2, PTL DEF Spec

\* add_dir() enters a directory with the identity its path spells or with none,
\* whatever the path: no step of one job with the task of another.
THEOREM EntersRight == Spec => []EnteredRight
<1>1. IInv => EnteredRight
  <2>1. SUFFICES ASSUME IInv PROVE EnteredRight
    OBVIOUS
  <2>2. \A p \in Paths : Right(p) = Reference(Root \o p)
    BY PathFacts, ParserTells DEF Right
  <2> QED
    BY <2>1, <2>2 DEF IInv, Entered, EnteredRight
<1> QED
  BY <1>1, Invariance, PTL

\* When add_subtree() returns, every directory that has been there since it began
\* has been entered, in any tree and whatever Slurm made and removed meanwhile.
THEOREM SteadyAreFound == Spec => []SteadyFound
<1>1. IInv => SteadyFound
  <2>1. SUFFICES ASSUME IInv, at = "done", NEW p \in steady
                 PROVE  entries[p] = Reference(Root \o p)
    BY DEF SteadyFound
  <2>2. stack = << >> /\ p \in Paths
    BY <2>1 DEF IInv, Shape, TypeOK
  <2>3. entries[p] = Right(p)
    BY <2>1, <2>2, AllEntered
  <2>4. Right(p) = Reference(Root \o p)
    BY <2>2, PathFacts, ParserTells DEF Right
  <2> QED
    BY <2>3, <2>4
<1> QED
  BY <1>1, Invariance, PTL
=============================================================================
