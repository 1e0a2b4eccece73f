---------------------------- MODULE ModelProofs ----------------------------
(***************************************************************************)
(* What is proved of the models, in two parts.                             *)
(*                                                                         *)
(* Measurements: for samples and families of any size, the exact test      *)
(* counts orderings, the step-down is the closed procedure, no drift is    *)
(* reported only by a test that could have rejected, the calibrated        *)
(* threshold is the best within its budget, and the gate is monotone.      *)
(*                                                                         *)
(* Lifecycle: for any number of models, operators and measurements, and    *)
(* whichever commands run at once or die half-way, the flag never says     *)
(* more than the log, and what the log decides it was told before.         *)
(***************************************************************************)
EXTENDS ModelLifecycle, ModelMeasures, FiniteSetTheorems, WellFoundedInduction, TLAPS

-----------------------------------------------------------------------------
(* Numbers                                                                 *)

\* A non-empty set of numbers has a smallest one.
LEMMA LeastNumber ==
  ASSUME NEW W \in SUBSET Nat, W # {}
  PROVE  \E w \in W : \A v \in W : w <= v
<1> DEFINE T == {0 .. w : w \in W}
           R == StrictSubsetOrdering(Nat)
<1>1. T \subseteq FiniteSubsetsOf(Nat) /\ T # {}
  <2>1. ASSUME NEW w \in W PROVE IsFiniteSet(0 .. w) /\ 0 .. w \in SUBSET Nat
    <3>1. 0 \in Int /\ w \in Int
      OBVIOUS
    <3> QED
      BY <3>1, FS_Interval
  <2> QED
    BY <2>1 DEF FiniteSubsetsOf
<1>2. IsWellFoundedOn(R, FiniteSubsetsOf(Nat))
  BY FS_StrictSubsetOrderingWellFounded
<1>3. \E X \in T : \A Y \in T : ~ (<<Y, X>> \in R)
  <2> HIDE DEF T, R
  <2> QED
    BY <1>1, <1>2, WFMin
<1>4. PICK w \in W : \A v \in W : ~ (<<0 .. v, 0 .. w>> \in R)
  BY <1>3
<1>5. ASSUME NEW v \in W, v < w PROVE FALSE
  <2>1. 0 .. v \subseteq 0 .. w /\ w \in 0 .. w /\ w \notin 0 .. v
    BY <1>5
  <2>2. 0 .. v # 0 .. w /\ 0 .. v \in SUBSET Nat /\ 0 .. w \in SUBSET Nat
    BY <2>1
  <2>3. <<0 .. v, 0 .. w>> \in R
    BY <2>1, <2>2 DEF StrictSubsetOrdering
  <2> QED
    BY <1>4, <2>3
<1>6. \A v \in W : w <= v
  BY <1>5
<1> QED
  BY <1>4, <1>6

-----------------------------------------------------------------------------
(* Counting paths                                                          *)

Reached(path, c, blocked) ==
  IF c \in blocked THEN 0 ELSE IF c = Cell(0, 0) THEN 1 ELSE Into(path, c)

\* The cells up to the diagonal s are counted.
FilledTo(g, a, b, blocked, s) ==
  \A c \in Grid(a, b) : c.i + c.j <= s => g[c] = Reached(g, c, blocked)

\* The cells before a cell.
LEMMA CellsBefore ==
  ASSUME NEW a \in Nat, NEW b \in Nat, NEW c \in Grid(a, b)
  PROVE  /\ c.i \in Nat /\ c.j \in Nat /\ c.i <= a /\ c.j <= b
         /\ c.i > 0 => /\ Cell(c.i - 1, c.j) \in Grid(a, b)
                       /\ Cell(c.i - 1, c.j).i = c.i - 1 /\ Cell(c.i - 1, c.j).j = c.j
         /\ c.j > 0 => /\ Cell(c.i, c.j - 1) \in Grid(a, b)
                       /\ Cell(c.i, c.j - 1).i = c.i /\ Cell(c.i, c.j - 1).j = c.j - 1
         /\ c = Cell(0, 0) <=> c.i = 0 /\ c.j = 0
BY DEF Grid, Cell

\* On a border a path comes from one side only.
LEMMA FromOneSide ==
  ASSUME NEW a \in Nat, NEW b \in Nat, NEW path \in [Grid(a, b) -> Nat], NEW c \in Grid(a, b)
  PROVE  /\ c.i = 0 /\ c.j > 0 => Into(path, c) = path[Cell(c.i, c.j - 1)]
         /\ c.i > 0 /\ c.j = 0 => Into(path, c) = path[Cell(c.i - 1, c.j)]
BY CellsBefore DEF Into

\* What goes over from the cells before a cell to the cell holds of every cell.
LEMMA CellByCell ==
  ASSUME NEW a \in Nat, NEW b \in Nat, NEW G,
         \A c \in Grid(a, b) :
           (c.i > 0 => Cell(c.i - 1, c.j) \in G) /\ (c.j > 0 => Cell(c.i, c.j - 1) \in G) => c \in G
  PROVE  Grid(a, b) \subseteq G
<1> DEFINE Bad == {x \in Nat : \E d \in Grid(a, b) : d.i + d.j = x /\ d \notin G}
<1>1. SUFFICES ASSUME NEW c \in Grid(a, b), c \notin G PROVE FALSE
  OBVIOUS
<1>2. Bad # {}
  <2>1. c.i + c.j \in Nat
    BY CellsBefore
  <2> QED
    BY <1>1, <2>1
<1>3. PICK x \in Bad : \A y \in Bad : x <= y
  <2>1. Bad \in SUBSET Nat
    OBVIOUS
  <2> HIDE DEF Bad
  <2> QED
    BY <1>2, <2>1, LeastNumber
<1>4. PICK d \in Grid(a, b) : d.i + d.j = x /\ d \notin G
  OBVIOUS
<1>5. d.i \in Nat /\ d.j \in Nat /\ x \in Nat
  BY CellsBefore
<1>6. ASSUME NEW e \in Grid(a, b), e.i + e.j = x - 1, x > 0 PROVE e \in G
  <2>1. x - 1 \in Nat /\ x - 1 \notin Bad
    BY <1>3, <1>5, <1>6
  <2> QED
    BY <1>6, <2>1
<1>7. ASSUME d.i > 0 PROVE Cell(d.i - 1, d.j) \in G
  <2>1. PICK e \in Grid(a, b) : e = Cell(d.i - 1, d.j) /\ e.i = d.i - 1 /\ e.j = d.j
    BY <1>7, CellsBefore
  <2>2. e.i + e.j = x - 1 /\ x > 0
    BY <1>4, <1>5, <1>7, <2>1
  <2> QED
    BY <1>6, <2>1, <2>2
<1>8. ASSUME d.j > 0 PROVE Cell(d.i, d.j - 1) \in G
  <2>1. PICK e \in Grid(a, b) : e = Cell(d.i, d.j - 1) /\ e.i = d.i /\ e.j = d.j - 1
    BY <1>8, CellsBefore
  <2>2. e.i + e.j = x - 1 /\ x > 0
    BY <1>4, <1>5, <1>8, <2>1
  <2> QED
    BY <1>6, <2>1, <2>2
<1> QED
  BY <1>4, <1>7, <1>8

\* The numbers of paths into the cells can be filled in one diagonal after the other.
LEMMA Filled ==
  ASSUME NEW a \in Nat, NEW b \in Nat, NEW blocked, NEW s \in Nat
  PROVE  \E g \in [Grid(a, b) -> Nat] : FilledTo(g, a, b, blocked, s)
<1> DEFINE Full(g, t) == FilledTo(g, a, b, blocked, t)
           Bad == {t \in Nat : ~ \E g \in [Grid(a, b) -> Nat] : Full(g, t)}
<1>1. SUFFICES ASSUME Bad # {} PROVE FALSE
  OBVIOUS
<1>2. PICK t \in Bad : \A u \in Bad : t <= u
  <2>1. Bad \in SUBSET Nat
    OBVIOUS
  <2> HIDE DEF Bad
  <2> QED
    BY <1>1, <2>1, LeastNumber
<1>3. t \in Nat /\ ~ \E g \in [Grid(a, b) -> Nat] : Full(g, t)
  OBVIOUS
<1>4. CASE t = 0
  <2> DEFINE g == [c \in Grid(a, b) |-> IF c \in blocked THEN 0 ELSE 1]
  <2>1. g \in [Grid(a, b) -> Nat]
    OBVIOUS
  <2>2. ASSUME NEW c \in Grid(a, b), c.i + c.j <= 0 PROVE g[c] = Reached(g, c, blocked)
    <3>1. c = Cell(0, 0)
      BY <2>2, CellsBefore
    <3> QED
      BY <3>1 DEF Reached
  <2> HIDE DEF g
  <2>3. Full(g, 0)
    BY <2>2 DEF FilledTo
  <2> QED
    BY <1>3, <1>4, <2>1, <2>3
<1>5. CASE t # 0
  <2>1. t - 1 \in Nat /\ t - 1 \notin Bad
    BY <1>2, <1>3, <1>5
  <2>2. PICK g \in [Grid(a, b) -> Nat] : Full(g, t - 1)
    BY <2>1
  <2> DEFINE h == [c \in Grid(a, b) |-> IF c.i + c.j <= t - 1 THEN g[c] ELSE Reached(g, c, blocked)]
  <2>3. ASSUME NEW c \in Grid(a, b) PROVE Reached(g, c, blocked) \in Nat
    <3>1. Into(g, c) \in Nat
      BY CellsBefore DEF Into
    <3> QED
      BY <3>1 DEF Reached
  <2>4. h \in [Grid(a, b) -> Nat]
    BY <2>3
  <2>5. \A c \in Grid(a, b) :
          h[c] = IF c.i + c.j <= t - 1 THEN g[c] ELSE Reached(g, c, blocked)
    OBVIOUS
  <2> HIDE DEF h
  <2>6. ASSUME NEW c \in Grid(a, b), c.i + c.j <= t PROVE h[c] = Reached(h, c, blocked)
    <3>1. c.i > 0 => h[Cell(c.i - 1, c.j)] = g[Cell(c.i - 1, c.j)]
      BY <1>3, <2>5, <2>6, CellsBefore
    <3>2. c.j > 0 => h[Cell(c.i, c.j - 1)] = g[Cell(c.i, c.j - 1)]
      BY <1>3, <2>5, <2>6, CellsBefore
    <3>3. Reached(h, c, blocked) = Reached(g, c, blocked)
      BY <3>1, <3>2 DEF Reached, Into
    <3>4. h[c] = Reached(g, c, blocked)
      BY <2>2, <2>5, CellsBefore DEF FilledTo
    <3> QED
      BY <3>3, <3>4
  <2>7. Full(h, t)
    BY <2>6 DEF FilledTo
  <2> QED
    BY <1>3, <2>4, <2>7
<1> QED
  BY <1>4, <1>5

\* So the recursion has a solution, and it counts.
LEMMA PathsCounted ==
  ASSUME NEW a \in Nat, NEW b \in Nat, NEW blocked
  PROVE  \E path : /\ path \in [Grid(a, b) -> Nat]
                   /\ \A c \in Grid(a, b) : path[c] = Reached(path, c, blocked)
                   /\ Paths(a, b, blocked) = path[Cell(a, b)]
<1> DEFINE p == CHOOSE path : path = [c \in Grid(a, b) |->
                  IF c \in blocked THEN 0 ELSE IF c = Cell(0, 0) THEN 1 ELSE Into(path, c)]
<1>1. Paths(a, b, blocked) = p[Cell(a, b)]
  BY DEF Paths
<1>2. PICK g \in [Grid(a, b) -> Nat] : FilledTo(g, a, b, blocked, a + b)
  <2>1. a + b \in Nat
    OBVIOUS
  <2> QED
    BY <2>1, Filled
<1>3. \A c \in Grid(a, b) : g[c] = Reached(g, c, blocked)
  BY <1>2, CellsBefore DEF FilledTo
<1>4. g = [c \in Grid(a, b) |-> IF c \in blocked THEN 0 ELSE IF c = Cell(0, 0) THEN 1 ELSE Into(g, c)]
  BY <1>3 DEF Reached
<1>5. p = [c \in Grid(a, b) |-> IF c \in blocked THEN 0 ELSE IF c = Cell(0, 0) THEN 1 ELSE Into(p, c)]
  BY <1>4, Zenon
<1> HIDE DEF p
<1>6. \A c \in Grid(a, b) : p[c] = Reached(p, c, blocked)
  BY <1>5 DEF Reached
<1>7. \A c \in Grid(a, b) : p[c] \in Nat
  <2> DEFINE G == {c \in Grid(a, b) : p[c] \in Nat}
  <2>1. ASSUME NEW c \in Grid(a, b),
               c.i > 0 => Cell(c.i - 1, c.j) \in G, c.j > 0 => Cell(c.i, c.j - 1) \in G
        PROVE  c \in G
    <3>1. Into(p, c) \in Nat
      BY <2>1, CellsBefore DEF Into
    <3> QED
      BY <1>6, <3>1 DEF Reached
  <2> HIDE DEF G
  <2>2. Grid(a, b) \subseteq G
    BY <2>1, CellByCell
  <2> QED
    BY <2>2 DEF G
<1>8. p \in [Grid(a, b) -> Nat]
  <2>1. p = [c \in Grid(a, b) |-> p[c]]
    BY <1>5, <1>6 DEF Reached
  <2> QED
    BY <1>7, <2>1
<1> QED
  BY <1>1, <1>6, <1>8

\* Blocking more leaves fewer paths.
LEMMA FewerPaths ==
  ASSUME NEW a \in Nat, NEW b \in Nat, NEW A, NEW B, A \subseteq B
  PROVE  Paths(a, b, A) \in Nat /\ Paths(a, b, B) \in Nat /\ Paths(a, b, B) <= Paths(a, b, A)
<1>1. PICK p \in [Grid(a, b) -> Nat] :
        (\A c \in Grid(a, b) : p[c] = Reached(p, c, A)) /\ Paths(a, b, A) = p[Cell(a, b)]
  BY PathsCounted
<1>2. PICK q \in [Grid(a, b) -> Nat] :
        (\A c \in Grid(a, b) : q[c] = Reached(q, c, B)) /\ Paths(a, b, B) = q[Cell(a, b)]
  BY PathsCounted
<1> DEFINE G == {c \in Grid(a, b) : q[c] <= p[c]}
<1>3. ASSUME NEW c \in Grid(a, b),
             c.i > 0 => Cell(c.i - 1, c.j) \in G, c.j > 0 => Cell(c.i, c.j - 1) \in G
      PROVE  c \in G
  <2>1. Into(p, c) \in Nat /\ Into(q, c) \in Nat /\ Into(q, c) <= Into(p, c)
    BY <1>1, <1>2, <1>3, CellsBefore DEF Into
  <2> QED
    BY <1>1, <1>2, <2>1 DEF Reached
<1> HIDE DEF G
<1>4. Grid(a, b) \subseteq G
  BY <1>3, CellByCell
<1>5. Cell(a, b) \in Grid(a, b)
  BY DEF Cell, Grid
<1> QED
  BY <1>1, <1>2, <1>4, <1>5 DEF G

\* On the borders there is one path to every cell.
LEMMA OneOnTheBorder ==
  ASSUME NEW a \in Nat, NEW b \in Nat, NEW h \in [Grid(a, b) -> Nat],
         \A c \in Grid(a, b) : h[c] = Reached(h, c, {})
  PROVE  \A c \in Grid(a, b) : c.i = 0 \/ c.j = 0 => h[c] = 1
<1> DEFINE G == {c \in Grid(a, b) : c.i = 0 \/ c.j = 0 => h[c] = 1}
<1>1. ASSUME NEW c \in Grid(a, b),
             c.i > 0 => Cell(c.i - 1, c.j) \in G, c.j > 0 => Cell(c.i, c.j - 1) \in G
      PROVE  c \in G
  <2>1. CASE c = Cell(0, 0)
    BY <2>1 DEF Reached
  <2>2. CASE c # Cell(0, 0) /\ c.i = 0
    <3>1. Into(h, c) = 1
      BY <1>1, <2>2, CellsBefore DEF Into
    <3> QED
      BY <2>2, <3>1 DEF Reached
  <2>3. CASE c # Cell(0, 0) /\ c.j = 0
    <3>1. Into(h, c) = 1
      BY <1>1, <2>3, CellsBefore DEF Into
    <3> QED
      BY <2>3, <3>1 DEF Reached
  <2> QED
    BY <2>1, <2>2, <2>3
<1> HIDE DEF G
<1>2. Grid(a, b) \subseteq G
  BY <1>1, CellByCell
<1> QED
  BY <1>2 DEF G

\* Two complete separations are all the orderings of the greatest statistic.
LEMMA TwoSeparations ==
  ASSUME NEW a \in Nat \ {0}, NEW b \in Nat \ {0}
  PROVE  Inside(a, b, a * b) = Orderings(a, b) - 2
<1> DEFINE O == OutsideBand(a, b, a * b)
           One(x) == IF x THEN 1 ELSE 0
<1>1. PICK h \in [Grid(a, b) -> Nat] :
        (\A c \in Grid(a, b) : h[c] = Reached(h, c, {})) /\ Orderings(a, b) = h[Cell(a, b)]
  BY PathsCounted DEF Orderings
<1>2. PICK k \in [Grid(a, b) -> Nat] :
        (\A c \in Grid(a, b) : k[c] = Reached(k, c, O)) /\ Inside(a, b, a * b) = k[Cell(a, b)]
  BY PathsCounted DEF Inside
<1>3. \A c \in Grid(a, b) : c \in O <=> (c.i = a /\ c.j = 0) \/ (c.i = 0 /\ c.j = b)
  <2>1. ASSUME NEW i \in 0 .. a, NEW j \in 0 .. b
        PROVE  Abs(i * b - j * a) >= a * b <=> (i = a /\ j = 0) \/ (i = 0 /\ j = b)
    <3>1. i * b \in Nat /\ j * a \in Nat /\ a * b \in Nat
      OBVIOUS
    <3>2. i * b <= a * b /\ (i * b = a * b => i = a)
      OBVIOUS
    <3>3. j * a <= a * b /\ (j * a = a * b => j = b)
      OBVIOUS
    <3>4. (i * b = 0 => i = 0) /\ (j * a = 0 => j = 0)
      OBVIOUS
    <3>5. CASE i = a /\ j = 0
      BY <3>1, <3>5 DEF Abs
    <3>6. CASE i = 0 /\ j = b
      BY <3>1, <3>6 DEF Abs
    <3>7. CASE Abs(i * b - j * a) >= a * b
      <4>1. (i * b = a * b /\ j * a = 0) \/ (j * a = a * b /\ i * b = 0)
        BY <3>1, <3>2, <3>3, <3>7 DEF Abs
      <4> QED
        BY <3>2, <3>3, <3>4, <3>7, <4>1
    <3> QED
      BY <3>5, <3>6, <3>7
  <2>2. ASSUME NEW c \in Grid(a, b) PROVE c.i \in 0 .. a /\ c.j \in 0 .. b
    BY DEF Grid
  <2> QED
    BY <2>1, <2>2 DEF OutsideBand
<1> HIDE DEF O
<1>4. \A c \in Grid(a, b) : c.i = 0 \/ c.j = 0 => h[c] = 1
  BY <1>1, OneOnTheBorder
<1> DEFINE G == {c \in Grid(a, b) : k[c] = h[c] - One(c.i = a) - One(c.j = b)}
<1>5. ASSUME NEW c \in Grid(a, b),
             c.i > 0 => Cell(c.i - 1, c.j) \in G, c.j > 0 => Cell(c.i, c.j - 1) \in G
      PROVE  c \in G
  <2>1. PICK i \in Nat, j \in Nat : i = c.i /\ j = c.j /\ i <= a /\ j <= b
    BY CellsBefore
  <2>2. CASE c \in O
    <3>1. k[c] = 0 /\ h[c] = 1
      BY <1>2, <1>3, <1>4, <2>2 DEF Reached
    <3>2. One(c.i = a) + One(c.j = b) = 1
      BY <1>3, <2>2, <2>1
    <3> QED
      BY <3>1, <3>2
  <2>3. CASE c \notin O /\ c = Cell(0, 0)
    BY <1>1, <1>2, <2>3, CellsBefore DEF Reached
  <2>4. CASE c \notin O /\ c # Cell(0, 0) /\ i = 0
    <3>1. j > 0 /\ j # b
      <4>1. c = Cell(0, 0) <=> c.i = 0 /\ c.j = 0
        BY CellsBefore
      <4>2. ~ (c.i = 0 /\ c.j = b)
        BY <1>3, <2>4
      <4> QED
        BY <2>1, <2>4, <4>1, <4>2
    <3>2. PICK e \in Grid(a, b) : e = Cell(c.i, c.j - 1) /\ e.i = 0 /\ e.j = j - 1 /\ e \in G
      <4>1. c.j > 0
        BY <2>1, <3>1
      <4>2. Cell(c.i, c.j - 1) \in G
        BY <1>5, <4>1
      <4>3. Cell(c.i, c.j - 1) \in Grid(a, b) /\ Cell(c.i, c.j - 1).i = c.i /\ Cell(c.i, c.j - 1).j = c.j - 1
        BY <4>1, CellsBefore
      <4> QED
        BY <2>1, <2>4, <4>2, <4>3
    <3>3. k[c] = k[e]
      <4>1. k[c] = Into(k, c) /\ k[e] \in Nat
        BY <1>2, <2>4, <3>2 DEF Reached
      <4>2. c.i = 0 /\ c.j > 0
        BY <2>1, <2>4, <3>1
      <4>3. Into(k, c) = k[Cell(c.i, c.j - 1)]
        BY <4>2, FromOneSide
      <4>4. e = Cell(c.i, c.j - 1)
        BY <3>2
      <4> QED
        BY <4>1, <4>3, <4>4
    <3>4. h[e] = 1 /\ h[c] = 1 /\ k[e] \in Nat
      BY <1>4, <2>1, <2>4, <3>2
    <3>5. One(e.i = a) = 0 /\ One(e.j = b) = 0 /\ One(c.i = a) = 0 /\ One(c.j = b) = 0
      BY <2>1, <2>4, <3>1, <3>2
    <3> QED
      BY <3>2, <3>3, <3>4, <3>5
  <2>5. CASE c \notin O /\ c # Cell(0, 0) /\ j = 0
    <3>1. i > 0 /\ i # a
      <4>1. c = Cell(0, 0) <=> c.i = 0 /\ c.j = 0
        BY CellsBefore
      <4>2. ~ (c.i = a /\ c.j = 0)
        BY <1>3, <2>5
      <4> QED
        BY <2>1, <2>5, <4>1, <4>2
    <3>2. PICK e \in Grid(a, b) : e = Cell(c.i - 1, c.j) /\ e.i = i - 1 /\ e.j = 0 /\ e \in G
      <4>1. c.i > 0
        BY <2>1, <3>1
      <4>2. Cell(c.i - 1, c.j) \in G
        BY <1>5, <4>1
      <4>3. Cell(c.i - 1, c.j) \in Grid(a, b) /\ Cell(c.i - 1, c.j).i = c.i - 1 /\ Cell(c.i - 1, c.j).j = c.j
        BY <4>1, CellsBefore
      <4> QED
        BY <2>1, <2>5, <4>2, <4>3
    <3>3. k[c] = k[e]
      <4>1. k[c] = Into(k, c) /\ k[e] \in Nat
        BY <1>2, <2>5, <3>2 DEF Reached
      <4>2. c.i > 0 /\ c.j = 0
        BY <2>1, <2>5, <3>1
      <4>3. Into(k, c) = k[Cell(c.i - 1, c.j)]
        BY <4>2, FromOneSide
      <4>4. e = Cell(c.i - 1, c.j)
        BY <3>2
      <4> QED
        BY <4>1, <4>3, <4>4
    <3>4. h[e] = 1 /\ h[c] = 1 /\ k[e] \in Nat
      BY <1>4, <2>1, <2>5, <3>2
    <3>5. One(e.i = a) = 0 /\ One(e.j = b) = 0 /\ One(c.i = a) = 0 /\ One(c.j = b) = 0
      BY <2>1, <2>5, <3>1, <3>2
    <3> QED
      BY <3>2, <3>3, <3>4, <3>5
  <2>6. CASE c \notin O /\ i > 0 /\ j > 0
    <3>1. PICK d \in Grid(a, b) : d = Cell(i - 1, j) /\ d.i = i - 1 /\ d.j = j /\ d \in G
      BY <1>5, <2>1, <2>6, CellsBefore
    <3>2. PICK e \in Grid(a, b) : e = Cell(i, j - 1) /\ e.i = i /\ e.j = j - 1 /\ e \in G
      BY <1>5, <2>1, <2>6, CellsBefore
    <3>3. c # Cell(0, 0)
      BY <2>1, <2>6, CellsBefore
    <3>4. k[c] = k[d] + k[e]
      BY <1>2, <2>1, <2>6, <3>1, <3>2, <3>3 DEF Reached, Into
    <3>5. h[c] = h[d] + h[e]
      BY <1>1, <2>1, <2>6, <3>1, <3>2, <3>3 DEF Reached, Into
    <3>6. k[d] = h[d] - One(j = b) /\ k[e] = h[e] - One(i = a)
      BY <2>1, <3>1, <3>2
    <3> QED
      BY <2>1, <3>4, <3>5, <3>6
  <2> QED
    BY <2>1, <2>2, <2>3, <2>4, <2>5, <2>6
<1> HIDE DEF G
<1>6. Grid(a, b) \subseteq G
  BY <1>5, CellByCell
<1>7. Cell(a, b) \in Grid(a, b) /\ Cell(a, b).i = a /\ Cell(a, b).j = b
  BY DEF Cell, Grid
<1> QED
  BY <1>1, <1>2, <1>6, <1>7 DEF G

\* The further apart, the smaller the p-value, between 0 and all orderings.
LEMMA PValueShrinks ==
  ASSUME NEW a \in Nat, NEW b \in Nat, NEW s \in Int, NEW t \in Int, s <= t
  PROVE  PValue(a, b, t) \in Nat /\ PValue(a, b, s) \in Nat /\ PValue(a, b, t) <= PValue(a, b, s)
<1>1. OutsideBand(a, b, t) \subseteq OutsideBand(a, b, s)
  <2>1. ASSUME NEW c \in Grid(a, b) PROVE Abs(c.i * b - c.j * a) \in Int
    <3>1. c.i * b \in Int /\ c.j * a \in Int
      BY CellsBefore
    <3> QED
      BY <3>1 DEF Abs
  <2> QED
    BY <2>1 DEF OutsideBand
<1>2. Inside(a, b, s) <= Inside(a, b, t) /\ Inside(a, b, s) \in Nat /\ Inside(a, b, t) \in Nat
  BY <1>1, FewerPaths DEF Inside
<1>3. Inside(a, b, t) <= Orderings(a, b) /\ Inside(a, b, s) <= Orderings(a, b) /\ Orderings(a, b) \in Nat
  BY FewerPaths DEF Inside, Orderings
<1> QED
  BY <1>2, <1>3 DEF PValue

LEMMA PValueIsACount ==
  ASSUME NEW a \in Nat, NEW b \in Nat, NEW s
  PROVE  PValue(a, b, s) \in Nat /\ Orderings(a, b) \in Nat
<1>1. Inside(a, b, s) <= Orderings(a, b) /\ Inside(a, b, s) \in Nat /\ Orderings(a, b) \in Nat
  BY FewerPaths DEF Inside, Orderings
<1> QED
  BY <1>1 DEF PValue

\* Complete separation, in either direction, is the smallest p-value there is.
LEMMA SmallestPValue ==
  ASSUME NEW a \in Nat \ {0}, NEW b \in Nat \ {0}
  PROVE  /\ PValue(a, b, a * b) = MinimumAttainable(a, b)
         /\ \A s \in 0 .. (a * b) : PValue(a, b, s) >= MinimumAttainable(a, b)
<1>1. a * b \in Nat /\ a * b > 0
  OBVIOUS
<1>2. PValue(a, b, a * b) = 2
  <2>1. Orderings(a, b) \in Nat
    BY PValueIsACount
  <2> QED
    BY <1>1, <2>1, TwoSeparations DEF PValue
<1>3. ASSUME NEW s \in 0 .. (a * b) PROVE PValue(a, b, s) >= 2
  BY <1>1, <1>2, PValueShrinks
<1> QED
  BY <1>2, <1>3 DEF MinimumAttainable

-----------------------------------------------------------------------------
(* The samples                                                             *)

\* The samples are of the windows.
SamplesTyped ==
  /\ reference \in Seq(DOMAIN WindowValues)
  /\ comparison \in Seq(DOMAIN WindowValues)

LEMMA SamplesStayTyped == MeasuresSpec => []SamplesTyped
<1>1. MeasuresInit => SamplesTyped
  BY DEF MeasuresInit, SamplesTyped
<1>2. SamplesTyped /\ [MeasuresNext]_measuresVars => SamplesTyped'
  <2> SUFFICES ASSUME SamplesTyped, [MeasuresNext]_measuresVars
               PROVE  SamplesTyped'
    OBVIOUS
  <2>1. ASSUME NEW w \in DOMAIN WindowValues, AddReference(w) PROVE SamplesTyped'
    <3>1. Append(reference, w) \in Seq(DOMAIN WindowValues)
      BY DEF SamplesTyped
    <3> QED
      BY <2>1, <3>1 DEF AddReference, SamplesTyped
  <2>2. ASSUME NEW w \in DOMAIN WindowValues, AddComparison(w) PROVE SamplesTyped'
    <3>1. Append(comparison, w) \in Seq(DOMAIN WindowValues)
      BY DEF SamplesTyped
    <3> QED
      BY <2>2, <3>1 DEF AddComparison, SamplesTyped
  <2>3. CASE UNCHANGED measuresVars
    BY <2>3 DEF SamplesTyped, measuresVars
  <2> QED
    BY <2>1, <2>2, <2>3 DEF MeasuresNext
<1> QED
  BY <1>1, <1>2, PTL DEF MeasuresSpec

LEMMA SampleSizes ==
  ASSUME SamplesTyped
  PROVE  nRef \in Nat /\ nCmp \in Nat
BY DEF SamplesTyped, nRef, nCmp

LEMMA FamilySize == IsFiniteSet(Features) /\ Cardinality(Features) = NumFeatures /\ NumFeatures \in Nat
<1>1. NumFeatures \in Nat /\ NumFeatures > 0
  BY FeaturesAssumption
<1>2. 1 \in Int /\ NumFeatures \in Int
  BY <1>1
<1>3. /\ IsFiniteSet(1 .. NumFeatures)
      /\ Cardinality(1 .. NumFeatures) = IF 1 > NumFeatures THEN 0 ELSE NumFeatures - 1 + 1
  BY <1>2, FS_Interval
<1> QED
  BY <1>1, <1>3 DEF Features

\* The features that come before one.
Ahead(p, f) == {g \in Features : p[g] < p[f] \/ (p[g] = p[f] /\ g < f)}

LEMMA RanksFollowValues ==
  ASSUME NEW p \in [Features -> Nat]
  PROVE  \A f \in Features : 
           /\ Rank(p, f) = Cardinality(Ahead(p, f)) /\ IsFiniteSet(Ahead(p, f))
           /\ Rank(p, f) \in Nat
           /\ \A g \in Features : g \in Ahead(p, f) => Rank(p, g) < Rank(p, f)
           /\ \A g \in Features : Rank(p, f) <= Rank(p, g) <=> g \notin Ahead(p, f)
<1>1. ASSUME NEW f \in Features
      PROVE  /\ Rank(p, f) = Cardinality(Ahead(p, f)) /\ IsFiniteSet(Ahead(p, f)) /\ Rank(p, f) \in Nat
  <2>1. Ahead(p, f) \in SUBSET Features
    BY DEF Ahead
  <2>2. IsFiniteSet(Ahead(p, f))
    BY <2>1, FamilySize, FS_Subset
  <2>3. Cardinality(Ahead(p, f)) \in Nat
    BY <2>2, FS_CardinalityType
  <2>4. Rank(p, f) = Cardinality(Ahead(p, f))
    BY DEF Rank, Ahead
  <2> QED
    BY <2>2, <2>3, <2>4
<1>2. ASSUME NEW f \in Features, NEW g \in Features, g \in Ahead(p, f)
      PROVE  Rank(p, g) < Rank(p, f)
  <2>1. Features \subseteq Nat
    BY DEF Features
  <2>2. Ahead(p, g) \in SUBSET Ahead(p, f)
    <3>1. ASSUME NEW h \in Features, h \in Ahead(p, g) PROVE h \in Ahead(p, f)
      <4>1. f \in Nat /\ g \in Nat /\ h \in Nat /\ p[f] \in Nat /\ p[g] \in Nat /\ p[h] \in Nat
        BY <2>1
      <4>2. p[h] < p[g] \/ (p[h] = p[g] /\ h < g)
        BY <3>1 DEF Ahead
      <4>3. p[g] < p[f] \/ (p[g] = p[f] /\ g < f)
        BY <1>2 DEF Ahead
      <4>4. p[h] < p[f] \/ (p[h] = p[f] /\ h < f)
        BY <4>1, <4>2, <4>3
      <4> QED
        BY <4>4 DEF Ahead
    <3> QED
      BY <3>1 DEF Ahead
  <2>3. g \notin Ahead(p, g)
    BY <2>1 DEF Ahead
  <2>4. Cardinality(Ahead(p, g)) <= Cardinality(Ahead(p, f))
        /\ (Cardinality(Ahead(p, f)) = Cardinality(Ahead(p, g)) => Ahead(p, f) = Ahead(p, g))
    BY <1>1, <2>2, FS_Subset
  <2> QED
    BY <1>1, <1>2, <2>3, <2>4
<1>3. ASSUME NEW f \in Features, NEW g \in Features, g \notin Ahead(p, f)
      PROVE  Rank(p, f) <= Rank(p, g)
  <2>1. f = g \/ f \in Ahead(p, g)
    <3>1. f \in Nat /\ g \in Nat /\ p[f] \in Nat /\ p[g] \in Nat
      BY DEF Features
    <3> QED
      BY <1>3, <3>1 DEF Ahead
  <2>2. CASE f = g
    BY <1>1, <2>2
  <2>3. CASE f \in Ahead(p, g)
    BY <1>1, <1>2, <2>3
  <2> QED
    BY <2>1, <2>2, <2>3
<1>4. ASSUME NEW f \in Features, NEW g \in Features, Rank(p, f) <= Rank(p, g)
      PROVE  g \notin Ahead(p, f)
  BY <1>1, <1>2, <1>4
<1> QED
  BY <1>1, <1>2, <1>3, <1>4

\* As many features come at or after one as the step-down divides alpha by.
LEMMA FamilyFrom ==
  ASSUME NEW p \in [Features -> Nat], NEW f \in Features
  PROVE  LET F == {g \in Features : Rank(p, f) <= Rank(p, g)}
         IN  IsFiniteSet(F) /\ f \in F /\ Cardinality(F) = Cardinality(Features) - Rank(p, f)
<1> DEFINE F == {g \in Features : Rank(p, f) <= Rank(p, g)}
<1>1. F = Features \ Ahead(p, f)
  BY RanksFollowValues
<1>2. IsFiniteSet(F) /\ Cardinality(F) = Cardinality(Features) - Cardinality(Features \cap Ahead(p, f))
  BY <1>1, FamilySize, FS_Difference
<1>3. Features \cap Ahead(p, f) = Ahead(p, f)
  BY DEF Ahead
<1>4. f \in F
  BY RanksFollowValues
<1> QED
  BY <1>2, <1>3, <1>4, RanksFollowValues

\* A smaller family or a smaller p-value is rejected all the sooner.
LEMMA SmallerIsRejected ==
  ASSUME NEW p \in Nat, NEW q \in Nat, NEW d \in Nat, NEW k \in Nat, NEW l \in Nat,
         p <= q, k <= l, AtMost(q, d, l)
  PROVE  AtMost(p, d, k)
<1>0. AlphaDen \in Nat /\ AlphaNum \in Nat /\ AlphaNum * d \in Nat
  BY LimitsAssumption
<1>1. p * k <= q * l /\ p * k \in Nat /\ q * l \in Nat
  <2>1. p * k <= q * k /\ q * k <= q * l
    OBVIOUS
  <2>2. p * k \in Nat /\ q * k \in Nat /\ q * l \in Nat
    OBVIOUS
  <2> QED
    BY <2>1, <2>2
<1>2. ASSUME NEW x \in Nat, NEW y \in Nat, x <= y
      PROVE  x * AlphaDen <= y * AlphaDen /\ x * AlphaDen \in Nat /\ y * AlphaDen \in Nat
  BY <1>0, <1>2
<1>3. p * k * AlphaDen <= q * l * AlphaDen /\ p * k * AlphaDen \in Nat /\ q * l * AlphaDen \in Nat
  BY <1>1, <1>2
<1> QED
  BY <1>0, <1>3 DEF AtMost

\* The step-down reports what every family of the feature would report.
LEMMA StepDownIsClosed ==
  ASSUME NEW p \in [Features -> Nat], NEW d \in Nat, NEW f \in Features
  PROVE  f \in Rejected(p, d) <=>
           \A F \in SUBSET Features : f \in F => \E g \in F : AtMost(p[g], d, Cardinality(F))
<1> DEFINE From(g) == {h \in Features : Rank(p, g) <= Rank(p, h)}
<1>1. \A g \in Features : /\ IsFiniteSet(From(g)) /\ g \in From(g)
                          /\ Cardinality(From(g)) = Cardinality(Features) - Rank(p, g)
                          /\ Cardinality(From(g)) \in Nat
  BY FamilyFrom, FS_CardinalityType
<1>2. ASSUME f \in Rejected(p, d), NEW F \in SUBSET Features, f \in F
      PROVE  \E g \in F : AtMost(p[g], d, Cardinality(F))
  <2> DEFINE W == {Rank(p, g) : g \in F}
  <2>1. W \in SUBSET Nat /\ W # {}
    BY <1>2, RanksFollowValues
  <2>2. \E w \in W : \A v \in W : w <= v
    <3> HIDE DEF W
    <3> QED
      BY <2>1, LeastNumber
  <2>3. PICK g \in F : \A h \in F : Rank(p, g) <= Rank(p, h)
    BY <2>2
  <2>4. AtMost(p[g], d, Cardinality(From(g)))
    BY <1>1, <1>2, <2>3 DEF Rejected
  <2>5. F \in SUBSET From(g)
    BY <2>3
  <2> HIDE DEF From
  <2>6. Cardinality(F) <= Cardinality(From(g)) /\ Cardinality(F) \in Nat
    BY <1>1, <2>5, FS_Subset, FS_CardinalityType
  <2>7. p[g] \in Nat
    OBVIOUS
  <2>8. AtMost(p[g], d, Cardinality(F))
    BY <1>1, <2>4, <2>6, <2>7, SmallerIsRejected
  <2> QED
    BY <2>8
<1>3. ASSUME \A F \in SUBSET Features : f \in F => \E g \in F : AtMost(p[g], d, Cardinality(F)),
             NEW g \in Features, Rank(p, g) <= Rank(p, f)
      PROVE  AtMost(p[g], d, Cardinality(Features) - Rank(p, g))
  <2>1. From(g) \in SUBSET Features /\ f \in From(g)
    BY <1>3
  <2>2. PICK h \in From(g) : AtMost(p[h], d, Cardinality(From(g)))
    BY <1>3, <2>1
  <2>3. h \notin Ahead(p, g) /\ h \in Features
    BY <2>2, RanksFollowValues
  <2>4. p[g] <= p[h] /\ p[g] \in Nat /\ p[h] \in Nat
    BY <2>3 DEF Ahead
  <2> HIDE DEF From
  <2>5. AtMost(p[g], d, Cardinality(From(g)))
    BY <1>1, <2>2, <2>4, SmallerIsRejected
  <2> QED
    BY <1>1, <2>5
<1>4. (\A g \in Features : Rank(p, g) <= Rank(p, f) => AtMost(p[g], d, Cardinality(Features) - Rank(p, g)))
        => f \in Rejected(p, d)
  BY DEF Rejected
<1> QED
  BY <1>2, <1>3, <1>4

\* HolmControlsTheFamily, for every family of features and all p-values: the
\* step-down of holm_bonferroni is the closed testing procedure.
THEOREM StepDownControlsTheFamily == MeasuresSpec => []HolmControlsTheFamily
<1>1. SamplesTyped => HolmControlsTheFamily
  <2> SUFFICES ASSUME SamplesTyped, NEW f \in Features
               PROVE  f \in Drifted <=>
                        \A F \in SUBSET Features : f \in F =>
                          \E g \in F : AtMost(Tests[g], Orderings(nRef, nCmp), Cardinality(F))
    BY DEF HolmControlsTheFamily
  <2>1. Tests \in [Features -> Nat] /\ Orderings(nRef, nCmp) \in Nat
    BY SampleSizes, PValueIsACount DEF Tests
  <2> QED
    BY <2>1, StepDownIsClosed DEF Drifted
<1> QED
  BY <1>1, SamplesStayTyped, PTL

\* NoDriftHadPower, for samples of any sizes: what assess_drift does not refuse
\* could have been reported.
THEOREM NoDriftIsNotSilence == MeasuresSpec => []NoDriftHadPower
<1>1. SamplesTyped => NoDriftHadPower
  <2> SUFFICES ASSUME SamplesTyped, Status = "no_drift_detected"
               PROVE  LET apart == [f \in Features |-> PValue(nRef, nCmp, nRef * nCmp)] IN
                      /\ Rejected(apart, Orderings(nRef, nCmp)) = Features
                      /\ \A s \in 0..(nRef * nCmp) : PValue(nRef, nCmp, s) >= MinimumAttainable(nRef, nCmp)
    BY DEF NoDriftHadPower
  <2> DEFINE apart == [f \in Features |-> PValue(nRef, nCmp, nRef * nCmp)]
             d == Orderings(nRef, nCmp)
  <2>1. ~Refused
    BY DEF Status
  <2>2. nRef \in Nat \ {0} /\ nCmp \in Nat \ {0}
    BY <2>1, SampleSizes, LimitsAssumption DEF Refused
  <2>3. AtMost(2, d, Cardinality(Features))
    BY <2>1, <2>2 DEF Refused, Attainable, MinimumAttainable
  <2>4. PValue(nRef, nCmp, nRef * nCmp) = 2
    BY <2>2, SmallestPValue DEF MinimumAttainable
  <2>5. apart \in [Features -> Nat] /\ \A f \in Features : apart[f] = 2
    BY <2>4
  <2>6. d \in Nat
    BY <2>2, PValueIsACount
  <2> HIDE DEF apart, d
  <2>7. ASSUME NEW g \in Features
        PROVE  AtMost(apart[g], d, Cardinality(Features) - Rank(apart, g))
    <3>1. Rank(apart, g) \in Nat
      BY <2>5, RanksFollowValues
    <3>2. /\ IsFiniteSet({h \in Features : Rank(apart, g) <= Rank(apart, h)})
          /\ Cardinality({h \in Features : Rank(apart, g) <= Rank(apart, h)})
               = Cardinality(Features) - Rank(apart, g)
      BY <2>5, FamilyFrom
    <3>3. Cardinality(Features) - Rank(apart, g) \in Nat
      BY <3>2, FS_CardinalityType
    <3>4. Cardinality(Features) - Rank(apart, g) <= Cardinality(Features) /\ Cardinality(Features) \in Nat
      BY <3>1, FamilySize
    <3>5. apart[g] \in Nat /\ 2 \in Nat /\ apart[g] <= 2
      BY <2>5
    <3> QED
      BY <2>3, <2>6, <3>3, <3>4, <3>5, SmallerIsRejected
  <2>8. Rejected(apart, d) = Features
    BY <2>7 DEF Rejected
  <2>9. \A s \in 0..(nRef * nCmp) : PValue(nRef, nCmp, s) >= MinimumAttainable(nRef, nCmp)
    BY <2>2, SmallestPValue
  <2> QED
    BY <2>8, <2>9 DEF apart, d
<1> QED
  BY <1>1, SamplesStayTyped, PTL

\* A finite set of numbers that is not empty has a greatest and a least one.
LEMMA GreatestAndLeast ==
  ASSUME NEW S \in SUBSET Int, IsFiniteSet(S), S # {}
  PROVE  /\ Max(S) \in S /\ \A y \in S : y <= Max(S)
         /\ Min(S) \in S /\ \A y \in S : Min(S) <= y
<1> DEFINE Up(x) == {z \in S : x < z}
           Down(x) == {z \in S : z < x}
           U == {Cardinality(Up(x)) : x \in S}
           D == {Cardinality(Down(x)) : x \in S}
<1>1. ASSUME NEW x \in S
      PROVE  /\ IsFiniteSet(Up(x)) /\ Cardinality(Up(x)) \in Nat
             /\ IsFiniteSet(Down(x)) /\ Cardinality(Down(x)) \in Nat
  BY FS_Subset, FS_CardinalityType
<1>2. \E x \in S : \A y \in S : y <= x
  <2>1. U \in SUBSET Nat /\ U # {}
    BY <1>1
  <2>2. \E u \in U : \A v \in U : u <= v
    <3> HIDE DEF U
    <3> QED
      BY <2>1, LeastNumber
  <2>3. PICK x \in S : \A y \in S : Cardinality(Up(x)) <= Cardinality(Up(y))
    BY <2>2
  <2>4. ASSUME NEW y \in S, x < y PROVE FALSE
    <3>1. Up(y) \in SUBSET Up(x) /\ y \in Up(x) /\ y \notin Up(y)
      <4>1. x \in Int /\ y \in Int /\ \A z \in S : z \in Int
        OBVIOUS
      <4>2. ASSUME NEW z \in S, y < z PROVE x < z
        BY <2>4, <4>1, <4>2
      <4>3. Up(y) \subseteq Up(x)
        BY <4>2
      <4>4. y \in Up(x) /\ y \notin Up(y)
        BY <2>4, <4>1
      <4> QED
        BY <4>3, <4>4
    <3>0. /\ IsFiniteSet(Up(x)) /\ Cardinality(Up(x)) \in Nat
          /\ Cardinality(Up(y)) \in Nat /\ Cardinality(Up(x)) <= Cardinality(Up(y))
      BY <1>1, <2>3
    <3> HIDE DEF Up
    <3>2. Cardinality(Up(y)) <= Cardinality(Up(x))
          /\ (Cardinality(Up(x)) = Cardinality(Up(y)) => Up(x) = Up(y))
      BY <3>0, <3>1, FS_Subset
    <3> QED
      BY <3>0, <3>1, <3>2
  <2> QED
    BY <2>4
<1>3. \E x \in S : \A y \in S : x <= y
  <2>1. D \in SUBSET Nat /\ D # {}
    BY <1>1
  <2>2. \E u \in D : \A v \in D : u <= v
    <3> HIDE DEF D
    <3> QED
      BY <2>1, LeastNumber
  <2>3. PICK x \in S : \A y \in S : Cardinality(Down(x)) <= Cardinality(Down(y))
    BY <2>2
  <2>4. ASSUME NEW y \in S, y < x PROVE FALSE
    <3>1. Down(y) \in SUBSET Down(x) /\ y \in Down(x) /\ y \notin Down(y)
      <4>1. x \in Int /\ y \in Int /\ \A z \in S : z \in Int
        OBVIOUS
      <4>2. ASSUME NEW z \in S, z < y PROVE z < x
        BY <2>4, <4>1, <4>2
      <4>3. Down(y) \subseteq Down(x)
        BY <4>2
      <4>4. y \in Down(x) /\ y \notin Down(y)
        BY <2>4, <4>1
      <4> QED
        BY <4>3, <4>4
    <3>0. /\ IsFiniteSet(Down(x)) /\ Cardinality(Down(x)) \in Nat
          /\ Cardinality(Down(y)) \in Nat /\ Cardinality(Down(x)) <= Cardinality(Down(y))
      BY <1>1, <2>3
    <3> HIDE DEF Down
    <3>2. Cardinality(Down(y)) <= Cardinality(Down(x))
          /\ (Cardinality(Down(x)) = Cardinality(Down(y)) => Down(x) = Down(y))
      BY <3>0, <3>1, FS_Subset
    <3> QED
      BY <3>0, <3>1, <3>2
  <2> QED
    BY <2>4
<1>4. Max(S) \in S /\ \A y \in S : Max(S) >= y
  BY <1>2, Zenon DEF Max
<1>5. Min(S) \in S /\ \A y \in S : Min(S) <= y
  BY <1>3 DEF Min
<1> QED
  BY <1>4, <1>5

LEMMA ColumnsTyped ==
  ASSUME NEW s \in Seq(DOMAIN WindowValues), NEW f \in Features
  PROVE  /\ Len(Column(s, f)) = Len(s) /\ DOMAIN Column(s, f) = 1 .. Len(s)
         /\ \A i \in DOMAIN Column(s, f) : Column(s, f)[i] \in Int
         /\ IsFiniteSet(ValuesIn(Column(s, f))) /\ ValuesIn(Column(s, f)) \in SUBSET Int
         /\ Len(s) > 0 => ValuesIn(Column(s, f)) # {}
         /\ \A t \in Int : Below(Column(s, f), t) \in Nat
<1> DEFINE col == Column(s, f)
<1>0. Len(s) \in Nat /\ DOMAIN s = 1 .. Len(s)
  OBVIOUS
<1>1. DOMAIN col = 1 .. Len(s) /\ Len(col) = Len(s)
  BY <1>0 DEF Column
<1>2. ASSUME NEW i \in DOMAIN col PROVE col[i] \in Int
  <2>1. s[i] \in DOMAIN WindowValues
    BY <1>1
  <2>2. WindowValues[s[i]] \in [Features -> Int]
    BY <2>1, WindowsAssumption
  <2> QED
    BY <1>1, <2>2 DEF Column
<1>3. IsFiniteSet(1 .. Len(s))
  BY <1>0, FS_Interval
<1>4. IsFiniteSet(ValuesIn(col))
  <2>1. col = [i \in DOMAIN col |-> col[i]]
    BY DEF Column
  <2> HIDE DEF col
  <2>2. col \in [1 .. Len(s) -> ValuesIn(col)]
        /\ \A v \in ValuesIn(col) : \E i \in 1 .. Len(s) : col[i] = v
    BY <1>1, <2>1 DEF ValuesIn
  <2>3. ExistsSurjection(1 .. Len(s), ValuesIn(col))
    BY <2>2 DEF ExistsSurjection, Surjection
  <2> QED
    BY <1>0, <2>3, FS_NatSurjection
<1> HIDE DEF col
<1>5. ASSUME NEW t \in Int PROVE Below(col, t) \in Nat
  <2>1. {i \in DOMAIN col : col[i] <= t} \in SUBSET (1 .. Len(s))
    BY <1>1
  <2> QED
    BY <1>3, <2>1, FS_Subset, FS_CardinalityType DEF Below
<1>6. ValuesIn(col) \in SUBSET Int /\ (Len(s) > 0 => ValuesIn(col) # {})
  <2>1. ValuesIn(col) = {col[i] : i \in DOMAIN col}
    BY DEF ValuesIn
  <2>2. Len(s) > 0 => 1 \in DOMAIN col
    BY <1>0, <1>1
  <2> QED
    BY <1>2, <2>1, <2>2
<1> QED
  BY <1>1, <1>2, <1>4, <1>5, <1>6 DEF col

LEMMA ScoresTyped ==
  ASSUME SamplesTyped
  PROVE  /\ DOMAIN Scores = 1 .. nCmp /\ \A i \in DOMAIN Scores : Scores[i] \in Int
         /\ IsFiniteSet(ValuesIn(Scores)) /\ ValuesIn(Scores) \in SUBSET Int
         /\ nCmp > 0 => ValuesIn(Scores) # {}
         /\ \A t \in Int : Flagged(t) \in Nat
<1>1. 1 \in Features
  BY FeaturesAssumption DEF Features
<1> QED
  BY <1>1, ColumnsTyped DEF SamplesTyped, Scores, Flagged, nCmp

\* A higher score flags more windows, by its own window at least, and the highest
\* flags them all.
LEMMA FlaggedGrows ==
  ASSUME SamplesTyped, nCmp > 0
  PROVE  /\ \A v \in ValuesIn(Scores) : Flagged(v) \in 1 .. nCmp
         /\ \A u, v \in ValuesIn(Scores) : u < v => Flagged(u) < Flagged(v)
         /\ Flagged(Max(ValuesIn(Scores))) = nCmp
<1> DEFINE Low(v) == {i \in DOMAIN Scores : Scores[i] <= v}
<1>1. nCmp \in Nat /\ DOMAIN Scores = 1 .. nCmp /\ \A i \in DOMAIN Scores : Scores[i] \in Int
  BY SampleSizes, ScoresTyped
<1>2. IsFiniteSet(1 .. nCmp) /\ Cardinality(1 .. nCmp) = nCmp
  <2>1. 1 \in Int /\ nCmp \in Int
    BY <1>1
  <2>2. IsFiniteSet(1 .. nCmp) /\ Cardinality(1 .. nCmp) = IF 1 > nCmp THEN 0 ELSE nCmp - 1 + 1
    BY <2>1, FS_Interval
  <2> QED
    BY <1>1, <2>2
<1>3. ASSUME NEW v
      PROVE  Flagged(v) = Cardinality(Low(v)) /\ IsFiniteSet(Low(v)) /\ Flagged(v) \in Nat /\ Flagged(v) <= nCmp
  <2>1. Low(v) \in SUBSET (1 .. nCmp)
    BY <1>1
  <2>2. IsFiniteSet(Low(v)) /\ Cardinality(Low(v)) <= nCmp
    BY <1>2, <2>1, FS_Subset
  <2> QED
    BY <2>2, FS_CardinalityType DEF Flagged, Below
<1>4. ASSUME NEW v \in ValuesIn(Scores) PROVE \E i \in DOMAIN Scores : Scores[i] = v
  BY DEF ValuesIn
<1>5. ASSUME NEW v \in ValuesIn(Scores) PROVE Flagged(v) > 0
  <2>1. Low(v) # {}
    BY <1>1, <1>4
  <2>2. Cardinality(Low(v)) # 0
    BY <1>3, <2>1, FS_EmptySet
  <2> QED
    BY <1>3, <2>2
<1>6. ASSUME NEW u \in ValuesIn(Scores), NEW v \in ValuesIn(Scores), u < v
      PROVE  Flagged(u) < Flagged(v)
  <2>1. PICK k \in DOMAIN Scores : Scores[k] = v
    BY <1>4
  <2>2. u \in Int /\ v \in Int
    BY <1>1, <1>4
  <2>3. Low(u) \in SUBSET Low(v) /\ k \in Low(v) /\ k \notin Low(u)
    BY <1>1, <1>6, <2>1, <2>2
  <2>4. Low(u) # Low(v)
    BY <2>3
  <2>5. Cardinality(Low(u)) <= Cardinality(Low(v))
        /\ (Cardinality(Low(v)) = Cardinality(Low(u)) => Low(v) = Low(u))
    BY <1>3, <2>3, FS_Subset
  <2> QED
    BY <1>3, <2>4, <2>5
<1>7. Low(Max(ValuesIn(Scores))) = 1 .. nCmp
  <2>1. \A y \in ValuesIn(Scores) : y <= Max(ValuesIn(Scores))
    BY ScoresTyped, GreatestAndLeast
  <2>2. \A i \in DOMAIN Scores : Scores[i] \in ValuesIn(Scores)
    BY DEF ValuesIn
  <2> QED
    BY <1>1, <2>1, <2>2
<1>8. Flagged(Max(ValuesIn(Scores))) = nCmp
  BY <1>2, <1>3, <1>7
<1>9. ASSUME NEW v \in ValuesIn(Scores) PROVE Flagged(v) \in 1 .. nCmp
  <2>1. Flagged(v) \in Nat /\ Flagged(v) <= nCmp
    BY <1>3
  <2>2. Flagged(v) > 0
    BY <1>5
  <2> QED
    BY <1>1, <2>1, <2>2
<1>10. \A u, v \in ValuesIn(Scores) : u < v => Flagged(u) < Flagged(v)
  BY <1>6
<1> HIDE DEF Low
<1> QED
  BY <1>8, <1>9, <1>10

\* The scores in ascending order, the last place of each being how many it flags.
LEMMA ScoresAscend ==
  ASSUME SamplesTyped, nCmp > 0
  PROVE  LET a == Ascending(Scores) IN
         /\ DOMAIN a = 1 .. nCmp
         /\ \A i \in 1 .. nCmp : a[i] \in ValuesIn(Scores) /\ Flagged(a[i]) >= i
         /\ \A i, j \in 1 .. nCmp : i <= j => a[i] <= a[j]
         /\ \A v \in ValuesIn(Scores) : a[Flagged(v)] = v
<1> DEFINE a == Ascending(Scores)
           From(i) == {v \in ValuesIn(Scores) : Below(Scores, v) >= i}
<1>1. /\ nCmp \in Nat /\ DOMAIN Scores = 1 .. nCmp
      /\ IsFiniteSet(ValuesIn(Scores)) /\ ValuesIn(Scores) \in SUBSET Int /\ ValuesIn(Scores) # {}
  BY SampleSizes, ScoresTyped
<1>2. DOMAIN a = 1 .. nCmp /\ \A i \in 1 .. nCmp : a[i] = Min(From(i))
  BY <1>1 DEF Ascending
<1>3. \A i : \A v : v \in From(i) <=> v \in ValuesIn(Scores) /\ Flagged(v) >= i
  BY DEF Flagged
<1>4. ASSUME NEW i \in 1 .. nCmp PROVE a[i] \in From(i) /\ \A y \in From(i) : a[i] <= y
  <2>1. From(i) \in SUBSET Int /\ IsFiniteSet(From(i))
    BY <1>1, FS_Subset
  <2>2. Max(ValuesIn(Scores)) \in ValuesIn(Scores)
    BY <1>1, GreatestAndLeast
  <2>3. Flagged(Max(ValuesIn(Scores))) >= i
    BY <1>1, FlaggedGrows
  <2>4. From(i) # {}
    BY <1>3, <2>2, <2>3
  <2> HIDE DEF From, a
  <2> QED
    BY <1>2, <2>1, <2>4, GreatestAndLeast
<1> HIDE DEF a, From
<1>5. ASSUME NEW i \in 1 .. nCmp, NEW j \in 1 .. nCmp, i <= j PROVE a[i] <= a[j]
  <2>1. a[j] \in ValuesIn(Scores) /\ Flagged(a[j]) >= j /\ Flagged(a[j]) \in 1 .. nCmp
    BY <1>3, <1>4, FlaggedGrows
  <2>2. Flagged(a[j]) >= i
    BY <1>1, <1>5, <2>1
  <2> QED
    BY <1>3, <1>4, <2>1, <2>2
<1>6. ASSUME NEW v \in ValuesIn(Scores) PROVE a[Flagged(v)] = v
  <2>1. PICK b \in 1 .. nCmp : b = Flagged(v)
    BY FlaggedGrows
  <2>2. b \in Int /\ v \in From(b)
    BY <1>1, <1>3, <2>1
  <2>3. a[b] <= v /\ a[b] \in ValuesIn(Scores) /\ Flagged(a[b]) >= b
    BY <1>3, <1>4, <2>2
  <2>4. a[b] \in Int /\ v \in Int /\ Flagged(a[b]) \in Int
    BY <1>1, <2>3, FlaggedGrows
  <2>5. ~(a[b] < v)
    BY <2>1, <2>2, <2>3, <2>4, FlaggedGrows
  <2> QED
    BY <2>1, <2>3, <2>4, <2>5
<1> QED
  BY <1>2, <1>3, <1>4, <1>5, <1>6 DEF a

\* The loop ends at the highest place it takes, or below every score.
LEMMA LoopEnds ==
  ASSUME SamplesTyped, nCmp > 0, NEW budget
  PROVE  \/ /\ \A i \in 1 .. nCmp : ~ Taken(i, budget)
            /\ Calibrated(budget) = Ascending(Scores)[1] - 1
         \/ \E i \in 1 .. nCmp :
              /\ Taken(i, budget) /\ Calibrated(budget) = Ascending(Scores)[i]
              /\ \A j \in 1 .. nCmp : j > i => ~ Taken(j, budget)
<1> DEFINE a == Ascending(Scores)
           Best(i) == {j \in 1 .. i : Taken(j, budget)}
           g == [i \in 0 .. nCmp |-> IF Best(i) = {} THEN a[1] - 1 ELSE a[Max(Best(i))]]
           p == CHOOSE f : f = [i \in 0 .. nCmp |->
                  IF i = 0 THEN a[1] - 1 ELSE IF Taken(i, budget) THEN a[i] ELSE f[i - 1]]
           Ends(i) == \/ (\A j \in 1 .. i : ~ Taken(j, budget)) /\ p[i] = a[1] - 1
                      \/ \E j \in 1 .. i : /\ Taken(j, budget) /\ p[i] = a[j]
                                           /\ \A k \in 1 .. i : k > j => ~ Taken(k, budget)
           Bad == {i \in 0 .. nCmp : ~ Ends(i)}
<1>0. nCmp \in Nat
  BY SampleSizes
<1>1. Calibrated(budget) = p[nCmp]
  BY DEF Calibrated
<1> HIDE DEF a
<1>2. g = [i \in 0 .. nCmp |->
             IF i = 0 THEN a[1] - 1 ELSE IF Taken(i, budget) THEN a[i] ELSE g[i - 1]]
  <2>1. ASSUME NEW i \in 0 .. nCmp
        PROVE  g[i] = IF i = 0 THEN a[1] - 1 ELSE IF Taken(i, budget) THEN a[i] ELSE g[i - 1]
    <3>1. CASE i = 0
      <4>1. Best(0) = {}
        OBVIOUS
      <4> QED
        BY <3>1, <4>1
    <3>2. CASE i # 0 /\ Taken(i, budget)
      <4>1. i \in Best(i) /\ Best(i) \in SUBSET (1 .. i) /\ i \in Nat /\ 1 \in Int
        BY <1>0, <3>2
      <4>2. Best(i) \in SUBSET Int /\ IsFiniteSet(Best(i)) /\ \A j \in Best(i) : j <= i
        <5>1. IsFiniteSet(1 .. i)
          BY <4>1, FS_Interval
        <5> HIDE DEF Best
        <5> QED
          BY <4>1, <5>1, FS_Subset
      <4>3. Max(Best(i)) = i
        <5> HIDE DEF Best
        <5>1. Max(Best(i)) \in Best(i) /\ i <= Max(Best(i))
          BY <4>1, <4>2, GreatestAndLeast
        <5> QED
          BY <4>1, <4>2, <5>1
      <4> QED
        BY <3>2, <4>1, <4>3
    <3>3. CASE i # 0 /\ ~ Taken(i, budget)
      <4>1. i - 1 \in 0 .. nCmp
        BY <1>0, <3>3
      <4>2. Best(i) = Best(i - 1)
        BY <1>0, <3>3
      <4> QED
        BY <3>3, <4>1, <4>2
    <3> QED
      BY <3>1, <3>2, <3>3
  <2> QED
    BY <2>1
<1>3. p = [i \in 0 .. nCmp |->
             IF i = 0 THEN a[1] - 1 ELSE IF Taken(i, budget) THEN a[i] ELSE p[i - 1]]
  <2> HIDE DEF g
  <2> QED
    BY <1>2, Zenon
<1> HIDE DEF p, g
<1>4. \A i \in 0 .. nCmp :
        p[i] = IF i = 0 THEN a[1] - 1 ELSE IF Taken(i, budget) THEN a[i] ELSE p[i - 1]
  BY <1>3
<1>5. Bad = {}
  <2>1. SUFFICES ASSUME Bad # {} PROVE FALSE
    OBVIOUS
  <2>2. PICK i \in Bad : \A j \in Bad : i <= j
    <3>1. Bad \in SUBSET Nat
      BY <1>0
    <3> HIDE DEF Bad
    <3> QED
      BY <2>1, <3>1, LeastNumber
  <2>3. i \in 0 .. nCmp /\ ~ Ends(i)
    OBVIOUS
  <2>4. CASE i = 0
    BY <1>4, <2>3, <2>4
  <2>5. CASE i # 0 /\ Taken(i, budget)
    <3>1. i \in 1 .. i /\ p[i] = a[i] /\ \A k \in 1 .. i : ~(k > i)
      BY <1>0, <1>4, <2>3, <2>5
    <3> QED
      BY <2>3, <2>5, <3>1
  <2>6. CASE i # 0 /\ ~ Taken(i, budget)
    <3>1. i - 1 \in 0 .. nCmp /\ i - 1 \notin Bad /\ p[i] = p[i - 1]
      BY <1>0, <1>4, <2>2, <2>3, <2>6
    <3>2. Ends(i - 1)
      BY <3>1
    <3>3. \A k \in 1 .. i : k = i \/ k \in 1 .. (i - 1)
      BY <1>0, <2>3
    <3>4. \A k \in 1 .. (i - 1) : k \in 1 .. i
      BY <1>0, <2>3
    <3>5. Ends(i)
      BY <2>6, <3>1, <3>2, <3>3, <3>4
    <3> QED
      BY <2>3, <3>5
  <2> QED
    BY <2>4, <2>5, <2>6
<1>6. Ends(nCmp)
  <2>1. nCmp \in 0 .. nCmp
    BY <1>0
  <2> QED
    BY <1>5, <2>1
<1> QED
  BY <1>1, <1>6 DEF a

\* CalibrationIsTight, for any windows and any budget: the loop of
\* calibrate_threshold, which compares places and looks at one neighbour, ends at the
\* best threshold within the budget of flagged windows.
THEOREM CalibrationFitsTheBudget == MeasuresSpec => []CalibrationIsTight
<1>1. SamplesTyped => CalibrationIsTight
  <2> SUFFICES ASSUME SamplesTyped, nCmp > 0, NEW budget \in 0 .. (nCmp - 1)
               PROVE  LET t == Calibrated(budget) IN
                      /\ Flagged(t) <= budget
                      /\ \A v \in ValuesIn(Scores) : v > t => Flagged(v) > budget
    BY DEF CalibrationIsTight
  <2> DEFINE t == Calibrated(budget)
             a == Ascending(Scores)
  <2>0. budget \in Nat /\ nCmp \in Nat
    BY SampleSizes
  <2>1. /\ \A i \in 1 .. nCmp : a[i] \in ValuesIn(Scores) /\ a[i] \in Int /\ Flagged(a[i]) >= i
        /\ \A i, j \in 1 .. nCmp : i <= j => a[i] <= a[j]
        /\ \A v \in ValuesIn(Scores) : a[Flagged(v)] = v /\ Flagged(v) \in 1 .. nCmp /\ v \in Int
    BY ScoresAscend, FlaggedGrows, ScoresTyped
  <2>2. \A i : Taken(i, budget) <=> ~(i < nCmp /\ a[i + 1] = a[i]) /\ i <= budget
    BY DEF Taken
  <2> HIDE DEF a
  \* The last place of a value fails only by the budget.
  <2>3. ASSUME NEW v \in ValuesIn(Scores), ~ Taken(Flagged(v), budget) PROVE Flagged(v) > budget
    <3>1. PICK b \in 1 .. nCmp : b = Flagged(v) /\ a[b] = v
      BY <2>1
    <3>2. CASE b < nCmp /\ a[b + 1] = a[b]
      <4>1. b + 1 \in 1 .. nCmp
        BY <2>0, <3>2
      <4>2. Flagged(a[b + 1]) >= b + 1
        BY <2>1, <4>1
      <4> QED
        BY <2>0, <3>1, <3>2, <4>2
    <3>3. CASE ~(b <= budget)
      BY <2>0, <3>1, <3>3
    <3> QED
      BY <2>2, <2>3, <3>1, <3>2, <3>3
  <2>4. CASE (\A i \in 1 .. nCmp : ~ Taken(i, budget)) /\ t = a[1] - 1
    <3>1. ASSUME NEW i \in DOMAIN Scores PROVE ~(Scores[i] <= t)
      <4>1. PICK v \in ValuesIn(Scores) : v = Scores[i]
        BY DEF ValuesIn
      <4>2. PICK b \in 1 .. nCmp : b = Flagged(v) /\ a[b] = v
        BY <2>1
      <4>3. 1 \in 1 .. nCmp /\ 1 <= b
        BY <2>0
      <4>4. a[1] <= v /\ a[1] \in Int /\ v \in Int
        BY <2>1, <4>2, <4>3
      <4> QED
        BY <2>4, <4>1, <4>4
    <3>2. {i \in DOMAIN Scores : Scores[i] <= t} = {}
      BY <3>1
    <3>3. Flagged(t) = 0
      BY <3>2, FS_EmptySet DEF Flagged, Below
    <3>4. \A v \in ValuesIn(Scores) : Flagged(v) > budget
      BY <2>1, <2>3, <2>4
    <3> QED
      BY <2>0, <3>3, <3>4
  <2>5. ASSUME NEW i \in 1 .. nCmp, Taken(i, budget), t = a[i],
               \A j \in 1 .. nCmp : j > i => ~ Taken(j, budget)
        PROVE  /\ Flagged(t) <= budget
               /\ \A v \in ValuesIn(Scores) : v > t => Flagged(v) > budget
    <3>1. PICK b \in 1 .. nCmp : b = Flagged(t) /\ a[b] = t /\ b >= i
      BY <2>1, <2>5
    <3>2. b = i
      <4>1. SUFFICES ASSUME b > i PROVE FALSE
        BY <2>0, <3>1
      <4>2. i + 1 \in 1 .. nCmp /\ i <= i + 1 /\ i + 1 <= b /\ i < nCmp
        BY <2>0, <4>1
      <4>3. a[i] <= a[i + 1] /\ a[i + 1] <= a[b] /\ a[i] \in Int /\ a[i + 1] \in Int
        BY <2>1, <4>2
      <4>4. a[i + 1] = a[i]
        BY <2>5, <3>1, <4>3
      <4> QED
        BY <2>2, <2>5, <4>2, <4>4
    <3>3. ASSUME NEW v \in ValuesIn(Scores), v > t PROVE Flagged(v) > budget
      <4>1. PICK c \in 1 .. nCmp : c = Flagged(v) /\ a[c] = v
        BY <2>1
      <4>2. c > i
        <5>1. SUFFICES ASSUME c <= i PROVE FALSE
          BY <2>0
        <5>2. a[c] <= a[i] /\ a[c] \in Int /\ a[i] \in Int
          BY <2>1, <5>1
        <5> QED
          BY <2>5, <3>3, <4>1, <5>2
      <4> QED
        BY <2>3, <2>5, <4>1, <4>2
    <3> QED
      BY <2>0, <2>2, <2>5, <3>1, <3>2, <3>3
  <2>6. \/ (\A i \in 1 .. nCmp : ~ Taken(i, budget)) /\ t = a[1] - 1
        \/ \E i \in 1 .. nCmp : /\ Taken(i, budget) /\ t = a[i]
                                /\ \A j \in 1 .. nCmp : j > i => ~ Taken(j, budget)
    BY LoopEnds DEF a
  <2> HIDE DEF t
  <2> QED
    BY <2>4, <2>5, <2>6 DEF t
<1> QED
  BY <1>1, SamplesStayTyped, PTL

-----------------------------------------------------------------------------
(* The gate                                                                *)

\* One false positive less, or one window more, never turns an acceptance down.
LEMMA GateIsMonotone ==
  ASSUME NEW w \in Nat, NEW k \in Nat
  PROVE  /\ Accepted(k + 1, w) => Accepted(k, w)
         /\ w > 0 /\ Accepted(k, w - 1) => Accepted(k, w)
<1> DEFINE Cost(x, v) == 108000 * x * (v - x) + 72900 * v
           Slack(x, v) == 10 * v - 200 * x - 243
<1>1. ASSUME NEW x \in Nat, NEW v \in Nat
      PROVE  Accepted(x, v) <=> /\ v >= 60 /\ 20 * x <= v /\ Slack(x, v) >= 0
                                /\ Cost(x, v) <= v * Slack(x, v) * Slack(x, v)
  BY DEF Accepted, WilsonHolds
<1>2. ASSUME Accepted(k + 1, w) PROVE Accepted(k, w)
  <2> DEFINE s == Slack(k + 1, w)
  <2>1. w >= 60 /\ 20 * (k + 1) <= w /\ s >= 0 /\ Cost(k + 1, w) <= w * s * s /\ s \in Nat
    BY <1>1, <1>2
  <2>2. Slack(k, w) = s + 200
    OBVIOUS
  <2>3. k * (w - k) <= (k + 1) * (w - (k + 1))
    <3>1. (k + 1) * (w - (k + 1)) = k * (w - k) + (w - 2 * k - 1)
      OBVIOUS
    <3>2. k * (w - k) \in Int /\ w - 2 * k - 1 >= 0
      BY <2>1
    <3> QED
      BY <3>1, <3>2
  <2>4. Cost(k, w) <= Cost(k + 1, w)
    BY <2>3
  <2> HIDE DEF s
  <2>5. w * s * s <= w * (s + 200) * (s + 200)
    <3>1. w * (s + 200) * (s + 200) = w * s * s + (w * s * 400 + w * 40000)
      BY <2>1
    <3>2. w * s * s \in Nat /\ w * s * 400 \in Nat /\ w * 40000 \in Nat
      BY <2>1
    <3> QED
      BY <3>1, <3>2
  <2>6. Cost(k, w) <= w * (s + 200) * (s + 200)
    <3>1. Cost(k, w) \in Int /\ Cost(k + 1, w) \in Int /\ w * s * s \in Int
          /\ w * (s + 200) * (s + 200) \in Int
      BY <2>1
    <3> HIDE DEF Cost
    <3> QED
      BY <2>1, <2>4, <2>5, <3>1
  <2> HIDE DEF Cost
  <2>7. Slack(k, w) >= 0 /\ Cost(k, w) <= w * Slack(k, w) * Slack(k, w) /\ 20 * k <= w
    <3> HIDE DEF Slack
    <3> QED
      BY <2>1, <2>2, <2>6
  <2> QED
    BY <1>1, <2>1, <2>7
<1>3. ASSUME w > 0, Accepted(k, w - 1) PROVE Accepted(k, w)
  <2>1. PICK v \in Nat : v = w - 1
    BY <1>3
  <2> DEFINE s == Slack(k, v)
  <2>2. v >= 60 /\ 20 * k <= v /\ s >= 0 /\ Cost(k, v) <= v * s * s /\ s \in Nat
    BY <1>1, <1>3, <2>1
  <2>3. Slack(k, w) = s + 10
    BY <2>1
  <2>4. Cost(k, w) = Cost(k, v) + (108000 * k + 72900) /\ Cost(k, v) \in Int
    <3>1. k * (w - k) = k * (v - k) + k /\ k * (v - k) \in Int
      BY <2>1
    <3> QED
      BY <2>1, <3>1
  <2>5. s >= 270
    <3>1. SUFFICES ASSUME s < 270 PROVE FALSE
      BY <2>2
    <3>2. k * (v - k) \in Nat
      BY <2>2
    <3>3. Cost(k, v) >= 72900 * v
      BY <3>2
    <3> HIDE DEF Cost, s
    <3>4. s * s <= 269 * 269
      BY <2>2, <3>1
    <3>5. v * s * s <= v * 72361
      <4>1. v * s * s = v * (s * s)
        BY <2>2
      <4>2. s * s \in Nat /\ s * s <= 72361
        BY <2>2, <3>4
      <4> QED
        BY <4>1, <4>2
    <3>6. v * s * s \in Int
      BY <2>2
    <3> QED
      BY <2>2, <2>4, <3>3, <3>5, <3>6
  <2> HIDE DEF s
  <2>6. w * (s + 10) * (s + 10) >= v * s * s + (108000 * k + 72900)
    <3>1. w * (s + 10) * (s + 10) = v * s * s + (v * s * 20 + v * 100 + (s + 10) * (s + 10))
      BY <2>1, <2>2
    <3>2. v * s * 20 >= 108000 * k
      <4>1. v * s >= v * 270 /\ v * s \in Nat
        BY <2>2, <2>5
      <4> QED
        BY <2>2, <4>1
    <3>3. (s + 10) * (s + 10) >= 72900
      <4>1. (s + 10) * (s + 10) = s * s + 20 * s + 100 /\ s * s \in Nat
        BY <2>2
      <4>2. s * s >= 270 * 270
        BY <2>2, <2>5
      <4> QED
        BY <2>2, <4>1, <4>2
    <3>4. v * s * s \in Int /\ v * s * 20 \in Int /\ v * 100 \in Nat /\ (s + 10) * (s + 10) \in Int
      BY <2>2
    <3> QED
      BY <3>1, <3>2, <3>3, <3>4
  <2> HIDE DEF Cost, Slack
  <2>7. Slack(k, w) >= 0 /\ Cost(k, w) <= w * Slack(k, w) * Slack(k, w)
    <3>1. v * s * s \in Int /\ w * (s + 10) * (s + 10) \in Int
      BY <2>2
    <3> QED
      BY <2>2, <2>3, <2>4, <2>6, <3>1 DEF s
  <2> QED
    BY <1>1, <2>1, <2>2, <2>7
<1> QED
  BY <1>2, <1>3

\* GateIsStrict: sixty windows leave no room for a false positive, and the
\* gate of normal_fpr_acceptance is monotone in both of its counts.
THEOREM GateNeverLoosens == MeasuresSpec => []GateIsStrict
<1>1. ASSUME NEW k \in 1 .. 60 PROVE ~ Accepted(k, 60)
  <2>1. SUFFICES ASSUME Accepted(k, 60) PROVE FALSE
    OBVIOUS
  <2>2. 20 * k <= 60
    BY <2>1 DEF Accepted
  <2>3. k = 1 \/ k = 2 \/ k = 3
    BY <2>2
  <2> QED
    BY <2>1, <2>3 DEF Accepted, WilsonHolds
<1>2. ASSUME NEW w \in 60 .. 120, NEW k \in 0 .. (w \div 20), Accepted(k + 1, w) \/ Accepted(k, w - 1)
      PROVE  Accepted(k, w)
  <2>1. w \in Nat /\ w > 0 /\ k \in Nat
    OBVIOUS
  <2> QED
    BY <1>2, <2>1, GateIsMonotone
<1>3. GateIsStrict
  BY <1>1, <1>2 DEF GateIsStrict
<1> QED
  BY <1>3, PTL

-----------------------------------------------------------------------------
(* Orderings of the merged sample and paths                                *)

\* How much of either sample an ordering has passed after k places.
At(R, k) == Cell(Cardinality({x \in R : x <= k}), Cardinality({x \in 1 .. k : x \notin R}))

\* The orderings of c.i and c.j windows that avoid the blocked cells.
Routes(c, blocked) ==
  {R \in kSubset(c.i, 1 .. (c.i + c.j)) : \A k \in 0 .. (c.i + c.j) : At(R, k) \notin blocked}

LEMMA PlacesPassed ==
  ASSUME NEW n \in Nat, NEW R \in SUBSET (1 .. n), NEW k \in 0 .. n
  PROVE  /\ IsFiniteSet(R) /\ Cardinality(R) \in Nat
         /\ At(R, k).i \in Nat /\ At(R, k).j \in Nat /\ At(R, k).i + At(R, k).j = k
         /\ At(R, k).i <= Cardinality(R) /\ At(R, k).j <= n - Cardinality(R)
         /\ k = n => At(R, k).i = Cardinality(R)
<1> DEFINE u == {x \in R : x <= k}
           v == {x \in 1 .. k : x \notin R}
<1>1. At(R, k).i = Cardinality(u) /\ At(R, k).j = Cardinality(v)
  BY DEF At, Cell
<1>2. IsFiniteSet(1 .. n) /\ Cardinality(1 .. n) = n /\ IsFiniteSet(1 .. k) /\ Cardinality(1 .. k) = k
  <2>1. ASSUME NEW m \in Nat PROVE IsFiniteSet(1 .. m) /\ Cardinality(1 .. m) = m
    <3>1. IsFiniteSet(1 .. m) /\ Cardinality(1 .. m) = IF 1 > m THEN 0 ELSE m - 1 + 1
      BY FS_Interval
    <3> QED
      BY <3>1
  <2> QED
    BY <2>1
<1>3. IsFiniteSet(R) /\ Cardinality(R) \in Nat
  BY <1>2, FS_Subset, FS_CardinalityType
<1>4. u \in SUBSET R /\ u \in SUBSET (1 .. k) /\ v = (1 .. k) \ u /\ (k = n => u = R)
  <2>1. \A x \in R : x \in Nat /\ 1 <= x /\ x <= n
    OBVIOUS
  <2>2. u \subseteq R /\ u \subseteq 1 .. k
    <3>1. ASSUME NEW x \in R, x <= k PROVE x \in 1 .. k
      <4>1. x \in Int /\ k \in Int /\ 1 <= x
        BY <2>1
      <4> QED
        BY <3>1, <4>1
    <3> QED
      BY <3>1
  <2>3. ASSUME NEW x \in 1 .. k PROVE x \notin R <=> x \notin u
    BY <2>1, <2>3
  <2>4. v = (1 .. k) \ u
    BY <2>3
  <2>5. k = n => u = R
    BY <2>1
  <2> QED
    BY <2>2, <2>4, <2>5
<1>5. v \in SUBSET ((1 .. n) \ R)
  OBVIOUS
<1> HIDE DEF u, v
<1>6. IsFiniteSet(u) /\ Cardinality(u) \in Nat /\ Cardinality(u) <= Cardinality(R)
  BY <1>3, <1>4, FS_Subset, FS_CardinalityType
<1>7. IsFiniteSet(v) /\ Cardinality(v) = k - Cardinality(u)
  <2>1. IsFiniteSet((1 .. k) \ u) /\ Cardinality((1 .. k) \ u) = Cardinality(1 .. k) - Cardinality((1 .. k) \cap u)
    BY <1>2, FS_Difference
  <2>2. (1 .. k) \cap u = u
    BY <1>4
  <2> QED
    BY <1>2, <1>4, <2>1, <2>2
<1>8. Cardinality(v) \in Nat
  BY <1>7, FS_CardinalityType
<1>9. Cardinality(v) <= n - Cardinality(R)
  <2>1. /\ IsFiniteSet((1 .. n) \ R)
        /\ Cardinality((1 .. n) \ R) = Cardinality(1 .. n) - Cardinality((1 .. n) \cap R)
    BY <1>2, FS_Difference
  <2>2. (1 .. n) \cap R = R
    OBVIOUS
  <2>3. Cardinality(v) <= Cardinality((1 .. n) \ R)
    BY <1>5, <2>1, FS_Subset
  <2> QED
    BY <1>2, <2>1, <2>2, <2>3
<1> QED
  BY <1>1, <1>3, <1>4, <1>6, <1>7, <1>8, <1>9

\* The last place does not change what came before it.
LEMMA EarlierPlaces ==
  ASSUME NEW n \in Nat, NEW R \in SUBSET (1 .. n), NEW m \in Nat, NEW k \in 0 .. n, k < m
  PROVE  At(R \ {m}, k) = At(R, k) /\ At(R \cup {m}, k) = At(R, k)
<1>1. {x \in R \ {m} : x <= k} = {x \in R : x <= k}
  OBVIOUS
<1>2. {x \in R \cup {m} : x <= k} = {x \in R : x <= k}
  OBVIOUS
<1>3. {x \in 1 .. k : x \notin R \ {m}} = {x \in 1 .. k : x \notin R}
  OBVIOUS
<1>4. {x \in 1 .. k : x \notin R \cup {m}} = {x \in 1 .. k : x \notin R}
  OBVIOUS
<1> QED
  BY <1>1, <1>2, <1>3, <1>4 DEF At

\* An ordering ends in its cell.
LEMMA RoutesEnd ==
  ASSUME NEW a \in Nat, NEW b \in Nat, NEW c \in Grid(a, b), NEW R \in kSubset(c.i, 1 .. (c.i + c.j))
  PROVE  /\ At(R, c.i + c.j) = c /\ R \in SUBSET (1 .. (c.i + c.j))
         /\ Cardinality(R) = c.i /\ IsFiniteSet(R)
<1>1. PICK n \in Nat : n = c.i + c.j
  BY CellsBefore
<1>2. R \in SUBSET (1 .. n) /\ Cardinality(R) = c.i
  BY <1>1 DEF kSubset
<1>3. n \in 0 .. n /\ c.i \in Nat /\ c.j \in Nat
  BY CellsBefore
<1>4. IsFiniteSet(R) /\ At(R, n).i = c.i /\ At(R, n).i + At(R, n).j = n /\ At(R, n).j \in Nat
  BY <1>2, <1>3, PlacesPassed
<1>5. At(R, n).j = c.j
  BY <1>1, <1>3, <1>4
<1>6. At(R, n) = Cell(At(R, n).i, At(R, n).j) /\ c = Cell(c.i, c.j)
  BY DEF At, Cell, Grid
<1> QED
  BY <1>1, <1>2, <1>4, <1>5, <1>6

\* The orderings whose last place is the comparison's go on from the cell below.
LEMMA RoutesFromBelow ==
  ASSUME NEW a \in Nat, NEW b \in Nat, NEW c \in Grid(a, b), NEW blocked, c \notin blocked, c.i + c.j > 0
  PROVE  {R \in Routes(c, blocked) : c.i + c.j \notin R} =
           IF c.j > 0 THEN Routes(Cell(c.i, c.j - 1), blocked) ELSE {}
<1>1. PICK n \in Nat : n = c.i + c.j /\ n > 0 /\ n - 1 \in Nat
  BY CellsBefore
<1> DEFINE D == {R \in Routes(c, blocked) : n \notin R}
<1>2. CASE c.j > 0
  <2>1. PICK d \in Grid(a, b) : d = Cell(c.i, c.j - 1) /\ d.i = c.i /\ d.j = c.j - 1
    BY <1>2, CellsBefore
  <2>2. d.i + d.j = n - 1 /\ c.i \in Nat /\ c.j \in Nat
    BY <1>1, <2>1, CellsBefore
  <2>3. ASSUME NEW R \in D PROVE R \in Routes(d, blocked)
    <3>1. R \in SUBSET (1 .. n) /\ Cardinality(R) = c.i /\ n \notin R
          /\ \A k \in 0 .. n : At(R, k) \notin blocked
      BY <1>1 DEF Routes, kSubset
    <3>2. R \in SUBSET (1 .. (n - 1))
      <4>1. ASSUME NEW x \in R PROVE x \in 1 .. (n - 1)
        BY <1>1, <3>1
      <4> QED
        BY <4>1
    <3>3. \A k \in 0 .. (n - 1) : At(R, k) \notin blocked
      BY <1>1, <3>1
    <3> QED
      BY <2>1, <2>2, <3>1, <3>2, <3>3 DEF Routes, kSubset
  <2>4. ASSUME NEW R \in Routes(d, blocked) PROVE R \in D
    <3>1. R \in SUBSET (1 .. (n - 1)) /\ Cardinality(R) = c.i
          /\ \A k \in 0 .. (n - 1) : At(R, k) \notin blocked
      BY <2>1, <2>2 DEF Routes, kSubset
    <3>2. R \in SUBSET (1 .. n) /\ n \notin R
      BY <1>1, <3>1
    <3>3. R \in kSubset(c.i, 1 .. (c.i + c.j))
      BY <1>1, <3>1, <3>2 DEF kSubset
    <3>4. At(R, n) = c
      BY <1>1, <3>3, RoutesEnd
    <3>5. ASSUME NEW k \in 0 .. n PROVE At(R, k) \notin blocked
      <4>1. k = n \/ k \in 0 .. (n - 1)
        BY <1>1
      <4> QED
        BY <3>1, <3>4, <4>1
    <3> QED
      BY <1>1, <3>2, <3>3, <3>5 DEF Routes
  <2> HIDE DEF D
  <2>5. D = Routes(d, blocked)
    BY <2>3, <2>4
  <2> QED
    BY <1>1, <1>2, <2>1, <2>5 DEF D
<1>3. CASE ~ (c.j > 0)
  <2>1. c.i = n /\ c.j = 0
    BY <1>1, <1>3, CellsBefore
  <2>2. ASSUME NEW R \in D PROVE FALSE
    <3>1. R \in SUBSET (1 .. n) /\ Cardinality(R) = n /\ n \notin R
      BY <1>1, <2>1 DEF Routes, kSubset
    <3>2. IsFiniteSet(1 .. n) /\ Cardinality(1 .. n) = IF 1 > n THEN 0 ELSE n - 1 + 1
      BY FS_Interval
    <3>3. Cardinality(1 .. n) = n
      BY <1>1, <3>2
    <3>4. R = 1 .. n
      BY <3>1, <3>2, <3>3, FS_Subset
    <3> QED
      BY <1>1, <3>1, <3>4
  <2> HIDE DEF D
  <2>3. D = {}
    BY <2>2
  <2> QED
    BY <1>1, <1>3, <2>3 DEF D
<1> QED
  BY <1>2, <1>3

\* Those whose last place is the reference's go on from the cell to the left.
LEMMA RoutesFromLeft ==
  ASSUME NEW a \in Nat, NEW b \in Nat, NEW c \in Grid(a, b), NEW blocked, c \notin blocked, c.i + c.j > 0
  PROVE  {R \in Routes(c, blocked) : c.i + c.j \in R} =
           IF c.i > 0 THEN {S \cup {c.i + c.j} : S \in Routes(Cell(c.i - 1, c.j), blocked)} ELSE {}
<1>1. PICK n \in Nat : n = c.i + c.j /\ n > 0 /\ n - 1 \in Nat
  BY CellsBefore
<1> DEFINE D == {R \in Routes(c, blocked) : n \in R}
           E == {S \cup {n} : S \in Routes(Cell(c.i - 1, c.j), blocked)}
<1>2. CASE c.i > 0
  <2>1. PICK d \in Grid(a, b) : d = Cell(c.i - 1, c.j) /\ d.i = c.i - 1 /\ d.j = c.j
    BY <1>2, CellsBefore
  <2>2. d.i + d.j = n - 1 /\ c.i \in Nat /\ c.j \in Nat
    BY <1>1, <2>1, CellsBefore
  <2>3. ASSUME NEW R \in D PROVE R \in E
    <3>1. R \in SUBSET (1 .. n) /\ Cardinality(R) = c.i /\ n \in R
          /\ \A k \in 0 .. n : At(R, k) \notin blocked
      BY <1>1 DEF Routes, kSubset
    <3>2. PICK S : S = R \ {n}
      OBVIOUS
    <3>3. S \in SUBSET (1 .. (n - 1)) /\ S \cup {n} = R
      <4>1. ASSUME NEW x \in S PROVE x \in 1 .. (n - 1)
        BY <1>1, <3>1, <3>2
      <4> QED
        BY <3>1, <3>2, <4>1
    <3>4. IsFiniteSet(R)
      BY <3>1, <1>1, PlacesPassed
    <3>5. Cardinality(S) = c.i - 1
      BY <3>1, <3>2, <3>4, FS_RemoveElement
    <3>6. ASSUME NEW k \in 0 .. (n - 1) PROVE At(S, k) \notin blocked
      <4>1. k \in 0 .. n /\ k < n
        BY <1>1
      <4>2. At(R \ {n}, k) = At(R, k)
        BY <3>1, <4>1, EarlierPlaces
      <4> QED
        BY <3>1, <3>2, <4>1, <4>2
    <3>7. S \in Routes(d, blocked)
      BY <2>1, <2>2, <3>3, <3>5, <3>6 DEF Routes, kSubset
    <3> QED
      BY <2>1, <3>3, <3>7
  <2>4. ASSUME NEW S \in Routes(d, blocked) PROVE S \cup {n} \in D
    <3>1. S \in SUBSET (1 .. (n - 1)) /\ Cardinality(S) = c.i - 1
          /\ \A k \in 0 .. (n - 1) : At(S, k) \notin blocked
      BY <2>1, <2>2 DEF Routes, kSubset
    <3>2. PICK R : R = S \cup {n}
      OBVIOUS
    <3>3. R \in SUBSET (1 .. n) /\ n \in R /\ n \notin S /\ S \in SUBSET (1 .. n)
      <4>1. ASSUME NEW x \in S PROVE x \in 1 .. n /\ x # n
        BY <1>1, <3>1
      <4>2. n \in 1 .. n
        BY <1>1
      <4> QED
        BY <3>2, <4>1, <4>2
    <3>4. IsFiniteSet(S) /\ Cardinality(S) \in Nat
      BY <1>1, <3>3, PlacesPassed
    <3>5. Cardinality(R) = c.i
      <4>1. Cardinality(S \cup {n}) = Cardinality(S) + 1
        BY <3>3, <3>4, FS_AddElement
      <4> QED
        BY <2>2, <3>1, <3>2, <4>1
    <3>6. R \in kSubset(c.i, 1 .. (c.i + c.j))
      BY <1>1, <3>3, <3>5 DEF kSubset
    <3>7. At(R, n) = c
      BY <1>1, <3>6, RoutesEnd
    <3>8. ASSUME NEW k \in 0 .. n PROVE At(R, k) \notin blocked
      <4>1. CASE k = n
        BY <3>7, <4>1
      <4>2. CASE k # n
        <5>1. k \in 0 .. (n - 1) /\ k < n
          BY <1>1, <4>2
        <5>2. At(S \cup {n}, k) = At(S, k)
          BY <3>3, <5>1, EarlierPlaces
        <5> QED
          BY <3>1, <3>2, <5>1, <5>2
      <4> QED
        BY <4>1, <4>2
    <3> QED
      BY <1>1, <3>2, <3>3, <3>6, <3>8 DEF Routes
  <2>5. D \subseteq E
    <3> HIDE DEF D, E
    <3> QED
      BY <2>3
  <2>6. E \subseteq D
    <3> HIDE DEF D
    <3> QED
      BY <2>1, <2>4
  <2> HIDE DEF D, E
  <2>7. D = E
    BY <2>5, <2>6
  <2> QED
    BY <1>1, <1>2, <2>7 DEF D, E
<1>3. CASE ~ (c.i > 0)
  <2>1. c.i = 0
    BY <1>3, CellsBefore
  <2>2. ASSUME NEW R \in D PROVE FALSE
    <3>1. R \in SUBSET (1 .. n) /\ Cardinality(R) = 0 /\ n \in R
      BY <1>1, <2>1 DEF Routes, kSubset
    <3>2. IsFiniteSet(R)
      BY <1>1, <3>1, PlacesPassed
    <3> QED
      BY <3>1, <3>2, FS_EmptySet
  <2> HIDE DEF D
  <2>3. D = {}
    BY <2>2
  <2> QED
    BY <1>1, <1>3, <2>3 DEF D
<1> QED
  BY <1>2, <1>3

\* So there are as many orderings as paths.
LEMMA RoutesCounted ==
  ASSUME NEW a \in Nat, NEW b \in Nat, NEW blocked
  PROVE  /\ IsFiniteSet(Routes(Cell(a, b), blocked))
         /\ Cardinality(Routes(Cell(a, b), blocked)) = Paths(a, b, blocked)
<1>1. PICK p \in [Grid(a, b) -> Nat] :
        (\A c \in Grid(a, b) : p[c] = Reached(p, c, blocked)) /\ Paths(a, b, blocked) = p[Cell(a, b)]
  BY PathsCounted
<1> DEFINE G == {c \in Grid(a, b) : IsFiniteSet(Routes(c, blocked)) /\ Cardinality(Routes(c, blocked)) = p[c]}
<1>2. ASSUME NEW c \in Grid(a, b),
             c.i > 0 => Cell(c.i - 1, c.j) \in G, c.j > 0 => Cell(c.i, c.j - 1) \in G
      PROVE  c \in G
  <2>0. PICK n \in Nat : n = c.i + c.j
    BY CellsBefore
  <2>1. CASE c \in blocked
    <3>1. ASSUME NEW R \in Routes(c, blocked) PROVE FALSE
      <4>1. At(R, c.i + c.j) = c
        BY RoutesEnd DEF Routes
      <4>2. c.i + c.j \in 0 .. (c.i + c.j)
        BY <2>0
      <4> QED
        BY <2>1, <4>1, <4>2 DEF Routes
    <3>2. Routes(c, blocked) = {}
      BY <3>1
    <3>3. p[c] = 0
      BY <1>1, <2>1 DEF Reached
    <3> QED
      BY <3>2, <3>3, FS_EmptySet
  <2>2. CASE c \notin blocked /\ c = Cell(0, 0)
    <3>1. c.i = 0 /\ c.j = 0
      BY <2>2, CellsBefore
    <3>2. 1 .. 0 = {} /\ 0 .. 0 = {0}
      OBVIOUS
    <3>3. ASSUME NEW R \in Routes(c, blocked) PROVE R = {}
      BY <3>1, <3>2 DEF Routes, kSubset
    <3>4. {} \in kSubset(c.i, 1 .. (c.i + c.j))
      BY <3>1, FS_EmptySet DEF kSubset
    <3>5. At({}, 0) = c
      BY <3>1, <3>4, RoutesEnd
    <3>6. {} \in Routes(c, blocked)
      BY <2>2, <3>1, <3>2, <3>4, <3>5 DEF Routes
    <3>7. Routes(c, blocked) = {{}}
      BY <3>3, <3>6
    <3>8. p[c] = 1
      BY <1>1, <2>2 DEF Reached
    <3> QED
      <4>1. IsFiniteSet({{}}) /\ Cardinality({{}}) = 1
        BY FS_Singleton
      <4> QED
        BY <3>7, <3>8, <4>1
  <2>3. CASE c \notin blocked /\ c # Cell(0, 0)
    <3> DEFINE L == {R \in Routes(c, blocked) : n \in R}
               D == {R \in Routes(c, blocked) : n \notin R}
               fromLeft == IF c.i > 0 THEN p[Cell(c.i - 1, c.j)] ELSE 0
               fromBelow == IF c.j > 0 THEN p[Cell(c.i, c.j - 1)] ELSE 0
    <3>1. c.i + c.j > 0
      BY <2>3, CellsBefore
    <3>2. D = IF c.j > 0 THEN Routes(Cell(c.i, c.j - 1), blocked) ELSE {}
      BY <2>0, <2>3, <3>1, RoutesFromBelow
    <3>3. L = IF c.i > 0 THEN {S \cup {n} : S \in Routes(Cell(c.i - 1, c.j), blocked)} ELSE {}
      BY <2>0, <2>3, <3>1, RoutesFromLeft
    <3>4. IsFiniteSet(D) /\ Cardinality(D) = fromBelow
      <4>1. CASE c.j > 0
        BY <1>2, <3>2, <4>1
      <4>2. CASE ~ (c.j > 0)
        BY <3>2, <4>2, FS_EmptySet
      <4> QED
        BY <4>1, <4>2
    <3>5. IsFiniteSet(L) /\ Cardinality(L) = fromLeft
      <4>1. CASE c.i > 0
        <5> DEFINE T == Routes(Cell(c.i - 1, c.j), blocked)
                   f == [S \in T |-> S \cup {n}]
        <5>1. IsFiniteSet(T) /\ Cardinality(T) = fromLeft
          BY <1>2, <4>1
        <5>2. \A S \in T : n \notin S
          <6>1. Cell(c.i - 1, c.j).i = c.i - 1 /\ Cell(c.i - 1, c.j).j = c.j
            BY <4>1, CellsBefore
          <6>2. c.i \in Nat /\ c.j \in Nat
            BY CellsBefore
          <6>3. ASSUME NEW S \in T PROVE n \notin S
            <7>1. S \in SUBSET (1 .. (c.i - 1 + c.j))
              BY <6>1 DEF Routes, kSubset
            <7>2. n \notin 1 .. (c.i - 1 + c.j)
              BY <2>0, <6>2
            <7> QED
              BY <7>1, <7>2
          <6> QED
            BY <6>3
        <5>3. L = {S \cup {n} : S \in T}
          BY <3>3, <4>1
        <5> HIDE DEF T, L
        <5>4. f \in Bijection(T, L)
          <6>1. f \in [T -> L] /\ \A R \in L : \E S \in T : f[S] = R
            BY <5>3
          <6>2. ASSUME NEW S \in T, NEW U \in T, f[S] = f[U] PROVE S = U
            <7>1. S \cup {n} = U \cup {n} /\ n \notin S /\ n \notin U
              BY <5>2, <6>2
            <7> QED
              BY <7>1
          <6> QED
            BY <6>1, <6>2 DEF Bijection, Injection, Surjection, IsInjective
        <5>5. ExistsBijection(T, L)
          BY <5>4 DEF ExistsBijection
        <5> HIDE DEF fromLeft
        <5> QED
          BY <5>1, <5>5, FS_Bijection
      <4>2. CASE ~ (c.i > 0)
        BY <3>3, <4>2, FS_EmptySet
      <4> QED
        BY <4>1, <4>2
    <3>6. Routes(c, blocked) = L \cup D /\ L \cap D = {}
      OBVIOUS
    <3> HIDE DEF L, D
    <3>7. IsFiniteSet(L \cup D) /\ Cardinality(L \cup D) = Cardinality(L) + Cardinality(D) - Cardinality(L \cap D)
      BY <3>4, <3>5, FS_Union
    <3>8. Cardinality(L \cap D) = 0
      BY <3>6, FS_EmptySet
    <3>9. fromLeft \in Nat /\ fromBelow \in Nat
      BY CellsBefore
    <3>10. p[c] = fromLeft + fromBelow
      BY <1>1, <2>3 DEF Reached, Into
    <3> HIDE DEF fromLeft, fromBelow
    <3>11. Cardinality(Routes(c, blocked)) = fromLeft + fromBelow
      BY <3>4, <3>5, <3>6, <3>7, <3>8, <3>9
    <3> QED
      BY <3>6, <3>7, <3>10, <3>11
  <2> QED
    BY <2>1, <2>2, <2>3
<1> HIDE DEF G
<1>3. Grid(a, b) \subseteq G
  BY <1>2, CellByCell
<1>4. Cell(a, b) \in Grid(a, b)
  BY DEF Cell, Grid
<1> QED
  BY <1>1, <1>3, <1>4 DEF G

\* The statistic of an ordering is reached at one of its places.
LEMMA StatisticReached ==
  ASSUME NEW a \in Nat, NEW b \in Nat, a + b > 0, NEW R \in kSubset(a, 1 .. (a + b)), NEW stat \in Int
  PROVE  /\ stat <= 0 => OrderingKS(R, a, b) >= stat
         /\ stat > 0 => (OrderingKS(R, a, b) >= stat <=>
                           \E k \in 0 .. (a + b) : At(R, k) \in OutsideBand(a, b, stat))
<1> DEFINE dist == [k \in 1 .. (a + b) |-> Abs(At(R, k).i * b - At(R, k).j * a)]
           V == {dist[k] : k \in 1 .. (a + b)}
<1>1. R \in SUBSET (1 .. (a + b)) /\ Cardinality(R) = a /\ a + b \in Nat
  BY DEF kSubset
<1>2. ASSUME NEW k \in 0 .. (a + b)
      PROVE  /\ At(R, k) \in Grid(a, b) /\ At(R, k).i \in Nat /\ At(R, k).j \in Nat
             /\ At(R, k).i + At(R, k).j = k
  <2>1. /\ At(R, k).i \in Nat /\ At(R, k).j \in Nat /\ At(R, k).i + At(R, k).j = k
        /\ At(R, k).i <= a /\ At(R, k).j <= a + b - a
    BY <1>1, PlacesPassed
  <2>2. At(R, k).i \in 0 .. a /\ At(R, k).j \in 0 .. b
    BY <2>1
  <2>3. At(R, k) = Cell(At(R, k).i, At(R, k).j)
    BY DEF At, Cell
  <2> QED
    BY <2>1, <2>2, <2>3 DEF Cell, Grid
<1>3. OrderingKS(R, a, b) = Max(V)
  <2>1. ASSUME NEW k \in 1 .. (a + b)
        PROVE  dist[k] = Abs(Cardinality({x \in R : x <= k}) * b - Cardinality({x \in 1..k : x \notin R}) * a)
    BY DEF At, Cell
  <2>2. V = {Abs(Cardinality({x \in R : x <= k}) * b - Cardinality({x \in 1..k : x \notin R}) * a)
               : k \in 1 .. (a + b)}
    BY <2>1
  <2> QED
    BY <2>2 DEF OrderingKS
<1>4. ASSUME NEW k \in 1 .. (a + b) PROVE dist[k] \in Nat
  <2>1. At(R, k).i * b \in Nat /\ At(R, k).j * a \in Nat
    BY <1>2
  <2> QED
    BY <2>1 DEF Abs
<1>5. V \in SUBSET Nat /\ dist[1] \in V
  BY <1>1, <1>4
<1>6. IsFiniteSet(V)
  <2>1. dist \in [1 .. (a + b) -> V] /\ \A v \in V : \E k \in 1 .. (a + b) : dist[k] = v
    OBVIOUS
  <2> HIDE DEF dist, V
  <2>2. ExistsSurjection(1 .. (a + b), V)
    BY <2>1 DEF ExistsSurjection, Surjection
  <2> QED
    BY <1>1, <2>2, FS_NatSurjection
<1>7. Max(V) \in V /\ \A v \in V : v <= Max(V)
  <2> HIDE DEF V
  <2>1. V \in SUBSET Int /\ V # {}
    BY <1>5
  <2> QED
    BY <1>6, <2>1, GreatestAndLeast
<1>8. Max(V) \in Nat
  BY <1>5, <1>7
<1>9. ASSUME stat > 0
      PROVE  Max(V) >= stat <=> \E k \in 0 .. (a + b) : At(R, k) \in OutsideBand(a, b, stat)
  <2>1. ASSUME NEW k \in 1 .. (a + b) PROVE At(R, k) \in OutsideBand(a, b, stat) <=> dist[k] >= stat
    BY <1>2 DEF OutsideBand
  <2>2. At(R, 0) \notin OutsideBand(a, b, stat)
    <3>1. At(R, 0).i = 0 /\ At(R, 0).j = 0
      BY <1>1, <1>2
    <3>2. Abs(At(R, 0).i * b - At(R, 0).j * a) = 0
      BY <3>1 DEF Abs
    <3> QED
      BY <1>9, <3>2 DEF OutsideBand
  <2>3. ASSUME Max(V) >= stat PROVE \E k \in 0 .. (a + b) : At(R, k) \in OutsideBand(a, b, stat)
    <3>1. PICK k \in 1 .. (a + b) : dist[k] = Max(V)
      BY <1>7
    <3> HIDE DEF V
    <3>2. At(R, k) \in OutsideBand(a, b, stat)
      BY <2>1, <2>3, <3>1
    <3>3. k \in 0 .. (a + b)
      OBVIOUS
    <3> QED
      BY <3>2, <3>3
  <2>4. ASSUME NEW k \in 0 .. (a + b), At(R, k) \in OutsideBand(a, b, stat) PROVE Max(V) >= stat
    <3>1. k \in 1 .. (a + b)
      BY <2>2, <2>4
    <3>2. dist[k] >= stat /\ dist[k] \in V /\ dist[k] \in Nat
      BY <1>4, <2>1, <2>4, <3>1
    <3>3. dist[k] <= Max(V)
      BY <1>7, <3>2
    <3> HIDE DEF V, dist
    <3> QED
      BY <1>8, <3>2, <3>3
  <2> QED
    BY <2>3, <2>4
<1> HIDE DEF V, dist
<1> QED
  BY <1>3, <1>8, <1>9

\* The p-value of the lattice counts the orderings at least as far apart.
LEMMA PValueCountsOrderings ==
  ASSUME NEW a \in Nat, NEW b \in Nat, a + b > 0, NEW stat \in Int
  PROVE  PValue(a, b, stat) = Cardinality({R \in kSubset(a, 1 .. (a + b)) : OrderingKS(R, a, b) >= stat})
<1> DEFINE All == kSubset(a, 1 .. (a + b))
           Far == {R \in All : OrderingKS(R, a, b) >= stat}
           Near == Routes(Cell(a, b), OutsideBand(a, b, stat))
<1>1. Cell(a, b).i = a /\ Cell(a, b).j = b
  BY DEF Cell
<1>2. IsFiniteSet(All) /\ Cardinality(All) = Orderings(a, b)
  <2>1. Routes(Cell(a, b), {}) = All
    BY <1>1 DEF Routes
  <2> HIDE DEF All
  <2> QED
    BY <2>1, RoutesCounted DEF Orderings
<1>3. CASE stat <= 0
  <2>1. Far = All
    BY <1>3, StatisticReached
  <2> QED
    BY <1>2, <1>3, <2>1 DEF PValue
<1>4. CASE stat > 0
  <2>1. Near = {R \in All : \A k \in 0 .. (a + b) : At(R, k) \notin OutsideBand(a, b, stat)}
    BY <1>1 DEF Routes
  <2>2. ASSUME NEW R \in All PROVE R \in Far <=> R \notin Near
    BY <1>4, <2>1, StatisticReached
  <2>3. Near \subseteq All
    BY <2>1
  <2>4. Far \subseteq All
    OBVIOUS
  <2>5. Cardinality(Near) = Inside(a, b, stat)
    BY RoutesCounted DEF Inside
  <2> HIDE DEF All, Far, Near
  <2>6. Far = All \ Near /\ All \cap Near = Near
    BY <2>2, <2>3, <2>4
  <2>7. Cardinality(All \ Near) = Cardinality(All) - Cardinality(All \cap Near)
    BY <1>2, FS_Difference
  <2>8. PValue(a, b, stat) = Orderings(a, b) - Inside(a, b, stat)
    BY <1>4 DEF PValue
  <2>9. Cardinality(Far) = PValue(a, b, stat)
    BY <1>2, <2>5, <2>6, <2>7, <2>8
  <2> QED
    BY <2>9 DEF Far, All
<1> QED
  BY <1>3, <1>4

\* The statistic of two samples is a number.
LEMMA StatisticTyped ==
  ASSUME SamplesTyped, nRef > 0, NEW f \in Features
  PROVE  KS(Column(reference, f), Column(comparison, f)) \in Int
<1> DEFINE r == Column(reference, f)
           c == Column(comparison, f)
           U == ValuesIn(r) \cup ValuesIn(c)
           d == [v \in U |-> Abs(Below(r, v) * Len(c) - Below(c, v) * Len(r))]
           D == {d[v] : v \in U}
<1>1. /\ Len(r) \in Nat /\ IsFiniteSet(ValuesIn(r)) /\ ValuesIn(r) \in SUBSET Int /\ ValuesIn(r) # {}
      /\ \A t \in Int : Below(r, t) \in Nat
  BY ColumnsTyped, SampleSizes DEF SamplesTyped, nRef
<1>2. /\ Len(c) \in Nat /\ IsFiniteSet(ValuesIn(c)) /\ ValuesIn(c) \in SUBSET Int
      /\ \A t \in Int : Below(c, t) \in Nat
  BY ColumnsTyped, SampleSizes DEF SamplesTyped, nCmp
<1> HIDE DEF r, c
<1>3. IsFiniteSet(U) /\ U \in SUBSET Int /\ U # {}
  BY <1>1, <1>2, FS_Union
<1>4. ASSUME NEW v \in U PROVE d[v] \in Int
  <2>1. Below(r, v) * Len(c) \in Int /\ Below(c, v) * Len(r) \in Int
    <3>1. v \in Int
      BY <1>3
    <3>2. Below(r, v) \in Nat /\ Below(c, v) \in Nat
      BY <1>1, <1>2, <3>1
    <3>3. ASSUME NEW x \in Nat, NEW y \in Nat PROVE x * y \in Int
      OBVIOUS
    <3>4. Len(r) \in Nat /\ Len(c) \in Nat
      BY <1>1, <1>2
    <3> QED
      BY <3>2, <3>3, <3>4
  <2> QED
    BY <2>1 DEF Abs
<1>5. d \in [U -> D] /\ \A x \in D : \E v \in U : d[v] = x
  OBVIOUS
<1>6. KS(r, c) = Max(D)
  BY DEF KS
<1>7. D \in SUBSET Int /\ D # {}
  BY <1>3, <1>4
<1> HIDE DEF U, d, D
<1>8. IsFiniteSet(D)
  BY <1>3, <1>5, FS_Surjection DEF Surjection
<1>9. Max(D) \in Int
  BY <1>7, <1>8, GreatestAndLeast
<1> QED
  BY <1>6, <1>9 DEF r, c

\* PValuesAreExact, for samples of any sizes: _exact_two_sided_p counts, among all
\* orderings of the merged sample, those at least as far apart as the observed one.
THEOREM ExactTestIsExact == MeasuresSpec => []PValuesAreExact
<1>1. SamplesTyped => PValuesAreExact
  <2> SUFFICES ASSUME SamplesTyped, nRef > 0, nCmp > 0, NEW f \in Features
               PROVE  LET stat == KS(Column(reference, f), Column(comparison, f)) IN
                      Tests[f] = Cardinality({R \in kSubset(nRef, 1..(nRef + nCmp)) :
                                                OrderingKS(R, nRef, nCmp) >= stat})
    BY DEF PValuesAreExact
  <2>1. KS(Column(reference, f), Column(comparison, f)) \in Int
    BY StatisticTyped
  <2>2. nRef \in Nat /\ nCmp \in Nat /\ nRef + nCmp > 0
    BY SampleSizes
  <2>3. Tests[f] = PValue(nRef, nCmp, KS(Column(reference, f), Column(comparison, f)))
    BY DEF Tests
  <2> QED
    BY <2>1, <2>2, <2>3, PValueCountsOrderings
<1> QED
  BY <1>1, SamplesStayTyped, PTL

-----------------------------------------------------------------------------
(* The lifecycle                                                           *)

USE PassingAssumption, NoneAssumption

Evidence == Counts \cup DriftStatuses \cup {None}

Recorded(m, state, evidence) ==
  \E j \in DOMAIN log :
    log[j].model = m /\ log[j].state = state /\ log[j].evidence = evidence

SeenDrifting(m) == \E j \in DOMAIN log : log[j].model = m /\ log[j].evidence = "drift_detected"

\* What a command holds, by the step it is at.
Holding(c) ==
  /\ c.step # "idle" => c.model \in Models
  /\ c.step = "gate" => Recorded(c.model, "evaluated", c.counts)
  /\ c.step \in {"check", "activate"} => Recorded(c.model, "eligible", c.counts)
  /\ c.step = "activate" => c.counts \in Passing
  /\ c.step = "retraining" => SeenDrifting(c.model)

TaskInv == \A o \in Operators : Holding(task[o])

\* The evidence of a verdict is what a measurement came to.
VerdictTypes ==
  \A i \in DOMAIN log : log[i].state \in GateStates => log[i].evidence \in Counts \cup {None}

\* A row that may be appended, with the flags the same transaction leaves.
Justified(m, s, e) ==
  /\ s = "active" => active' = {m} /\ e \in Passing /\ Recorded(m, "eligible", e)
  /\ s # "active" => active' \subseteq active
  /\ s \in StandDownStates => m \notin active'
  /\ s \in GateStates => e \in Counts \cup {None} /\ Recorded(m, "evaluated", e)
  /\ s = "retraining_required" => SeenDrifting(m)

\* What a step can do to the log and to the flags.
LogStep ==
  \/ log' = log /\ active' \subseteq active
  \/ \E m \in Models, s \in States, e \in Evidence :
       log' = Append(log, Row(m, s, e)) /\ Justified(m, s, e)

IInv == /\ TypeOK /\ VerdictTypes /\ TaskInv
        /\ ActiveIsRecorded /\ ActivationIsMeasured
        /\ RetrainingHasCause /\ InfluenceWasGranted

-----------------------------------------------------------------------------
(* The log only grows.                                                     *)

\* A row appended to the log is its last one, and the others keep their places.
LEMMA AppendFacts ==
  ASSUME NEW l \in Seq(Rows), NEW m \in Models, NEW s \in States, NEW e \in Evidence
  PROVE  /\ Append(l, Row(m, s, e)) \in Seq(Rows)
         /\ DOMAIN Append(l, Row(m, s, e)) = DOMAIN l \cup {Len(l) + 1}
         /\ \A i \in DOMAIN l : Append(l, Row(m, s, e))[i] = l[i]
         /\ Append(l, Row(m, s, e))[Len(l) + 1] = [model |-> m, state |-> s, evidence |-> e]
  <1>1. Row(m, s, e) \in Rows
    BY DEF Row, Rows, Evidence
  <1>2. Row(m, s, e) = [model |-> m, state |-> s, evidence |-> e]
    BY DEF Row
  <1> HIDE DEF Row
  <1> QED
    BY <1>1, <1>2

\* A step leaves every row of the log where and as it was.
LEMMA LogGrows ==
  ASSUME TypeOK, LogStep
  PROVE  /\ log' \in Seq(Rows)
         /\ DOMAIN log \subseteq DOMAIN log'
         /\ \A i \in DOMAIN log : log'[i] = log[i]
  <1>1. CASE log' = log
    BY <1>1 DEF TypeOK
  <1>2. ASSUME NEW m \in Models, NEW s \in States, NEW e \in Evidence,
               log' = Append(log, Row(m, s, e))
        PROVE  /\ log' \in Seq(Rows)
               /\ DOMAIN log \subseteq DOMAIN log'
               /\ \A i \in DOMAIN log : log'[i] = log[i]
    <2>1. log \in Seq(Rows)
      BY DEF TypeOK
    <2>2. DOMAIN log' = DOMAIN log \cup {Len(log) + 1}
      BY <1>2, <2>1, AppendFacts
    <2>3. Append(log, Row(m, s, e)) \in Seq(Rows)
      BY <2>1, AppendFacts
    <2>4. \A i \in DOMAIN log : log'[i] = log[i]
      BY <1>2, <2>1, AppendFacts
    <2> QED
      BY <1>2, <2>2, <2>3, <2>4
  <1> QED
    BY <1>1, <1>2 DEF LogStep

\* What has been recorded stays recorded.
LEMMA RecordedStays ==
  ASSUME TypeOK, LogStep
  PROVE  /\ \A m, s, e : Recorded(m, s, e) => Recorded(m, s, e)'
         /\ \A m : SeenDrifting(m) => SeenDrifting(m)'
  BY LogGrows DEF Recorded, SeenDrifting

-----------------------------------------------------------------------------
(* What a step of the log preserves.                                       *)

\* No step of the log makes a flag say more than its rows.
LEMMA FlagsKeptRecorded ==
  ASSUME TypeOK, LogStep, ActiveIsRecorded
  PROVE  ActiveIsRecorded'
  <1>1. CASE log' = log /\ active' \subseteq active
    BY <1>1 DEF ActiveIsRecorded, RowsOf
  <1>2. ASSUME NEW m \in Models, NEW s \in States, NEW e \in Evidence,
               log' = Append(log, Row(m, s, e)), Justified(m, s, e)
        PROVE  ActiveIsRecorded'
    <2>0. PICK n \in Nat : n = Len(log) + 1
      BY DEF TypeOK
    <2>1. /\ DOMAIN log' = DOMAIN log \cup {n}
          /\ \A i \in DOMAIN log : log'[i] = log[i]
          /\ log'[n] = [model |-> m, state |-> s, evidence |-> e]
          /\ DOMAIN log = 1..Len(log) /\ Len(log) = n - 1
      BY <1>2, <2>0, AppendFacts DEF TypeOK
    <2>2. CASE s = "active"
      BY <1>2, <2>1, <2>2 DEF ActiveIsRecorded, RowsOf, Justified, StandDownStates
    <2>3. CASE s # "active"
      BY <1>2, <2>1, <2>3 DEF ActiveIsRecorded, RowsOf, Justified
    <2> QED
      BY <2>2, <2>3
  <1> QED
    BY <1>1, <1>2 DEF LogStep

\* Every row that is appended was decided on an earlier one.
LEMMA DecisionsKeptMeasured ==
  ASSUME TypeOK, LogStep, ActivationIsMeasured, RetrainingHasCause, VerdictTypes
  PROVE  ActivationIsMeasured' /\ RetrainingHasCause' /\ VerdictTypes'
  <1>1. CASE log' = log
    BY <1>1 DEF ActivationIsMeasured, RetrainingHasCause, VerdictTypes, Cites
  <1>2. ASSUME NEW m \in Models, NEW s \in States, NEW e \in Evidence,
               log' = Append(log, Row(m, s, e)), Justified(m, s, e)
        PROVE  ActivationIsMeasured' /\ RetrainingHasCause' /\ VerdictTypes'
    <2>0. PICK n \in Nat : n = Len(log) + 1
      BY DEF TypeOK
    <2>1. /\ DOMAIN log' = DOMAIN log \cup {n}
          /\ \A i \in DOMAIN log : log'[i] = log[i]
          /\ log'[n] = [model |-> m, state |-> s, evidence |-> e]
          /\ DOMAIN log = 1..Len(log) /\ Len(log) = n - 1
      BY <1>2, <2>0, AppendFacts DEF TypeOK
    <2>2. \A i \in DOMAIN log, state \in States : Cites(i, state) => Cites(i, state)'
      BY <2>1 DEF Cites
    <2>3. \A state \in States : Recorded(m, state, e) => Cites(n, state)'
      BY <2>1 DEF Cites, Recorded
    <2>4. "eligible" \in States /\ "evaluated" \in States
      BY DEF States, GateStates
    <2>5. ActivationIsMeasured'
      BY <1>2, <2>1, <2>2, <2>3, <2>4 DEF ActivationIsMeasured, Justified
    <2>6. RetrainingHasCause'
      BY <1>2, <2>1 DEF RetrainingHasCause, Justified, SeenDrifting
    <2>7. VerdictTypes'
      BY <1>2, <2>1 DEF VerdictTypes, Justified
    <2> QED
      BY <2>5, <2>6, <2>7
  <1> QED
    BY <1>1, <1>2 DEF LogStep

-----------------------------------------------------------------------------
(* The commands.                                                           *)

\* A command that moves on holds what its next step needs; the others hold what
\* they held, since rows stay.
LEMMA TaskMoves ==
  ASSUME TypeOK, LogStep, TaskInv, NEW o \in Operators, NEW c \in Commands,
         task' = [task EXCEPT ![o] = c], Holding(c)'
  PROVE  task' \in [Operators -> Commands] /\ TaskInv'
  <1>1. task' \in [Operators -> Commands]
    BY DEF TypeOK
  <1>2. ASSUME NEW p \in Operators, p # o
        PROVE  Holding(task[p])'
    <2>1. task'[p] = task[p]
      BY <1>2 DEF TypeOK
    <2>2. Holding(task[p])
      BY DEF TaskInv
    <2> QED
      BY <2>1, <2>2, RecordedStays DEF Holding
  <1>3. Holding(task[o])'
    BY DEF TypeOK, Holding
  <1> QED
    BY <1>1, <1>2, <1>3 DEF TaskInv

\* A step of the log that moves no command.
LEMMA TasksRest ==
  ASSUME TypeOK, LogStep, TaskInv, task' = task
  PROVE  TaskInv'
  BY RecordedStays DEF TaskInv, Holding

\* A command that ends holds nothing.
LEMMA TaskEnds ==
  ASSUME TypeOK, LogStep, TaskInv, NEW o \in Operators, Done(o)
  PROVE  task' \in [Operators -> Commands] /\ TaskInv'
  <1>1. PICK c \in Commands : c = Idle
    BY DEF Idle, Command, Commands, Steps
  <1>2. Holding(c)'
    BY <1>1 DEF Idle, Command, Holding
  <1>3. task' = [task EXCEPT ![o] = c]
    BY <1>1 DEF Done
  <1> QED
    BY <1>2, <1>3, TaskMoves

\* A command that begins knows its model only.
LEMMA TaskBegins ==
  ASSUME TypeOK, LogStep, TaskInv, NEW o \in Operators, NEW m \in Models,
         NEW s \in {"arrays", "measure"}, NEW b \in BOOLEAN,
         task' = [task EXCEPT ![o] = Command(s, m, None, b)]
  PROVE  task' \in [Operators -> Commands] /\ TaskInv'
  <1>1. PICK c \in Commands : c = Command(s, m, None, b)
    BY DEF Command, Commands, Steps
  <1>2. Holding(c)'
    BY <1>1 DEF Command, Holding
  <1> QED
    BY <1>1, <1>2, TaskMoves

\* A command that goes on to a step that needs nothing but the model.
LEMMA TaskGoesOn ==
  ASSUME TypeOK, LogStep, TaskInv, NEW o \in Operators, task[o].step # "idle",
         NEW s \in {"descriptor", "insert", "trained", "measure"}, Next1(o, s)
  PROVE  task' \in [Operators -> Commands] /\ TaskInv'
  <1>1. task[o] \in Commands /\ task[o].model \in Models
    BY DEF TypeOK, TaskInv, Holding
  <1>2. PICK c \in Commands : c = [task[o] EXCEPT !.step = s]
    BY <1>1 DEF Commands, Steps
  <1>3. Holding(c)'
    BY <1>1, <1>2 DEF Commands, Holding
  <1>4. task' = [task EXCEPT ![o] = c]
    BY <1>2 DEF Next1, TypeOK
  <1> QED
    BY <1>3, <1>4, TaskMoves

-----------------------------------------------------------------------------
(* Every action is a step of the log, and keeps the types and the commands. *)

\* The part of a step that does not concern the scorer.
Kept == TypeOK' /\ LogStep /\ TaskInv'

\* Training and calibration write no row that decides anything.
LEMMA TrainingKeeps ==
  ASSUME TypeOK, TaskInv, NEW o \in Operators,
         \/ \E m \in Models : StartTraining(o, m)
         \/ \E parent, m \in Models : StartCalibration(o, parent, m)
         \/ WriteArrays(o) \/ WriteDescriptor(o) \/ InsertModel(o) \/ RecordTrained(o)
  PROVE  Kept
  <1>1. CASE \E m \in Models :
               StartTraining(o, m) \/ \E parent \in Models : StartCalibration(o, parent, m)
    <2>1. LogStep
      BY <1>1 DEF StartTraining, StartCalibration, LogStep
    <2>2. task' \in [Operators -> Commands] /\ TaskInv'
      BY <1>1, <2>1, TaskBegins DEF StartTraining, StartCalibration
    <2> QED
      BY <1>1, <2>1, <2>2 DEF Kept, TypeOK, StartTraining, StartCalibration
  <1>2. CASE WriteArrays(o) \/ WriteDescriptor(o) \/ InsertModel(o)
    <2>1. LogStep
      BY <1>2 DEF WriteArrays, WriteDescriptor, InsertModel, LogStep
    <2>2. task' \in [Operators -> Commands] /\ TaskInv'
      BY <1>2, <2>1, TaskGoesOn DEF WriteArrays, WriteDescriptor, InsertModel
    <2>3. task[o].model \in Models
      BY <1>2 DEF WriteArrays, WriteDescriptor, InsertModel, TaskInv, Holding
    <2> QED
      BY <1>2, <2>1, <2>2, <2>3 DEF Kept, TypeOK, WriteArrays, WriteDescriptor, InsertModel
  <1>3. CASE RecordTrained(o)
    <2>1. task[o].model \in Models /\ task[o].step = "trained"
      BY <1>3 DEF RecordTrained, TaskInv, Holding
    <2>2. Justified(task[o].model, "trained", None)
      BY <1>3 DEF RecordTrained, Justified, StandDownStates, GateStates
    <2>3. LogStep
      BY <1>3, <2>1, <2>2 DEF RecordTrained, AppendRow, LogStep, States, Evidence
    <2>4. task' \in [Operators -> Commands] /\ TaskInv'
      BY <1>3, <2>1, <2>3, TaskGoesOn, TaskEnds DEF RecordTrained
    <2> QED
      BY <1>3, <2>3, <2>4, LogGrows DEF Kept, TypeOK, RecordTrained
  <1> QED
    BY <1>1, <1>2, <1>3

\* A measurement is recorded before the gate's verdict on it.
LEMMA MeasuringKeeps ==
  ASSUME TypeOK, TaskInv, NEW o \in Operators,
         \/ \E m \in Models : StartMeasuring(o, m)
         \/ \E c \in Counts : RecordEvaluated(o, c)
         \/ EvaluationRefused(o) \/ RecordGate(o)
  PROVE  Kept
  <1>1. CASE \E m \in Models : StartMeasuring(o, m)
    <2>1. LogStep
      BY <1>1 DEF StartMeasuring, LogStep
    <2>2. task' \in [Operators -> Commands] /\ TaskInv'
      BY <1>1, <2>1, TaskBegins DEF StartMeasuring
    <2> QED
      BY <1>1, <2>1, <2>2 DEF Kept, TypeOK, StartMeasuring
  <1>2. ASSUME NEW e \in Counts, RecordEvaluated(o, e)
        PROVE  Kept
    <2>1. PICK m \in Models : m = task[o].model
      BY <1>2 DEF RecordEvaluated, TaskInv, Holding
    <2>2. Justified(m, "evaluated", e)
      BY <1>2 DEF RecordEvaluated, Justified, StandDownStates, GateStates
    <2>3. log' = Append(log, Row(m, "evaluated", e))
      BY <1>2, <2>1 DEF RecordEvaluated, AppendRow
    <2>4. LogStep
      BY <2>2, <2>3 DEF LogStep, States, Evidence
    <2>5. task[o] \in Commands /\ log \in Seq(Rows)
      BY DEF TypeOK
    <2>6. PICK c \in Commands : c = [task[o] EXCEPT !.step = "gate", !.counts = e]
      BY <2>5 DEF Commands, Steps
    <2>7. c.step = "gate" /\ c.model = m /\ c.counts = e
      BY <2>1, <2>5, <2>6 DEF Commands
    <2>8. Recorded(m, "evaluated", e)'
      <3>1. "evaluated" \in States /\ e \in Evidence
        BY DEF States, Evidence
      <3>2. /\ Len(log) + 1 \in DOMAIN log'
            /\ log'[Len(log) + 1] = [model |-> m, state |-> "evaluated", evidence |-> e]
        BY <2>3, <2>5, <3>1, AppendFacts
      <3> QED
        BY <3>2 DEF Recorded
    <2>9. Holding(c)'
      BY <2>7, <2>8 DEF Holding
    <2>10. task' = [task EXCEPT ![o] = c]
      BY <1>2, <2>6 DEF RecordEvaluated, TypeOK
    <2>11. task' \in [Operators -> Commands] /\ TaskInv'
      BY <2>4, <2>9, <2>10, TaskMoves
    <2> QED
      BY <1>2, <2>4, <2>11, LogGrows DEF Kept, TypeOK, RecordEvaluated
  <1>3. CASE EvaluationRefused(o)
    <2>1. LogStep
      BY <1>3 DEF EvaluationRefused, LogStep
    <2> QED
      BY <1>3, <2>1, TaskEnds DEF Kept, TypeOK, EvaluationRefused
  <1>4. CASE RecordGate(o)
    <2>1. PICK m \in Models, e \in Counts \cup {None}, s \in GateStates :
            /\ m = task[o].model /\ e = task[o].counts
            /\ log' = Append(log, Row(m, s, e))
      BY <1>4 DEF RecordGate, AppendRow, TaskInv, Holding, GateStates, TypeOK, Commands
    <2>2. Recorded(m, "evaluated", e)
      BY <1>4, <2>1 DEF RecordGate, TaskInv, Holding
    <2>3. Justified(m, s, e)
      BY <1>4, <2>1, <2>2 DEF RecordGate, Justified, StandDownStates, GateStates
    <2>4. LogStep
      BY <2>1, <2>3 DEF LogStep, States, Evidence
    <2>5. task' \in [Operators -> Commands] /\ TaskInv'
      BY <1>4, <2>4, TaskEnds DEF RecordGate
    <2> QED
      BY <1>4, <2>4, <2>5, LogGrows DEF Kept, TypeOK, RecordGate
  <1> QED
    BY <1>1, <1>2, <1>3, <1>4

\* An activation rests on the verdict that was read, and on the gate run again.
LEMMA ActivatingKeeps ==
  ASSUME TypeOK, TaskInv, VerdictTypes, NEW o \in Operators,
         (\E m \in Models : StartActivation(o, m)) \/ RecordActivation(o)
  PROVE  Kept
  <1>1. ASSUME NEW m \in Models, StartActivation(o, m)
        PROVE  Kept
    <2>1. PICK i \in RowsOf(m) :
            /\ log[i].state = "eligible"
            /\ task' = [task EXCEPT ![o] = Command("check", m, log[i].evidence, FALSE)]
      BY <1>1 DEF StartActivation
    <2>2. log[i].evidence \in Counts \cup {None}
      BY <2>1 DEF VerdictTypes, RowsOf, GateStates
    <2>3. PICK c \in Commands : c = Command("check", m, log[i].evidence, FALSE)
      BY <2>2 DEF Command, Commands, Steps
    <2>4. LogStep
      BY <1>1 DEF StartActivation, LogStep
    <2>5. Recorded(m, "eligible", log[i].evidence)
      BY <2>1 DEF Recorded, RowsOf
    <2>6. c.step = "check" /\ c.model = m /\ c.counts = log[i].evidence
      BY <2>3 DEF Command
    <2>7. Recorded(c.model, "eligible", c.counts)
      BY <2>5, <2>6
    <2>8. Recorded(c.model, "eligible", c.counts)'
      BY <2>4, <2>7, RecordedStays
    <2>9. Holding(c)'
      BY <2>6, <2>8 DEF Holding
    <2>10. task' \in [Operators -> Commands] /\ TaskInv'
      BY <2>1, <2>3, <2>4, <2>9, TaskMoves
    <2> QED
      BY <1>1, <2>4, <2>10 DEF Kept, TypeOK, StartActivation
  <1>2. CASE CheckEligible(o)
    <2>1. LogStep
      BY <1>2 DEF CheckEligible, LogStep
    <2>2. task[o] \in Commands /\ Holding(task[o]) /\ task[o].step = "check"
      BY <1>2 DEF CheckEligible, TypeOK, TaskInv
    <2>3. ASSUME Next1(o, "activate"), task[o].counts \in Passing
          PROVE  task' \in [Operators -> Commands] /\ TaskInv'
      <3>1. PICK c \in Commands : c = [task[o] EXCEPT !.step = "activate"]
        BY <2>2 DEF Commands, Steps
      <3>2. c.step = "activate" /\ c.model = task[o].model /\ c.counts = task[o].counts
        BY <2>2, <3>1 DEF Commands
      <3>3. Recorded(c.model, "eligible", c.counts) /\ c.model \in Models /\ c.counts \in Passing
        BY <2>2, <2>3, <3>2 DEF Holding
      <3>4. Holding(c)'
        BY <2>1, <3>2, <3>3, RecordedStays DEF Holding
      <3>5. task' = [task EXCEPT ![o] = c]
        BY <2>3, <3>1 DEF Next1, TypeOK
      <3> QED
        BY <2>1, <3>4, <3>5, TaskMoves
    <2>4. task' \in [Operators -> Commands] /\ TaskInv'
      BY <1>2, <2>1, <2>3, TaskEnds DEF CheckEligible, VerdictReproduced
    <2> QED
      BY <1>2, <2>1, <2>4 DEF Kept, TypeOK, CheckEligible
  <1>3. CASE Activate(o)
    <2>1. PICK m \in Models, e \in Passing : m = task[o].model /\ e = task[o].counts
      BY <1>3 DEF Activate, TaskInv, Holding
    <2>2. Recorded(m, "eligible", e)
      BY <1>3, <2>1 DEF Activate, TaskInv, Holding
    <2>3. log' = Append(log, Row(m, "active", e)) /\ active' = {m}
      BY <1>3, <2>1 DEF Activate, AppendRow
    <2>4. Justified(m, "active", e)
      BY <2>2, <2>3 DEF Justified, StandDownStates, GateStates
    <2>5. LogStep
      BY <2>3, <2>4 DEF LogStep, States, Evidence
    <2>6. task' \in [Operators -> Commands] /\ TaskInv'
      BY <1>3, <2>5, TaskEnds DEF Activate
    <2> QED
      BY <1>3, <2>3, <2>5, <2>6, LogGrows DEF Kept, TypeOK, Activate
  <1> QED
    BY <1>1, <1>2, <1>3 DEF RecordActivation

\* Standing down clears the flag with its row; drift writes the assessment first.
LEMMA StandingDownKeeps ==
  ASSUME TypeOK, TaskInv, NEW o \in Operators,
         \/ \E m \in Models : RecordRetired(o, m) \/ RecordDrifted(o, m) \/ Deactivate(o, m)
         \/ \E m \in Models : DriftCheck(o, m)
         \/ RecordRetraining(o) \/ Crash(o)
  PROVE  Kept
  <1>1. ASSUME NEW m \in Models, NEW s \in StandDownStates, StandDown(o, m, s)
        PROVE  Kept
    <2>1. Justified(m, s, None)
      BY <1>1 DEF StandDown, SetInactive, Justified, StandDownStates, GateStates
    <2>2. LogStep
      BY <1>1, <2>1 DEF StandDown, SetInactive, AppendRow, LogStep, States, Evidence
    <2>3. TaskInv'
      BY <1>1, <2>2, TasksRest DEF StandDown, SetInactive
    <2> QED
      BY <1>1, <2>2, <2>3, LogGrows DEF Kept, TypeOK, StandDown, SetInactive
  <1>2. ASSUME NEW m \in Models, Deactivate(o, m)
        PROVE  Kept
    <2>1. LogStep
      BY <1>2 DEF Deactivate, SetInactive, LogStep
    <2> QED
      BY <1>2, <2>1, TasksRest DEF Kept, TypeOK, Deactivate, SetInactive
  <1>3. ASSUME NEW m \in Models, NEW s \in DriftStatuses, AssessDrift(o, m, s)
        PROVE  Kept
    <2>1. Justified(m, "drift_assessed", s)
      BY <1>3 DEF AssessDrift, Justified, StandDownStates, GateStates
    <2>2. log' = Append(log, Row(m, "drift_assessed", s))
      BY <1>3 DEF AssessDrift, AppendRow
    <2>3. LogStep
      BY <2>1, <2>2 DEF LogStep, States, Evidence
    <2>4. ASSUME s = "drift_detected"
          PROVE  task' \in [Operators -> Commands] /\ TaskInv'
      <3>1. PICK c \in Commands : c = Command("retraining", m, None, FALSE)
        BY DEF Command, Commands, Steps
      <3>2. c.step = "retraining" /\ c.model = m
        BY <3>1 DEF Command
      <3>3. "drift_assessed" \in States /\ s \in Evidence /\ log \in Seq(Rows)
        BY DEF States, Evidence, TypeOK
      <3>4. /\ Len(log) + 1 \in DOMAIN log'
            /\ log'[Len(log) + 1] = [model |-> m, state |-> "drift_assessed", evidence |-> s]
        BY <2>2, <3>3, AppendFacts
      <3>5. SeenDrifting(m)'
        BY <2>4, <3>4 DEF SeenDrifting
      <3>6. Holding(c)'
        BY <3>2, <3>5 DEF Holding
      <3>7. task' = [task EXCEPT ![o] = c]
        BY <1>3, <2>4, <3>1 DEF AssessDrift
      <3> QED
        BY <2>3, <3>6, <3>7, TaskMoves
    <2>5. ASSUME s # "drift_detected"
          PROVE  task' \in [Operators -> Commands] /\ TaskInv'
      BY <1>3, <2>3, <2>5, TasksRest DEF AssessDrift, TypeOK
    <2> QED
      BY <1>3, <2>3, <2>4, <2>5, LogGrows DEF Kept, TypeOK, AssessDrift
  <1>4. CASE RecordRetraining(o)
    <2>1. PICK m \in Models : m = task[o].model
      BY <1>4 DEF RecordRetraining, TaskInv, Holding
    <2>2. Justified(m, "retraining_required", None)
      BY <1>4, <2>1 DEF RecordRetraining, Justified, StandDownStates, GateStates, TaskInv, Holding
    <2>3. LogStep
      BY <1>4, <2>1, <2>2 DEF RecordRetraining, AppendRow, LogStep, States, Evidence
    <2>4. task' \in [Operators -> Commands] /\ TaskInv'
      BY <1>4, <2>3, TaskEnds DEF RecordRetraining
    <2> QED
      BY <1>4, <2>3, <2>4, LogGrows DEF Kept, TypeOK, RecordRetraining
  <1>5. CASE Crash(o)
    <2>1. LogStep
      BY <1>5 DEF Crash, LogStep
    <2> QED
      BY <1>5, <2>1, TaskEnds DEF Kept, TypeOK, Crash
  <1> QED
    BY <1>1, <1>2, <1>3, <1>4, <1>5
    DEF RecordRetired, RecordDrifted, DriftCheck, StandDownStates

-----------------------------------------------------------------------------
(* The theorems.                                                           *)

\* Nothing has been recorded, flagged or loaded at the start.
THEOREM InitIInv == Init => IInv
  <1> SUFFICES ASSUME Init PROVE IInv
    OBVIOUS
  <1>1. TypeOK
    <2>1. log \in Seq(Rows) /\ DOMAIN log = {}
      BY DEF Init
    <2>2. task \in [Operators -> Commands]
      BY DEF Init, Idle, Command, Commands, Steps
    <2> QED
      BY <2>1, <2>2 DEF Init, TypeOK
  <1>2. DOMAIN log = {}
    BY DEF Init
  <1>3. TaskInv
    BY DEF Init, TaskInv, Holding, Idle, Command
  <1> QED
    BY <1>1, <1>2, <1>3 DEF Init, IInv, VerdictTypes, ActiveIsRecorded, ActivationIsMeasured,
       RetrainingHasCause, InfluenceWasGranted

\* A command, a crash, a load or a restart keeps the invariant.
THEOREM NextIInv == IInv /\ [Next]_vars => IInv'
  <1> SUFFICES ASSUME IInv, [Next]_vars PROVE IInv'
    OBVIOUS
  <1>1. TypeOK /\ VerdictTypes /\ TaskInv /\ ActiveIsRecorded
    BY DEF IInv
  <1>2. ASSUME NEW o \in Operators, OperatorStep(o)
        PROVE  Kept /\ scorer' = scorer
    <2>1. Kept
      BY <1>1, <1>2, TrainingKeeps, MeasuringKeeps, ActivatingKeeps, StandingDownKeeps
      DEF OperatorStep
    <2>2. scorer' = scorer
      BY <1>2 DEF OperatorStep, StartTraining, StartCalibration, WriteArrays, WriteDescriptor,
         InsertModel, RecordTrained, StartMeasuring, RecordEvaluated, EvaluationRefused,
         RecordGate, StartActivation, RecordActivation, CheckEligible, Activate, RecordRetired,
         RecordDrifted, StandDown, SetInactive, Deactivate, DriftCheck, AssessDrift, RecordRetraining, Crash
    <2> QED
      BY <2>1, <2>2
  <1>3. ASSUME (\E m \in Models : LoadScorer(m)) \/ RestartService \/ UNCHANGED vars
        PROVE  Kept /\ scorer' \in active \cup {None, scorer}
    <2>1. LogStep /\ scorer' \in active \cup {None, scorer}
      BY <1>3 DEF LoadScorer, RestartService, vars, LogStep
    <2>2. TypeOK' /\ task' = task
      BY <1>1, <1>3 DEF TypeOK, LoadScorer, RestartService, vars
    <2> QED
      BY <1>1, <2>1, <2>2, TasksRest DEF Kept
  <1>4. Kept /\ scorer' \in active \cup {None, scorer}
    BY <1>2, <1>3 DEF Next
  <1>5. ActiveIsRecorded'
    BY <1>1, <1>4, FlagsKeptRecorded DEF Kept
  <1>6. ActivationIsMeasured' /\ RetrainingHasCause' /\ VerdictTypes'
    BY <1>1, <1>4, DecisionsKeptMeasured DEF Kept, IInv
  <1>7. InfluenceWasGranted'
    <2>1. scorer' # None => \E i \in DOMAIN log : log[i].model = scorer' /\ log[i].state = "active"
      BY <1>1, <1>4 DEF IInv, InfluenceWasGranted, ActiveIsRecorded, RowsOf
    <2> QED
      BY <1>1, <1>4, <2>1, LogGrows DEF Kept, InfluenceWasGranted, RowsOf
  <1> QED
    BY <1>4, <1>5, <1>6, <1>7 DEF Kept, IInv

\* The inductive invariant holds in every behaviour.
THEOREM Invariance == Spec => []IInv
  BY InitIInv, NextIInv, PTL DEF Spec

\* Every variable has its type, whatever is trained, measured and activated at once.
THEOREM TypeCorrect == Spec => []TypeOK
  <1>1. IInv => TypeOK
    BY DEF IInv
  <1> QED
    BY <1>1, Invariance, PTL

\* However many operators activate, retire and assess at once: a flagged model has an
\* "active" row, and neither a later activation nor a later stand-down of its own.
THEOREM FlagNeverAheadOfLog == Spec => []ActiveIsRecorded
  <1>1. IInv => ActiveIsRecorded
    BY DEF IInv
  <1> QED
    BY <1>1, Invariance, PTL

\* Every activation rests on counts that passed the gate and were recorded before it.
THEOREM NoActivationUnmeasured == Spec => []ActivationIsMeasured
  <1>1. IInv => ActivationIsMeasured
    BY DEF IInv
  <1> QED
    BY <1>1, Invariance, PTL

\* The service scores with no model that was never activated, and no model is sent to
\* retraining that was not found to drift.
THEOREM InfluenceAndRetrainingGranted == Spec => [](InfluenceWasGranted /\ RetrainingHasCause)
  <1>1. IInv => InfluenceWasGranted /\ RetrainingHasCause
    BY DEF IInv
  <1> QED
    BY <1>1, Invariance, PTL
=============================================================================
