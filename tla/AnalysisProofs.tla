--------------------------- MODULE AnalysisProofs ---------------------------
(***************************************************************************)
(* For any settings, batches and numbers of threads: the alarms of the     *)
(* scorer are what the readings say, rest on enough windows and are in     *)
(* the database, and every finding is decided or accounted for.  For any   *)
(* finding: what the explainer rebuilds, and what policy does with advice. *)
(***************************************************************************)
EXTENDS AnalysisPipeline, FindingDecision, FiniteSetTheorems, WellFoundedInduction, TLAPS

USE CountsAssumption

-----------------------------------------------------------------------------
(* The hysteresis of one counter.                                          *)

\* The readings of s end with exactly n of the given level.
Trailing(s, n, level) == RunAt(s, n, Len(s), level) /\ ~RunAt(s, n + 1, Len(s), level)

\* What the counter c knows of the readings s it has heard: while the condition
\* is in force, how many low ones they end with; otherwise, how many high ones.
Knows(c, s) ==
  /\ c \in CounterType /\ s \in Seq(Levels)
  /\ c.active  => c.clear < ClearNeeded /\ Trailing(s, c.clear, "low")
  /\ ~c.active => c.breach < BreachNeeded /\ Trailing(s, c.breach, "high")
  /\ c.active <=> Raised(s)

-----------------------------------------------------------------------------
(* Runs of equal readings.                                                 *)

\* Appending a reading leaves the others where they are.
LEMMA AppendLevels ==
  ASSUME NEW s \in Seq(Levels), NEW x \in Levels
  PROVE  /\ Append(s, x) \in Seq(Levels) /\ Len(Append(s, x)) = Len(s) + 1
         /\ Append(s, x)[Len(s) + 1] = x
         /\ \A i \in 1..Len(s) : Append(s, x)[i] = s[i]
         /\ Len(s) \in Nat
  OBVIOUS

\* The end of a run is a run.
LEMMA RunShrinks ==
  ASSUME NEW s, NEW j \in Nat, NEW level, NEW m \in Nat, NEW n \in Nat,
         m <= n, RunAt(s, n, j, level)
  PROVE  RunAt(s, m, j, level)
  BY DEF RunAt

\* A run that ends before the last reading does not depend on it.
LEMMA RunBefore ==
  ASSUME NEW s \in Seq(Levels), NEW x \in Levels, NEW j \in 1..Len(s), NEW level,
         NEW n \in Nat
  PROVE  RunAt(Append(s, x), n, j, level) <=> RunAt(s, n, j, level)
  <1>1. \A i \in (j - n + 1)..j : n <= j => Append(s, x)[i] = s[i]
    BY AppendLevels
  <1> QED
    BY <1>1 DEF RunAt

\* A reading of the same level makes the run at the end one longer.
LEMMA RunGrows ==
  ASSUME NEW s \in Seq(Levels), NEW x \in Levels, NEW n \in Nat
  PROVE  RunAt(Append(s, x), n + 1, Len(s) + 1, x) <=> RunAt(s, n, Len(s), x)
  <1> DEFINE t == Append(s, x)
  <1>1. t[Len(s) + 1] = x /\ (\A i \in 1..Len(s) : t[i] = s[i]) /\ Len(s) \in Nat
    BY AppendLevels
  <1> HIDE DEF t
  <1>2. PICK k \in Nat : k = Len(s)
    BY <1>1
  <1>3. RunAt(t, n + 1, k + 1, x) <=> n <= k /\ \A i \in (k - n + 1)..(k + 1) : t[i] = x
    <2>1. (k + 1) - (n + 1) + 1 = k - n + 1
      OBVIOUS
    <2> QED
      BY <2>1 DEF RunAt
  <1>4. n <= k => \A i \in (k - n + 1)..k : t[i] = s[i]
    BY <1>1, <1>2
  <1>5. n <= k => (k - n + 1)..(k + 1) = ((k - n + 1)..k) \cup {k + 1}
    OBVIOUS
  <1>6. RunAt(t, n + 1, k + 1, x) <=> n <= k /\ \A i \in (k - n + 1)..k : s[i] = x
    BY <1>1, <1>2, <1>3, <1>4, <1>5
  <1>7. RunAt(t, n + 1, Len(s) + 1, x) <=> RunAt(s, n, Len(s), x)
    BY <1>2, <1>6 DEF RunAt
  <1> QED
    BY <1>7 DEF t

\* A reading of another level ends it.
LEMMA RunEndsHere ==
  ASSUME NEW s \in Seq(Levels), NEW x \in Levels, NEW level, x # level,
         NEW n \in Nat, n > 0
  PROVE  ~RunAt(Append(s, x), n, Len(s) + 1, level)
  BY AppendLevels DEF RunAt

\* The run at the end answers for every shorter one.
LEMMA TrailingRuns ==
  ASSUME NEW s \in Seq(Levels), NEW level, NEW n \in Nat, NEW m \in Nat,
         Trailing(s, n, level)
  PROVE  RunAt(s, m, Len(s), level) <=> m <= n
  <1>1. Len(s) \in Nat
    OBVIOUS
  <1>2. CASE m <= n
    BY <1>1, <1>2, RunShrinks DEF Trailing
  <1>3. CASE ~(m <= n)
    BY <1>1, <1>3, RunShrinks, n + 1 <= m, n + 1 \in Nat DEF Trailing
  <1> QED
    BY <1>2, <1>3

\* A reading of the same level is one more.
LEMMA TrailingGrows ==
  ASSUME NEW s \in Seq(Levels), NEW x \in Levels, NEW n \in Nat, Trailing(s, n, x)
  PROVE  Trailing(Append(s, x), n + 1, x)
  <1>1. RunAt(Append(s, x), n + 1, Len(s) + 1, x)
    BY RunGrows DEF Trailing
  <1>2. ~RunAt(Append(s, x), n + 1 + 1, Len(s) + 1, x)
    BY RunGrows, n + 1 \in Nat DEF Trailing
  <1> QED
    BY <1>1, <1>2, AppendLevels DEF Trailing

\* After a reading of another level there are none.
LEMMA TrailingEnds ==
  ASSUME NEW s \in Seq(Levels), NEW x \in Levels, NEW level, x # level
  PROVE  Trailing(Append(s, x), 0, level)
  <1>1. Len(Append(s, x)) = Len(s) + 1 /\ Len(s) \in Nat
    BY AppendLevels
  <1>2. RunAt(Append(s, x), 0, Len(s) + 1, level)
    BY <1>1 DEF RunAt
  <1>3. ~RunAt(Append(s, x), 0 + 1, Len(s) + 1, level)
    BY RunEndsHere
  <1> QED
    BY <1>1, <1>2, <1>3 DEF Trailing

-----------------------------------------------------------------------------
(* What one reading does to the alarm and to the counter.                  *)

\* A reading raises the alarm if it completes a run of high ones, and lets it
\* stand unless it completes a run of low ones.
LEMMA RaisedStep ==
  ASSUME NEW s \in Seq(Levels), NEW x \in Levels
  PROVE  Raised(Append(s, x)) <=>
           \/ RunAt(Append(s, x), BreachNeeded, Len(s) + 1, "high")
           \/ Raised(s) /\ ~RunAt(Append(s, x), ClearNeeded, Len(s) + 1, "low")
  <1> DEFINE t == Append(s, x)
             High(j) == RunAt(t, BreachNeeded, j, "high")
             Low(k)  == RunAt(t, ClearNeeded, k, "low")
  <1>1. PICK n \in Nat : n = Len(s)
    BY AppendLevels
  <1>2. Len(t) = n + 1
    BY <1>1, AppendLevels
  <1>3. Raised(t) <=> \E j \in 1..(n + 1) : High(j) /\ \A k \in (j + 1)..(n + 1) : ~Low(k)
    BY <1>2 DEF Raised
  <1>4. Raised(s) <=> \E j \in 1..n : High(j) /\ \A k \in (j + 1)..n : ~Low(k)
    <2>1. \A j \in 1..n : High(j) <=> RunAt(s, BreachNeeded, j, "high")
      BY <1>1, RunBefore
    <2>2. \A k \in 1..n : Low(k) <=> RunAt(s, ClearNeeded, k, "low")
      BY <1>1, RunBefore
    <2> HIDE DEF High, Low
    <2> QED
      BY <1>1, <2>1, <2>2 DEF Raised
  <1> HIDE DEF High, Low
  <1>5. Raised(t) <=> High(n + 1) \/ (Raised(s) /\ ~Low(n + 1))
    <2>1. ASSUME High(n + 1) PROVE Raised(t)
      BY <1>3, <2>1
    <2>2. ASSUME Raised(s), ~Low(n + 1) PROVE Raised(t)
      <3>1. PICK j \in 1..n : High(j) /\ \A k \in (j + 1)..n : ~Low(k)
        BY <1>4, <2>2
      <3>2. \A k \in (j + 1)..(n + 1) : k \in (j + 1)..n \/ k = n + 1
        OBVIOUS
      <3>3. j \in 1..(n + 1)
        OBVIOUS
      <3> QED
        BY <1>3, <2>2, <3>1, <3>2, <3>3
    <2>3. ASSUME Raised(t), ~High(n + 1) PROVE Raised(s) /\ ~Low(n + 1)
      <3>1. PICK j \in 1..(n + 1) : High(j) /\ \A k \in (j + 1)..(n + 1) : ~Low(k)
        BY <1>3, <2>3
      <3>2. j \in 1..n
        BY <2>3, <3>1
      <3>3. n + 1 \in (j + 1)..(n + 1) /\ \A k \in (j + 1)..n : k \in (j + 1)..(n + 1)
        BY <3>2
      <3> QED
        BY <1>4, <3>1, <3>2, <3>3
    <2> QED
      BY <2>1, <2>2, <2>3
  <1> QED
    BY <1>1, <1>5 DEF High, Low

\* A reading in breach.
LEMMA BreachedFields ==
  ASSUME NEW c \in CounterType, NEW w \in Nat, NEW d, d = Breached(c, w)
  PROVE  d \in CounterType /\ d.breach = c.breach + 1 /\ d.clear = 0
         /\ (d.active <=> c.active \/ c.breach + 1 >= BreachNeeded)
  <1>1. PICK m \in Nat, n \in Nat : m = c.breach + 1 /\ n = 0
    BY DEF CounterType
  <1>2. ASSUME NEW a \in BOOLEAN, a = (c.active \/ c.breach + 1 >= BreachNeeded)
        PROVE  d \in CounterType /\ d.breach = c.breach + 1 /\ d.clear = 0 /\ d.active = a
    <2>1. d = [c EXCEPT !.last = w, !.breach = m, !.clear = n, !.active = a]
      BY <1>1, <1>2, Zenon DEF Breached
    <2>2. d \in CounterType
      BY <2>1 DEF CounterType
    <2>3. d.breach = m /\ d.clear = n /\ d.active = a
      BY <2>1 DEF CounterType
    <2> QED
      BY <1>1, <2>2, <2>3
  <1>3. CASE c.active \/ c.breach + 1 >= BreachNeeded
    <2>1. TRUE = (c.active \/ c.breach + 1 >= BreachNeeded)
      BY <1>3
    <2> QED
      BY <1>2, <1>3, <2>1
  <1>4. CASE ~(c.active \/ c.breach + 1 >= BreachNeeded)
    <2>1. FALSE = (c.active \/ c.breach + 1 >= BreachNeeded)
      BY <1>4
    <2> QED
      BY <1>2, <1>4, <2>1
  <1> QED
    BY <1>3, <1>4

\* A reading out of it.
LEMMA ClearedFields ==
  ASSUME NEW c \in CounterType, NEW w \in Nat, NEW d, d = Cleared(c, w)
  PROVE  d \in CounterType /\ d.breach = 0 /\ d.clear = c.clear + 1
         /\ (d.active <=> c.active /\ c.clear + 1 < ClearNeeded)
  <1>1. PICK m \in Nat, n \in Nat : m = 0 /\ n = c.clear + 1
    BY DEF CounterType
  <1>2. ASSUME NEW a \in BOOLEAN, a = (c.active /\ c.clear + 1 < ClearNeeded)
        PROVE  d \in CounterType /\ d.breach = 0 /\ d.clear = c.clear + 1 /\ d.active = a
    <2>1. d = [c EXCEPT !.last = w, !.breach = m, !.clear = n, !.active = a]
      BY <1>1, <1>2, Zenon DEF Cleared
    <2>2. d \in CounterType
      BY <2>1 DEF CounterType
    <2>3. d.breach = m /\ d.clear = n /\ d.active = a
      BY <2>1 DEF CounterType
    <2> QED
      BY <1>1, <2>2, <2>3
  <1>3. CASE c.active /\ c.clear + 1 < ClearNeeded
    <2>1. TRUE = (c.active /\ c.clear + 1 < ClearNeeded)
      BY <1>3
    <2> QED
      BY <1>2, <1>3, <2>1
  <1>4. CASE ~(c.active /\ c.clear + 1 < ClearNeeded)
    <2>1. FALSE = (c.active /\ c.clear + 1 < ClearNeeded)
      BY <1>4
    <2> QED
      BY <1>2, <1>4, <2>1
  <1> QED
    BY <1>3, <1>4

\* A reading that is heard leaves the counter knowing what it has to.
LEMMA HeardKnows ==
  ASSUME NEW c, NEW s, Knows(c, s), NEW x \in Levels, NEW w \in Nat
  PROVE  Knows(IF InBreach(c.active, x) THEN Breached(c, w) ELSE Cleared(c, w), Append(s, x))
  <1> DEFINE t == Append(s, x)
  <1>1. /\ c \in CounterType /\ s \in Seq(Levels) /\ c.active \in BOOLEAN
        /\ c.breach \in Nat /\ c.clear \in Nat
    BY DEF Knows, CounterType
  <1>2. t \in Seq(Levels) /\ Len(t) = Len(s) + 1
    BY <1>1, AppendLevels
  <1>3. \A level : level # x => /\ Trailing(t, 0, level)
                               /\ ~RunAt(t, BreachNeeded, Len(s) + 1, level)
                               /\ ~RunAt(t, ClearNeeded, Len(s) + 1, level)
    BY <1>1, TrailingEnds, RunEndsHere
  <1>4. Raised(t) <=> \/ RunAt(t, BreachNeeded, Len(s) + 1, "high")
                      \/ Raised(s) /\ ~RunAt(t, ClearNeeded, Len(s) + 1, "low")
    BY <1>1, RaisedStep
  <1> HIDE DEF t
  <1>5. CASE c.active /\ x # "low"
    <2>1. PICK d : d = Breached(c, w)
      OBVIOUS
    <2>2. d \in CounterType /\ d.active /\ d.clear = 0
      BY <1>1, <1>5, <2>1, BreachedFields
    <2>3. Raised(t)
      BY <1>3, <1>4, <1>5 DEF Knows
    <2>4. Knows(d, t)
      BY <1>2, <1>3, <1>5, <2>2, <2>3 DEF Knows
    <2>5. InBreach(c.active, x)
      BY <1>5 DEF InBreach, Levels
    <2> QED
      BY <2>1, <2>4, <2>5 DEF t
  <1>6. CASE c.active /\ x = "low"
    <2>1. PICK n \in Nat : n = c.clear + 1
      BY <1>1
    <2>2. PICK d : d = Cleared(c, w)
      OBVIOUS
    <2>3. d \in CounterType /\ (d.active <=> n < ClearNeeded) /\ d.clear = n /\ d.breach = 0
      BY <1>1, <1>6, <2>1, <2>2, ClearedFields
    <2>4. Trailing(t, n, "low")
      BY <1>1, <1>6, <2>1, TrailingGrows DEF Knows, t
    <2>5. RunAt(t, ClearNeeded, Len(s) + 1, "low") <=> ClearNeeded <= n
      BY <1>2, <2>4, TrailingRuns
    <2>6. Raised(t) <=> n < ClearNeeded
      BY <1>3, <1>4, <1>6, <2>5 DEF Knows
    <2>7. Knows(d, t)
      BY <1>2, <1>3, <1>6, <2>3, <2>4, <2>6 DEF Knows
    <2>8. ~InBreach(c.active, x)
      BY <1>6 DEF InBreach
    <2> QED
      BY <2>2, <2>7, <2>8 DEF t
  <1>7. CASE ~c.active /\ x = "high"
    <2>1. PICK n \in Nat : n = c.breach + 1
      BY <1>1
    <2>2. PICK d : d = Breached(c, w)
      OBVIOUS
    <2>3. d \in CounterType /\ (d.active <=> n >= BreachNeeded) /\ d.breach = n /\ d.clear = 0
      BY <1>1, <1>7, <2>1, <2>2, BreachedFields
    <2>4. Trailing(t, n, "high")
      BY <1>1, <1>7, <2>1, TrailingGrows DEF Knows, t
    <2>5. RunAt(t, BreachNeeded, Len(s) + 1, "high") <=> BreachNeeded <= n
      BY <1>2, <2>4, TrailingRuns
    <2>6. Raised(t) <=> n >= BreachNeeded
      BY <1>4, <1>7, <2>5 DEF Knows
    <2>7. Knows(d, t)
      BY <1>2, <1>3, <1>7, <2>3, <2>4, <2>6 DEF Knows
    <2>8. InBreach(c.active, x)
      BY <1>7 DEF InBreach
    <2> QED
      BY <2>2, <2>7, <2>8 DEF t
  <1>8. CASE ~c.active /\ x # "high"
    <2>1. PICK d : d = Cleared(c, w)
      OBVIOUS
    <2>2. d \in CounterType /\ ~d.active /\ d.breach = 0
      BY <1>1, <1>8, <2>1, ClearedFields
    <2>3. ~Raised(t)
      BY <1>3, <1>4, <1>8 DEF Knows
    <2>4. Knows(d, t)
      BY <1>2, <1>3, <1>8, <2>2, <2>3 DEF Knows
    <2>5. ~InBreach(c.active, x)
      BY <1>8 DEF InBreach
    <2> QED
      BY <2>1, <2>4, <2>5 DEF t
  <1> QED
    BY <1>5, <1>6, <1>7, <1>8

\* So does any reading: one for a window that is not later is not heard.
LEMMA ObserveKnows ==
  ASSUME NEW c, NEW s, Knows(c, s), NEW x \in Levels, NEW w \in Nat
  PROVE  Knows(Observe(c, x, w), Heard(s, c, x, w))
  BY HeardKnows DEF Observe, Heard

\* A fresh counter has heard nothing.
LEMMA FreshKnows ==
  Knows(Fresh, <<>>)
  <1> DEFINE e == <<>>
  <1>1. e \in Seq(Levels) /\ Len(e) = 0
    OBVIOUS
  <1> HIDE DEF e
  <1>2. ~Raised(e)
    BY <1>1 DEF Raised
  <1>3. Trailing(e, 0, "high")
    BY <1>1 DEF Trailing, RunAt
  <1>4. PICK d : d = Fresh
    OBVIOUS
  <1>5. d \in CounterType /\ ~d.active /\ d.breach = 0
    BY <1>4 DEF Fresh, CounterType, NoWindow
  <1>6. Knows(d, e)
    BY <1>1, <1>2, <1>3, <1>5 DEF Knows
  <1> QED
    BY <1>4, <1>6 DEF e

-----------------------------------------------------------------------------
(* Readings and windows.                                                   *)

\* Some element of a finite set has the greatest value.
LEMMA FiniteMax ==
  ASSUME NEW S, IsFiniteSet(S), S # {}, NEW f \in [S -> Nat]
  PROVE  \E x \in S : \A y \in S : f[y] <= f[x]
  <1> DEFINE Above(x) == {y \in S : f[x] <= f[y]}
             T == {Above(x) : x \in S}
             R == StrictSubsetOrdering(S)
  <1>1. T \subseteq FiniteSubsetsOf(S) /\ T # {}
    <2>1. ASSUME NEW x \in S PROVE Above(x) \in SUBSET S /\ IsFiniteSet(Above(x))
      <3>1. Above(x) \in SUBSET S
        OBVIOUS
      <3> HIDE DEF Above
      <3> QED
        BY <3>1, FS_Subset
    <2> HIDE DEF Above
    <2> QED
      BY <2>1 DEF FiniteSubsetsOf
  <1>2. IsWellFoundedOn(R, FiniteSubsetsOf(S))
    BY FS_StrictSubsetOrderingWellFounded
  <1>3. \E X \in T : \A Y \in T : ~ (<<Y, X>> \in R)
    <2> HIDE DEF T, R
    <2> QED
      BY <1>1, <1>2, WFMin
  <1>4. PICK x \in S : \A y \in S : ~ (<<Above(y), Above(x)>> \in R)
    BY <1>3
  <1>5. ASSUME NEW y \in S, ~ (f[y] <= f[x]) PROVE FALSE
    <2>1. f[x] < f[y] /\ f[x] \in Nat /\ f[y] \in Nat
      BY <1>5
    <2>2. Above(y) \subseteq Above(x) /\ x \in Above(x) /\ x \notin Above(y)
      BY <2>1
    <2>3. <<Above(y), Above(x)>> \in R
      BY <2>2 DEF StrictSubsetOrdering
    <2> QED
      BY <1>4, <2>3
  <1> QED
    BY <1>5

\* There is a latest event.
LEMMA LatestIn ==
  ASSUME NEW es, IsFiniteSet(es), es # {}, es \subseteq Events
  PROVE  Latest(es) \in es
  <1> DEFINE f == [e \in es |-> e.at]
  <1>1. f \in [es -> Nat]
    BY EventsAssumption
  <1>2. PICK e \in es : \A o \in es : f[o] <= f[e]
    BY <1>1, FiniteMax
  <1>3. \A o \in es : o.at <= e.at
    BY <1>2
  <1> QED
    BY <1>3 DEF Latest

\* Windows begin at natural numbers.
LEMMA WindowType ==
  ASSUME NEW e \in Events PROVE WindowOf(e) \in Nat
  <1>1. e.at \in Nat /\ Width \in Nat /\ Width > 0
    BY EventsAssumption, SettingsAssumption
  <1>2. e.at \div Width \in Nat
    BY <1>1
  <1>3. \A m, n \in Nat : m * n \in Nat
    OBVIOUS
  <1> QED
    BY <1>1, <1>2, <1>3 DEF WindowOf

\* A batch as a thread has it in hand.
Lot(b) == b \subseteq Events /\ IsFiniteSet(b)

\* A reading that is known is that of an event of the window.
LEMMA LevelKnown ==
  ASSUME NEW b, Lot(b), NEW w, NEW c \in Conditions, Level(b, w, c) # "unknown"
  PROVE  /\ Level(b, w, c) \in Levels /\ w \in Nat
         /\ \E e \in In(b, "health", w) : e.level[c] = Level(b, w, c)
  <1> DEFINE es == In(b, "health", w)
  <1>1. es # {} /\ Level(b, w, c) = Latest(es).level[c]
    BY DEF Level
  <1>2. es \subseteq Events /\ IsFiniteSet(es)
    BY FS_Subset DEF Lot, In
  <1>3. Latest(es) \in es
    BY <1>1, <1>2, LatestIn
  <1>4. \A e \in es : e \in Events /\ e.kind = "health" /\ WindowOf(e) = w
    BY <1>2 DEF In
  <1> HIDE DEF es
  <1>5. Latest(es).level[c] \in Levels \cup {"unknown"}
    BY <1>3, <1>4, LevelsAssumption
  <1> QED
    BY <1>1, <1>3, <1>4, <1>5, WindowType DEF es

\* The first condition of a reading is reported before the second; only memory
\* pressure has two.
LEMMA ReadingOf ==
  ASSUME NEW i \in DOMAIN Readings, NEW c \in Range(Readings[i])
  PROVE  \/ 1 \in DOMAIN Readings[i] /\ Readings[i][1] = c
         \/ /\ DOMAIN Readings[i] = 1..2 /\ Readings[i][2] = c
            /\ Readings[i][1] = "memory_pressure_high" /\ c = "memory_pressure_medium"
  BY DEF Readings, Range

LEMMA ReadingType ==
  ASSUME NEW i \in DOMAIN Readings, NEW k \in DOMAIN Readings[i]
  PROVE  /\ Readings[i][k] \in Conditions /\ Readings[i][k] \in Range(Readings[i])
         /\ i \in Places /\ IsReading(i) /\ i \in Int
  <1>1. DOMAIN Readings = 1..4 /\ Len(Readings) = 4
    BY DEF Readings
  <1>2. Len(UnitOrder) \in Nat
    BY NamesAssumption
  <1> QED
    BY <1>1, <1>2 DEF Conditions, Range, Places, IsReading

-----------------------------------------------------------------------------
(* The scorer.                                                             *)

Lots == \A t \in Consumers : Lot(batch[t]) /\ batch[t] \subseteq delivered

\* A window is scored up to place i, and if i is a place its finding is lost.
Scores(t, w, i) ==
  /\ ScoreUpTo(batch[t], w, i) /\ i \in Nat
  /\ unsaved \subseteq unsaved' /\ (i \in Places => AlarmAt(batch[t], w, i) \subseteq unsaved')
  /\ i \notin Places => i > Len(Readings)
  /\ delivered' = delivered

Restarts ==
  /\ counters' = [c \in Conditions |-> Fresh] /\ seen' = [c \in Conditions |-> <<>>]
  /\ alarms' = alarms /\ unsaved' = unsaved /\ delivered' = delivered

Quiet ==
  /\ UNCHANGED <<counters, seen, alarms, unsaved>>
  /\ delivered' = delivered \/ \E b \in Batches : delivered' = delivered \cup b

\* What a step does to the counters and to the alarms.
LEMMA ScorerSteps ==
  ASSUME [Next]_vars
  PROVE  Quiet \/ Restarts \/ \E t \in Consumers : \E w, i : Scores(t, w, i)
  <1> USE DEF scorer, history, evidence, threads, bounds, Proceed, Raise
  <1>u. Len(UnitOrder) \in Nat /\ Len(Readings) = 4
    BY NamesAssumption DEF Readings
  <1>1. ASSUME NEW t \in Consumers, ScoreWindow(t)
        PROVE  \E w, i : Scores(t, w, i)
    <2>1. PICK w : ScoreUpTo(batch[t], w, Len(Readings) + Len(UnitOrder) + 1)
      BY <1>1 DEF ScoreWindow
    <2>2. Scores(t, w, Len(Readings) + Len(UnitOrder) + 1)
      BY <1>1, <1>u, <2>1 DEF ScoreWindow, Scores, Places
    <2> QED
      BY <2>2
  <1>2. ASSUME NEW t \in Consumers, ScoreRaises(t)
        PROVE  \E w, i : Scores(t, w, i)
    <2>1. PICK i \in Places :
            /\ ScoreUpTo(batch[t], Min(todo[t]), i)
            /\ unsaved' = unsaved \cup AlarmAt(batch[t], Min(todo[t]), i)
      BY <1>2 DEF ScoreRaises
    <2>2. Scores(t, Min(todo[t]), i)
      BY <1>2, <1>u, <2>1 DEF ScoreRaises, Scores, Places
    <2> QED
      BY <2>2
  <1>3. ASSUME NEW t \in Consumers, NEW b \in Batches, Process(t, b)
        PROVE  Quiet
    BY <1>3 DEF Process, Quiet
  <1>4. ASSUME NEW t \in Consumers, EnterScorer(t) \/ LeaveScorer(t) \/ NothingToReport(t)
        PROVE  Quiet
    BY <1>4 DEF EnterScorer, LeaveScorer, NothingToReport, Quiet
  <1>5. ASSUME NEW t \in Consumers, \/ Monitor(t) \/ MonitorRaises(t) \/ Detect(t) \/ DetectRaises(t)
                                    \/ Explain(t) \/ ExplainRaises(t) \/ Assist(t) \/ AssistRaises(t)
                                    \/ Decide(t) \/ DecideRaises(t)
        PROVE  Quiet
    BY <1>5 DEF Monitor, MonitorRaises, Detect, DetectRaises, Explain, ExplainRaises, Assist,
       AssistRaises, Decide, DecideRaises, Quiet
  <1>6. CASE LearnNormal \/ Finished \/ UNCHANGED vars
    BY <1>6 DEF LearnNormal, Finished, vars, Quiet
  <1>7. CASE Restart
    BY <1>7 DEF Restart, Restarts
  <1> QED
    BY <1>1, <1>2, <1>3, <1>4, <1>5, <1>6, <1>7 DEF Next

-----------------------------------------------------------------------------
(* The threads.                                                            *)

\* The windows of a batch are windows of events.
LEMMA WindowsType ==
  ASSUME NEW b \in Batches, NEW kinds
  PROVE  Windows(b, kinds) \subseteq {WindowOf(e) : e \in Events}
  BY DEF Windows, Events

LEMMA ThreadsKept == ThreadsOK /\ [Next]_vars => ThreadsOK'
  <1> SUFFICES ASSUME ThreadsOK, [Next]_vars PROVE ThreadsOK'
    OBVIOUS
  <1> USE NamesAssumption DEF ThreadsOK, At, GoTo, Forget, Proceed, Raise, Stages
  <1>1. ASSUME NEW t \in Consumers, NEW b \in Batches, Process(t, b)
        PROVE  ThreadsOK'
    BY <1>1, WindowsType DEF Process, scorer
  <1>2. ASSUME NEW t \in Consumers, EnterScorer(t) \/ LeaveScorer(t)
        PROVE  ThreadsOK'
    BY <1>2 DEF EnterScorer, LeaveScorer
  <1>3. ASSUME NEW t \in Consumers, ScoreWindow(t)
        PROVE  ThreadsOK'
    BY <1>3 DEF ScoreWindow
  <1>4. ASSUME NEW t \in Consumers, ScoreRaises(t)
        PROVE  ThreadsOK'
    BY <1>4 DEF ScoreRaises
  <1>5. ASSUME NEW t \in Consumers, \/ NothingToReport(t) \/ Monitor(t) \/ MonitorRaises(t)
                                    \/ Detect(t) \/ DetectRaises(t)
        PROVE  ThreadsOK'
    BY <1>5 DEF NothingToReport, Monitor, MonitorRaises, Detect, DetectRaises, scorer
  <1>6. ASSUME NEW t \in Consumers, \/ Explain(t) \/ ExplainRaises(t) \/ Assist(t) \/ AssistRaises(t)
                                    \/ Decide(t) \/ DecideRaises(t)
        PROVE  ThreadsOK'
    BY <1>6 DEF Explain, ExplainRaises, Assist, AssistRaises, Decide, DecideRaises, scorer
  <1>7. CASE Restart
    BY <1>7 DEF Restart
  <1>8. CASE LearnNormal \/ Finished \/ UNCHANGED vars
    BY <1>8 DEF LearnNormal, Finished, vars, threads, scorer
  <1> QED
    BY <1>1, <1>2, <1>3, <1>4, <1>5, <1>6, <1>7, <1>8 DEF Next

\* A batch in hand is finite and has been delivered.
LEMMA LotsKept == ThreadsOK /\ Lots /\ [Next]_vars => Lots'
  <1> SUFFICES ASSUME ThreadsOK, Lots, [Next]_vars PROVE Lots'
    OBVIOUS
  <1> USE DEF Lots
  <1>1. Lot({}) /\ \A b \in Batches : Lot(b)
    BY EventsAssumption, FS_EmptySet DEF Lot, Events
  <1>2. delivered \subseteq delivered'
    BY ScorerSteps DEF Quiet, Restarts, Scores
  <1>3. ASSUME NEW t \in Consumers
        PROVE  \/ batch'[t] = batch[t] \/ batch'[t] = {}
               \/ batch'[t] \in Batches /\ batch'[t] \subseteq delivered'
    <2> USE DEF ThreadsOK, Forget, Proceed, Raise, threads, history
    <2>1. ASSUME NEW u \in Consumers, NEW b \in Batches, Process(u, b)
          PROVE  batch'[t] = batch[t] \/ (batch'[t] \in Batches /\ batch'[t] \subseteq delivered')
      BY <2>1 DEF Process
    <2>2. ASSUME NEW u \in Consumers, \/ EnterScorer(u) \/ ScoreWindow(u) \/ LeaveScorer(u)
                                      \/ Monitor(u) \/ Detect(u) \/ Explain(u) \/ Assist(u)
          PROVE  batch' = batch
      BY <2>2 DEF EnterScorer, ScoreWindow, LeaveScorer, Monitor, Detect, Explain, Assist
    <2>3. ASSUME NEW u \in Consumers, \/ ScoreRaises(u) \/ NothingToReport(u) \/ MonitorRaises(u)
                                      \/ DetectRaises(u) \/ ExplainRaises(u) \/ AssistRaises(u)
                                      \/ Decide(u) \/ DecideRaises(u)
          PROVE  batch'[t] = batch[t] \/ batch'[t] = {}
      BY <2>3 DEF ScoreRaises, NothingToReport, MonitorRaises, DetectRaises, ExplainRaises,
         AssistRaises, Decide, DecideRaises
    <2>4. CASE Restart
      BY <2>4 DEF Restart
    <2>5. CASE LearnNormal \/ Finished \/ UNCHANGED vars
      BY <2>5 DEF LearnNormal, Finished, vars
    <2> QED
      BY <2>1, <2>2, <2>3, <2>4, <2>5 DEF Next
  <1> QED
    BY <1>1, <1>2, <1>3 DEF Lot

-----------------------------------------------------------------------------
(* The alarms are what the readings say.                                   *)

CountersKnow ==
  /\ DOMAIN counters = Conditions /\ DOMAIN seen = Conditions
  /\ counters = [c \in Conditions |-> counters[c]] /\ seen = [c \in Conditions |-> seen[c]]
  /\ \A c \in Conditions : Knows(counters[c], seen[c])

\* A window's reading, known or not, leaves the counter knowing.
LEMMA ObservedKnows ==
  ASSUME NEW b, Lot(b), NEW w, NEW c \in Conditions, Knows(counters[c], seen[c])
  PROVE  Knows(Observed(b, w, c), Followed(b, w, c))
  <1>1. CASE Level(b, w, c) = "unknown"
    BY <1>1 DEF Observed, Followed
  <1>2. CASE Level(b, w, c) # "unknown"
    BY <1>2, LevelKnown, ObserveKnows DEF Observed, Followed
  <1> QED
    BY <1>1, <1>2

LEMMA CountersKept == Lots /\ CountersKnow /\ [Next]_vars => CountersKnow'
  <1> SUFFICES ASSUME Lots, CountersKnow, [Next]_vars PROVE CountersKnow'
    OBVIOUS
  <1> USE DEF CountersKnow
  <1>1. CASE Quiet
    BY <1>1 DEF Quiet
  <1>2. CASE Restarts
    BY <1>2, FreshKnows DEF Restarts
  <1>3. ASSUME NEW t \in Consumers, NEW w, NEW i, Scores(t, w, i)
        PROVE  CountersKnow'
    <2>1. \A c \in Conditions : Knows(Observed(batch[t], w, c), Followed(batch[t], w, c))
      BY ObservedKnows DEF Lots
    <2> QED
      BY <1>3, <2>1 DEF Scores, ScoreUpTo
  <1> QED
    BY <1>1, <1>2, <1>3, ScorerSteps

\* Before the first batch.
LEMMA Start == Init => ThreadsOK /\ Lots /\ CountersKnow
  <1> SUFFICES ASSUME Init PROVE ThreadsOK /\ Lots /\ CountersKnow
    OBVIOUS
  <1>1. ThreadsOK
    BY NamesAssumption DEF Init, ThreadsOK, At, Stages
  <1>2. Lots
    BY FS_EmptySet DEF Init, Lots, Lot
  <1>3. CountersKnow
    BY FreshKnows DEF Init, CountersKnow
  <1> QED
    BY <1>1, <1>2, <1>3

\* The three hold together.
THEOREM ScorerKnows == Spec => [](ThreadsOK /\ Lots /\ CountersKnow)
  BY Start, ThreadsKept, LotsKept, CountersKept, PTL DEF Spec

\* In all interleavings of the collectors' threads, and when writes raise, the
\* alarm of a condition is what the readings that counted say.
THEOREM AlarmIsExact == Spec => []ActiveExactly
  <1>1. CountersKnow => ActiveExactly
    BY DEF CountersKnow, Knows, ActiveExactly
  <1> QED
    BY <1>1, ScorerKnows, PTL

-----------------------------------------------------------------------------
(* Types.                                                                  *)

CountsOK ==
  /\ failures \in [Range(UnitOrder) -> [Times -> Nat]]
  /\ cached \in BOOLEAN /\ baseline \in BOOLEAN

LEMMA RecordedType ==
  ASSUME NEW b, Lot(b), NEW w, NEW u, failures[u] \in [Times -> Nat]
  PROVE  Recorded(b, w, u) \in [Times -> Nat]
  <1>1. ASSUME NEW t \in Times PROVE Cardinality({e \in Failed(b, w, u) : e.at = t}) \in Nat
    <2>1. {e \in Failed(b, w, u) : e.at = t} \subseteq b
      BY DEF Failed, In
    <2> QED
      BY <2>1, FS_Subset, FS_CardinalityType DEF Lot
  <1> QED
    BY <1>1 DEF Recorded

LEMMA CountsKept == Lots /\ CountsOK /\ [Next]_vars => CountsOK'
  <1> SUFFICES ASSUME Lots, CountsOK, [Next]_vars PROVE CountsOK'
    OBVIOUS
  <1> USE DEF CountsOK, Proceed, Raise, LoadBaseline
  <1>1. ASSUME NEW t \in Consumers, NEW w, NEW i, ScoreUpTo(batch[t], w, i)
        PROVE  failures' \in [Range(UnitOrder) -> [Times -> Nat]]
    <2>1. \A u \in Range(UnitOrder) : Recorded(batch[t], w, u) \in [Times -> Nat]
      BY RecordedType DEF Lots
    <2> QED
      BY <1>1, <2>1 DEF ScoreUpTo
  <1>2. ASSUME NEW t \in Consumers, ScoreWindow(t) \/ ScoreRaises(t)
        PROVE  CountsOK'
    BY <1>1, <1>2 DEF ScoreWindow, ScoreRaises
  <1>3. ASSUME NEW t \in Consumers, \/ \E b \in Batches : Process(t, b)
                                    \/ EnterScorer(t) \/ LeaveScorer(t)
        PROVE  CountsOK'
    BY <1>3 DEF Process, EnterScorer, LeaveScorer, scorer
  <1>4. ASSUME NEW t \in Consumers, NothingToReport(t) \/ Monitor(t) \/ MonitorRaises(t)
        PROVE  CountsOK'
    BY <1>4 DEF NothingToReport, Monitor, MonitorRaises, scorer
  <1>5. ASSUME NEW t \in Consumers, \/ Detect(t) \/ DetectRaises(t) \/ Explain(t) \/ ExplainRaises(t)
                                    \/ Assist(t) \/ AssistRaises(t) \/ Decide(t) \/ DecideRaises(t)
        PROVE  CountsOK'
    BY <1>5 DEF Detect, DetectRaises, Explain, ExplainRaises, Assist, AssistRaises, Decide,
       DecideRaises, scorer
  <1>6. CASE LearnNormal \/ Finished \/ UNCHANGED vars
    BY <1>6 DEF LearnNormal, Finished, vars, scorer
  <1>7. CASE Restart
    BY <1>7 DEF Restart
  <1> QED
    BY <1>2, <1>3, <1>4, <1>5, <1>6, <1>7 DEF Next

\* The variables keep their types, and no two threads are in the scorer.
THEOREM TypeCorrect == Spec => []TypeOK
  <1>1. ASSUME Init PROVE CountsOK
    <2>1. failures = [u \in Range(UnitOrder) |-> [t \in Times |-> 0]]
      BY <1>1 DEF Init
    <2>2. failures \in [Range(UnitOrder) -> [Times -> Nat]]
      BY <2>1
    <2>3. cached \in BOOLEAN /\ baseline \in BOOLEAN
      BY <1>1, Zenon DEF Init
    <2> QED
      BY <2>2, <2>3 DEF CountsOK
  <1>2. Spec => []CountsOK
    BY <1>1, CountsKept, ScorerKnows, PTL DEF Spec
  <1>3. ThreadsOK /\ CountersKnow /\ CountsOK => TypeOK
    BY DEF CountersKnow, Knows, CountsOK, TypeOK
  <1> QED
    BY <1>2, <1>3, ScorerKnows, PTL

-----------------------------------------------------------------------------
(* What is in force is in the database, or its write raised.               *)

Reported(c, w) ==
  \/ Alarm(w, "host", c) \in alarms \cup unsaved
  \/ /\ c = "memory_pressure_medium"
     /\ Alarm(w, "host", "memory_pressure_high") \in alarms \cup unsaved

StoredInv ==
  \A c \in Conditions : counters[c].active => Reported(c, counters[c].last)

\* A counter that is not stale moves to the window.
LEMMA ObserveLast ==
  ASSUME NEW c \in CounterType, NEW x, NEW w, ~Stale(c, w)
  PROVE  Observe(c, x, w).last = w
  BY DEF Observe, Breached, Cleared, CounterType

\* A condition in force is reported, by itself or by the one above it.
LEMMA HostAlarmCovers ==
  ASSUME NEW b, NEW w, NEW i \in DOMAIN Readings, NEW c \in Range(Readings[i]), InForce(b, w, c)
  PROVE  \/ Alarm(w, "host", c) \in HostAlarm(b, w, i)
         \/ /\ c = "memory_pressure_medium"
            /\ Alarm(w, "host", "memory_pressure_high") \in HostAlarm(b, w, i)
  <1>1. ASSUME NEW k \in DOMAIN Readings[i], InForce(b, w, Readings[i][k]),
               \A j \in 1..(k - 1) : ~InForce(b, w, Readings[i][j])
        PROVE  Alarm(w, "host", Readings[i][k]) \in HostAlarm(b, w, i)
    BY <1>1 DEF HostAlarm
  <1>2. CASE 1 \in DOMAIN Readings[i] /\ Readings[i][1] = c
    <2>1. 1..(1 - 1) = {}
      OBVIOUS
    <2> QED
      BY <1>1, <1>2, <2>1
  <1>3. CASE /\ DOMAIN Readings[i] = 1..2 /\ Readings[i][2] = c
             /\ Readings[i][1] = "memory_pressure_high" /\ c = "memory_pressure_medium"
    <2>1. 1..(2 - 1) = {1} /\ 1..(1 - 1) = {} /\ 1 \in DOMAIN Readings[i] /\ 2 \in DOMAIN Readings[i]
      BY <1>3
    <2> QED
      BY <1>1, <1>3, <2>1
  <1> QED
    BY <1>2, <1>3, ReadingOf

\* What is written up to place i, and what is lost at i.
LEMMA AlarmsOfReading ==
  ASSUME NEW t, NEW w, NEW i, Scores(t, w, i), NEW j \in DOMAIN Readings, j <= i
  PROVE  HostAlarm(batch[t], w, j) \subseteq alarms' \cup unsaved'
  <1>1. j \in Places /\ IsReading(j) /\ i \in Nat /\ j \in Nat
    BY NamesAssumption DEF Readings, Places, IsReading, Scores
  <1>2. AlarmAt(batch[t], w, j) = HostAlarm(batch[t], w, j)
    BY <1>1 DEF AlarmAt
  <1>3. CASE j < i
    BY <1>1, <1>2, <1>3 DEF Scores, ScoreUpTo
  <1>4. CASE j = i
    BY <1>1, <1>2, <1>4 DEF Scores
  <1> QED
    BY <1>1, <1>3, <1>4

LEMMA StoredKept == Lots /\ CountersKnow /\ StoredInv /\ [Next]_vars => StoredInv'
  <1> SUFFICES ASSUME Lots, CountersKnow, StoredInv, [Next]_vars PROVE StoredInv'
    OBVIOUS
  <1> USE DEF StoredInv
  <1>1. CASE Quiet
    BY <1>1 DEF Quiet, Reported
  <1>2. CASE Restarts
    BY <1>2 DEF Restarts, Fresh
  <1>3. ASSUME NEW t \in Consumers, NEW w, NEW i, Scores(t, w, i),
               NEW c \in Conditions, counters'[c].active
        PROVE  Reported(c, counters[c].last)'
    <2>1. alarms \subseteq alarms' /\ unsaved \subseteq unsaved'
      BY <1>3 DEF Scores, ScoreUpTo
    <2>2. CASE counters'[c] = counters[c]
      BY <1>3, <2>1, <2>2 DEF Reported
    <2>3. CASE counters'[c] # counters[c]
      <3>1. PICK j \in DOMAIN Readings : j <= i /\ c \in Range(Readings[j])
        BY <1>3, <2>3 DEF Scores, ScoreUpTo
      <3>2. counters'[c] = Observed(batch[t], w, c)
        BY <1>3, <3>1 DEF Scores, ScoreUpTo
      <3>3. Level(batch[t], w, c) # "unknown" /\ ~Stale(counters[c], w)
        BY <2>3, <3>2 DEF Observed, Observe
      <3>4. counters'[c].last = w
        BY <3>2, <3>3, ObserveLast DEF Observed, CountersKnow, Knows
      <3>5. InForce(batch[t], w, c)
        BY <1>3, <3>2, <3>3 DEF InForce
      <3>6. HostAlarm(batch[t], w, j) \subseteq alarms' \cup unsaved'
        BY <1>3, <3>1, AlarmsOfReading
      <3> QED
        BY <3>1, <3>4, <3>5, <3>6, HostAlarmCovers DEF Reported
    <2> QED
      BY <2>2, <2>3
  <1> QED
    BY <1>1, <1>2, <1>3, ScorerSteps

\* A condition in force has its finding for the last window it was observed in,
\* or the write of that finding raised.
THEOREM InForceStored == Spec => []InForceIsStored
  <1>1. Init => StoredInv
    BY DEF Init, StoredInv, Fresh
  <1>2. Spec => []StoredInv
    BY <1>1, StoredKept, ScorerKnows, PTL DEF Spec
  <1>3. CountersKnow /\ StoredInv => InForceIsStored
    BY DEF CountersKnow, Knows, StoredInv, Reported, InForceIsStored
  <1> QED
    BY <1>2, <1>3, ScorerKnows, PTL

-----------------------------------------------------------------------------
(* An alarm of the host rests on enough windows.                           *)

BadWindows(c) ==
  {WindowOf(e) : e \in {x \in delivered : x.kind = "health" /\ x.level[c] = "high"}}

Enough(c) == Cardinality(BadWindows(c)) >= BreachNeeded

\* As many bad windows as the counter has counted, none of them later than its last.
Counted(c) ==
  \E H \in SUBSET BadWindows(c) :
    /\ IsFiniteSet(H) /\ Cardinality(H) = counters[c].breach
    /\ \A h \in H : h <= counters[c].last

DeliveredOK == IsFiniteSet(delivered) /\ delivered \subseteq Events

SustainInv ==
  /\ DeliveredOK
  /\ \A c \in Conditions : IF counters[c].active THEN Enough(c) ELSE Counted(c)
  /\ \A a \in alarms : a.entity = "host" => a.condition \in Conditions /\ Enough(a.condition)

LEMMA WindowsFinite ==
  ASSUME NEW D, IsFiniteSet(D), D \subseteq Events, NEW c,
         NEW W, W = {WindowOf(e) : e \in {x \in D : x.kind = "health" /\ x.level[c] = "high"}}
  PROVE  IsFiniteSet(W) /\ W \subseteq Nat /\ Cardinality(W) \in Nat
  <1> DEFINE E == {x \in D : x.kind = "health" /\ x.level[c] = "high"}
             f == [e \in E |-> WindowOf(e)]
  <1>1. IsFiniteSet(E) /\ E \subseteq Events
    BY FS_Subset
  <1>2. f \in Surjection(E, W)
    BY DEF Surjection
  <1> HIDE DEF f, E
  <1>3. IsFiniteSet(W)
    BY <1>1, <1>2, FS_Surjection
  <1>4. W \subseteq Nat
    BY <1>1, WindowType DEF E
  <1> QED
    BY <1>3, <1>4, FS_CardinalityType

\* What is delivered stays, and so do the windows.
LEMMA DeliveredKept ==
  ASSUME DeliveredOK, [Next]_vars
  PROVE  DeliveredOK' /\ delivered \subseteq delivered'
  <1>1. CASE delivered' = delivered
    BY <1>1 DEF DeliveredOK
  <1>2. ASSUME NEW b \in Batches, delivered' = delivered \cup b PROVE DeliveredOK'
    BY <1>2, EventsAssumption, FS_Union DEF DeliveredOK, Events
  <1> QED
    BY <1>1, <1>2, ScorerSteps DEF Quiet, Restarts, Scores

LEMMA EnoughKept ==
  ASSUME DeliveredOK, [Next]_vars, NEW c, Enough(c)
  PROVE  Enough(c)'
  <1>1. BadWindows(c) \subseteq BadWindows(c)'
    BY DeliveredKept DEF BadWindows
  <1>2. IsFiniteSet(BadWindows(c)) /\ Cardinality(BadWindows(c)) \in Nat
    BY WindowsFinite DEF DeliveredOK, BadWindows
  <1>3. IsFiniteSet(BadWindows(c)') /\ Cardinality(BadWindows(c)') \in Nat
    BY DeliveredKept, WindowsFinite DEF DeliveredOK, BadWindows
  <1>4. Cardinality(BadWindows(c)) <= Cardinality(BadWindows(c)')
    BY <1>1, <1>3, FS_Subset
  <1> QED
    BY <1>2, <1>3, <1>4 DEF Enough

\* A bad window that is heard is one more.
LEMMA CountedStep ==
  ASSUME NEW b, Lot(b), b \subseteq delivered, DeliveredOK, NEW w, NEW c \in Conditions,
         Knows(counters[c], seen[c]),
         IF counters[c].active THEN Enough(c) ELSE Counted(c)
  PROVE  IF Observed(b, w, c).active
         THEN Enough(c)
         ELSE \E H \in SUBSET BadWindows(c) :
                /\ IsFiniteSet(H) /\ Cardinality(H) = Observed(b, w, c).breach
                /\ \A h \in H : h <= Observed(b, w, c).last
  <1> DEFINE k == counters[c]
             lv == Level(b, w, c)
             d == Observed(b, w, c)
             Goal == IF d.active THEN Enough(c)
                     ELSE \E H \in SUBSET BadWindows(c) :
                            /\ IsFiniteSet(H) /\ Cardinality(H) = d.breach
                            /\ \A h \in H : h <= d.last
  <1> SUFFICES Goal
    OBVIOUS
  <1>1. CASE lv = "unknown" \/ Stale(k, w)
    BY <1>1 DEF Observed, Observe, Counted
  <1>2. CASE lv # "unknown" /\ ~Stale(k, w)
    <2>1. lv \in Levels /\ w \in Nat
      BY <1>2, LevelKnown
    <2>2. k \in CounterType /\ k.breach \in Nat /\ k.last \in Nat \cup {NoWindow}
      BY DEF Knows, CounterType
    <2>3. d = Observe(k, lv, w) /\ d.last = w
      BY <1>2, <2>2, ObserveLast DEF Observed
    <2>4. CASE InBreach(k.active, lv) /\ ~k.active
      <3>1. lv = "high"
        BY <2>4 DEF InBreach
      <3>2. w \in BadWindows(c)
        BY <1>2, <3>1, LevelKnown DEF BadWindows, In
      <3>3. PICK H \in SUBSET BadWindows(c) :
              IsFiniteSet(H) /\ Cardinality(H) = k.breach /\ \A h \in H : h <= k.last
        BY <2>4 DEF Counted
      <3>4. \A h \in H : h < w
        <4>1. H \subseteq Nat
          BY WindowsFinite DEF DeliveredOK, BadWindows
        <4> QED
          BY <1>2, <2>1, <2>2, <3>3, <4>1 DEF Stale, NoWindow
      <3>5. IsFiniteSet(H \cup {w}) /\ Cardinality(H \cup {w}) = k.breach + 1
        <4>1. w \notin H
          BY <2>1, <3>4
        <4> QED
          BY <3>3, <4>1, FS_AddElement
      <3>6. d.breach = k.breach + 1 /\ (d.active <=> k.breach + 1 >= BreachNeeded)
        BY <1>2, <2>1, <2>2, <2>3, <2>4, BreachedFields DEF Observe
      <3>7. CASE d.active
        <4>1. Cardinality(H \cup {w}) <= Cardinality(BadWindows(c)) /\ Cardinality(BadWindows(c)) \in Nat
          BY <3>2, <3>3, WindowsFinite, FS_Subset, SMTT(30) DEF DeliveredOK, BadWindows
        <4> QED
          BY <2>2, <3>5, <3>6, <3>7, <4>1 DEF Enough
      <3>8. CASE ~d.active
        <4>1. \A h \in H \cup {w} : h <= w
          <5>1. H \subseteq Nat
            BY WindowsFinite DEF DeliveredOK, BadWindows
          <5> QED
            BY <2>1, <3>4, <5>1
        <4> QED
          BY <2>3, <3>2, <3>5, <3>6, <3>8, <4>1
      <3> QED
        BY <3>7, <3>8
    <2>5. CASE k.active
      <3>1. CASE d.active
        BY <2>5, <3>1
      <3>2. CASE ~d.active
        <4>1. ~InBreach(k.active, lv)
          BY <1>2, <2>1, <2>2, <2>3, <2>5, <3>2, BreachedFields DEF Observe
        <4>2. d.breach = 0
          BY <1>2, <2>1, <2>2, <2>3, <4>1, ClearedFields DEF Observe
        <4>3. IsFiniteSet({}) /\ Cardinality({}) = 0
          BY FS_EmptySet
        <4> QED
          BY <3>2, <4>2, <4>3
      <3> QED
        BY <3>1, <3>2
    <2>6. CASE ~InBreach(k.active, lv) /\ ~k.active
      <3>0. d = Cleared(k, w)
        BY <1>2, <2>3, <2>6 DEF Observe
      <3> HIDE DEF d
      <3>1. d.breach = 0 /\ ~d.active
        BY <2>1, <2>2, <2>6, <3>0, ClearedFields
      <3>2. IsFiniteSet({}) /\ Cardinality({}) = 0
        BY FS_EmptySet
      <3> QED
        BY <3>1, <3>2
    <2> QED
      BY <2>4, <2>5, <2>6
  <1> QED
    BY <1>1, <1>2

\* A new finding about the host is of a condition in force.
LEMMA NewHostAlarm ==
  ASSUME NEW t, NEW w, NEW i, Scores(t, w, i),
         NEW a \in alarms', a \notin alarms, a.entity = "host"
  PROVE  a.condition \in Conditions /\ counters'[a.condition].active
  <1>1. PICK j \in Places : j < i /\ a \in AlarmAt(batch[t], w, j)
    BY DEF Scores, ScoreUpTo
  <1>2. j \in Nat /\ i \in Nat /\ Len(Readings) = 4 /\ DOMAIN Readings = 1..4
        /\ Len(UnitOrder) \in Nat /\ j >= 1 /\ j <= 4 + Len(UnitOrder)
    BY NamesAssumption DEF Places, Readings, Scores
  <1>3. CASE IsReading(j)
    <2>1. j \in DOMAIN Readings /\ a \in HostAlarm(batch[t], w, j)
      BY <1>1, <1>2, <1>3 DEF AlarmAt, IsReading
    <2>2. PICK n \in DOMAIN Readings[j] :
            a = Alarm(w, "host", Readings[j][n]) /\ InForce(batch[t], w, Readings[j][n])
      BY <2>1 DEF HostAlarm
    <2>3. a.condition = Readings[j][n]
      BY <2>2 DEF Alarm
    <2>4. a.condition \in Conditions /\ a.condition \in Range(Readings[j])
      BY <2>1, <2>2, <2>3, ReadingType
    <2>5. counters'[a.condition] = Observed(batch[t], w, a.condition)
      BY <1>1, <1>2, <2>1, <2>4 DEF Scores, ScoreUpTo
    <2> QED
      BY <2>2, <2>3, <2>4, <2>5 DEF InForce
  <1>4. CASE ~IsReading(j)
    <2>1. a \in UnitAlarm(batch[t], w, Unit(j))
      BY <1>1, <1>4 DEF AlarmAt
    <2>2. a.entity = Unit(j)
      BY <2>1 DEF UnitAlarm, Alarm
    <2>3. j - 4 \in 1..Len(UnitOrder)
      BY <1>2, <1>4 DEF IsReading
    <2>4. Unit(j) \in Range(UnitOrder)
      BY <1>2, <2>3, NamesAssumption DEF Unit, Range
    <2> QED
      BY <2>2, <2>4, NamesAssumption
  <1> QED
    BY <1>3, <1>4

LEMMA SustainKept == Lots /\ CountersKnow /\ SustainInv /\ [Next]_vars => SustainInv'
  <1> SUFFICES ASSUME Lots, CountersKnow, SustainInv, [Next]_vars PROVE SustainInv'
    OBVIOUS
  <1>1. DeliveredOK' /\ \A c : BadWindows(c) \subseteq BadWindows(c)' /\ (Enough(c) => Enough(c)')
    BY DeliveredKept, EnoughKept DEF SustainInv, BadWindows
  <1>2. CASE Quiet
    BY <1>1, <1>2 DEF Quiet, SustainInv, Counted
  <1>3. CASE Restarts
    <2>1. \A c \in Conditions : ~counters'[c].active /\ Counted(c)'
      BY <1>3, FS_EmptySet DEF Restarts, Fresh, Counted
    <2> QED
      BY <1>1, <1>3, <2>1 DEF Restarts, SustainInv
  <1>4. ASSUME NEW t \in Consumers, NEW w, NEW i, Scores(t, w, i)
        PROVE  SustainInv'
    <2>1. ASSUME NEW c \in Conditions
          PROVE  (IF counters[c].active THEN Enough(c) ELSE Counted(c))'
      <3>1. CASE counters'[c] = counters[c]
        BY <1>1, <3>1 DEF SustainInv, Counted
      <3>2. CASE counters'[c] # counters[c]
        <4>1. counters'[c] = Observed(batch[t], w, c)
          BY <1>4, <3>2 DEF Scores, ScoreUpTo
        <4>2. IF Observed(batch[t], w, c).active
              THEN Enough(c)
              ELSE \E H \in SUBSET BadWindows(c) :
                     /\ IsFiniteSet(H) /\ Cardinality(H) = Observed(batch[t], w, c).breach
                     /\ \A h \in H : h <= Observed(batch[t], w, c).last
          BY CountedStep DEF SustainInv, CountersKnow, Lots
        <4> QED
          BY <1>1, <4>1, <4>2 DEF Counted
      <3> QED
        BY <3>1, <3>2
    <2>2. ASSUME NEW a \in alarms', a.entity = "host"
          PROVE  a.condition \in Conditions /\ Enough(a.condition)'
      <3>1. CASE a \in alarms
        BY <1>1, <2>2, <3>1 DEF SustainInv
      <3>2. CASE a \notin alarms
        <4>1. a.condition \in Conditions /\ counters'[a.condition].active
          BY <1>4, <2>2, <3>2, NewHostAlarm
        <4> QED
          BY <2>1, <4>1
      <3> QED
        BY <3>1, <3>2
    <2> QED
      BY <1>1, <2>1, <2>2 DEF SustainInv
  <1> QED
    BY <1>2, <1>3, <1>4, ScorerSteps

\* A finding about the host rests on bad readings from enough different windows.
THEOREM AlarmsSustained == Spec => []SustainedOnly
  <1>1. ASSUME Init PROVE SustainInv
    <2>1. \A c \in Conditions : ~counters[c].active /\ Counted(c)
      BY <1>1, FS_EmptySet DEF Init, Fresh, Counted
    <2>2. DeliveredOK /\ alarms = {}
      BY <1>1, FS_EmptySet DEF Init, EmptyTables, DeliveredOK
    <2> QED
      BY <2>1, <2>2 DEF SustainInv
  <1>2. Spec => []SustainInv
    BY <1>1, SustainKept, ScorerKnows, PTL DEF Spec
  <1>3. SustainInv => SustainedOnly
    BY DEF SustainInv, Enough, BadWindows, SustainedOnly
  <1> QED
    BY <1>2, <1>3, PTL

-----------------------------------------------------------------------------
(* Every finding is decided, or accounted for.                             *)

KeysOf(fs) == {Key(f) : f \in fs}

Early == {"idle", "enter", "score", "monitor", "detect"}

\* What a thread holds at each stage.
DispositionInv ==
  /\ DispositionComplete
  /\ \A t \in Consumers :
       /\ pc[t] \in Early => Keys(found[t]) = {}
       /\ pc[t] \in {"assist", "decide"} => Keys(found[t]) \subseteq KeysOf(explained)
       /\ pc[t] = "decide" => Keys(found[t]) \subseteq answered

LEMMA NoKeys == Keys(<<>>) = {}
  BY DEF Keys

LEMMA PrefixKeys ==
  ASSUME NEW s, NEW p \in ProperPrefixes(s)
  PROVE  Keys(p) \subseteq Keys(s)
  <1>1. PICK n \in DOMAIN s : p = [i \in {j \in DOMAIN s : j < n} |-> s[i]]
    BY DEF ProperPrefixes
  <1>2. \A i \in DOMAIN p : i \in DOMAIN s /\ p[i] = s[i]
    BY <1>1
  <1> QED
    BY <1>2 DEF Keys

\* The replaced rows have their key in the table still.
LEMMA ExplainedKeys ==
  ASSUME NEW fs
  PROVE  KeysOf(Explained(fs)) = KeysOf(explained) \cup Keys(fs)
  <1>1. Keys(fs) = {Key(f) : f \in Range(fs)}
    BY DEF Keys, Range
  <1> QED
    BY <1>1 DEF Explained, KeysOf

LEMMA StoredKeys ==
  ASSUME NEW fs
  PROVE  KeysOf(Stored(fs)) \subseteq KeysOf(findings) \cup Keys(fs)
  <1>1. Keys(fs) = {Key(f) : f \in Range(fs)}
    BY DEF Keys, Range
  <1> QED
    BY <1>1 DEF Stored, KeysOf

LEMMA DispositionKept == ThreadsOK /\ DispositionInv /\ [Next]_vars => DispositionInv'
  <1> SUFFICES ASSUME ThreadsOK, DispositionInv, [Next]_vars PROVE DispositionInv'
    OBVIOUS
  <1> USE NoKeys DEF DispositionInv, DispositionComplete, KeysOf, Early, ThreadsOK, Stages, At, GoTo,
          Forget, Proceed, Raise
  <1>1. ASSUME NEW t \in Consumers, \/ \E b \in Batches : Process(t, b)
                                    \/ EnterScorer(t) \/ LeaveScorer(t)
        PROVE  DispositionInv'
    BY <1>1 DEF Process, EnterScorer, LeaveScorer, evidence, history
  <1>2. ASSUME NEW t \in Consumers, ScoreWindow(t) \/ ScoreRaises(t)
        PROVE  DispositionInv'
    BY <1>2 DEF ScoreWindow, ScoreRaises, history
  <1>3. ASSUME NEW t \in Consumers, NothingToReport(t) \/ Monitor(t) \/ MonitorRaises(t)
        PROVE  DispositionInv'
    BY <1>3 DEF NothingToReport, Monitor, MonitorRaises, evidence, history
  <1>4. ASSUME NEW t \in Consumers, Detect(t) \/ DetectRaises(t)
        PROVE  DispositionInv'
    BY <1>4, StoredKeys DEF Detect, DetectRaises
  <1>5. ASSUME NEW t \in Consumers, Explain(t) \/ ExplainRaises(t)
        PROVE  DispositionInv'
    <2>1. CASE Explain(t)
      <3>1. KeysOf(explained') = KeysOf(explained) \cup Keys(found[t])
        BY <2>1, ExplainedKeys DEF Explain
      <3> QED
        BY <2>1, <3>1, SMTT(30) DEF Explain
    <2>2. CASE ExplainRaises(t)
      <3>1. PICK p \in ProperPrefixes(found[t]) : explained' = Explained(p)
        BY <2>2 DEF ExplainRaises
      <3>2. KeysOf(explained') = KeysOf(explained) \cup Keys(p)
        BY <3>1, ExplainedKeys
      <3>3. KeysOf(explained) \subseteq KeysOf(explained')
        BY <3>2
      <3>4. broken' = broken \cup Keys(found[t]) /\ UNCHANGED <<findings, answered, decided>>
        BY <2>2 DEF ExplainRaises
      <3>5. /\ pc'[t] = "idle" /\ Keys(found'[t]) = {}
            /\ \A u \in Consumers \ {t} : pc'[u] = pc[u] /\ found'[u] = found[u]
        BY <2>2 DEF ExplainRaises
      <3>6. DispositionComplete'
        <4>1. decided' \subseteq answered' \cap KeysOf(explained')
          BY <3>3, <3>4
        <4>2. ASSUME NEW k \in KeysOf(findings), k \notin decided, k \notin broken'
              PROVE  \E u \in Consumers : k \in Keys(found'[u])
          <5>1. PICK u \in Consumers : k \in Keys(found[u])
            BY <3>4, <4>2
          <5> QED
            BY <3>4, <3>5, <4>2, <5>1
        <4> HIDE DEF KeysOf
        <4> QED
          BY <3>4, <4>1, <4>2 DEF KeysOf
      <3> QED
        BY <3>3, <3>4, <3>5, <3>6
    <2> QED
      BY <1>5, <2>1, <2>2
  <1>6. ASSUME NEW t \in Consumers, Assist(t) \/ AssistRaises(t)
        PROVE  DispositionInv'
    BY <1>6, PrefixKeys DEF Assist, AssistRaises
  <1>7. ASSUME NEW t \in Consumers, Decide(t) \/ DecideRaises(t)
        PROVE  DispositionInv'
    BY <1>7, PrefixKeys DEF Decide, DecideRaises, history
  <1>8. CASE Restart
    BY <1>8 DEF Restart, evidence
  <1>9. CASE LearnNormal \/ Finished \/ UNCHANGED vars
    BY <1>9 DEF LearnNormal, Finished, vars, threads, evidence, history
  <1> QED
    BY <1>1, <1>2, <1>3, <1>4, <1>5, <1>6, <1>7, <1>8, <1>9 DEF Next

\* Policy decides only what is explained and answered, and no finding is left
\* without a decision but those on their way and those of calls that failed.
THEOREM FindingsDisposed == Spec => []DispositionComplete
  <1>1. Init => DispositionInv
    BY NoKeys DEF Init, EmptyTables, DispositionInv, DispositionComplete, KeysOf
  <1>2. Spec => []DispositionInv
    BY <1>1, DispositionKept, ScorerKnows, PTL DEF Spec
  <1>3. DispositionInv => DispositionComplete
    BY DEF DispositionInv
  <1> QED
    BY <1>2, <1>3, PTL

-----------------------------------------------------------------------------
(* One finding, from the rules to the decision.                            *)

\* What the stages have made of the finding.
DecisionInv ==
  /\ stage = "detect" <=> finding = Nothing
  /\ finding # Nothing => \E r \in BehaviorRisks, m \in Models : finding = Finding(r, m, spec)
  /\ stage = "unexplained" => ~Consistent(finding)
  /\ stage = "decided" => decision = Decision(finding, response)

\* What the detector stores without a model can be rebuilt.
LEMMA WithoutModel ==
  ASSUME NEW r \in BehaviorRisks, NEW m \in Models, NEW f, f = Finding(r, m, spec),
         f.model = NoModel
  PROVE  Consistent(f)
  <1>1. /\ f.risk = Points(Fused(r, m)) /\ f.behaviour = r.behaviour
        /\ f.rules = FuseRules(Matches(r)) /\ f.context = ContextScore(r) /\ f.matched = Matches(r)
        /\ f.model = IF Available(m) THEN Points(m.score) ELSE NoModel
    BY DEF Finding
  <1>2. ~Available(m)
    <2>1. ASSUME Available(m) PROVE FALSE
      <3>1. m.score \in Nat
        BY <2>1, ScoresAssumption DEF Available
      <3>2. Points(m.score) # NoModel
        BY <3>1 DEF Points, Fine, NoModel
      <3> QED
        BY <1>1, <2>1, <3>2
    <2> QED
      BY <2>1
  <1>3. Fused(r, m) = FusedPlain(f.behaviour, f.rules, f.context)
    BY <1>1, <1>2 DEF Fused
  <1> QED
    BY <1>1, <1>3 DEF Consistent, Recomputed

LEMMA CrossedOne ==
  ASSUME NEW S, NEW a, NEW b, S = {<<a, b>>} PROVE Crossed(S) <=> a >= b
  BY DEF Crossed

LEMMA CrossedBoth ==
  ASSUME NEW S, NEW a, NEW b, NEW c, NEW d, S = {<<a, b>>, <<c, d>>}
  PROVE  Crossed(S) <=> a >= b /\ c >= d
  BY DEF Crossed

\* A rule has matched exactly if its signals are at the thresholds or past them.
LEMMA BoundariesOfRule ==
  ASSUME NEW r \in BehaviorRisks, NEW m, NEW f, f = Finding(r, m, spec), NEW rule \in Rules
  PROVE  f.matched[rule] <=> Crossed(Boundaries(f)[rule])
  <1>1. /\ f.behaviour = r.behaviour /\ f.matched = Matches(r)
        /\ f.observed = [behaviour |-> r.behaviour, oddRoots |-> r.oddRoots,
                         utilities |-> r.utilities, peak |-> r.peak, execs |-> r.execs,
                         uids |-> r.uids]
    BY DEF Finding
  <1>2. /\ r.behaviour \in Nat /\ r.oddRoots \in Nat /\ r.utilities \in Nat
        /\ r.peak \in Nat /\ r.execs \in Nat /\ r.uids \in Nat
    BY ScoresAssumption
  <1>3. CASE rule = "privileged_unusual_execution"
    <2>1. f.matched[rule] = (r.oddRoots > 0 /\ r.behaviour >= Gate)
      BY <1>1, <1>3 DEF Matches
    <2>2. Boundaries(f)[rule] = {<<r.behaviour, Gate>>, <<r.oddRoots, 1>>}
      BY <1>1, <1>3 DEF Boundaries
    <2>3. Crossed(Boundaries(f)[rule]) <=> r.behaviour >= Gate /\ r.oddRoots >= 1
      BY <2>2, CrossedBoth
    <2>4. (r.oddRoots > 0 /\ r.behaviour >= Gate) <=> (r.behaviour >= Gate /\ r.oddRoots >= 1)
      BY <1>2 DEF Gate, PeakExecs, Execs, MinUids
    <2> QED
      BY <2>1, <2>3, <2>4, Zenon
  <1>4. CASE rule = "suspicious_utility_activity"
    <2>1. f.matched[rule] = (r.utilities > 0 /\ r.behaviour >= Gate)
      BY <1>1, <1>4 DEF Matches
    <2>2. Boundaries(f)[rule] = {<<r.behaviour, Gate>>, <<r.utilities, 1>>}
      BY <1>1, <1>4 DEF Boundaries
    <2>3. Crossed(Boundaries(f)[rule]) <=> r.behaviour >= Gate /\ r.utilities >= 1
      BY <2>2, CrossedBoth
    <2>4. (r.utilities > 0 /\ r.behaviour >= Gate) <=> (r.behaviour >= Gate /\ r.utilities >= 1)
      BY <1>2 DEF Gate, PeakExecs, Execs, MinUids
    <2> QED
      BY <2>1, <2>3, <2>4, Zenon
  <1>5. CASE rule = "execution_burst"
    <2>1. f.matched[rule] = (r.peak >= PeakExecs /\ r.execs >= Execs)
      BY <1>1, <1>5 DEF Matches
    <2>2. Boundaries(f)[rule] = {<<r.peak, PeakExecs>>, <<r.execs, Execs>>}
      BY <1>1, <1>5 DEF Boundaries
    <2>3. Crossed(Boundaries(f)[rule]) <=> r.peak >= PeakExecs /\ r.execs >= Execs
      BY <2>2, CrossedBoth
    <2>4. (r.peak >= PeakExecs /\ r.execs >= Execs) <=> (r.peak >= PeakExecs /\ r.execs >= Execs)
      BY <1>2 DEF Gate, PeakExecs, Execs, MinUids
    <2> QED
      BY <2>1, <2>3, <2>4, Zenon
  <1>6. CASE rule = "multi_uid_activity"
    <2>1. f.matched[rule] = (r.uids >= MinUids)
      BY <1>1, <1>6 DEF Matches
    <2>2. Boundaries(f)[rule] = {<<r.uids, MinUids>>}
      BY <1>1, <1>6 DEF Boundaries
    <2>3. Crossed(Boundaries(f)[rule]) <=> r.uids >= MinUids
      BY <2>2, CrossedOne
    <2>4. (r.uids >= MinUids) <=> (r.uids >= MinUids)
      BY <1>2 DEF Gate, PeakExecs, Execs, MinUids
    <2> QED
      BY <2>1, <2>3, <2>4, Zenon
  <1> QED
    BY <1>3, <1>4, <1>5, <1>6 DEF Rules

\* Refused advice leaves a review.
LEMMA RefusedReviewed ==
  ASSUME NEW f, NEW advice, advice.terms \cap DangerousTerms # {}
  PROVE  Decision(f, advice).approval /\ Decision(f, advice).decision \in {"REVIEW_REQUIRED", "DRY_RUN"}
  <1> DEFINE d == Advised(Selected(f), advice)
  <1>1. d.approval /\ d.decision = "REVIEW_REQUIRED"
    BY DEF Advised, Refused
  <1>2. [d EXCEPT !.decision = "DRY_RUN"].approval /\ [d EXCEPT !.decision = "DRY_RUN"].decision = "DRY_RUN"
    BY DEF Advised, Refused
  <1> HIDE DEF d
  <1>3. Decision(f, advice) = IF Fitting(f) = {} THEN FailClosed
                              ELSE IF dryRun /\ d.decision \notin {"ALLOW", "LOG"}
                                   THEN [d EXCEPT !.decision = "DRY_RUN"] ELSE d
    BY DEF Decision, d
  <1> QED
    BY <1>1, <1>2, <1>3 DEF FailClosed

LEMMA DecisionKept == DecisionInv /\ [DecisionNext]_decisionVars => DecisionInv'
  <1> SUFFICES ASSUME DecisionInv, [DecisionNext]_decisionVars PROVE DecisionInv'
    OBVIOUS
  <1> USE DEF DecisionInv, configuration
  <1>1. CASE DetectFinding
    <2>1. PICK r \in BehaviorRisks, m \in Models : finding' = Finding(r, m, spec)
      BY <1>1 DEF DetectFinding
    <2>2. finding' # Nothing
      <3>1. "entity" \in DOMAIN finding' /\ "entity" \notin DOMAIN Nothing
        BY <2>1 DEF Finding, Nothing
      <3> QED
        BY <3>1
    <2> QED
      BY <1>1, <2>1, <2>2 DEF DetectFinding
  <1>2. CASE ExplainFinding
    BY <1>2 DEF ExplainFinding
  <1>3. CASE ExplainFindingRaises
    BY <1>3 DEF ExplainFindingRaises, Consistent, Recomputed
  <1>4. CASE Generate
    BY <1>4 DEF Generate
  <1>5. CASE Evaluate
    BY <1>5 DEF Evaluate, Decision, Fitting, Selected
  <1>6. CASE UNCHANGED decisionVars
    BY <1>6 DEF decisionVars, Decision, Fitting, Selected
  <1> QED
    BY <1>1, <1>2, <1>3, <1>4, <1>5, <1>6 DEF DecisionNext

LEMMA DecisionStart == DecisionInit => DecisionInv
  BY DEF DecisionInit, DecisionInv

THEOREM DecisionsInv == DecisionSpec => []DecisionInv
  BY DecisionStart, DecisionKept, PTL DEF DecisionSpec

\* For any risks, models and configuration: the explainer refuses no finding
\* that was scored without a model.
THEOREM ReconcilesAlone == DecisionSpec => []ReconcilesWithoutModel
  <1>1. DecisionInv => ReconcilesWithoutModel
    BY WithoutModel DEF DecisionInv, ReconcilesWithoutModel
  <1> QED
    BY <1>1, DecisionsInv, PTL

\* The boundaries the explainer lists for a rule are the ones the rule matched on.
THEOREM ExplainsRules == DecisionSpec => []BoundariesExplain
  <1>1. DecisionInv => BoundariesExplain
    BY BoundariesOfRule DEF DecisionInv, BoundariesExplain
  <1> QED
    BY <1>1, DecisionsInv, PTL

\* Advice to act on the host, from any provider under any policies, ends in a review.
THEOREM ControlReviewed == DecisionSpec => []ControlAdviceIsReviewed
  <1>1. DecisionInv => ControlAdviceIsReviewed
    BY RefusedReviewed DEF DecisionInv, ControlAdviceIsReviewed
  <1> QED
    BY <1>1, DecisionsInv, PTL

-----------------------------------------------------------------------------
(* How far the explainer can be from the detector.                         *)

LEMMA ScoresType ==
  ASSUME NEW r \in BehaviorRisks
  PROVE  FuseRules(Matches(r)) \in Int /\ ContextScore(r) \in Int /\ r.behaviour \in Int
  <1>1. \A a, b \in Int : Multiply(a, b) \in Int
    <2>1. ASSUME NEW a \in Int, NEW b \in Int PROVE Multiply(a, b) \in Int
      <3>1. PICK n : n = a * b
        OBVIOUS
      <3>2. n \in Int
        BY <3>1
      <3>3. n \div 10000 \in Int
        BY <3>2
      <3> QED
        BY <3>1, <3>3 DEF Multiply, One
    <2> QED
      BY <2>1
  <1>2. /\ Left(Matches(r), "privileged_unusual_execution") \in Int
        /\ Left(Matches(r), "suspicious_utility_activity") \in Int
        /\ Left(Matches(r), "execution_burst") \in Int
        /\ Left(Matches(r), "multi_uid_activity") \in Int
    BY DEF Left, RuleScore, One
  <1>3. FuseRules(Matches(r)) \in Int
    <2> HIDE DEF Multiply
    <2>1. Multiply(Left(Matches(r), "privileged_unusual_execution"),
                   Left(Matches(r), "suspicious_utility_activity")) \in Int
      BY <1>1, <1>2
    <2>2. Multiply(Left(Matches(r), "execution_burst"),
                   Left(Matches(r), "multi_uid_activity")) \in Int
      BY <1>1, <1>2
    <2>3. PICK n \in Int :
            n = Multiply(Multiply(Left(Matches(r), "privileged_unusual_execution"),
                                  Left(Matches(r), "suspicious_utility_activity")),
                         Multiply(Left(Matches(r), "execution_burst"),
                                  Left(Matches(r), "multi_uid_activity")))
      BY <1>1, <2>1, <2>2
    <2>4. FuseRules(Matches(r)) = One - n
      BY <2>3 DEF FuseRules
    <2> QED
      BY <2>4 DEF One
  <1> QED
    BY <1>3, ScoresAssumption DEF ContextScore, One

\* Rounding the score of the model moves the fused score by half a tenth of a point.
LEMMA RoundingMoves ==
  ASSUME NEW s \in Nat, NEW base \in Int
  PROVE  Points(Least(One * Fine, base + (Points(s) * Fine) \div 10))
           - Points(Least(One * Fine, base + s \div 10)) \in {-1, 0, 1}
  <1>1. PICK t \in Nat : t = Points(s) * Fine
    BY DEF Points, Fine
  <1>2. t - s <= 500 /\ s - t <= 500
    BY <1>1 DEF Points, Fine
  <1>3. PICK p \in Int, q \in Int : p = t \div 10 /\ q = s \div 10
    OBVIOUS
  <1>4. p - q <= 51 /\ q - p <= 51
    BY <1>2, <1>3
  <1>5. PICK x \in Int, y \in Int : x = Least(One * Fine, base + p) /\ y = Least(One * Fine, base + q)
    BY DEF Least, One, Fine
  <1>6. x - y <= 51 /\ y - x <= 51
    BY <1>4, <1>5 DEF Least, One, Fine
  <1>7. Points(x) - Points(y) \in {-1, 0, 1}
    BY <1>6 DEF Points, Fine
  <1> QED
    BY <1>1, <1>3, <1>5, <1>7

\* With a model, the score the explainer recomputes is at most one in the last digit
\* from the stored one: what makes it refuse a finding is never more than rounding.
THEOREM RebuiltWithinAPoint ==
  ASSUME NEW r \in BehaviorRisks, NEW m \in Models, NEW s, NEW f, f = Finding(r, m, s)
  PROVE  Recomputed(f) - f.risk \in {-1, 0, 1} /\ FuseRules(f.matched) = f.rules
  <1>1. /\ f.risk = Points(Fused(r, m)) /\ f.behaviour = r.behaviour
        /\ f.rules = FuseRules(Matches(r)) /\ f.context = ContextScore(r) /\ f.matched = Matches(r)
        /\ f.model = IF Available(m) THEN Points(m.score) ELSE NoModel
    BY DEF Finding
  <1>2. PICK b \in Int, p \in Int, c \in Int : b = r.behaviour /\ p = f.rules /\ c = f.context
    BY <1>1, ScoresType
  <1>3. CASE ~Available(m)
    <2>1. Recomputed(f) = f.risk
      BY <1>1, <1>3 DEF Recomputed, Fused
    <2>2. f.risk = Points(Least(One * Fine, 500 * b + 350 * p + 150 * c))
      BY <1>1, <1>2, <1>3 DEF Fused, FusedPlain
    <2>3. f.risk \in Int
      BY <2>2 DEF Points, Least, One, Fine
    <2> QED
      BY <1>1, <2>1, <2>3
  <1>4. CASE Available(m)
    <2>1. PICK n \in Nat : n = m.score
      BY <1>4, ScoresAssumption DEF Available
    <2>2. PICK base \in Int : base = 450 * b + 300 * p + 150 * c
      OBVIOUS
    <2>3. f.risk = Points(Least(One * Fine, base + n \div 10))
      BY <1>1, <1>2, <1>4, <2>1, <2>2 DEF Fused, FusedWithModel
    <2>4. f.model = Points(n) /\ f.model # NoModel
      BY <1>1, <1>4, <2>1 DEF Points, Fine, NoModel
    <2>5. Recomputed(f) = Points(Least(One * Fine, base + (Points(n) * Fine) \div 10))
      BY <1>1, <1>2, <2>2, <2>4 DEF Recomputed, FusedWithModel
    <2> QED
      BY <1>1, <2>3, <2>5, RoundingMoves
  <1> QED
    BY <1>3, <1>4

=============================================================================
