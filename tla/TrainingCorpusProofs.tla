------------------------ MODULE TrainingCorpusProofs ------------------------
(***************************************************************************)
(* For any captures, datasets and edits: a model is trained on windows as  *)
(* they were promoted; and, with one promotion at a time, no session that  *)
(* windows of one database are attributed to is on both sides of a         *)
(* measurement and none is counted twice in a holdout set.  What the       *)
(* inspection of a capture lets pass, the promotion takes.                 *)
(***************************************************************************)
EXTENDS TrainingCorpus, FiniteSetTheorems, WellFoundedInduction, TLAPS

USE NoneAssumption

\* Only one operator promotes.
Alone == \A p, q \in Promoters : p = q

\* What a promoter has in hand, by the step it is at.
TaskTypes ==
  \A p \in Promoters : task[p].step # "idle" =>
    task[p].capture \in Captures /\ task[p].role \in Roles /\ task[p].dataset \in Datasets

\* The datasets of a run, from the preflight on.
RunTypes ==
  run.step # "idle" => run.training \in Datasets /\ run.holdout \in Datasets

TypeInv == TypeOK /\ TaskTypes /\ RunTypes

Tasks == [step : {"idle", "check", "create", "window"}, capture : Captures \cup {None},
          role : Roles \cup {None}, dataset : Datasets \cup {None}]

-----------------------------------------------------------------------------
(* Types.                                                                  *)

\* Windows are only added, at the end.
LEMMA WindowsGrow ==
  ASSUME TypeInv, [Next]_vars
  PROVE  /\ windows' \in Seq(AllWindows)
         /\ DOMAIN windows \subseteq DOMAIN windows'
         /\ \A w \in DOMAIN windows : windows'[w] = windows[w]
         /\ \/ windows' = windows
            \/ \E p \in Promoters :
                 /\ AddWindow(p)
                 /\ DOMAIN windows' = DOMAIN windows \cup {Len(windows) + 1}
                 /\ windows'[Len(windows) + 1]
                      = Window(task[p].dataset, task[p].capture, task[p].role)
  <1>1. windows \in Seq(AllWindows)
    BY DEF TypeInv, TypeOK
  <1>2. ASSUME NEW p \in Promoters, AddWindow(p)
        PROVE  /\ windows' \in Seq(AllWindows)
               /\ DOMAIN windows' = DOMAIN windows \cup {Len(windows) + 1}
               /\ \A w \in DOMAIN windows : windows'[w] = windows[w]
               /\ windows'[Len(windows) + 1]
                    = Window(task[p].dataset, task[p].capture, task[p].role)
    <2> DEFINE new == Window(task[p].dataset, task[p].capture, task[p].role)
    <2>1. new \in AllWindows
      BY <1>2 DEF AddWindow, TypeInv, TaskTypes, Window, AllWindows
    <2>2. windows' = Append(windows, new)
      BY <1>2 DEF AddWindow, WriteWindow
    <2> HIDE DEF new
    <2>3. /\ windows' \in Seq(AllWindows)
          /\ DOMAIN windows' = DOMAIN windows \cup {Len(windows) + 1}
          /\ \A w \in DOMAIN windows : windows'[w] = windows[w]
          /\ windows'[Len(windows) + 1] = new
      BY <1>1, <2>1, <2>2
    <2> QED
      BY <2>3 DEF new
  <1>3. CASE windows' = windows
    BY <1>1, <1>3
  <1>4. ASSUME NEW p \in Promoters, AddWindow(p)
        PROVE  DOMAIN windows \subseteq DOMAIN windows'
    BY <1>2, <1>4
  <1>5. windows' = windows \/ \E p \in Promoters : AddWindow(p)
    BY DEF Next, Promote, CheckPromoted, CreateDataset, Interrupted, Edit, StartRun, Preflight,
       Train, Measure, vars
  <1> QED
    BY <1>2, <1>3, <1>4, <1>5

LEMMA TypeInit == Init => TypeInv
  BY DEF Init, TypeInv, TypeOK, TaskTypes, RunTypes, Idle, Task, NoRun, Run, Roles

LEMMA TypeStep == TypeInv /\ [Next]_vars => TypeInv'
  <1> SUFFICES ASSUME TypeInv, [Next]_vars PROVE TypeInv'
    OBVIOUS
  <1>w. windows' \in Seq(AllWindows) /\ DOMAIN windows \subseteq DOMAIN windows'
    BY WindowsGrow
  <1> DEFINE Sets == SUBSET DOMAIN windows'
             Runs == [step : {"idle", "preflight", "train", "measure"},
                      training : Datasets \cup {None}, holdout : Datasets \cup {None},
                      trained : Sets, measured : Sets, spoiled : Sets]
             Results == [trained : Sets, measured : Sets, spoiled : Sets]
  <1>t. /\ role \in [Datasets -> Roles \cup {None}]
        /\ task \in [Promoters -> Tasks]
        /\ edited \in Sets /\ run \in Runs /\ models \subseteq Results
    BY <1>w DEF TypeInv, TypeOK, Tasks
  <1>s. ASSUME NEW d PROVE WindowsOf(d) \in Sets
    BY <1>w DEF WindowsOf
  <1>1. ASSUME NEW p \in Promoters, NEW c \in Captures, NEW r \in Roles, NEW d \in Datasets,
               Promote(p, c, r, d)
        PROVE  TypeInv'
    <2>1. task' \in [Promoters -> Tasks] /\ TaskTypes'
      BY <1>t, <1>1 DEF Promote, Task, Tasks, TypeInv, TaskTypes
    <2> QED
      BY <1>w, <1>t, <1>1, <2>1 DEF Promote, TypeInv, TypeOK, RunTypes, Tasks
  <1>2. ASSUME NEW p \in Promoters, CheckPromoted(p) \/ Interrupted(p) \/ AddWindow(p) \/ CreateDataset(p)
        PROVE  TypeInv'
    <2>1. task' \in [Promoters -> Tasks] /\ TaskTypes'
      <3>1. CASE CheckPromoted(p)
        BY <1>t, <3>1 DEF CheckPromoted, Idle, Task, Tasks, TypeInv, TaskTypes
      <3>2. CASE Interrupted(p) \/ AddWindow(p)
        BY <1>t, <3>2 DEF Interrupted, AddWindow, Idle, Task, Tasks, TypeInv, TaskTypes
      <3>3. CASE CreateDataset(p)
        BY <1>t, <3>3 DEF CreateDataset, Tasks, TypeInv, TaskTypes
      <3> QED
        BY <1>2, <3>1, <3>2, <3>3
    <2>2. role' \in [Datasets -> Roles \cup {None}]
      BY <1>t, <1>2 DEF CheckPromoted, Interrupted, AddWindow, CreateDataset, WriteDataset,
         TypeInv, TaskTypes
    <2>3. UNCHANGED <<edited, run, models>>
      BY <1>2 DEF CheckPromoted, Interrupted, AddWindow, CreateDataset
    <2> QED
      BY <1>w, <1>t, <2>1, <2>2, <2>3 DEF TypeInv, TypeOK, RunTypes, Tasks
  <1>3. ASSUME NEW w \in DOMAIN windows, Edit(w) PROVE TypeInv'
    BY <1>w, <1>t, <1>3 DEF Edit, TypeInv, TypeOK, TaskTypes, RunTypes, Tasks
  <1>4. ASSUME NEW t \in Datasets, NEW h \in Datasets, StartRun(t, h) PROVE TypeInv'
    <2>1. run' \in Runs
      BY <1>w, <1>s, <1>4 DEF StartRun, Run
    <2> QED
      BY <1>w, <1>t, <1>4, <2>1 DEF StartRun, TypeInv, TypeOK, TaskTypes, RunTypes, Tasks, Run
  <1>5. CASE Preflight \/ Train \/ Measure
    <2>1. run' \in Runs /\ RunTypes'
      <3>1. NoRun \in Runs /\ NoRun.step = "idle"
        BY DEF NoRun, Run
      <3>2. CASE Preflight /\ run' # NoRun
        BY <1>s, <1>t, <3>2 DEF Preflight, Run, RunTypes, TypeInv
      <3>3. CASE Train /\ run' # NoRun
        <4>1. /\ run' = [run EXCEPT !.step = "measure", !.trained = WindowsOf(run.training),
                                    !.spoiled = @ \cup (WindowsOf(run.training) \cap edited)]
              /\ run.step = "train"
          BY <3>3 DEF Train
        <4>2. run.spoiled \cup (WindowsOf(run.training) \cap edited) \in Sets
          BY <1>s, <1>t
        <4> QED
          BY <1>s, <1>t, <4>1, <4>2 DEF RunTypes, TypeInv
      <3>4. CASE run' = NoRun
        BY <3>1, <3>4 DEF RunTypes
      <3> QED
        BY <1>5, <3>2, <3>3, <3>4 DEF Measure
    <2>2. models' \subseteq Results
      BY <1>t, <1>5 DEF Preflight, Train, Measure
    <2> QED
      BY <1>w, <1>t, <1>5, <2>1, <2>2 DEF Preflight, Train, Measure, TypeInv, TypeOK, TaskTypes,
         Tasks
  <1>6. CASE UNCHANGED vars
    BY <1>6 DEF vars, TypeInv, TypeOK, TaskTypes, RunTypes
  <1> QED
    BY <1>1, <1>2, <1>3, <1>4, <1>5, <1>6 DEF Next

LEMMA TypeInvariant == Spec => []TypeInv
  BY TypeInit, TypeStep, PTL DEF Spec

\* Every task, run and result speaks of windows, captures and datasets that exist.
THEOREM TypeCorrect == Spec => []TypeOK
  BY TypeInvariant, PTL DEF TypeInv

-----------------------------------------------------------------------------
(* What a model was trained on.                                            *)

\* What the trainer has noted of edits, at whatever moment, is still so.
SpoiledInv == run.spoiled \subseteq edited

PromotedInv == SpoiledInv /\ TrainedAsPromoted

LEMMA PromotedStep == PromotedInv /\ [Next]_vars => PromotedInv'
  <1> SUFFICES ASSUME PromotedInv, [Next]_vars PROVE PromotedInv'
    OBVIOUS
  <1> USE DEF PromotedInv, SpoiledInv, TrainedAsPromoted
  <1>1. CASE Measure
    <2>1. ASSUME NEW m \in models' PROVE m.trained \cap m.spoiled = {}
      BY <1>1, <2>1 DEF Measure, WindowsVerify
    <2> QED
      BY <1>1, <2>1 DEF Measure, NoRun, Run
  <1>2. CASE Preflight \/ \E t, h \in Datasets : StartRun(t, h)
    BY <1>2 DEF Preflight, StartRun, NoRun, Run
  <1>3. CASE Train
    <2>1. CASE run' = NoRun
      BY <1>3, <2>1 DEF Train, NoRun, Run
    <2>2. CASE run' # NoRun
      <3>1. run'.spoiled \subseteq run.spoiled \cup edited
        BY <1>3, <2>2 DEF Train
      <3> QED
        BY <1>3, <3>1 DEF Train
    <2> QED
      BY <2>1, <2>2
  <1>4. CASE \E w \in DOMAIN windows : Edit(w)
    BY <1>4 DEF Edit
  <1>5. CASE \E p \in Promoters :
               \/ \E c \in Captures, r \in Roles, d \in Datasets : Promote(p, c, r, d)
               \/ CheckPromoted(p) \/ CreateDataset(p) \/ AddWindow(p) \/ Interrupted(p)
    BY <1>5 DEF Promote, CheckPromoted, CreateDataset, AddWindow, Interrupted
  <1>6. CASE UNCHANGED vars
    BY <1>6 DEF vars
  <1> QED
    BY <1>1, <1>2, <1>3, <1>4, <1>5, <1>6 DEF Next

\* Whenever a row is edited during a run, no model is measured that was trained on it:
\* the scorer recomputes the hashes after the training has read the rows.
THEOREM TrainingIsVerified == Spec => []TrainedAsPromoted
  <1>1. Init => PromotedInv
    BY DEF Init, PromotedInv, SpoiledInv, TrainedAsPromoted, NoRun, Run
  <1>2. PromotedInv => TrainedAsPromoted
    BY DEF PromotedInv
  <1> QED
    BY <1>1, <1>2, PromotedStep, PTL DEF Spec

-----------------------------------------------------------------------------
(* One operator at a time.                                                 *)

\* A non-empty set of windows has a first one.
LEMMA FirstWindow ==
  ASSUME NEW W \in SUBSET Nat, W # {}
  PROVE  First(W) \in W
  <1> DEFINE T == {0 .. w : w \in W}
             R == StrictSubsetOrdering(Nat)
  <1>1. T \subseteq FiniteSubsetsOf(Nat) /\ T # {}
    <2>1. ASSUME NEW w \in W PROVE IsFiniteSet(0 .. w) /\ 0 .. w \in SUBSET Nat
      <3>1. 0 \in Int /\ w \in Int
        OBVIOUS
      <3> QED
        BY <3>1, FS_Interval
    <2> QED
      BY <2>1 DEF FiniteSubsetsOf
  <1>2. IsWellFoundedOn(R, FiniteSubsetsOf(Nat))
    BY FS_StrictSubsetOrderingWellFounded
  <1>3. \E X \in T : \A Y \in T : ~ (<<Y, X>> \in R)
    <2> HIDE DEF T, R
    <2> QED
      BY <1>1, <1>2, WFMin
  <1>4. PICK w \in W : \A v \in W : ~ (<<0 .. v, 0 .. w>> \in R)
    BY <1>3
  <1>5. ASSUME NEW v \in W, v < w PROVE FALSE
    <2>1. 0 .. v \subseteq 0 .. w /\ w \in 0 .. w /\ w \notin 0 .. v
      BY <1>5
    <2>2. 0 .. v # 0 .. w /\ 0 .. v \in SUBSET Nat /\ 0 .. w \in SUBSET Nat
      BY <2>1
    <2>3. <<0 .. v, 0 .. w>> \in R
      BY <2>1, <2>2 DEF StrictSubsetOrdering
    <2> QED
      BY <1>4, <2>3
  <1>6. \A v \in W : w <= v
    BY <1>5
  <1> QED
    BY <1>4, <1>6 DEF First

\* What has passed the check is not refused: nothing was promoted since.
CheckedInv ==
  \A p \in Promoters :
    /\ task[p].step # "idle" /\ task[p].role = "holdout" => HasIdentity(task[p].capture)
    /\ task[p].step \in {"create", "window"} /\ HasIdentity(task[p].capture)
         => ~ Refused(task[p].capture, task[p].role, task[p].dataset)

LEMMA CheckedStep ==
  ASSUME Alone, TypeInv, CheckedInv, [Next]_vars
  PROVE  CheckedInv'
  <1> USE DEF CheckedInv
  <1>r. ASSUME windows' = windows, NEW c, NEW r, NEW d
        PROVE  Refused(c, r, d)' <=> Refused(c, r, d)
    BY <1>r DEF Refused, Promoted
  <1>t. task \in [Promoters -> Tasks]
    BY DEF TypeInv, TypeOK, Tasks
  <1>1. ASSUME NEW p \in Promoters, AddWindow(p) \/ Interrupted(p) PROVE CheckedInv'
    <2>1. task'[p].step = "idle"
      BY <1>t, <1>1 DEF AddWindow, Interrupted, Idle, Task
    <2> QED
      BY <2>1 DEF Alone
  <1>2. ASSUME NEW p \in Promoters, NEW c \in Captures, NEW r \in Roles, NEW d \in Datasets,
               Promote(p, c, r, d)
        PROVE  CheckedInv'
    <2>1. /\ task'[p].capture = c /\ task'[p].role = r
          /\ r = "holdout" => HasIdentity(c)
          /\ HasIdentity(c) => task'[p].step = "check"
      BY <1>t, <1>2 DEF Promote, Task
    <2> QED
      BY <2>1 DEF Alone
  <1>3. ASSUME NEW p \in Promoters, CheckPromoted(p) PROVE CheckedInv'
    <2>1. windows' = windows /\ task[p].step = "check"
      BY <1>3 DEF CheckPromoted
    <2>2. CASE Refused(task[p].capture, task[p].role, task[p].dataset)
      <3>1. task'[p].step = "idle"
        BY <1>t, <1>3, <2>2 DEF CheckPromoted, Idle, Task
      <3> QED
        BY <3>1 DEF Alone
    <2>3. CASE ~ Refused(task[p].capture, task[p].role, task[p].dataset)
      <3>1. UNCHANGED <<task[p].capture, task[p].role, task[p].dataset>>
        BY <1>t, <1>3, <2>3 DEF CheckPromoted, Tasks
      <3>2. ~ Refused(task[p].capture, task[p].role, task[p].dataset)'
        BY <1>r, <2>1, <2>3, <3>1
      <3> QED
        BY <2>1, <3>1, <3>2 DEF Alone
    <2> QED
      BY <2>2, <2>3
  <1>4. ASSUME NEW p \in Promoters, CreateDataset(p) PROVE CheckedInv'
    <2>1. /\ windows' = windows /\ task[p].step = "create"
          /\ UNCHANGED <<task[p].capture, task[p].role, task[p].dataset>>
      BY <1>t, <1>4 DEF CreateDataset, Tasks
    <2>2. Refused(task[p].capture, task[p].role, task[p].dataset)'
            <=> Refused(task[p].capture, task[p].role, task[p].dataset)
      BY <1>r, <2>1
    <2> QED
      BY <2>1, <2>2 DEF Alone
  <1>5. CASE UNCHANGED <<windows, task>>
    BY <1>r, <1>5
  <1>6. CASE (\E w \in DOMAIN windows : Edit(w)) \/ (\E t, h \in Datasets : StartRun(t, h))
             \/ Preflight \/ Train \/ Measure \/ UNCHANGED vars
    <2>1. UNCHANGED <<windows, task>>
      BY <1>6 DEF Edit, StartRun, Preflight, Train, Measure, vars
    <2> QED
      BY <1>5, <2>1
  <1> QED
    BY <1>1, <1>2, <1>3, <1>4, <1>6 DEF Next

-----------------------------------------------------------------------------
(* Holdout windows.                                                        *)

LEMMA HoldoutStep ==
  ASSUME TypeInv, CheckedInv, HoldoutPromotedOnce, [Next]_vars
  PROVE  HoldoutPromotedOnce'
  <1>1. CASE windows' = windows
    BY <1>1 DEF HoldoutPromotedOnce, SessionOf
  <1>2. CASE windows' # windows
    <2>1. PICK p \in Promoters :
            /\ AddWindow(p)
            /\ DOMAIN windows' = DOMAIN windows \cup {Len(windows) + 1}
            /\ windows'[Len(windows) + 1]
                 = Window(task[p].dataset, task[p].capture, task[p].role)
      BY <1>2, WindowsGrow
    <2> DEFINE n == Len(windows) + 1
               c == task[p].capture
               d == task[p].dataset
    <2>2. /\ windows'[n].capture = c /\ windows'[n].role = task[p].role /\ windows'[n].dataset = d
          /\ task[p].step = "window"
      BY <2>1 DEF Window, AddWindow
    <2>3. \A w \in DOMAIN windows : windows'[w] = windows[w] /\ w < n
      BY WindowsGrow DEF TypeInv, TypeOK
    <2> SUFFICES ASSUME NEW v \in DOMAIN windows', NEW w \in DOMAIN windows', v < w,
                        windows'[w].role = "holdout", windows'[v].dataset = windows'[w].dataset
                 PROVE  /\ SessionOf(w)' # Unattributed /\ SessionOf(v)' # SessionOf(w)'
      BY DEF HoldoutPromotedOnce
    <2>4. CASE w \in DOMAIN windows
      <3>1. v \in DOMAIN windows
        BY <2>1, <2>3, <2>4
      <3> QED
        BY <2>3, <2>4, <3>1 DEF HoldoutPromotedOnce, SessionOf
    <2>5. CASE w = n
      <3>1. v \in DOMAIN windows
        BY <2>1, <2>5, <2>3
      <3>2. HasIdentity(c) /\ ~ Refused(c, "holdout", d)
        BY <2>2, <2>5 DEF CheckedInv
      <3>3. Promoted(c, d) = {}
        BY <3>2 DEF Refused
      <3>4. windows[v].dataset = d
        BY <2>2, <2>3, <2>5, <3>1
      <3>5. Identity(windows[v].capture) # Identity(c)
        BY <3>1, <3>3, <3>4 DEF Promoted
      <3> QED
        BY <2>2, <2>3, <2>5, <3>1, <3>2, <3>5 DEF SessionOf, HasIdentity
    <2> QED
      BY <2>1, <2>4, <2>5
  <1> QED
    BY <1>1, <1>2

\* With one promotion at a time, a holdout dataset has at most one window of a login
\* session and none without one, in however many calls it was collected.
THEOREM HoldoutsAreDistinct == ASSUME Alone PROVE Spec => []HoldoutPromotedOnce
  <1>1. Init => CheckedInv /\ HoldoutPromotedOnce
    BY DEF Init, CheckedInv, Idle, Task, HoldoutPromotedOnce
  <1>2. TypeInv /\ CheckedInv /\ HoldoutPromotedOnce /\ [Next]_vars
          => CheckedInv' /\ HoldoutPromotedOnce'
    BY CheckedStep, HoldoutStep
  <1> QED
    BY <1>1, <1>2, TypeInvariant, PTL DEF Spec

-----------------------------------------------------------------------------
(* Sessions of the two sides.                                              *)

\* The windows a database holds that are attributed to one session are in one dataset.
OneSide ==
  \A v, w \in DOMAIN windows :
    StoredIn(v) = StoredIn(w) /\ SessionOf(v) # Unattributed /\ SessionOf(v) = SessionOf(w)
      => windows[v].dataset = windows[w].dataset

In(W, d, list) == W \subseteq DOMAIN list /\ \A w \in W : list[w].dataset = d

\* A run works on two datasets, and measures on windows of the one what was trained
\* on windows of the other.
RunInv ==
  /\ run.step \in {"train", "measure"} =>
       run.training # run.holdout /\ In(run.measured, run.holdout, windows)
  /\ run.step = "measure" => In(run.trained, run.training, windows)

ModelInv ==
  \A m \in models : \E t, h \in Datasets : t # h /\ In(m.trained, t, windows) /\ In(m.measured, h, windows)

LEMMA OneSideStep ==
  ASSUME TypeInv, CheckedInv, OneSide, [Next]_vars
  PROVE  OneSide'
  <1>1. CASE windows' = windows
    BY <1>1 DEF OneSide, SessionOf, StoredIn
  <1>2. CASE windows' # windows
    <2>1. PICK p \in Promoters :
            /\ AddWindow(p)
            /\ DOMAIN windows' = DOMAIN windows \cup {Len(windows) + 1}
            /\ windows'[Len(windows) + 1]
                 = Window(task[p].dataset, task[p].capture, task[p].role)
      BY <1>2, WindowsGrow
    <2> DEFINE n == Len(windows) + 1
               c == task[p].capture
               d == task[p].dataset
               prior == Promoted(c, d)
    <2>2. /\ windows'[n].capture = c /\ windows'[n].dataset = d
          /\ task[p].step = "window" /\ d \in Datasets
      BY <2>1 DEF Window, AddWindow, TypeInv, TaskTypes
    <2>3. \A w \in DOMAIN windows :
            windows'[w] = windows[w] /\ w \in Nat /\ windows[w].dataset \in Datasets
      <3>1. windows \in Seq(AllWindows)
        BY DEF TypeInv, TypeOK
      <3>2. \A w \in DOMAIN windows : w \in Nat /\ windows[w] \in AllWindows
        BY <3>1
      <3> QED
        BY <3>2, WindowsGrow DEF AllWindows
    <2>4. ASSUME NEW v \in DOMAIN windows, StoredIn(v) = StoreOf[d],
                 SessionOf(v) # Unattributed, SessionOf(v) = Identity(c)
          PROVE  windows[v].dataset = d
      <3>1. v \in prior
        BY <2>2, <2>3, <2>4 DEF Promoted, SessionOf, StoredIn
      <3>2. HasIdentity(c)
        BY <2>4 DEF HasIdentity
      <3>3. windows[First(prior)].dataset = d
        BY <2>2, <3>1, <3>2 DEF CheckedInv, Refused
      <3>4. /\ prior \subseteq DOMAIN windows
            /\ \A w \in prior : Identity(windows[w].capture) = Identity(c) /\ StoredIn(w) = StoreOf[d]
        BY DEF Promoted, StoredIn
      <3>5. First(prior) \in prior
        <4> HIDE DEF prior
        <4> QED
          BY <2>3, <3>1, <3>4, FirstWindow
      <3>6. /\ First(prior) \in DOMAIN windows /\ SessionOf(First(prior)) = Identity(c)
            /\ StoredIn(First(prior)) = StoreOf[d]
        BY <3>4, <3>5 DEF SessionOf
      <3> HIDE DEF prior
      <3> QED
        BY <2>4, <3>3, <3>6 DEF OneSide
    <2> SUFFICES ASSUME NEW v \in DOMAIN windows', NEW w \in DOMAIN windows',
                        StoreOf[windows'[v].dataset] = StoreOf[windows'[w].dataset],
                        Identity(windows'[v].capture) # Unattributed,
                        Identity(windows'[v].capture) = Identity(windows'[w].capture)
                 PROVE  windows'[v].dataset = windows'[w].dataset
      BY DEF OneSide, SessionOf, StoredIn
    <2>5. \A x \in DOMAIN windows :
            Identity(windows'[x].capture) = SessionOf(x) /\ StoreOf[windows'[x].dataset] = StoredIn(x)
      BY <2>3 DEF SessionOf, StoredIn
    <2>6. Identity(windows'[n].capture) = Identity(c)
      BY <2>2
    <2>7. CASE v \in DOMAIN windows /\ w \in DOMAIN windows
      BY <2>3, <2>5, <2>7 DEF OneSide
    <2>8. CASE v \in DOMAIN windows /\ w = n
      BY <2>2, <2>3, <2>4, <2>5, <2>6, <2>8
    <2>9. CASE v = n /\ w \in DOMAIN windows
      BY <2>2, <2>3, <2>4, <2>5, <2>6, <2>9
    <2> QED
      BY <2>1, <2>7, <2>8, <2>9
  <1> QED
    BY <1>1, <1>2

\* Windows stay in their dataset.
LEMMA InStays ==
  ASSUME TypeInv, [Next]_vars, NEW W, NEW d, In(W, d, windows)
  PROVE  In(W, d, windows')
  BY WindowsGrow DEF In

LEMMA RunStep ==
  ASSUME TypeInv, RunInv, ModelInv, [Next]_vars
  PROVE  RunInv' /\ ModelInv'
  <1>0. ASSUME NEW d PROVE In(WindowsOf(d), d, windows)
    BY DEF In, WindowsOf
  <1>1. CASE run' = run /\ models' = models
    BY <1>1, InStays DEF RunInv, ModelInv
  <1>2. CASE run' = NoRun /\ models' = models
    BY <1>2, InStays DEF RunInv, ModelInv, NoRun, Run
  <1>3. ASSUME NEW t \in Datasets, NEW h \in Datasets, StartRun(t, h) PROVE RunInv' /\ ModelInv'
    <2>1. run'.step = "preflight" /\ models' = models
      BY <1>3 DEF StartRun, Run
    <2> QED
      BY <2>1, InStays DEF RunInv, ModelInv
  <1>4. CASE Preflight /\ run' # NoRun
    <2>1. /\ run'.step = "train" /\ run'.training = run.training /\ run'.holdout = run.holdout
          /\ run'.measured = WindowsOf(run.holdout) /\ run.training # run.holdout
          /\ models' = models
      BY <1>4 DEF Preflight, Run, Accepts
    <2>2. In(WindowsOf(run.holdout), run.holdout, windows')
      BY <1>0, InStays
    <2> QED
      BY <2>1, <2>2, InStays DEF RunInv, ModelInv
  <1>5. CASE Train /\ run' # NoRun
    <2>1. /\ run'.step = "measure" /\ run'.training = run.training /\ run'.holdout = run.holdout
          /\ run'.measured = run.measured /\ run'.trained = WindowsOf(run.training)
          /\ run.step = "train" /\ models' = models
      BY <1>5 DEF Train, TypeInv, TypeOK
    <2>2. In(WindowsOf(run.training), run.training, windows') /\ In(run.measured, run.holdout, windows')
      BY <1>0, <2>1, InStays DEF RunInv
    <2> QED
      BY <2>1, <2>2, InStays DEF RunInv, ModelInv
  <1>6. CASE Measure
    <2>1. /\ run.training # run.holdout /\ In(run.measured, run.holdout, windows)
          /\ In(run.trained, run.training, windows) /\ run.training \in Datasets /\ run.holdout \in Datasets
      BY <1>6 DEF Measure, RunInv, TypeInv, RunTypes
    <2>2. In(run.measured, run.holdout, windows') /\ In(run.trained, run.training, windows')
      BY <2>1, InStays
    <2>3. ASSUME NEW m \in models'
          PROVE  \E t, h \in Datasets : t # h /\ In(m.trained, t, windows') /\ In(m.measured, h, windows')
      <3>1. CASE m \in models
        BY <3>1, InStays DEF ModelInv
      <3>2. CASE m.trained = run.trained /\ m.measured = run.measured
        BY <1>6, <2>1, <2>2, <3>2 DEF Measure, In
      <3> QED
        BY <1>6, <2>3, <3>1, <3>2 DEF Measure
    <2>4. ModelInv'
      BY <2>3 DEF ModelInv
    <2>5. RunInv'
      BY <1>6 DEF Measure, RunInv, NoRun, Run
    <2> QED
      BY <2>4, <2>5
  <1>7. CASE \E p \in Promoters :
               \/ \E c \in Captures, r \in Roles, d \in Datasets : Promote(p, c, r, d)
               \/ CheckPromoted(p) \/ CreateDataset(p) \/ AddWindow(p) \/ Interrupted(p)
    BY <1>1, <1>7 DEF Promote, CheckPromoted, CreateDataset, AddWindow, Interrupted
  <1>8. CASE (\E w \in DOMAIN windows : Edit(w)) \/ UNCHANGED vars
    BY <1>1, <1>8 DEF Edit, vars
  <1>9. Preflight \/ Train => models' = models
    BY DEF Preflight, Train
  <1> QED
    BY <1>2, <1>3, <1>4, <1>5, <1>6, <1>7, <1>8, <1>9 DEF Next

\* With one promotion at a time, whatever runs beside it and however the datasets are
\* spread over databases: of the windows one database holds, none attributed to a
\* session a model was trained on is among those it is measured on.
THEOREM AttributedSessionsStayApart == ASSUME Alone PROVE Spec => []AttributedSessionsHeldOut
  <1> DEFINE IInv == CheckedInv /\ OneSide /\ RunInv /\ ModelInv
  <1>1. Init => IInv
    BY DEF Init, CheckedInv, Idle, Task, OneSide, RunInv, ModelInv, NoRun, Run
  <1>2. TypeInv /\ IInv /\ [Next]_vars => IInv'
    BY CheckedStep, OneSideStep, RunStep
  <1>3. OneSide /\ ModelInv => AttributedSessionsHeldOut
    BY DEF OneSide, ModelInv, In, AttributedSessionsHeldOut
  <1> QED
    BY <1>1, <1>2, <1>3, TypeInvariant, PTL DEF Spec

-----------------------------------------------------------------------------
(* The inspection and the promotion read the same session.                 *)

\* Both are stamped together, and a host can always tell its boot.
Stamped == \A c \in Captures : \A r \in RowsIn[c] : r.session # None => r.boot # None

\* A column that is not empty and has no two values has one.
LEMMA OneValue ==
  ASSUME NEW rows, IsFiniteSet(rows), NEW column,
         NEW values, \A v : v \in values <=> v # None /\ \E r \in rows : v = column[r],
         values # {}, ~ (Cardinality(values) > 1)
  PROVE  \E v : values = {v}
  <1> DEFINE all == {column[r] : r \in rows}
             col == [r \in rows |-> column[r]]
  <1>1. IsFiniteSet(all)
    <2>1. col \in Surjection(rows, all)
      BY DEF Surjection
    <2> QED
      BY <2>1, FS_Surjection
  <1>2. IsFiniteSet(values)
    BY <1>1, FS_Subset
  <1>3. Cardinality(values) \in Nat /\ Cardinality(values) # 0
    BY <1>2, FS_CardinalityType, FS_EmptySet
  <1>4. Cardinality(values) = 1
    BY <1>3
  <1> QED
    BY <1>2, <1>4, FS_Singleton

LEMMA InspectedIsIdentity ==
  ASSUME Stamped, NEW c \in Captures, Verdict(c) = "ok"
  PROVE  Attributed(c) = {Inspected(c)} /\ Identity(c) = Inspected(c) /\ HasIdentity(c)
  <1>1. RowsIn[c] \in SUBSET Provenance /\ IsFiniteSet(RowsIn[c])
    BY RowsInAssumption
  <1>2. /\ BootsOf(c) # {} /\ ~ (Cardinality(BootsOf(c)) > 1)
        /\ IdsOf(c) # {} /\ ~ (Cardinality(IdsOf(c)) > 1)
    BY DEF Verdict
  <1>3. PICK b : BootsOf(c) = {b}
    <2> DEFINE boot == [r \in RowsIn[c] |-> r.boot]
    <2>1. \A v : v \in BootsOf(c) <=> v # None /\ \E r \in RowsIn[c] : v = boot[r]
      BY DEF BootsOf
    <2> HIDE DEF boot
    <2> QED
      BY <1>1, <1>2, <2>1, OneValue
  <1>4. PICK i : IdsOf(c) = {i}
    <2> DEFINE session == [r \in RowsIn[c] |-> r.session]
    <2>1. \A v : v \in IdsOf(c) <=> v # None /\ \E r \in RowsIn[c] : v = session[r]
      BY DEF IdsOf
    <2> HIDE DEF session
    <2> QED
      BY <1>1, <1>2, <2>1, OneValue
  <1>5. Inspected(c) = [boot |-> b, session |-> i]
    BY <1>3, <1>4 DEF Inspected
  <1>6. ASSUME NEW r \in Attributed(c) PROVE r = [boot |-> b, session |-> i]
    <2>1. r \in Provenance /\ r.boot \in BootsOf(c) /\ r.session \in IdsOf(c)
      BY <1>1 DEF Attributed, BootsOf, IdsOf
    <2> QED
      BY <1>3, <1>4, <2>1 DEF Provenance
  <1>7. PICK r \in RowsIn[c] : r.session = i /\ i # None
    BY <1>4 DEF IdsOf
  <1>8. r \in Attributed(c)
    BY <1>7 DEF Attributed, Stamped
  <1>9. Attributed(c) = {Inspected(c)}
    BY <1>5, <1>6, <1>8
  <1>10. Identity(c) = Inspected(c)
    BY <1>9, FS_Singleton DEF Identity
  <1>11. Inspected(c).session # None
    BY <1>5, <1>7
  <1> QED
    BY <1>9, <1>10, <1>11 DEF HasIdentity, Unattributed

\* A promoted window with an identity has it from its capture's rows.
LEMMA IdentityIsAttributed ==
  ASSUME NEW c, HasIdentity(c)
  PROVE  Identity(c) \in Attributed(c)
  <1>1. Cardinality(Attributed(c)) = 1
    BY DEF HasIdentity, Identity
  <1>2. Attributed(c) # {}
    BY <1>1, FS_EmptySet
  <1> QED
    BY <1>1, <1>2 DEF Identity

\* Whatever is in the databases: a capture that verify_capture_boot.py passes against
\* the captures promoted so far is one that collect_normal_window.py takes as a holdout
\* window, as the very session that was inspected.
THEOREM VerifiedIsTaken == ASSUME Stamped PROVE Spec => []VerifiedIsPromotable
  <1>1. VerifiedIsPromotable
    <2>1. SUFFICES ASSUME NEW c \in Captures, c \notin CapturesOf(DOMAIN windows),
                          Verified(c, CapturesOf(DOMAIN windows))
                   PROVE  /\ Identity(c) = Inspected(c)
                          /\ \A d \in Datasets : ~ Refused(c, "holdout", d)
      BY DEF VerifiedIsPromotable
    <2>2. Verdict(c) = "ok" /\ Inspected(c) \notin KnownSessions(CapturesOf(DOMAIN windows))
      <3>1. CapturesOf(DOMAIN windows) \ {c} = CapturesOf(DOMAIN windows)
        BY <2>1
      <3> QED
        BY <2>1, <3>1 DEF Verified
    <2>3. Identity(c) = Inspected(c) /\ HasIdentity(c)
      BY <2>2, InspectedIsIdentity
    <2>4. ASSUME NEW d \in Datasets PROVE Promoted(c, d) = {}
      <3>1. SUFFICES ASSUME NEW w \in DOMAIN windows, Identity(windows[w].capture) = Identity(c)
                     PROVE  FALSE
        BY DEF Promoted
      <3>2. HasIdentity(windows[w].capture)
        BY <2>3, <3>1 DEF HasIdentity
      <3>3. Inspected(c) \in Attributed(windows[w].capture)
        BY <2>3, <3>1, <3>2, IdentityIsAttributed
      <3>4. windows[w].capture \in CapturesOf(DOMAIN windows)
        BY DEF CapturesOf
      <3> QED
        BY <2>2, <3>3, <3>4 DEF KnownSessions
    <2> QED
      BY <2>3, <2>4 DEF Refused
  <1> QED
    BY <1>1, PTL
=============================================================================
