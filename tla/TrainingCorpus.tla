--------------------------- MODULE TrainingCorpus ---------------------------
(***************************************************************************)
(* The verified-normal corpus: scripts/verify_capture_boot.py inspects a   *)
(* capture, scripts/collect_normal_window.py promotes reviewed windows     *)
(* into datasets, and scripts/ml_train_and_evaluate.py trains on one       *)
(* dataset and measures on another.                                        *)
(*                                                                         *)
(* A window is abstracted to its content (what _window_fingerprint tells   *)
(* apart), the boots and login sessions its events carry, and the role it  *)
(* was promoted with.  Promotions and the trainer are processes of their   *)
(* own; every read and every write is one transaction.  A row edited out   *)
(* of band no longer matches its immutable_hash.                           *)
(***************************************************************************)
EXTENDS Naturals, Sequences, FiniteSets

CONSTANTS
  Captures,    \* the reviewed windows: their contents
  Boots, Ids,  \* boot ids and logind's session ids, which each boot begins anew
  RowsIn,      \* the boot and session of each capture's events, None for NULL
  Datasets,    \* the ids promotions may create
  StoreOf,     \* the database file each dataset is in
  Promoters,   \* concurrent runs of collect_normal_window.py
  MinTraining, \* MIN_TRAINING_WINDOWS
  MaxWindows,  \* bounds of the model: promoted windows,
  MaxEdits     \* rows edited out of band

None == "none"
ASSUME NoneAssumption == None \notin Boots \cup Ids \cup Captures \cup Datasets

Provenance == [boot : Boots \cup {None}, session : Ids \cup {None}]
ASSUME RowsInAssumption ==
  /\ RowsIn \in [Captures -> SUBSET Provenance]
  /\ \A c \in Captures : IsFiniteSet(RowsIn[c])

VARIABLES
  role,     \* the role each dataset was created with, None before it exists
  windows,  \* ml_training_windows in id order
  task,     \* what each promoter is doing
  edited,   \* the rows of ml_training_windows that no longer match their hash
  run,      \* the run of the trainer
  models    \* the last model it measured: the windows it was trained on, those
            \* it was measured on, and those of either that were edited when read

vars == <<role, windows, task, edited, run, models>>

Roles == {"holdout", "training"}

Window(d, c, r) == [dataset |-> d, capture |-> c, role |-> r]
AllWindows == [dataset : Datasets, capture : Captures, role : Roles]

Task(step, c, r, d) == [step |-> step, capture |-> c, role |-> r, dataset |-> d]
Idle == Task("idle", None, None, None)

Run(step, t, h, trained, measured, spoiled) ==
  [step |-> step, training |-> t, holdout |-> h,
   trained |-> trained, measured |-> measured, spoiled |-> spoiled]
NoRun == Run("idle", None, None, {}, {}, {})

TypeOK ==
  /\ role \in [Datasets -> Roles \cup {None}]
  /\ windows \in Seq(AllWindows)
  /\ task \in [Promoters -> [step : {"idle", "check", "create", "window"},
                            capture : Captures \cup {None}, role : Roles \cup {None},
                            dataset : Datasets \cup {None}]]
  /\ edited \subseteq DOMAIN windows
  /\ run \in [step : {"idle", "preflight", "train", "measure"},
              training : Datasets \cup {None}, holdout : Datasets \cup {None},
              trained : SUBSET DOMAIN windows, measured : SUBSET DOMAIN windows,
              spoiled : SUBSET DOMAIN windows]
  /\ models \subseteq [trained : SUBSET DOMAIN windows, measured : SUBSET DOMAIN windows,
                       spoiled : SUBSET DOMAIN windows]

-----------------------------------------------------------------------------
(* Identity: the one pair of boot and session of a window's events, if there *)
(* is one.                                                                   *)

Attributed(c) == {r \in RowsIn[c] : r.boot # None /\ r.session # None}
Unattributed == [boot |-> None, session |-> None]

Identity(c) ==
  IF Cardinality(Attributed(c)) = 1 THEN CHOOSE r \in Attributed(c) : TRUE ELSE Unattributed

HasIdentity(c) == Identity(c) # Unattributed

-----------------------------------------------------------------------------
(* The inspection of a capture before it is promoted.  It writes nothing.   *)

BootsOf(c) == {r.boot : r \in RowsIn[c]} \ {None}
IdsOf(c) == {r.session : r \in RowsIn[c]} \ {None}

\* Mutant: more than one session is as good as one.
VerdictOfBoot(c) ==
  CASE RowsIn[c] = {} -> "empty"
    [] BootsOf(c) = {} -> "no_boot_id"
    [] Cardinality(BootsOf(c)) > 1 -> "multi_boot"
    [] IdsOf(c) = {} -> "no_session_id"
    [] OTHER -> "ok"

Verdict(c) ==
  CASE RowsIn[c] = {} -> "empty"
    [] BootsOf(c) = {} -> "no_boot_id"
    [] Cardinality(BootsOf(c)) > 1 -> "multi_boot"
    [] IdsOf(c) = {} -> "no_session_id"
    [] Cardinality(IdsOf(c)) > 1 -> "multi_session"
    [] OTHER -> "ok"

Inspected(c) == [boot |-> CHOOSE b \in BootsOf(c) : TRUE, session |-> CHOOSE i \in IdsOf(c) : TRUE]

\* Every pair in the directory, also of captures that are not promotable.
KnownSessions(directory) == UNION {Attributed(c) : c \in directory}

\* A capture on the command line is not compared with itself in the directory.
Verified(c, directory) ==
  Verdict(c) = "ok" /\ Inspected(c) \notin KnownSessions(directory \ {c})

-----------------------------------------------------------------------------
(* What has been promoted.                                                  *)

WindowsOf(d) == {w \in DOMAIN windows : windows[w].dataset = d}
CapturesOf(W) == {windows[w].capture : w \in W}

\* Mutant: only the dataset being appended to is searched.
PromotedHere(c, d) ==
  {w \in WindowsOf(d) : Identity(windows[w].capture) = Identity(c)}

\* The windows of the session in the database that is written to.
Promoted(c, d) ==
  {w \in DOMAIN windows : /\ StoreOf[windows[w].dataset] = StoreOf[d]
                          /\ Identity(windows[w].capture) = Identity(c)}

First(W) == CHOOSE w \in W : \A v \in W : w <= v

\* Mutant: more data of a session already in the set is accepted for a holdout.
RefusedElsewhere(c, r, d) ==
  LET prior == Promoted(c, d) IN prior # {} /\ windows[First(prior)].dataset # d

Refused(c, r, d) ==
  LET prior == Promoted(c, d)
  IN prior # {} /\ (windows[First(prior)].dataset # d \/ r = "holdout")

-----------------------------------------------------------------------------
(* Promotion: arguments, the check in a connection of its own, the dataset, *)
(* the window.                                                              *)

Existing(d) == role[d] # None

\* The role of the arguments is not compared with the role of the dataset.
Promote(p, c, r, d) ==
  /\ task[p].step = "idle" /\ Len(windows) < MaxWindows
  /\ \A q \in Promoters : task[q].dataset = d => Existing(d)
  /\ r = "holdout" => HasIdentity(c)
  /\ task' = [task EXCEPT ![p] =
       Task(IF HasIdentity(c) THEN "check" ELSE IF Existing(d) THEN "window" ELSE "create",
            c, r, d)]
  /\ UNCHANGED <<role, windows, edited, run, models>>

CheckPromoted(p) ==
  /\ task[p].step = "check"
  /\ LET t == task[p] IN
       task' = [task EXCEPT ![p] =
         IF Refused(t.capture, t.role, t.dataset) THEN Idle
         ELSE [t EXCEPT !.step = IF Existing(t.dataset) THEN "window" ELSE "create"]]
  /\ UNCHANGED <<role, windows, edited, run, models>>

WriteDataset(d, r) == role' = [role EXCEPT ![d] = r]
WriteWindow(window) == windows' = Append(windows, window)

CreateDataset(p) ==
  /\ task[p].step = "create"
  /\ WriteDataset(task[p].dataset, task[p].role)
  /\ task' = [task EXCEPT ![p].step = "window"]
  /\ UNCHANGED <<windows, edited, run, models>>

AddWindow(p) ==
  /\ task[p].step = "window" /\ Len(windows) < MaxWindows
  /\ WriteWindow(Window(task[p].dataset, task[p].capture, task[p].role))
  /\ task' = [task EXCEPT ![p] = Idle]
  /\ UNCHANGED <<role, edited, run, models>>

Interrupted(p) ==
  /\ task[p].step # "idle"
  /\ task' = [task EXCEPT ![p] = Idle]
  /\ UNCHANGED <<role, windows, edited, run, models>>

-----------------------------------------------------------------------------
(* Training: the refusals come first, then the training dataset is read     *)
(* again; the holdout windows of the preflight are the ones measured.       *)

\* The digest recomputed from the columns; a missing row is not missed.
WindowsVerify(W) == W \cap edited = {}

Edit(w) ==
  /\ Cardinality(edited) < MaxEdits
  /\ edited' = edited \cup {w}
  /\ UNCHANGED <<role, windows, task, run, models>>

\* The holdout dataset and its windows are read after the training windows.
StartRun(t, h) ==
  /\ run.step = "idle"
  /\ Existing(t) /\ Existing(h)
  /\ run' = Run("preflight", t, h, WindowsOf(t), {}, {})
  /\ UNCHANGED <<role, windows, task, edited, models>>

\* An edited row has another content than any capture.
Accepts(t, h, trained, held) ==
  /\ trained # {} /\ role[h] = "holdout" /\ t # h
  /\ CapturesOf(trained \ edited) \cap CapturesOf(held \ edited) = {}

Preflight ==
  /\ run.step = "preflight"
  /\ LET held == WindowsOf(run.holdout) IN
       run' = IF Accepts(run.training, run.holdout, run.trained, held)
                THEN Run("train", run.training, run.holdout, {}, held, held \cap edited)
                ELSE NoRun
  /\ UNCHANGED <<role, windows, task, edited, models>>

\* train_isolation_forest reads the windows and looks at no hash.
Train ==
  /\ run.step = "train"
  /\ LET trained == WindowsOf(run.training) IN
       run' = IF Cardinality(trained) < MinTraining THEN NoRun
              ELSE [run EXCEPT !.step = "measure", !.trained = trained,
                               !.spoiled = @ \cup (trained \cap edited)]
  /\ UNCHANGED <<role, windows, task, edited, models>>

\* Mutant: the scorer takes the windows of its model as they are.
MeasureUnverified ==
  /\ run.step = "measure"
  /\ models' = {[trained |-> run.trained, measured |-> run.measured, spoiled |-> run.spoiled]}
  /\ run' = NoRun
  /\ UNCHANGED <<role, windows, task, edited>>

\* MLScorer refuses a model whose training windows do not verify; the windows it
\* measures come with no such check.
Measure ==
  /\ run.step = "measure"
  /\ models' = IF WindowsVerify(run.trained)
                 THEN {[trained |-> run.trained, measured |-> run.measured, spoiled |-> run.spoiled]}
                 ELSE models
  /\ run' = NoRun
  /\ UNCHANGED <<role, windows, task, edited>>

-----------------------------------------------------------------------------
Init ==
  /\ role = [d \in Datasets |-> None]
  /\ windows = <<>>
  /\ task = [p \in Promoters |-> Idle]
  /\ edited = {}
  /\ run = NoRun
  /\ models = {}

Next ==
  \/ \E p \in Promoters :
       \/ \E c \in Captures, r \in Roles, d \in Datasets : Promote(p, c, r, d)
       \/ CheckPromoted(p) \/ CreateDataset(p) \/ AddWindow(p) \/ Interrupted(p)
  \/ \E w \in DOMAIN windows : Edit(w)
  \/ \E t, h \in Datasets : StartRun(t, h)
  \/ Preflight \/ Train \/ Measure

Spec == Init /\ [][Next]_vars

-----------------------------------------------------------------------------
(* What must hold.                                                          *)

SessionOf(w) == Identity(windows[w].capture)

StoredIn(w) == StoreOf[windows[w].dataset]

\* Of the windows one database holds, those attributed to one login session are not
\* both trained on and measured, although promotions go on between the preflight and
\* the training, and windows of one session differ in content
\* (collect_normal_window.py:432).  Windows of several sessions, or of none, and
\* windows in two databases are compared by nobody: NoSessionIsOnBothSides, below.
AttributedSessionsHeldOut ==
  \A m \in models : \A v \in m.trained, w \in m.measured :
    StoredIn(v) = StoredIn(w) /\ SessionOf(v) # Unattributed => SessionOf(v) # SessionOf(w)

\* Of the windows promoted as holdout in one dataset, each is of one session and
\* no session has two: the gate counts them as independent trials.
HoldoutPromotedOnce ==
  \A v, w \in DOMAIN windows :
    (v < w /\ windows[w].role = "holdout" /\ windows[v].dataset = windows[w].dataset)
      => SessionOf(w) # Unattributed /\ SessionOf(v) # SessionOf(w)

\* A capture that passes the inspection against all that has been promoted can be
\* promoted as holdout, and as the session the inspection found.
VerifiedIsPromotable ==
  \A c \in Captures \ CapturesOf(DOMAIN windows) :
    Verified(c, CapturesOf(DOMAIN windows)) =>
      /\ Identity(c) = Inspected(c)
      /\ \A d \in Datasets : ~ Refused(c, "holdout", d)

\* A model that is measured was trained on windows as they were promoted, at
\* whatever moment of the run a row was edited.
TrainedAsPromoted == \A m \in models : m.trained \cap m.spoiled = {}

-----------------------------------------------------------------------------
(* What the documentation says and the code does not keep.                  *)

\* collect_normal_window.py:396: "holdout windows must each be one distinct login
\* session": what a run measures on are that many independent trials.
TrialsAreIndependent ==
  \A m \in models : \A v, w \in m.measured :
    SessionOf(v) # Unattributed /\ (v # w => SessionOf(v) # SessionOf(w))

\* collect_normal_window.py:175: "so the two tools cannot disagree about what a
\* capture claims".
ToolsAgree == \A c \in Captures : Verdict(c) = "ok" <=> HasIdentity(c)

\* collect_normal_window.py:425: if a session is in two datasets and either "feeds
\* training then the other is no longer held out from it".  Not kept for a capture with
\* two sessions, which "has still consumed those sessions"
\* (verify_capture_boot.py:275), nor for datasets in two databases.
NoSessionIsOnBothSides ==
  \A m \in models : KnownSessions(CapturesOf(m.trained)) \cap KnownSessions(CapturesOf(m.measured)) = {}

\* A recorded hash "is only tamper-evidence if something recomputes it": what a model
\* is measured on is as promoted, too.
MeasuredAsPromoted == \A m \in models : m.measured \cap m.spoiled = {}

\* ml_train_and_evaluate.py:275: "the holdout cannot re-serve training windows".
NothingIsServedTwice ==
  \A m \in models : CapturesOf(m.trained) \cap CapturesOf(m.measured) = {}
=============================================================================
