------------------------ MODULE ServiceHealthProofs ------------------------
(***************************************************************************)
(* For any collectors, signals and failing calls: no collector outlives    *)
(* the process untold, and no read error is reported as tampering.  Of     *)
(* retention, for any settings: what was deleted is accounted for between  *)
(* passes, and one runner's rounds stop at the target of the size cap.     *)
(***************************************************************************)
EXTENDS ServiceHealth, Retention, SequenceTheorems, TLAPS

USE DEF control, sources, watching

\* run() leaves its loop through finally, after which no supervisor is started.
ToldInv == main \in {"joining", "returned"} => \A c \in Collectors : told[c]

\* What the maintenance thread holds to be broken, is.
ViewInv == "broken" \in DOMAIN view /\ (view.broken => broken)

WolfInv == ViewInv /\ NoCryingWolf

-----------------------------------------------------------------------------

\* From finally on, every collector has been told.
LEMMA ToldKept == ToldInv /\ [Next]_vars => ToldInv'
  <1> SUFFICES ASSUME ToldInv, [Next]_vars PROVE ToldInv'
    OBVIOUS
  <1>1. CASE Launch
    BY <1>1 DEF Launch, ToldInv
  <1>2. CASE Finally \/ Signal
    BY <1>2 DEF Finally, Signal, ToldInv
  <1>3. CASE ClearStop \/ StartMaintenance \/ LeaveLoop \/ Joined
    BY <1>3 DEF ClearStop, StartMaintenance, LeaveLoop, Joined, ToldInv
  <1>4. ASSUME NEW c \in Collectors, Supervise(c) \/ LoseEvent(c) \/ PersistHealth(c)
        PROVE  ToldInv'
    BY <1>4 DEF Supervise, BeginLife, StopBeforeLife, EndLife, Fail, Degrade,
       LoseEvent, PersistHealth, ToldInv
  <1>5. CASE Maintain \/ Tamper \/ UNCHANGED vars
    BY <1>5 DEF Maintain, ReadHealth, EndUpkeep, ReadSources, VerifyChains, Evaluate, Tamper,
       vars, ToldInv
  <1> QED
    BY <1>1, <1>2, <1>3, <1>4, <1>5 DEF Next, Main

\* An alert of a broken chain is raised for a view of one.
LEMMA WolfFires == "evidence_chain_broken" \in Names(Firing) => view.broken
  BY DEF Names, Firing, Named, Alert

\* Neither a failing read nor a failing verification makes a chain look broken.
LEMMA WolfKept == WolfInv /\ [Next]_vars => WolfInv'
  <1> SUFFICES ASSUME WolfInv, [Next]_vars PROVE WolfInv'
    OBVIOUS
  <1>1. CASE ReadHealth
    <2>1. "broken" \in DOMAIN view' /\ view'.broken = FALSE
      BY <1>1 DEF ReadHealth, NoView
    <2> QED
      BY <1>1, <2>1 DEF ReadHealth, WolfInv, ViewInv, NoCryingWolf
  <1>2. CASE ReadSources
    BY <1>2 DEF ReadSources, WolfInv, ViewInv, NoCryingWolf
  <1>3. CASE VerifyChains
    <2>1. "broken" \in DOMAIN view' /\ (view'.broken => broken)
      BY <1>3 DEF VerifyChains, WolfInv, ViewInv
    <2> QED
      BY <1>3, <2>1 DEF VerifyChains, WolfInv, ViewInv, NoCryingWolf
  <1>4. CASE Evaluate
    <2>1. ViewInv'
      BY <1>4 DEF Evaluate, WolfInv, ViewInv, NoView
    <2>2. NoCryingWolf'
      BY <1>4, WolfFires DEF Evaluate, WolfInv, ViewInv, NoCryingWolf, Names
    <2> QED
      BY <2>1, <2>2 DEF WolfInv
  <1>5. CASE Tamper
    BY <1>5 DEF Tamper, WolfInv, ViewInv, NoCryingWolf
  <1>6. ASSUME NEW c \in Collectors, Supervise(c) \/ LoseEvent(c) \/ PersistHealth(c)
        PROVE  WolfInv'
    BY <1>6 DEF Supervise, BeginLife, StopBeforeLife, EndLife, Fail, Degrade,
       LoseEvent, PersistHealth, WolfInv, ViewInv, NoCryingWolf
  <1>7. CASE Main \/ Signal \/ EndUpkeep \/ UNCHANGED vars
    BY <1>7 DEF Main, ClearStop, Launch, StartMaintenance, LeaveLoop, Finally, Joined, Signal,
       EndUpkeep, vars, WolfInv, ViewInv, NoCryingWolf
  <1> QED
    BY <1>1, <1>2, <1>3, <1>4, <1>5, <1>6, <1>7 DEF Next, Maintain

-----------------------------------------------------------------------------

\* When the process ends, every collector has been told to stop: also one whose
\* supervisor was started after the signal, and whose start cleared its event.
THEOREM NoCollectorLeftUntold == Spec => []CollectorsToldToStop
  <1>1. Init => ToldInv
    BY DEF Init, ToldInv
  <1>2. ToldInv => CollectorsToldToStop
    BY DEF ToldInv, CollectorsToldToStop
  <1> QED
    BY <1>1, <1>2, ToldKept, PTL DEF Spec

\* The alert of a broken chain is raised for a chain that is broken, however many
\* reads and verifications fail.
THEOREM ReadErrorIsNoTampering == Spec => []NoCryingWolf
  <1>1. Init => WolfInv
    BY DEF Init, WolfInv, ViewInv, NoView, NoCryingWolf, Names
  <1>2. WolfInv => NoCryingWolf
    BY DEF WolfInv
  <1> QED
    BY <1>1, <1>2, WolfKept, PTL DEF Spec

-----------------------------------------------------------------------------
(* The events table as retention works on it.                              *)

InOrder(s) == \A i, j \in DOMAIN s : i < j => s[i] >= s[j]

\* Without the n oldest.
LEMMA DropFirst ==
  ASSUME NEW s \in Seq(0 .. MaxAge), InOrder(s), NEW n \in 0 .. Len(s),
         NEW t, t = SubSeq(s, n + 1, Len(s))
  PROVE  t \in Seq(0 .. MaxAge) /\ Len(t) = Len(s) - n /\ InOrder(t)
  <1>1. PICK l \in Nat : l = Len(s) /\ n \in 0 .. l /\ DOMAIN s = 1 .. l
    <2>1. Len(s) \in Nat /\ DOMAIN s = 1 .. Len(s)
      BY LenProperties
    <2> QED
      BY <2>1
  <1>2. \A i \in 1 .. l : s[i] \in 0 .. MaxAge
    BY <1>1, ElementOfSeq
  <1>3. /\ t \in Seq(0 .. MaxAge) /\ Len(t) = IF n + 1 <= l THEN l - (n + 1) + 1 ELSE 0
        /\ \A i \in 1 .. l - (n + 1) + 1 : t[i] = s[n + 1 + i - 1]
    <2>1. \A i \in (n + 1) .. l : s[i] \in 0 .. MaxAge
      BY <1>1, <1>2
    <2> QED
      BY <1>1, <2>1, SubSeqProperties
  <1>4. /\ Len(t) = l - n /\ DOMAIN t = 1 .. (l - n)
        /\ \A i \in 1 .. (l - n) : t[i] = s[n + i] /\ n + i \in 1 .. l
    BY <1>1, <1>3, LenProperties
  <1>5. ASSUME NEW i \in 1 .. (l - n), NEW j \in 1 .. (l - n), i < j PROVE t[i] >= t[j]
    <2>1. n + i \in DOMAIN s /\ n + j \in DOMAIN s /\ n + i < n + j
      BY <1>1, <1>4, <1>5
    <2> QED
      BY <1>4, <2>1 DEF InOrder
  <1>6. InOrder(t)
    BY <1>4, <1>5 DEF InOrder
  <1> QED
    BY <1>1, <1>3, <1>4, <1>6

\* What is at position i when a is put behind the first k.
Placed(s, k, a, i) == IF i <= k THEN s[i] ELSE IF i = k + 1 THEN a ELSE s[i - 1]

LEMMA InsertedOrder ==
  ASSUME NEW l \in Nat, NEW k \in 0 .. l, NEW a \in Int, NEW s,
         \A m, n \in 1 .. l : m < n => s[m] >= s[n],
         \A m \in 1 .. l : s[m] \in Int /\ (s[m] >= a <=> m <= k),
         NEW i \in 1 .. (l + 1), NEW j \in 1 .. (l + 1), i < j
  PROVE  Placed(s, k, a, i) >= Placed(s, k, a, j)
  BY DEF Placed

\* With one more, in its place.
LEMMA InsertInPlace ==
  ASSUME NEW s \in Seq(0 .. MaxAge), InOrder(s), NEW a \in 0 .. MaxAge, NEW k \in 0 .. Len(s),
         \A i \in DOMAIN s : s[i] >= a <=> i <= k, NEW t, t = InsertAt(s, k + 1, a)
  PROVE  t \in Seq(0 .. MaxAge) /\ Len(t) = Len(s) + 1 /\ InOrder(t)
  <1> DEFINE A == 0 .. MaxAge
             u == SubSeq(s, 1, k)
             v == SubSeq(s, k + 1, Len(s))
             w == <<a>>
  <1>1. PICK l \in Nat : l = Len(s) /\ k \in 0 .. l /\ DOMAIN s = 1 .. l
    BY LenProperties
  <1>2. \A i \in 1 .. l : s[i] \in A
    BY <1>1, ElementOfSeq
  <1>3. u \in Seq(A) /\ Len(u) = k /\ \A i \in 1 .. k : u[i] = s[i]
    BY <1>1, <1>2, SubSeqProperties
  <1>4. v \in Seq(A) /\ Len(v) = l - k /\ \A i \in 1 .. (l - k) : v[i] = s[k + i]
    BY <1>1, <1>2, SubSeqProperties
  <1>5. w \in Seq(A) /\ Len(w) = 1 /\ w[1] = a
    OBVIOUS
  <1>6. t = (u \o w) \o v
    <2>1. (k + 1) - 1 = k
      BY <1>1
    <2> QED
      BY <2>1 DEF InsertAt
  <1> HIDE DEF u, v, w
  <1>7. PICK x \in Seq(A) : /\ x = u \o w /\ Len(x) = k + 1
                            /\ \A i \in 1 .. (k + 1) : x[i] = IF i <= k THEN s[i] ELSE a
    <2>1. u \o w \in Seq(A) /\ Len(u \o w) = Len(u) + Len(w)
          /\ \A i \in 1 .. Len(u) + Len(w) : (u \o w)[i] = IF i <= Len(u) THEN u[i] ELSE w[i - Len(u)]
      BY <1>3, <1>5, ConcatProperties
    <2>2. ASSUME NEW i \in 1 .. (k + 1) PROVE (u \o w)[i] = IF i <= k THEN s[i] ELSE a
      <3>1. (u \o w)[i] = IF i <= k THEN u[i] ELSE w[i - k]
        BY <1>1, <1>3, <1>5, <2>1
      <3> QED
        BY <1>1, <1>3, <1>5, <3>1
    <2> QED
      BY <1>3, <1>5, <2>1, <2>2
  <1>8. /\ t \in Seq(A) /\ Len(t) = l + 1
        /\ \A i \in 1 .. (l + 1) : t[i] = Placed(s, k, a, i)
    <2>1. t = x \o v
      BY <1>6, <1>7
    <2>2. t \in Seq(A) /\ Len(t) = Len(x) + Len(v)
          /\ \A i \in 1 .. Len(x) + Len(v) : t[i] = IF i <= Len(x) THEN x[i] ELSE v[i - Len(x)]
      <3>1. /\ x \o v \in Seq(A) /\ Len(x \o v) = Len(x) + Len(v)
            /\ \A i \in 1 .. Len(x) + Len(v) : (x \o v)[i] = IF i <= Len(x) THEN x[i] ELSE v[i - Len(x)]
        <4> HIDE DEF A
        <4>1. v \in Seq(A)
          BY <1>4
        <4> QED
          BY <4>1, ConcatProperties
      <3> QED
        BY <2>1, <3>1
    <2>3. Len(x) + Len(v) = l + 1
      BY <1>1, <1>4, <1>7
    <2>4. ASSUME NEW i \in 1 .. (l + 1)
          PROVE  t[i] = Placed(s, k, a, i)
      <3>1. t[i] = IF i <= k + 1 THEN x[i] ELSE v[i - (k + 1)]
        BY <1>7, <2>2, <2>3
      <3>2. CASE i <= k + 1
        BY <1>1, <1>7, <3>1, <3>2 DEF Placed
      <3>3. CASE i > k + 1
        <4>1. i - (k + 1) \in 1 .. (l - k) /\ k + (i - (k + 1)) = i - 1
          BY <1>1, <3>3
        <4> QED
          BY <1>1, <1>4, <3>1, <3>3, <4>1 DEF Placed
      <3> QED
        BY <1>1, <3>2, <3>3
    <2> QED
      BY <2>2, <2>3, <2>4
  <1>9. DOMAIN t = 1 .. (l + 1)
    BY <1>1, <1>8, LenProperties
  <1>10. InOrder(t)
    <2>1. ASSUME NEW i \in 1 .. (l + 1), NEW j \in 1 .. (l + 1), i < j
          PROVE  t[i] >= t[j]
      <3>1. \A m, n \in 1 .. l : m < n => s[m] >= s[n]
        BY <1>1 DEF InOrder
      <3>2. \A m \in 1 .. l : s[m] \in Int /\ (s[m] >= a <=> m <= k)
        <4>1. ASSUME NEW m \in 1 .. l PROVE s[m] \in Int /\ (s[m] >= a <=> m <= k)
          <5>1. m \in DOMAIN s /\ s[m] \in A
            BY <1>1, <1>2
          <5> QED
            BY <5>1
        <4> QED
          BY <4>1
      <3>3. a \in Int
        BY SettingsAssumption
      <3>4. t[i] = Placed(s, k, a, i)
        BY <1>8
      <3>5. t[j] = Placed(s, k, a, j)
        BY <1>8
      <3> QED
        BY <1>1, <2>1, <3>1, <3>2, <3>3, <3>4, <3>5, InsertedOrder
    <2> QED
      BY <1>9, <2>1 DEF InOrder
  <1> QED
    BY <1>1, <1>8, <1>10

\* A sequence of the same length, as much older everywhere.
LEMMA GrownOlder ==
  ASSUME NEW s \in Seq(0 .. MaxAge), InOrder(s), NEW t,
         t = [i \in DOMAIN s |-> Least(s[i] + 1, MaxAge)]
  PROVE  t \in Seq(0 .. MaxAge) /\ Len(t) = Len(s) /\ InOrder(t)
  <1>1. PICK l \in Nat : l = Len(s) /\ DOMAIN s = 1 .. l
    BY LenProperties
  <1>2. \A i \in 1 .. l : s[i] \in 0 .. MaxAge
    BY <1>1, ElementOfSeq
  <1>3. \A i \in 1 .. l : t[i] = Least(s[i] + 1, MaxAge) /\ t[i] \in 0 .. MaxAge
    BY <1>1, <1>2, SettingsAssumption DEF Least
  <1>4. t \in [1 .. l -> 0 .. MaxAge]
    BY <1>1, <1>3
  <1>5. t \in Seq(0 .. MaxAge) /\ Len(t) = l /\ DOMAIN t = 1 .. l
    BY <1>4
  <1>6. ASSUME NEW i \in 1 .. l, NEW j \in 1 .. l, i < j PROVE t[i] >= t[j]
    <2>1. s[i] >= s[j]
      BY <1>1, <1>6 DEF InOrder
    <2> QED
      BY <1>2, <1>3, <2>1, SettingsAssumption DEF Least
  <1> QED
    BY <1>1, <1>5, <1>6 DEF InOrder

-----------------------------------------------------------------------------
(* Retention: what a step does to the table and to the files.              *)

USE DEF events, files

LEMMA LenIsNat == TableOK => Len(ages) \in Nat
  BY LenProperties DEF TableOK

\* The pages of what is deleted stay with the database.
LEMMA DropKept ==
  ASSUME TableOK, FilesOK, RunnersOK, NEW r \in Runners, NEW n \in 0 .. Len(ages), Drop(r, n)
  PROVE  /\ TableOK' /\ (Live <= pages)' /\ deleted' \in [Runners -> Nat]
         /\ Len(ages') = Len(ages) - n /\ UNCHANGED <<evidence, written, pages, file, wal>>
  <1>1. ages' \in Seq(0 .. MaxAge) /\ Len(ages') = Len(ages) - n /\ InOrder(ages')
    <2>1. ages \in Seq(0 .. MaxAge) /\ InOrder(ages)
      BY DEF TableOK, InOrder
    <2>2. ages' = SubSeq(ages, n + 1, Len(ages))
      BY DEF Drop
    <2> QED
      BY <2>1, <2>2, DropFirst
  <1>2. Len(ages) \in Nat /\ n \in Nat
    BY LenIsNat
  <1>3. TableOK'
    BY <1>1 DEF Drop, TableOK, InOrder
  <1>4. (Live <= pages)'
    <2>1. Live \in Int /\ Live <= pages /\ pages \in Nat /\ evidence \in Nat
      BY <1>2, SettingsAssumption DEF Live, FilesOK, TableOK
    <2>2. Live' = Live - n /\ pages' = pages
      <3>1. evidence' = evidence /\ pages' = pages
        BY DEF Drop
      <3> QED
        BY <1>1, <1>2, <2>1, <3>1, SettingsAssumption DEF Live
    <2> QED
      BY <1>2, <2>1, <2>2
  <1>5. deleted' \in [Runners -> Nat]
    BY <1>2 DEF Drop, RunnersOK
  <1> QED
    BY <1>1, <1>3, <1>4, <1>5 DEF Drop

\* A vacuum leaves the database as large as what is live in it.
LEMMA ReclaimKept ==
  ASSUME TableOK, FilesOK, Reclaim, UNCHANGED <<events, reader>>
  PROVE  FilesOK'
  <1>1. Live \in Nat /\ Live' = Live
    BY LenIsNat, SettingsAssumption DEF TableOK, Live
  <1> QED
    BY <1>1, SettingsAssumption DEF Reclaim, FilesOK, Least

\* A row finds a free page, or the database grows.
LEMMA GrowKept ==
  ASSUME TableOK, FilesOK, Grow, UNCHANGED reader, Live' = Live + 1
  PROVE  FilesOK'
  <1>1. Live \in Nat
    BY LenIsNat, SettingsAssumption DEF TableOK, Live
  <1> QED
    BY <1>1, SettingsAssumption DEF Grow, FilesOK, Least, Greatest

\* What is to be deleted for an excess is at least one, and at most what there is.
LEMMA EstimateIsNat ==
  ASSUME NEW count \in Nat, NEW current \in Nat, current > Cap
  PROVE  Estimate(count, current) \in 0 .. count
  <1>1. PICK p \in Int : p = (current - Target) * count
    BY SettingsAssumption DEF Target
  <1>2. PICK q \in Int : q = p \div current
    BY <1>1, SettingsAssumption
  <1> QED
    BY <1>1, <1>2, SettingsAssumption DEF Estimate, Least, Greatest

LEMMA RetentionStart == RetentionInit => RetentionTypeOK
  <1> SUFFICES ASSUME RetentionInit PROVE RetentionTypeOK
    OBVIOUS
  <1>1. TableOK /\ Len(ages) = 0
    BY SettingsAssumption DEF RetentionInit, TableOK
  <1>2. FilesOK
    <2>1. Live = Schema
      BY <1>1, SettingsAssumption DEF RetentionInit, Live
    <2> QED
      <3>1. pages \in Nat /\ file \in Nat /\ wal \in Nat /\ Live <= pages
        BY <2>1, SettingsAssumption DEF RetentionInit
      <3>2. reader \in BOOLEAN
        BY DEF RetentionInit
      <3> QED
        BY <3>1, <3>2, Zenon DEF FilesOK
  <1>3. RunnersOK
    BY SettingsAssumption DEF RetentionInit, RunnersOK, Passes, Fresh, MaxRounds
  <1> QED
    BY <1>1, <1>2, <1>3 DEF RetentionTypeOK

\* A step of a pass that leaves the table alone.
LEMMA SameTable ==
  ASSUME TableOK, UNCHANGED events
  PROVE  TableOK' /\ Live' = Live
  BY DEF TableOK, Live

LEMMA SameFiles ==
  ASSUME TableOK, FilesOK, UNCHANGED <<events, files, reader>>
  PROVE  TableOK' /\ FilesOK'
  BY SameTable DEF FilesOK

USE DEF MaxRounds

LEMMA PassFields ==
  ASSUME NEW p \in Passes
  PROVE  /\ p.aged \in Nat /\ p.current \in Nat /\ p.round \in 0 .. MaxRounds /\ p.total \in Nat
         /\ p.want \in Nat /\ p.gone \in Nat /\ p.actions \in Seq(Nat)
         /\ \A n \in Nat : Append(p.actions, n) \in Seq(Nat)
  BY AppendProperties DEF Passes

LEMMA FreshIsPass ==
  /\ Fresh \in Passes
  /\ \A s \in Seq(Nat) : [Fresh EXCEPT !.actions = s, !.forced = TRUE] \in Passes
  <1>1. <<>> \in Seq(Nat)
    OBVIOUS
  <1>2. Fresh \in Passes
    BY <1>1 DEF Passes, Fresh
  <1>3. ASSUME NEW s \in Seq(Nat) PROVE [Fresh EXCEPT !.actions = s, !.forced = TRUE] \in Passes
    <2>1. PICK p \in Passes : p = Fresh
      BY <1>2
    <2> QED
      BY <2>1 DEF Passes
  <1> QED
    BY <1>2, <1>3

\* A step of a pass writes the local variables of one runner.
LEMMA PassSet ==
  ASSUME NEW f \in [Runners -> Passes], NEW r, NEW x \in Passes, NEW g, g = [f EXCEPT ![r] = x]
  PROVE  g \in [Runners -> Passes]
  OBVIOUS

LEMMA AgeKept ==
  ASSUME RetentionTypeOK, NEW r \in Runners, AgeBatch(r)
  PROVE  RetentionTypeOK'
  <1>1. CASE MaxAge = 0
    <2>1. TableOK' /\ FilesOK'
      BY <1>1, SameFiles DEF AgeBatch, RetentionTypeOK
    <2>2. RunnersOK'
      BY <1>1 DEF AgeBatch, RetentionTypeOK, RunnersOK, Goto
    <2> QED
      BY <2>1, <2>2 DEF RetentionTypeOK
  <1>2. CASE MaxAge # 0
    <2>1. PICK expired \in 0 .. Len(ages) :
            LET n == Least(Batch, expired)
            IN /\ Drop(r, n)
               /\ pass' = [pass EXCEPT ![r].aged = @ + n]
               /\ Goto(r, IF LastBatch(n) THEN "analytics" ELSE "age")
      BY <1>2 DEF AgeBatch
    <2>2. PICK n \in 0 .. Len(ages) :
            /\ Drop(r, n) /\ pass' = [pass EXCEPT ![r].aged = @ + n]
            /\ Goto(r, IF LastBatch(n) THEN "analytics" ELSE "age")
      <3>1. Least(Batch, expired) \in 0 .. Len(ages)
        BY LenIsNat, SettingsAssumption DEF Least, RetentionTypeOK
      <3> QED
        BY <2>1, <3>1
    <2>3. TableOK' /\ (Live <= pages)' /\ deleted' \in [Runners -> Nat]
          /\ UNCHANGED <<evidence, written, pages, file, wal>>
      BY <2>2, DropKept DEF RetentionTypeOK
    <2>4. FilesOK'
      BY <2>3 DEF AgeBatch, RetentionTypeOK, FilesOK
    <2>5. pass' \in [Runners -> Passes]
      <3>1. n \in Nat
        BY LenIsNat DEF RetentionTypeOK
      <3> QED
        <4>1. PICK p \in Passes : p = pass[r]
          BY DEF RetentionTypeOK, RunnersOK
        <4>2. PICK m \in Nat : m = p.aged + n
          BY <3>1, PassFields
        <4>3. PICK x \in Passes : x = [p EXCEPT !.aged = m]
          BY DEF Passes
        <4>4. pass' = [pass EXCEPT ![r] = x]
          BY <2>2, <4>1, <4>2, <4>3
        <4> QED
          BY <4>4, PassSet DEF RetentionTypeOK, RunnersOK
    <2>6. RunnersOK'
      BY <2>2, <2>3, <2>5 DEF AgeBatch, RetentionTypeOK, RunnersOK, Goto
    <2> QED
      BY <2>3, <2>4, <2>6 DEF RetentionTypeOK
  <1> QED
    BY <1>1, <1>2

LEMMA SizeKept ==
  ASSUME RetentionTypeOK, NEW r \in Runners,
         Analytics(r) \/ MeasureFirst(r) \/ MeasureAgain(r) \/ CloseCap(r) \/ Round(r)
  PROVE  RetentionTypeOK'
  <1>1. TableOK' /\ FilesOK'
    BY SameFiles DEF RetentionTypeOK, Analytics, MeasureFirst, MeasureAgain, CloseCap, Round
  <1>2. Size \in Nat
    BY DEF RetentionTypeOK, FilesOK, Size
  <1>3. pass' \in [Runners -> Passes]
    <2>1. PICK p \in Passes : p = pass[r]
      BY DEF RetentionTypeOK, RunnersOK
    <2>2. CASE UNCHANGED pass
      BY <2>2 DEF RetentionTypeOK, RunnersOK
    <2>3. CASE Analytics(r) /\ pass' # pass
      <3>1. PICK x \in Passes : x = [p EXCEPT !.actions = Append(p.actions, p.aged), !.aged = 0]
        BY PassFields DEF Passes
      <3>2. pass' = [pass EXCEPT ![r] = x]
        BY <2>1, <2>3, <3>1 DEF Analytics
      <3> QED
        BY <3>2, PassSet DEF RetentionTypeOK, RunnersOK
    <2>4. CASE (MeasureFirst(r) \/ MeasureAgain(r)) /\ pass' # pass
      <3>1. PICK x \in Passes : x = [p EXCEPT !.current = Size]
        BY <1>2 DEF Passes
      <3>2. pass' = [pass EXCEPT ![r] = x]
        BY <2>1, <2>4, <3>1 DEF MeasureFirst, MeasureAgain
      <3> QED
        BY <3>2, PassSet DEF RetentionTypeOK, RunnersOK
    <2>5. CASE CloseCap(r)
      <3>1. PICK x \in Passes : x = [Fresh EXCEPT !.actions = Append(p.actions, p.total), !.forced = TRUE]
        BY FreshIsPass, PassFields
      <3>2. pass' = [pass EXCEPT ![r] = x]
        BY <2>1, <2>5, <3>1 DEF CloseCap
      <3> QED
        BY <3>2, PassSet DEF RetentionTypeOK, RunnersOK
    <2>6. CASE Round(r)
      <3>1. PICK w \in Nat : w = Estimate(Len(ages), p.current)
        <4>1. p.current \in Nat /\ p.current > Cap /\ Len(ages) \in Nat
          BY <2>1, <2>6, LenIsNat, PassFields DEF Round, RetentionTypeOK
        <4> QED
          BY <4>1, EstimateIsNat
      <3>2. PICK k \in 0 .. MaxRounds : k = p.round + 1
        <4>1. p.round \in 0 .. MaxRounds /\ p.round < MaxRounds
          BY <2>1, <2>6, PassFields DEF Round
        <4> QED
          BY <4>1
      <3>3. PICK x \in Passes : x = [p EXCEPT !.round = k, !.want = w]
        BY DEF Passes
      <3>4. pass' = [pass EXCEPT ![r] = x]
        BY <2>1, <2>6, <3>1, <3>2, <3>3 DEF Round
      <3> QED
        BY <3>4, PassSet DEF RetentionTypeOK, RunnersOK
    <2> QED
      BY <2>2, <2>3, <2>4, <2>5, <2>6
  <1>4. RunnersOK'
    BY <1>3 DEF RetentionTypeOK, RunnersOK, Analytics, MeasureFirst, MeasureAgain, CloseCap, Round, Goto
  <1> QED
    BY <1>1, <1>4 DEF RetentionTypeOK

LEMMA DeleteKept ==
  ASSUME RetentionTypeOK, NEW r \in Runners, DeleteOldest(r)
  PROVE  RetentionTypeOK'
  <1>1. PICK n \in 0 .. Len(ages) :
          /\ n = RowCount(r) /\ Drop(r, n)
          /\ pass' = [pass EXCEPT ![r].gone = n, ![r].want = 0,
                                  ![r].total = CountRounds(@, n)]
    <2>1. RowCount(r) \in 0 .. Len(ages)
      BY LenIsNat DEF RowCount, Least, RetentionTypeOK, RunnersOK, Passes
    <2> QED
      BY <2>1 DEF DeleteOldest
  <1>2. TableOK' /\ (Live <= pages)' /\ deleted' \in [Runners -> Nat]
        /\ UNCHANGED <<evidence, written, pages, file, wal>>
    BY <1>1, DropKept DEF RetentionTypeOK
  <1>3. FilesOK'
    BY <1>2 DEF DeleteOldest, RetentionTypeOK, FilesOK
  <1>4. pass' \in [Runners -> Passes]
    <2>1. n \in Nat
      BY LenIsNat DEF RetentionTypeOK
    <2> QED
      <3>1. PICK p \in Passes : p = pass[r]
        BY DEF RetentionTypeOK, RunnersOK
      <3>2. PICK m \in Nat : m = p.total + n
        BY <2>1, <3>1, PassFields
      <3>3. PICK x \in Passes : x = [p EXCEPT !.gone = n, !.want = 0, !.total = m]
        BY <2>1 DEF Passes
      <3>4. pass' = [pass EXCEPT ![r] = x]
        BY <1>1, <3>1, <3>2, <3>3 DEF CountRounds
      <3> QED
        BY <3>4, PassSet DEF RetentionTypeOK, RunnersOK
  <1>5. RunnersOK'
    BY <1>2, <1>4 DEF DeleteOldest, RetentionTypeOK, RunnersOK, Goto
  <1> QED
    BY <1>2, <1>3, <1>5 DEF RetentionTypeOK

LEMMA VacuumKept ==
  ASSUME RetentionTypeOK, NEW r \in Runners, VacuumRound(r) \/ Schedule(r)
  PROVE  RetentionTypeOK'
  <1>1. TableOK'
    BY SameTable DEF RetentionTypeOK, VacuumRound, Schedule
  <1>2. FilesOK'
    BY ReclaimKept, SameFiles DEF RetentionTypeOK, VacuumRound, Schedule
  <1>3. RunnersOK'
    <2>1. pass' \in [Runners -> Passes]
      <3>1. PICK p \in Passes : p = pass[r]
        BY DEF RetentionTypeOK, RunnersOK
      <3>2. \/ UNCHANGED pass
            \/ pass' = [pass EXCEPT ![r] = [p EXCEPT !.actions = Append(p.actions, 0)]]
        BY <3>1 DEF VacuumRound, Schedule
      <3>3. [p EXCEPT !.actions = Append(p.actions, 0)] \in Passes
        BY PassFields DEF Passes
      <3> QED
        BY <3>2, <3>3, PassSet DEF RetentionTypeOK, RunnersOK
    <2> QED
      BY <2>1 DEF RetentionTypeOK, RunnersOK, VacuumRound, Schedule, Goto
  <1> QED
    BY <1>1, <1>2, <1>3 DEF RetentionTypeOK

LEMMA PassKept ==
  ASSUME RetentionTypeOK, NEW r \in Runners, Begin(r) \/ Record(r) \/ End(r) \/ PassFails(r)
  PROVE  RetentionTypeOK'
  <1>1. TableOK' /\ FilesOK'
    BY SameFiles DEF RetentionTypeOK, Begin, Record, End, PassFails
  <1>2. CASE Record(r)
    <2>1. PICK s \in Seq(Nat) : s = pass[r].actions /\ s # <<>> /\ Head(s) \in Nat /\ Tail(s) \in Seq(Nat)
      BY <1>2, HeadTailProperties DEF Record, RetentionTypeOK, RunnersOK, Passes
    <2>2. pass' \in [Runners -> Passes]
      BY <1>2, <2>1, ZenonT(30) DEF Record, RetentionTypeOK, RunnersOK, Passes
    <2>3. RunnersOK'
      <3>1. failures' \in 0 .. MaxFailures
        BY <1>2, SettingsAssumption DEF Record, RetentionTypeOK, RunnersOK
      <3>2. logged' \in [Runners -> Nat]
        BY <1>2, <2>1, SMTT(30) DEF Record, WriteRecord, RetentionTypeOK, RunnersOK
      <3> QED
        BY <1>2, <2>2, <3>1, <3>2 DEF Record, RetentionTypeOK, RunnersOK
    <2> QED
      BY <1>1, <2>3 DEF RetentionTypeOK
  <1>3. CASE Begin(r) \/ End(r) \/ PassFails(r)
    <2>1. pass' \in [Runners -> Passes]
      <3>1. UNCHANGED pass \/ pass' = [pass EXCEPT ![r] = Fresh]
        BY <1>3 DEF Begin, End, PassFails, Forget
      <3> QED
        BY <3>1, FreshIsPass, PassSet DEF RetentionTypeOK, RunnersOK
    <2>2. pc' \in [Runners -> {"idle", "age", "analytics", "size", "count", "delete", "vacuum",
                               "measure", "close", "schedule", "record"}]
      BY <1>3 DEF Begin, End, PassFails, Forget, Goto, RetentionTypeOK, RunnersOK
    <2>3. lastVacuum' \in [Runners -> {"never", "within", "before"}]
      BY <1>3 DEF Begin, End, PassFails, Forget, RetentionTypeOK, RunnersOK
    <2>4. failures' \in 0 .. MaxFailures
      BY <1>3, SettingsAssumption DEF Begin, End, PassFails, RetentionTypeOK, RunnersOK
    <2>5. RunnersOK'
      BY <1>3, <2>1, <2>2, <2>3, <2>4 DEF Begin, End, PassFails, RetentionTypeOK, RunnersOK
    <2> QED
      BY <1>1, <2>5 DEF RetentionTypeOK
  <1> QED
    BY <1>2, <1>3

LEMMA RestKept ==
  ASSUME RetentionTypeOK, Write \/ AddEvidence \/ Snapshot \/ Tick
  PROVE  RetentionTypeOK'
  <1>1. RunnersOK'
    BY DEF Write, AddEvidence, Snapshot, Tick, RetentionTypeOK, RunnersOK
  <1>2. ages \in Seq(0 .. MaxAge) /\ InOrder(ages) /\ Len(ages) \in Nat /\ evidence \in Nat /\ written \in Nat
    BY LenIsNat DEF RetentionTypeOK, TableOK, InOrder
  <1>3. CASE Write
    <2>1. PICK age \in 0 .. MaxAge, older \in 0 .. Len(ages) :
            Split(age, older) /\ ages' = InsertAt(ages, older + 1, age)
      BY <1>3 DEF Write
    <2>2. ages' \in Seq(0 .. MaxAge) /\ Len(ages') = Len(ages) + 1 /\ InOrder(ages')
      BY <1>2, <2>1, InsertInPlace DEF Split
    <2>3. TableOK'
      BY <1>2, <1>3, <2>2 DEF Write, TableOK, InOrder
    <2>4. Live' = Live + 1
      <3>1. evidence' = evidence
        BY <1>3 DEF Write
      <3> QED
        BY <1>2, <2>2, <3>1, SettingsAssumption DEF Live
    <2> QED
      BY <1>1, <1>3, <2>3, <2>4, GrowKept DEF Write, RetentionTypeOK
  <1>4. CASE AddEvidence
    <2>1. TableOK'
      BY <1>4 DEF AddEvidence, RetentionTypeOK, TableOK
    <2>2. Live' = Live + 1
      BY <1>2, <1>4, SettingsAssumption DEF AddEvidence, Live
    <2> QED
      BY <1>1, <1>4, <2>1, <2>2, GrowKept DEF AddEvidence, RetentionTypeOK
  <1>5. CASE Snapshot
    BY <1>1, <1>5, SameTable DEF Snapshot, RetentionTypeOK, FilesOK
  <1>6. CASE Tick
    <2>1. ages' \in Seq(0 .. MaxAge) /\ Len(ages') = Len(ages) /\ InOrder(ages')
      BY <1>2, <1>6, GrownOlder DEF Tick
    <2>2. TableOK'
      BY <1>2, <1>6, <2>1 DEF Tick, TableOK, InOrder
    <2>3. FilesOK'
      BY <1>6, <2>1 DEF Tick, RetentionTypeOK, FilesOK, Live
    <2> QED
      BY <1>1, <2>2, <2>3 DEF RetentionTypeOK
  <1> QED
    BY <1>3, <1>4, <1>5, <1>6

LEMMA RetentionTypesKept == RetentionTypeOK /\ [RetentionNext]_retentionVars => RetentionTypeOK'
  <1> SUFFICES ASSUME RetentionTypeOK, [RetentionNext]_retentionVars PROVE RetentionTypeOK'
    OBVIOUS
  <1>1. ASSUME NEW r \in Runners, Begin(r) \/ Step(r) \/ PassFails(r) PROVE RetentionTypeOK'
    BY <1>1, AgeKept, SizeKept, DeleteKept, VacuumKept, PassKept DEF Step
  <1>2. CASE UNCHANGED retentionVars
    <2>1. TableOK' /\ FilesOK'
      BY <1>2, SameFiles DEF retentionVars, RetentionTypeOK
    <2>2. RunnersOK'
      BY <1>2 DEF retentionVars, RetentionTypeOK, RunnersOK
    <2> QED
      BY <2>1, <2>2 DEF RetentionTypeOK
  <1> QED
    BY <1>1, <1>2, RestKept DEF RetentionNext

\* Every variable of retention has its type, the events stay ordered by age
\* whatever is written, pruned or grows older, and the database never holds less
\* than what is live in it (storage/retention.py, storage/sqlite_store.py).
THEOREM RetentionTypes == RetentionSpec => []RetentionTypeOK
  BY RetentionStart, RetentionTypesKept, PTL DEF RetentionSpec

-----------------------------------------------------------------------------
(* What a runner has deleted is logged, or still in the hands of its pass. *)

EntryOf(s, i) == IF i <= Len(s) THEN s[i] ELSE 0

\* A pass has at most three actions to log: by age, by size, and the vacuum.
Pending(s) == EntryOf(s, 1) + EntryOf(s, 2) + EntryOf(s, 3)

Room(step) ==
  IF step \in {"idle", "age", "analytics"} THEN 0
  ELSE IF step = "schedule" THEN 2 ELSE IF step = "record" THEN 3 ELSE 1

Balanced(p, log, gone) == gone = log + p.aged + p.total + Pending(p.actions)

\* What the local variables of a pass can hold at a step of it.
Clean(step, p) ==
  /\ step = "idle" => p = Fresh
  /\ step \notin {"age", "analytics"} \/ MaxAge = 0 => p.aged = 0
  /\ step \notin {"count", "delete", "vacuum", "measure", "close"} => p.total = 0
  /\ Len(p.actions) <= Room(step)

Ledger(r) ==
  /\ failures = 0 => Balanced(pass[r], logged[r], deleted[r])
  /\ Clean(pc[r], pass[r])

LedgerInv == RetentionTypeOK /\ \A r \in Runners : Ledger(r)

LEMMA PendingIsNat == ASSUME NEW s \in Seq(Nat) PROVE Len(s) \in Nat /\ Pending(s) \in Nat
  <1>1. PICK l \in Nat : l = Len(s)
    BY LenProperties
  <1>2. \A i \in 1 .. l : s[i] \in Nat
    BY <1>1, ElementOfSeq
  <1> QED
    BY <1>1, <1>2 DEF Pending, EntryOf

LEMMA PendingMore ==
  ASSUME NEW s, NEW t, NEW l \in Nat, l <= 2, Len(s) = l, Len(t) = l + 1, NEW n \in Nat,
         \A i \in 1 .. l : s[i] \in Nat /\ t[i] = s[i], t[l + 1] = n
  PROVE  Pending(t) = Pending(s) + n
  <1>1. CASE l = 0
    BY <1>1 DEF Pending, EntryOf
  <1>2. CASE l = 1
    BY <1>2 DEF Pending, EntryOf
  <1>3. CASE l = 2
    BY <1>3 DEF Pending, EntryOf
  <1> QED
    BY <1>1, <1>2, <1>3

LEMMA PendingLess ==
  ASSUME NEW s, NEW t, NEW l \in Nat, l # 0, l <= 3, Len(s) = l, Len(t) = l - 1,
         \A i \in 1 .. l : s[i] \in Nat, \A i \in 1 .. (l - 1) : t[i] = s[i + 1]
  PROVE  Pending(s) = s[1] + Pending(t)
  <1>1. CASE l = 1
    BY <1>1 DEF Pending, EntryOf
  <1>2. CASE l = 2
    BY <1>2 DEF Pending, EntryOf
  <1>3. CASE l = 3
    BY <1>3 DEF Pending, EntryOf
  <1> QED
    BY <1>1, <1>2, <1>3

LEMMA PendingAppend ==
  ASSUME NEW s \in Seq(Nat), Len(s) <= 2, NEW n \in Nat
  PROVE  LET t == Append(s, n)
         IN  t \in Seq(Nat) /\ Len(t) = Len(s) + 1 /\ Pending(t) = Pending(s) + n
  <1>1. PICK l \in Nat : l = Len(s) /\ l <= 2
    <2>1. Len(s) \in Nat
      BY LenProperties
    <2> QED
      BY <2>1
  <1>2. \A i \in 1 .. l : s[i] \in Nat
    BY <1>1, ElementOfSeq
  <1>3. PICK t \in Seq(Nat) : /\ t = Append(s, n) /\ Len(t) = l + 1 /\ t[l + 1] = n
                             /\ \A i \in 1 .. l : t[i] = s[i]
    <2>1. /\ Append(s, n) \in Seq(Nat) /\ Len(Append(s, n)) = Len(s) + 1
          /\ Append(s, n)[Len(s) + 1] = n
          /\ \A i \in 1 .. Len(s) : Append(s, n)[i] = s[i]
      BY AppendProperties
    <2> QED
      BY <1>1, <2>1
  <1>4. Pending(t) = Pending(s) + n
    BY <1>1, <1>2, <1>3, PendingMore
  <1> QED
    BY <1>1, <1>3, <1>4

LEMMA PendingTail ==
  ASSUME NEW s \in Seq(Nat), s # <<>>, Len(s) <= 3
  PROVE  LET t == Tail(s)
         IN  /\ t \in Seq(Nat) /\ Len(t) = Len(s) - 1 /\ Head(s) \in Nat
             /\ Pending(s) = Head(s) + Pending(t)
  <1>1. PICK l \in Nat : l = Len(s) /\ l # 0 /\ l <= 3
    <2>1. Len(s) \in Nat \ {0}
      BY EmptySeq
    <2> QED
      BY <2>1
  <1>2. \A i \in 1 .. l : s[i] \in Nat
    BY <1>1, ElementOfSeq
  <1>3. PICK t \in Seq(Nat) : /\ t = Tail(s) /\ Len(t) = l - 1 /\ Head(s) = s[1]
                             /\ \A i \in 1 .. (l - 1) : t[i] = s[i + 1]
    <2>1. /\ Tail(s) \in Seq(Nat) /\ Len(Tail(s)) = Len(s) - 1 /\ Head(s) = s[1]
          /\ \A i \in 1 .. Len(Tail(s)) : Tail(s)[i] = s[i + 1]
      BY HeadTailProperties
    <2> QED
      BY <1>1, <2>1
  <1>4. Pending(s) = s[1] + Pending(t)
    BY <1>1, <1>2, <1>3, PendingLess
  <1> QED
    BY <1>1, <1>2, <1>3, <1>4

LEMMA PendingNone == Len(<<>>) = 0 /\ Pending(<<>>) = 0
  BY DEF Pending, EntryOf

LEMMA LedgerSame ==
  ASSUME NEW x \in Runners, Ledger(x), failures' = 0 => failures = 0,
         pc'[x] = pc[x], pass'[x] = pass[x], logged'[x] = logged[x], deleted'[x] = deleted[x]
  PROVE  Ledger(x)'
  BY DEF Ledger

\* A runner writes nothing of another.
LEMMA OthersKept ==
  ASSUME RetentionTypeOK, NEW r \in Runners, NEW x \in Runners \ {r},
         Begin(r) \/ Step(r) \/ PassFails(r)
  PROVE  /\ pc'[x] = pc[x] /\ pass'[x] = pass[x]
         /\ logged'[x] = logged[x] /\ deleted'[x] = deleted[x]
         /\ failures' = 0 => failures = 0
  <1> USE DEF RetentionTypeOK, RunnersOK
  <1>1. CASE AgeBatch(r) \/ DeleteOldest(r)
    BY <1>1 DEF AgeBatch, DeleteOldest, Drop, Goto
  <1>2. CASE Analytics(r) \/ MeasureFirst(r) \/ Round(r) \/ VacuumRound(r)
    BY <1>2 DEF Analytics, MeasureFirst, Round, VacuumRound, Goto
  <1>3. CASE MeasureAgain(r) \/ CloseCap(r) \/ Schedule(r)
    BY <1>3 DEF MeasureAgain, CloseCap, Schedule, Goto
  <1>4. CASE Record(r) \/ End(r) \/ Begin(r)
    BY <1>4 DEF Record, WriteRecord, End, Begin, Forget, Goto
  <1>5. CASE PassFails(r)
    BY <1>5, SettingsAssumption DEF PassFails, Forget, Goto
  <1> QED
    BY <1>1, <1>2, <1>3, <1>4, <1>5 DEF Step

\* The entries of a runner.
Held(r, p, log, gone) ==
  /\ p = pass[r] /\ log = logged[r] /\ gone = deleted[r]
  /\ failures = 0 => Balanced(p, log, gone)
  /\ Clean(pc[r], p)
  /\ p.aged \in Nat /\ p.total \in Nat /\ p.actions \in Seq(Nat)
  /\ Len(p.actions) \in Nat /\ Pending(p.actions) \in Nat

LEMMA Own ==
  ASSUME LedgerInv, NEW r \in Runners
  PROVE  \E p \in Passes, log \in Nat, gone \in Nat : Held(r, p, log, gone)
  <1>1. PICK p \in Passes, log \in Nat, gone \in Nat : p = pass[r] /\ log = logged[r] /\ gone = deleted[r]
    BY DEF LedgerInv, RetentionTypeOK, RunnersOK
  <1>2. (failures = 0 => Balanced(p, log, gone)) /\ Clean(pc[r], p)
    BY <1>1 DEF LedgerInv, Ledger
  <1>3. p.aged \in Nat /\ p.total \in Nat /\ p.actions \in Seq(Nat)
    BY PassFields
  <1> QED
    BY <1>1, <1>2, <1>3, PendingIsNat DEF Held

LEMMA AgeLedger ==
  ASSUME LedgerInv, NEW r \in Runners, AgeBatch(r)
  PROVE  Ledger(r)'
  <1>1. PICK p \in Passes, log \in Nat, gone \in Nat : Held(r, p, log, gone)
    BY Own
  <1> USE DEF Held
  <1>2. pc[r] = "age" /\ logged'[r] = log /\ failures' = failures
    BY <1>1 DEF AgeBatch
  <1>3. p.total = 0 /\ Len(p.actions) = 0
    BY <1>1, <1>2 DEF Clean, Room
  <1>4. CASE MaxAge = 0
    <2>1. pc'[r] = "size" /\ pass'[r] = p /\ deleted'[r] = gone
      BY <1>1, <1>4 DEF AgeBatch, Goto, LedgerInv, RetentionTypeOK, RunnersOK
    <2>2. Clean("size", p)
      BY <1>1, <1>3, <1>4 DEF Clean, Room
    <2> QED
      BY <1>1, <1>2, <2>1, <2>2 DEF Ledger
  <1>5. CASE MaxAge # 0
    <2>1. PICK expired \in 0 .. Len(ages) :
            LET n == Least(Batch, expired)
            IN /\ Drop(r, n)
               /\ pass' = [pass EXCEPT ![r].aged = @ + n]
               /\ Goto(r, IF LastBatch(n) THEN "analytics" ELSE "age")
      BY <1>5 DEF AgeBatch
    <2>2. PICK n \in Nat : n = Least(Batch, expired)
      BY LenIsNat, SettingsAssumption DEF Least, LedgerInv, RetentionTypeOK
    <2>3. deleted'[r] = gone + n
      BY <1>1, <2>1, <2>2 DEF Drop, LedgerInv, RetentionTypeOK, RunnersOK
    <2>4. PICK x : x = pass'[r] /\ x.aged = p.aged + n /\ x.total = p.total /\ x.actions = p.actions
      <3>1. PICK m \in Nat : m = p.aged + n
        BY <1>1
      <3>2. pass' = [pass EXCEPT ![r] = [p EXCEPT !.aged = m]]
        BY <1>1, <2>1, <2>2, <3>1
      <3>3. pass'[r] = [p EXCEPT !.aged = m]
        BY <3>2 DEF LedgerInv, RetentionTypeOK, RunnersOK
      <3> QED
        BY <3>1, <3>3 DEF Passes
    <2>5. pc'[r] \in {"age", "analytics"}
      BY <2>1 DEF Goto, LedgerInv, RetentionTypeOK, RunnersOK
    <2>6. Clean(pc'[r], x)
      BY <1>3, <1>5, <2>4, <2>5 DEF Clean, Room
    <2>7. Balanced(p, log, gone) => Balanced(x, log, gone + n)
      <3>1. PICK q \in Nat : q = Pending(p.actions)
        BY <1>1
      <3>2. Pending(x.actions) = q /\ x.aged = p.aged + n /\ x.total = p.total
        BY <2>4, <3>1
      <3>3. ASSUME NEW b \in Nat, NEW c \in Nat, gone = log + b + c + q
            PROVE  gone + n = log + (b + n) + c + q
        BY <3>3
      <3> QED
        BY <1>1, <3>1, <3>2, <3>3, SMTT(30) DEF Balanced
    <2> QED
      BY <1>1, <1>2, <2>3, <2>4, <2>6, <2>7 DEF Ledger
  <1> QED
    BY <1>4, <1>5

\* The steps that change no count.
LEMMA MovesLedger ==
  ASSUME LedgerInv, NEW r \in Runners,
         Begin(r) \/ MeasureFirst(r) \/ Round(r) \/ VacuumRound(r) \/ MeasureAgain(r)
  PROVE  Ledger(r)'
  <1>1. PICK p \in Passes, log \in Nat, gone \in Nat : Held(r, p, log, gone)
    BY Own
  <1> USE DEF Held
  <1>2. logged'[r] = log /\ deleted'[r] = gone /\ failures' = failures
    BY <1>1 DEF Begin, MeasureFirst, Round, VacuumRound, MeasureAgain
  <1>3. PICK x : x = pass'[r] /\ x.aged = p.aged /\ x.total = p.total /\ x.actions = p.actions
    <2> USE DEF LedgerInv, RetentionTypeOK, RunnersOK
    <2>1. CASE UNCHANGED pass
      BY <1>1, <2>1
    <2>2. CASE ~ UNCHANGED pass /\ (MeasureFirst(r) \/ MeasureAgain(r))
      <3>1. pass' = [pass EXCEPT ![r] = [p EXCEPT !.current = Size]]
        BY <1>1, <2>2 DEF MeasureFirst, MeasureAgain
      <3>2. pass'[r] = [p EXCEPT !.current = Size]
        BY <3>1
      <3> QED
        BY <3>2 DEF Passes
    <2>3. CASE Round(r)
      <3>1. PICK w, k : w = Estimate(Len(ages), pass[r].current) /\ k = pass[r].round + 1
        OBVIOUS
      <3>2. pass' = [pass EXCEPT ![r] = [p EXCEPT !.round = k, !.want = w]]
        BY <1>1, <2>3, <3>1 DEF Round
      <3>3. pass'[r] = [p EXCEPT !.round = k, !.want = w]
        BY <3>2
      <3> QED
        BY <3>3 DEF Passes
    <2> QED
      BY <2>1, <2>2, <2>3 DEF Begin, VacuumRound
  <1>4. Clean(pc'[r], x)
    <2>1. CASE Begin(r)
      <3>1. pc[r] = "idle" /\ pc'[r] = "age"
        BY <2>1 DEF Begin, Goto, LedgerInv, RetentionTypeOK, RunnersOK
      <3> QED
        BY <1>1, <1>3, <3>1 DEF Clean, Room
    <2>2. CASE MeasureFirst(r)
      <3>1. pc[r] = "size" /\ pc'[r] \in {"schedule", "count"}
        BY <2>2 DEF MeasureFirst, Goto, LedgerInv, RetentionTypeOK, RunnersOK
      <3> QED
        BY <1>1, <1>3, <3>1 DEF Clean, Room
    <2>3. CASE Round(r) \/ VacuumRound(r) \/ MeasureAgain(r)
      <3>1. /\ pc[r] \in {"count", "vacuum", "measure"}
            /\ pc'[r] \in {"delete", "measure", "close", "count"}
        BY <2>3 DEF Round, VacuumRound, MeasureAgain, Goto, LedgerInv, RetentionTypeOK, RunnersOK
      <3> QED
        BY <1>1, <1>3, <3>1 DEF Clean, Room
    <2> QED
      BY <2>1, <2>2, <2>3
  <1>5. Balanced(p, log, gone) => Balanced(x, log, gone)
    BY <1>3 DEF Balanced
  <1> QED
    BY <1>1, <1>2, <1>3, <1>4, <1>5 DEF Ledger

LEMMA DeleteLedger ==
  ASSUME LedgerInv, NEW r \in Runners, DeleteOldest(r)
  PROVE  Ledger(r)'
  <1>1. PICK p \in Passes, log \in Nat, gone \in Nat : Held(r, p, log, gone)
    BY Own
  <1> USE DEF Held
  <1>2. /\ pc[r] = "delete" /\ pc'[r] = "vacuum" /\ logged'[r] = log /\ failures' = failures
    BY <1>1 DEF DeleteOldest, Goto, LedgerInv, RetentionTypeOK, RunnersOK
  <1>3. PICK n \in Nat : n = RowCount(r)
    BY LenIsNat DEF RowCount, Least, LedgerInv, RetentionTypeOK, RunnersOK, Passes
  <1>4. deleted'[r] = gone + n
    BY <1>1, <1>3 DEF DeleteOldest, Drop, LedgerInv, RetentionTypeOK, RunnersOK
  <1>5. PICK x : x = pass'[r] /\ x.aged = p.aged /\ x.total = p.total + n /\ x.actions = p.actions
    <2>1. PICK m \in Nat : m = p.total + n
      BY <1>1
    <2>2. pass' = [pass EXCEPT ![r] = [p EXCEPT !.gone = n, !.want = 0, !.total = m]]
      BY <1>1, <1>3, <2>1 DEF DeleteOldest, CountRounds
    <2>3. pass'[r] = [p EXCEPT !.gone = n, !.want = 0, !.total = m]
      BY <2>2 DEF LedgerInv, RetentionTypeOK, RunnersOK
    <2> QED
      BY <2>1, <2>3 DEF Passes
  <1>6. Clean(pc'[r], x)
    BY <1>1, <1>2, <1>5 DEF Clean, Room
  <1>7. Balanced(p, log, gone) => Balanced(x, log, gone + n)
    <2>1. PICK q \in Nat : q = Pending(p.actions)
      BY <1>1
    <2>2. Pending(x.actions) = q /\ x.aged = p.aged /\ x.total = p.total + n
      BY <1>5, <2>1
    <2>3. ASSUME NEW b \in Nat, NEW c \in Nat, gone = log + b + c + q
          PROVE  gone + n = log + b + (c + n) + q
      BY <2>3
    <2> QED
      BY <1>1, <2>1, <2>2, <2>3 DEF Balanced
  <1> QED
    BY <1>1, <1>2, <1>4, <1>5, <1>6, <1>7 DEF Ledger

\* What the pass has in hand is added to the actions it will log.
LEMMA AnalyticsLedger ==
  ASSUME LedgerInv, NEW r \in Runners, Analytics(r)
  PROVE  Ledger(r)'
  <1>1. PICK p \in Passes, log \in Nat, gone \in Nat : Held(r, p, log, gone)
    BY Own
  <1> USE DEF Held
  <1>2. /\ pc[r] = "analytics" /\ pc'[r] = "size"
        /\ logged'[r] = log /\ deleted'[r] = gone /\ failures' = failures
    BY <1>1 DEF Analytics, Goto, LedgerInv, RetentionTypeOK, RunnersOK
  <1>3. p.total = 0 /\ Len(p.actions) = 0
    BY <1>1, <1>2 DEF Clean, Room
  <1>4. CASE UNCHANGED pass /\ p.aged = 0
    <2>1. Clean(pc'[r], p)
      BY <1>1, <1>2, <1>3, <1>4 DEF Clean, Room
    <2> QED
      BY <1>1, <1>2, <1>4, <2>1 DEF Ledger
  <1>5. CASE pass' = [pass EXCEPT ![r] = [p EXCEPT !.actions = Append(p.actions, p.aged), !.aged = 0]]
    <2>1. PICK s : /\ s = Append(p.actions, p.aged) /\ Len(s) = Len(p.actions) + 1
                   /\ Pending(s) = Pending(p.actions) + p.aged
      <3>1. p.actions \in Seq(Nat) /\ Len(p.actions) <= 2 /\ p.aged \in Nat
        BY <1>1, <1>3
      <3> QED
        BY <3>1, PendingAppend
    <2>2. PICK x : x = pass'[r] /\ x.aged = 0 /\ x.total = p.total /\ x.actions = s
      <3>1. pass'[r] = [p EXCEPT !.actions = s, !.aged = 0]
        BY <1>5, <2>1 DEF LedgerInv, RetentionTypeOK, RunnersOK
      <3> QED
        BY <3>1 DEF Passes
    <2>3. Clean(pc'[r], x)
      BY <1>2, <1>3, <2>1, <2>2 DEF Clean, Room
    <2>4. Balanced(p, log, gone) => Balanced(x, log, gone)
      BY <1>1, <1>3, <2>1, <2>2 DEF Balanced
    <2> QED
      BY <1>1, <1>2, <2>2, <2>3, <2>4 DEF Ledger
  <1> QED
    BY <1>1, <1>4, <1>5 DEF Analytics

LEMMA CloseLedger ==
  ASSUME LedgerInv, NEW r \in Runners, CloseCap(r)
  PROVE  Ledger(r)'
  <1>1. PICK p \in Passes, log \in Nat, gone \in Nat : Held(r, p, log, gone)
    BY Own
  <1> USE DEF Held
  <1>2. /\ pc[r] \in {"close", "count"} /\ pc'[r] = "schedule"
        /\ logged'[r] = log /\ deleted'[r] = gone /\ failures' = failures
    BY <1>1 DEF CloseCap, Goto, LedgerInv, RetentionTypeOK, RunnersOK
  <1>3. p.aged = 0 /\ Len(p.actions) <= 1
    BY <1>1, <1>2 DEF Clean, Room
  <1>4. PICK s : /\ s = Append(p.actions, p.total) /\ Len(s) = Len(p.actions) + 1
                 /\ Pending(s) = Pending(p.actions) + p.total
    <2>1. p.actions \in Seq(Nat) /\ Len(p.actions) <= 2 /\ p.total \in Nat
      BY <1>1, <1>3
    <2> QED
      BY <2>1, PendingAppend
  <1>5. PICK x : x = pass'[r] /\ x.aged = 0 /\ x.total = 0 /\ x.actions = s
    <2>1. pass'[r] = [Fresh EXCEPT !.actions = s, !.forced = TRUE]
      BY <1>1, <1>4 DEF CloseCap, LedgerInv, RetentionTypeOK, RunnersOK
    <2> QED
      BY <2>1 DEF Fresh
  <1>6. Clean(pc'[r], x)
    BY <1>1, <1>2, <1>3, <1>4, <1>5 DEF Clean, Room
  <1>7. Balanced(p, log, gone) => Balanced(x, log, gone)
    BY <1>1, <1>3, <1>4, <1>5 DEF Balanced
  <1> QED
    BY <1>1, <1>2, <1>5, <1>6, <1>7 DEF Ledger

LEMMA ScheduleLedger ==
  ASSUME LedgerInv, NEW r \in Runners, Schedule(r)
  PROVE  Ledger(r)'
  <1>1. PICK p \in Passes, log \in Nat, gone \in Nat : Held(r, p, log, gone)
    BY Own
  <1> USE DEF Held
  <1>2. /\ pc[r] = "schedule" /\ pc'[r] = "record"
        /\ logged'[r] = log /\ deleted'[r] = gone /\ failures' = failures
    BY <1>1 DEF Schedule, Goto, LedgerInv, RetentionTypeOK, RunnersOK
  <1>3. Len(p.actions) <= 2
    BY <1>1, <1>2 DEF Clean, Room
  <1>4. PICK x : /\ x = pass'[r] /\ x.aged = p.aged /\ x.total = p.total
                 /\ Len(x.actions) <= 3 /\ Pending(x.actions) = Pending(p.actions)
    <2>1. CASE UNCHANGED pass
      BY <1>1, <1>3, <2>1
    <2>2. CASE pass' = [pass EXCEPT ![r] = [p EXCEPT !.actions = Append(p.actions, 0)]]
      <3>1. PICK s : /\ s = Append(p.actions, 0) /\ Len(s) = Len(p.actions) + 1
                     /\ Pending(s) = Pending(p.actions) + 0
        BY <1>1, <1>3, PendingAppend, ZenonT(30)
      <3>2. pass'[r] = [p EXCEPT !.actions = s]
        BY <2>2, <3>1 DEF LedgerInv, RetentionTypeOK, RunnersOK
      <3>3. Len(s) <= 3 /\ Pending(s) = Pending(p.actions)
        BY <1>1, <1>3, <3>1
      <3> QED
        BY <3>2, <3>3 DEF Passes
    <2> QED
      BY <1>1, <2>1, <2>2 DEF Schedule
  <1>5. Clean(pc'[r], x)
    BY <1>1, <1>2, <1>4 DEF Clean, Room
  <1>6. Balanced(p, log, gone) => Balanced(x, log, gone)
    BY <1>4 DEF Balanced
  <1> QED
    BY <1>1, <1>2, <1>4, <1>5, <1>6 DEF Ledger

\* A row of the log takes over what its action deleted.
LEMMA RecordLedger ==
  ASSUME LedgerInv, NEW r \in Runners, Record(r)
  PROVE  Ledger(r)'
  <1>1. PICK p \in Passes, log \in Nat, gone \in Nat : Held(r, p, log, gone)
    BY Own
  <1> USE DEF Held
  <1>2. pc[r] = "record" /\ pc'[r] = "record" /\ deleted'[r] = gone /\ p.actions # <<>>
    BY <1>1 DEF Record
  <1>3. Len(p.actions) <= 3
    BY <1>1, <1>2 DEF Clean, Room
  <1>4. PICK s : /\ s = Tail(p.actions) /\ Len(s) = Len(p.actions) - 1 /\ Head(p.actions) \in Nat
                 /\ Pending(p.actions) = Head(p.actions) + Pending(s) /\ s \in Seq(Nat)
    BY <1>1, <1>2, <1>3, PendingTail
  <1>5. PICK x : x = pass'[r] /\ x.aged = p.aged /\ x.total = p.total /\ x.actions = s
    <2>1. pass'[r] = [p EXCEPT !.actions = s]
      BY <1>1, <1>4 DEF Record, LedgerInv, RetentionTypeOK, RunnersOK
    <2> QED
      BY <2>1 DEF Passes
  <1>6. Clean(pc'[r], x)
    BY <1>1, <1>2, <1>3, <1>4, <1>5 DEF Clean, Room
  <1>7. CASE failures' = failures + 1
    <2>1. failures' # 0
      BY <1>7 DEF LedgerInv, RetentionTypeOK, RunnersOK
    <2> QED
      BY <1>5, <1>6, <2>1 DEF Ledger
  <1>8. CASE WriteRecord(r, Head(pass[r].actions)) /\ UNCHANGED failures
    <2>1. logged'[r] = log + Head(p.actions)
      BY <1>1, <1>8 DEF WriteRecord, LedgerInv, RetentionTypeOK, RunnersOK
    <2>2. Balanced(p, log, gone) => Balanced(x, log + Head(p.actions), gone)
      <3>1. PICK q \in Nat, h \in Nat : q = Pending(s) /\ h = Head(p.actions)
        BY <1>4, PendingIsNat
      <3>2. ASSUME NEW b \in Nat, NEW c \in Nat, gone = log + b + c + (h + q)
            PROVE  gone = (log + h) + b + c + q
        BY <3>2
      <3> QED
        BY <1>1, <1>4, <1>5, <3>1, <3>2 DEF Balanced
    <2> QED
      BY <1>1, <1>2, <1>5, <1>6, <1>8, <2>1, <2>2 DEF Ledger
  <1> QED
    BY <1>7, <1>8 DEF Record

LEMMA EndLedger ==
  ASSUME LedgerInv, NEW r \in Runners, End(r) \/ PassFails(r)
  PROVE  Ledger(r)'
  <1>1. PICK p \in Passes, log \in Nat, gone \in Nat : Held(r, p, log, gone)
    BY Own
  <1> USE DEF Held
  <1>2. pc'[r] = "idle" /\ pass'[r] = Fresh /\ logged'[r] = log /\ deleted'[r] = gone
    BY <1>1 DEF End, PassFails, Forget, Goto, LedgerInv, RetentionTypeOK, RunnersOK
  <1>3. Clean(pc'[r], Fresh)
    BY <1>2, PendingNone DEF Clean, Room, Fresh
  <1>4. CASE PassFails(r)
    <2>1. failures' # 0
      BY <1>4 DEF PassFails, LedgerInv, RetentionTypeOK, RunnersOK
    <2> QED
      BY <1>2, <1>3, <2>1 DEF Ledger
  <1>5. CASE End(r)
    <2>1. pc[r] = "record" /\ p.actions = <<>> /\ failures' = failures
      BY <1>1, <1>5 DEF End
    <2>2. p.aged = 0 /\ p.total = 0 /\ Pending(p.actions) = 0
      BY <1>1, <2>1, PendingNone DEF Clean
    <2>3. Balanced(p, log, gone) => Balanced(Fresh, log, gone)
      BY <1>1, <2>2, PendingNone DEF Balanced, Fresh
    <2> QED
      BY <1>1, <1>2, <1>3, <2>1, <2>3 DEF Ledger
  <1> QED
    BY <1>4, <1>5

LEMMA LedgerKept == LedgerInv /\ [RetentionNext]_retentionVars => LedgerInv'
  <1> SUFFICES ASSUME LedgerInv, [RetentionNext]_retentionVars PROVE LedgerInv'
    OBVIOUS
  <1>1. RetentionTypeOK'
    BY RetentionTypesKept DEF LedgerInv
  <1>2. ASSUME NEW r \in Runners, Begin(r) \/ Step(r) \/ PassFails(r), NEW x \in Runners
        PROVE  Ledger(x)'
    <2>1. CASE x = r
      BY <1>2, <2>1, AgeLedger, AnalyticsLedger, MovesLedger, DeleteLedger, CloseLedger,
         ScheduleLedger, RecordLedger, EndLedger DEF Step
    <2>2. CASE x # r
      BY <1>2, <2>2, OthersKept, LedgerSame DEF LedgerInv
    <2> QED
      BY <2>1, <2>2
  <1>3. ASSUME Write \/ AddEvidence \/ Snapshot \/ Tick \/ UNCHANGED retentionVars, NEW x \in Runners
        PROVE  Ledger(x)'
    BY <1>3 DEF LedgerInv, Ledger, Write, AddEvidence, Snapshot, Tick, retentionVars
  <1> QED
    BY <1>1, <1>2, <1>3 DEF LedgerInv, RetentionNext

\* The maintenance log accounts for every event retention has deleted: between the
\* passes of a runner its rows add up to what it deleted, however many runners there
\* are, whatever their passes, the collectors and a reader did in between, and
\* whatever the settings, as long as no call has raised (run_once and _record of
\* storage/retention.py).
THEOREM DeletionsLogged == RetentionSpec => []EveryActionLogged
  <1>1. RetentionInit => LedgerInv
    <2> SUFFICES ASSUME RetentionInit PROVE LedgerInv
      OBVIOUS
    <2>1. ASSUME NEW r \in Runners PROVE Ledger(r)
      <3>1. pc[r] = "idle" /\ pass[r] = Fresh /\ logged[r] = 0 /\ deleted[r] = 0
        BY DEF RetentionInit
      <3>2. Clean("idle", Fresh) /\ Balanced(Fresh, 0, 0)
        BY PendingNone DEF Clean, Room, Balanced, Fresh
      <3> QED
        BY <3>1, <3>2 DEF Ledger
    <2> QED
      BY <2>1, RetentionStart DEF LedgerInv
  <1>2. LedgerInv => EveryActionLogged
    <2> SUFFICES ASSUME LedgerInv, failures = 0, NEW r \in Runners, pc[r] = "idle"
                 PROVE  logged[r] = deleted[r]
      BY DEF EveryActionLogged
    <2>1. PICK p \in Passes, log \in Nat, gone \in Nat : Held(r, p, log, gone)
      BY Own
    <2>2. p = Fresh /\ Balanced(p, log, gone)
      BY <2>1 DEF Held, Clean
    <2>3. gone = log + 0 + 0 + 0
      BY <2>2, PendingNone DEF Balanced, Fresh
    <2> QED
      BY <2>1, <2>3 DEF Held
  <1> QED
    BY <1>1, <1>2, LedgerKept, PTL DEF RetentionSpec

-----------------------------------------------------------------------------
(* What a round of the size cap leaves.                                    *)

LEMMA ProductOrder ==
  ASSUME NEW a \in Nat, NEW b \in Nat, NEW c \in Nat, b <= c
  PROVE  a * b <= a * c
  <1>1. PICK d \in Nat : c = b + d
    <2>1. c - b \in Nat /\ c = b + (c - b)
      OBVIOUS
    <2> QED
      BY <2>1
  <1>2. a * c = a * b + a * d
    BY <1>1
  <1> QED
    BY <1>2

LEMMA QuotientBound ==
  ASSUME NEW c \in Nat \ {0}, NEW e \in Nat, NEW n \in Nat, NEW q \in Int, q = (e * n) \div c
  PROVE  q \in Nat /\ c * q <= e * n
  <1>1. PICK p \in Nat : p = e * n
    OBVIOUS
  <1>2. q \in Nat /\ c * q <= p
    BY <1>1
  <1> QED
    BY <1>1, <1>2

\* The events removed for an excess over the target are no more than the excess
\* when there are no more events than units of room, and leave more than the
\* target of them when there are.
LEMMA EstimateKeeps ==
  ASSUME NEW n \in Nat, NEW c \in Nat, c > Cap, NEW w, w = Estimate(n, c)
  PROVE  w \in Nat /\ w <= n /\ (w <= c - Target \/ Target <= n - w)
  <1>1. Target \in Nat /\ Target <= Cap /\ Cap \in Nat
    BY SettingsAssumption DEF Target
  <1>2. PICK e \in Nat : e = c - Target /\ e >= 1 /\ e <= c
    <2>1. c - Target \in Nat /\ c - Target >= 1 /\ c - Target <= c
      BY <1>1
    <2> QED
      BY <2>1
  <1>3. PICK q \in Int : q = (e * n) \div c
    BY <1>1
  <1>4. q \in Nat /\ c * q <= e * n
    BY <1>1, <1>3, QuotientBound
  <1>5. w \in Nat /\ w <= n /\ (w <= 1 \/ w <= q)
    <2>1. w = Least(n, Greatest(1, q))
      BY <1>2, <1>3 DEF Estimate
    <2>2. PICK g \in Nat : g = Greatest(1, q) /\ (g = 1 \/ g = q)
      BY <1>4 DEF Greatest
    <2>3. w = Least(n, g)
      BY <2>1, <2>2
    <2> QED
      BY <1>4, <2>2, <2>3 DEF Least
  <1>6. CASE w <= 1
    BY <1>1, <1>2, <1>5, <1>6
  <1>7. CASE w <= q /\ n <= c
    <2>1. e * n <= e * c
      BY <1>2, <1>7, ProductOrder
    <2>2. c * w <= c * q
      BY <1>4, <1>5, <1>7, ProductOrder
    <2>3. ASSUME w > e PROVE FALSE
      <3>1. c * (e + 1) <= c * w
        BY <1>2, <1>5, <2>3, ProductOrder
      <3>2. c * (e + 1) = e * c + c
        BY <1>2
      <3> QED
        BY <1>1, <1>4, <1>5, <2>1, <2>2, <3>1, <3>2
    <2> QED
      BY <1>2, <1>5, <2>3
  <1>8. CASE w <= q /\ n > c
    <2>1. ASSUME n - w < Target PROVE FALSE
      <3>1. PICK d \in Nat : d = n - w /\ d + 1 <= Target
        <4>1. n - w \in Nat
          BY <1>5
        <4> QED
          BY <1>1, <2>1, <4>1
      <3>2. c * w <= c * q
        BY <1>4, <1>5, <1>8, ProductOrder
      <3>3. c * n = c * w + c * d
        BY <1>5, <3>1
      <3>4. c * n = e * n + Target * n
        <4>1. c = e + Target
          BY <1>1, <1>2
        <4> QED
          BY <1>1, <1>2, <4>1
      <3>5. c * (d + 1) <= c * Target /\ c * (d + 1) = c * d + c
        BY <1>1, <3>1, ProductOrder
      <3>6. Target * c <= Target * n /\ Target * c = c * Target
        BY <1>1, <1>8, ProductOrder
      <3>7. PICK cw, cq, en, cd, tn, ct \in Int :
              /\ cw = c * w /\ cq = c * q /\ en = e * n
              /\ cd = c * d /\ tn = Target * n /\ ct = c * Target
        BY <1>1, <1>4, <1>5
      <3>8. cw <= cq /\ cq <= en /\ cw + cd = en + tn /\ cd + c <= ct /\ ct <= tn
        BY <1>4, <3>2, <3>3, <3>4, <3>5, <3>6, <3>7
      <3> QED
        BY <1>1, <3>8
    <2> QED
      BY <1>1, <1>5, <2>1
  <1> QED
    BY <1>5, <1>6, <1>7, <1>8

\* While one runner works on the database, nothing but its own vacuum makes the
\* database smaller, so what it measured is not more than there is, unless the log
\* was measured with it.
MeasuredOK(r) ==
  /\ pc[r] \in {"count", "delete"} /\ wal = 0 => pass[r].current <= pages
  /\ pc[r] = "delete" =>
       /\ pass[r].current > Cap
       /\ \E n \in Nat : n <= Len(ages) /\ pass[r].want = Estimate(n, pass[r].current)

FilesMatch == (wal = 0 => file = pages) /\ (reader => MaxWal > 0)

MeasureInv(r) == RetentionTypeOK /\ FilesMatch /\ MeasuredOK(r)

\* The log is empty only when all that was written has reached the file.
LEMMA MatchKept ==
  ASSUME RetentionTypeOK, FilesMatch, [RetentionNext]_retentionVars
  PROVE  FilesMatch'
  <1> USE DEF RetentionTypeOK, FilesOK, FilesMatch
  <1>1. CASE UNCHANGED <<pages, file, wal, reader>>
    BY <1>1
  <1>2. CASE Reclaim /\ UNCHANGED <<events, reader>>
    <2>1. Live \in Nat /\ Live' = Live /\ Live >= 1
      BY <1>2, LenIsNat, SettingsAssumption DEF TableOK, Live
    <2> QED
      BY <1>2, <2>1, SettingsAssumption DEF Reclaim, Least
  <1>3. CASE Grow /\ UNCHANGED reader
    BY <1>3, SettingsAssumption DEF Grow, Least
  <1>4. CASE Snapshot
    BY <1>4, SettingsAssumption DEF Snapshot
  <1>5. ASSUME NEW x \in Runners, Begin(x) \/ Step(x) \/ PassFails(x) PROVE FilesMatch'
    <2>1. CASE VacuumRound(x) \/ Schedule(x)
      BY <1>1, <1>2, <2>1 DEF VacuumRound, Schedule
    <2>2. CASE AgeBatch(x) \/ DeleteOldest(x)
      BY <1>1, <2>2 DEF AgeBatch, DeleteOldest, Drop
    <2>3. CASE Begin(x) \/ PassFails(x) \/ Analytics(x) \/ MeasureFirst(x) \/ Round(x)
      BY <1>1, <2>3 DEF Begin, PassFails, Analytics, MeasureFirst, Round
    <2>4. CASE MeasureAgain(x) \/ CloseCap(x) \/ Record(x) \/ End(x)
      BY <1>1, <2>4 DEF MeasureAgain, CloseCap, Record, End
    <2> QED
      BY <1>5, <2>1, <2>2, <2>3, <2>4 DEF Step
  <1> QED
    BY <1>1, <1>3, <1>4, <1>5 DEF RetentionNext, Write, AddEvidence, Tick, retentionVars

\* What the collectors write makes neither the database nor the table smaller.
LEMMA MeasuredGrows ==
  ASSUME NEW r \in Runners, MeasureInv(r), Write \/ AddEvidence
  PROVE  MeasuredOK(r)'
  <1> USE DEF MeasureInv, RetentionTypeOK
  <1>1. pc' = pc /\ pass' = pass /\ Grow /\ UNCHANGED reader
    BY DEF Write, AddEvidence
  <1>2. pages' >= pages /\ pages \in Nat
    BY <1>1, LenIsNat, SettingsAssumption DEF Grow, Greatest, FilesOK, TableOK, Live
  <1>3. wal' = 0 => wal = 0
    BY <1>1, SettingsAssumption DEF Grow, Least, FilesOK, FilesMatch
  <1>4. Len(ages') \in Nat /\ Len(ages') >= Len(ages)
    <2>1. CASE AddEvidence
      BY <2>1, LenIsNat DEF AddEvidence
    <2>2. CASE Write
      <3>1. PICK age \in 0 .. MaxAge, older \in 0 .. Len(ages) :
              Split(age, older) /\ ages' = InsertAt(ages, older + 1, age)
        BY <2>2 DEF Write
      <3>2. ages \in Seq(0 .. MaxAge) /\ InOrder(ages) /\ Len(ages) \in Nat
        BY LenIsNat DEF TableOK, InOrder
      <3>3. Len(ages') = Len(ages) + 1
        BY <3>1, <3>2, InsertInPlace DEF Split
      <3> QED
        BY <3>2, <3>3
    <2> QED
      BY <2>1, <2>2
  <1>5. PICK p \in Passes : p = pass[r] /\ p.current \in Nat
    BY PassFields DEF RunnersOK
  <1>6. pc'[r] \in {"count", "delete"} /\ wal' = 0 => p.current <= pages'
    <2>1. PICK c \in Nat : c = p.current
      BY <1>5
    <2>2. pc[r] \in {"count", "delete"} /\ wal = 0 => c <= pages
      BY <1>5, <2>1 DEF MeasuredOK
    <2>3. c <= pages => c <= pages'
      <3>1. pages' \in Nat
        BY RetentionTypesKept DEF RetentionNext, FilesOK
      <3> QED
        BY <1>2, <2>1, <3>1
    <2> QED
      BY <1>1, <1>3, <2>1, <2>2, <2>3
  <1>7. ASSUME pc[r] = "delete"
        PROVE  p.current > Cap /\ \E n \in Nat : n <= Len(ages') /\ p.want = Estimate(n, p.current)
    <2>1. PICK n \in Nat : n <= Len(ages) /\ p.want = Estimate(n, p.current)
      BY <1>5, <1>7 DEF MeasuredOK
    <2>2. n <= Len(ages')
      BY <1>4, <2>1, LenIsNat
    <2> QED
      BY <1>5, <1>7, <2>1, <2>2 DEF MeasuredOK
  <1> QED
    BY <1>1, <1>5, <1>6, <1>7 DEF MeasuredOK

LEMMA MeasuredSteps ==
  ASSUME NEW r \in Runners, MeasureInv(r), Begin(r) \/ Step(r) \/ PassFails(r)
  PROVE  MeasuredOK(r)'
  <1> USE DEF MeasureInv, RetentionTypeOK
  <1>1. CASE pc'[r] \notin {"count", "delete"}
    BY <1>1 DEF MeasuredOK
  <1>2. CASE MeasureFirst(r) /\ pc'[r] \in {"count", "delete"}
    <2>1. /\ pc'[r] = "count" /\ pass'[r].current = Size /\ UNCHANGED files
      BY <1>2 DEF MeasureFirst, Goto, RunnersOK, Passes
    <2>2. wal = 0 => Size = pages /\ pages \in Nat
      BY DEF Size, FilesMatch, FilesOK
    <2> QED
      BY <2>1, <2>2 DEF MeasuredOK
  <1>3. CASE MeasureAgain(r) /\ pc'[r] \in {"count", "delete"}
    <2>1. /\ pc'[r] = "count" /\ pass'[r].current = Size /\ UNCHANGED files
      BY <1>3 DEF MeasureAgain, Goto, RunnersOK, Passes
    <2>2. wal = 0 => Size = pages /\ pages \in Nat
      BY DEF Size, FilesMatch, FilesOK
    <2> QED
      BY <2>1, <2>2 DEF MeasuredOK
  <1>4. CASE Round(r)
    <2>1. PICK p \in Passes : p = pass[r] /\ p.current > Cap
      BY <1>4 DEF Round, RunnersOK
    <2>2. PICK x : x = pass'[r] /\ x.current = p.current /\ x.want = Estimate(Len(ages), p.current)
      <3>1. PICK w, k : w = Estimate(Len(ages), pass[r].current) /\ k = pass[r].round + 1
        OBVIOUS
      <3>2. pass' = [pass EXCEPT ![r] = [p EXCEPT !.round = k, !.want = w]]
        BY <1>4, <2>1, <3>1 DEF Round
      <3>3. pass'[r] = [p EXCEPT !.round = k, !.want = w]
        BY <3>2 DEF RunnersOK
      <3> QED
        BY <2>1, <3>1, <3>3 DEF Passes
    <2>3. pc[r] = "count" /\ pc'[r] = "delete" /\ UNCHANGED <<events, files>>
      BY <1>4 DEF Round, Goto, RunnersOK
    <2>4. wal' = 0 => x.current <= pages'
      BY <2>1, <2>2, <2>3 DEF MeasuredOK
    <2>5. Len(ages') \in Nat /\ Len(ages') = Len(ages)
      BY <2>3, LenIsNat
    <2>6. x.current > Cap /\ \E n \in Nat : n <= Len(ages') /\ x.want = Estimate(n, x.current)
      BY <2>1, <2>2, <2>5
    <2> QED
      BY <2>2, <2>3, <2>4, <2>6 DEF MeasuredOK
  <1>5. CASE Begin(r) \/ AgeBatch(r) \/ Analytics(r) \/ DeleteOldest(r) \/ VacuumRound(r)
    <2>1. pc'[r] \in {"age", "analytics", "size", "vacuum", "measure"}
      BY <1>5 DEF Begin, AgeBatch, Analytics, DeleteOldest, VacuumRound, Goto, RunnersOK
    <2> QED
      BY <1>1, <2>1
  <1>6. CASE CloseCap(r) \/ Schedule(r) \/ Record(r) \/ End(r) \/ PassFails(r)
    <2>1. pc'[r] \in {"schedule", "record", "idle"}
      BY <1>6 DEF CloseCap, Schedule, Record, End, PassFails, Forget, Goto, RunnersOK
    <2> QED
      BY <1>1, <2>1
  <1> QED
    BY <1>1, <1>2, <1>3, <1>4, <1>5, <1>6 DEF Step

LEMMA MeasureKept ==
  ASSUME NEW r, Runners = {r}
  PROVE  MeasureInv(r) /\ [RetentionNext]_retentionVars => MeasureInv(r)'
  <1> SUFFICES ASSUME MeasureInv(r), [RetentionNext]_retentionVars PROVE MeasureInv(r)'
    OBVIOUS
  <1>1. RetentionTypeOK' /\ FilesMatch'
    BY RetentionTypesKept, MatchKept DEF MeasureInv
  <1>2. CASE Begin(r) \/ Step(r) \/ PassFails(r)
    BY <1>1, <1>2, MeasuredSteps DEF MeasureInv
  <1>3. CASE Write \/ AddEvidence
    BY <1>1, <1>3, MeasuredGrows DEF MeasureInv
  <1>4. CASE Snapshot \/ UNCHANGED retentionVars
    BY <1>1, <1>4 DEF MeasureInv, MeasuredOK, Snapshot, retentionVars
  <1>5. CASE Tick
    <2>1. pc'[r] = "idle"
      BY <1>5 DEF Tick
    <2> QED
      BY <1>1, <2>1 DEF MeasureInv, MeasuredOK
  <1> QED
    BY <1>2, <1>3, <1>4, <1>5 DEF RetentionNext

\* What a round deletes is what was asked for, of a table that has that much.
LEMMA RoundKeepsTarget ==
  ASSUME NEW r, Runners = {r}, MeasureInv(r), RetentionNext, Deleting(r), pages = Live, wal = 0
  PROVE  Live' >= Target
  <1> USE DEF MeasureInv, RetentionTypeOK
  <1>1. DeleteOldest(r)
    <2>1. CASE Begin(r) \/ AgeBatch(r) \/ Analytics(r) \/ MeasureFirst(r) \/ Round(r) \/ VacuumRound(r)
      BY <2>1 DEF Deleting, Begin, AgeBatch, Analytics, MeasureFirst, Round, VacuumRound
    <2>2. CASE MeasureAgain(r) \/ CloseCap(r) \/ Schedule(r) \/ Record(r) \/ End(r)
      BY <2>2 DEF Deleting, MeasureAgain, CloseCap, Schedule, Record, End
    <2>3. CASE PassFails(r)
      BY <2>3 DEF Deleting, PassFails, Forget, Goto, RunnersOK
    <2>4. CASE Write \/ AddEvidence \/ Snapshot \/ Tick
      BY <2>4 DEF Deleting, Write, AddEvidence, Snapshot, Tick
    <2> QED
      BY <2>1, <2>2, <2>3, <2>4 DEF RetentionNext, Step
  <1> DEFINE w == pass[r].want
  <1>2. PICK l \in Nat, c \in Nat : l = Len(ages) /\ c = pass[r].current
    BY LenIsNat, PassFields DEF RunnersOK
  <1>3. c > Cap /\ c <= Live
    BY <1>2 DEF MeasuredOK, Deleting
  <1>4. PICK n \in Nat : n <= l /\ w = Estimate(n, c)
    BY <1>2 DEF MeasuredOK, Deleting
  <1>5. w \in Nat /\ w <= n /\ (w <= c - Target \/ Target <= n - w)
    BY <1>3, <1>4, EstimateKeeps
  <1>6. Drop(r, w) /\ w \in 0 .. l
    <2>1. RowCount(r) = w
      BY <1>2, <1>4, <1>5 DEF RowCount, Least
    <2> QED
      BY <1>1, <1>4, <1>5, <2>1 DEF DeleteOldest
  <1>7. Len(ages') = l - w /\ evidence' = evidence
    BY <1>2, <1>6, DropKept
  <1>8. Live = Schema + evidence + l /\ Live' = Schema + evidence + (l - w) /\ evidence \in Nat
    BY <1>2, <1>7 DEF Live, TableOK
  <1> QED
    BY <1>3, <1>4, <1>5, <1>8, SettingsAssumption DEF Target

\* "Leaving headroom", and no more: with one runner, and whatever the collectors, the
\* readers, the failures and the settings, a round of the size cap that finds no free
\* pages and no log leaves at least the target, because what it measured is then no
\* more than what there is and its estimate rounds down (_enforce_size_cap of
\* storage/retention.py).
THEOREM TargetKept == ASSUME NEW r, Runners = {r} PROVE RetentionSpec => KeepsTarget
  <1>1. RetentionInit => MeasureInv(r)
    <2> SUFFICES ASSUME RetentionInit PROVE MeasureInv(r)
      OBVIOUS
    <2>1. FilesMatch /\ pc[r] = "idle"
      BY DEF RetentionInit, FilesMatch
    <2> QED
      BY <2>1, RetentionStart DEF MeasureInv, MeasuredOK
  <1>2. MeasureInv(r) /\ [RetentionNext]_retentionVars => MeasureInv(r)'
    BY MeasureKept
  <1>3. MeasureInv(r) /\ [RetentionNext]_retentionVars
        => [Headroom]_retentionVars
    BY RoundKeepsTarget DEF Headroom
  <1> QED
    BY <1>1, <1>2, <1>3, PTL DEF RetentionSpec, KeepsTarget
=============================================================================
