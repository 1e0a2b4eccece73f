----------------------- MODULE SourceSupervisorProofs -----------------------
(***************************************************************************)
(* For every restart policy, whatever the collector does and however often *)
(* stop() is called: a requested stop is never taken for a failure, and a  *)
(* source is degraded exactly when its failures make a crash loop.         *)
(***************************************************************************)
EXTENDS SourceSupervisor, FiniteSetTheorems, SequenceTheorems, TLAPS

USE DEF policyVars, serviceVars, stopVars

ControlType ==
  /\ sup \in {"head", "build", "recheck", "startCheck", "startClear", "spawn",
              "running", "ended", "backoff", "done"}
  /\ stopFlag \in BOOLEAN /\ registered \in BOOLEAN /\ serviceStop \in BOOLEAN
  /\ stopper \in {"idle", "read", "call"} /\ target \in BOOLEAN

\* The flag is up before a service is told to stop: by the second half of
\* stop(), or by the look at the flag after the registration.
FlagFirst ==
  /\ stopper # "idle" => stopFlag
  /\ target => stopper = "call"
  /\ serviceStop => stopFlag

\* From the head of the loop to the end of the attempt the status is "running".
Attempt ==
  /\ sup \in {"build", "recheck", "startCheck", "startClear", "spawn", "running", "ended"}
       => status = "running"
  /\ registered => sup \in {"recheck", "startCheck", "startClear", "spawn", "running"}

\* A service that stop() has in hand belongs to an attempt that is not judged.
TargetInv == target => status \in {"running", "stopped"}

IInv == ControlType /\ FlagFirst /\ Attempt /\ TargetInv /\ StopIsNotAFailure

LEMMA InitInv == Init => IInv
BY DEF Init, IInv, ControlType, FlagFirst, Attempt, TargetInv, StopIsNotAFailure

LEMMA Inductive == IInv /\ [Next]_vars => IInv'
<1> SUFFICES ASSUME IInv, [Next]_vars PROVE IInv'
  OBVIOUS
<1> USE DEF IInv, ControlType, FlagFirst, Attempt, TargetInv, StopIsNotAFailure
<1>1. CASE LoopHead
  BY <1>1 DEF LoopHead
<1>2. CASE Build
  <2>1. /\ sup = "build" /\ status = "running" /\ ~registered
        /\ UNCHANGED <<status, serviceStop, stopFlag, stopper, target>>
    BY <1>2 DEF Build
  <2>2. CASE sup' = "recheck" /\ registered' = TRUE
    BY <2>1, <2>2
  <2>3. CASE sup' = "ended" /\ registered' = registered
    <3>1. registered' = FALSE
      BY <2>1, <2>3
    <3> QED
      BY <2>1, <2>3, <3>1
  <2> QED
    BY <1>2, <2>2, <2>3 DEF Build
<1>3. CASE Recheck
  BY <1>3 DEF Recheck
<1>4. CASE StartCheck
  BY <1>4 DEF StartCheck
<1>5. CASE StartClear
  BY <1>5 DEF StartClear
<1>6. CASE Spawn
  BY <1>6 DEF Spawn
<1>7. ASSUME NEW how, Return(how)
      PROVE  IInv'
  BY <1>7 DEF Return
<1>8. CASE Exit \/ StopTakesEffect
  BY <1>7, <1>8 DEF Exit, StopTakesEffect
<1>9. CASE Conclude
  BY <1>9 DEF Conclude
\* A failure is judged only with the flag down, when nobody is in stop().
<1>10. CASE Judge
  <2>1. /\ sup' \in {"done", "backoff"} /\ ~stopFlag
        /\ UNCHANGED <<registered, serviceStop, stopper, target, stopFlag>>
        /\ sup = "ended"
    BY <1>10 DEF Judge
  <2> QED
    BY <2>1
<1>11. CASE BackoffStopped \/ BackoffOver
  BY <1>11 DEF BackoffStopped, BackoffOver
<1>12. CASE StopSet
  BY <1>12 DEF StopSet
<1>13. CASE StopRead
  BY <1>13 DEF StopRead
<1>14. CASE StopService
  BY <1>14 DEF StopService
<1>15. CASE Tick
  BY <1>15 DEF Tick
<1>16. CASE UNCHANGED vars
  BY <1>16 DEF vars
<1> QED
  BY <1>1, <1>2, <1>3, <1>4, <1>5, <1>6, <1>8, <1>9, <1>10, <1>11, <1>12, <1>13, <1>14,
     <1>15, <1>16 DEF Next, Run, Stop, Finished

\* "a service that exits promptly cannot be seen as a failure": a service that
\* was told to stop belongs to an attempt that is running or was stopped.
THEOREM StopNeverAFailure == Spec => []StopIsNotAFailure
<1>1. IInv => StopIsNotAFailure
  BY DEF IInv
<1> QED
  BY <1>1, InitInv, Inductive, PTL DEF Spec

-----------------------------------------------------------------------------
(* The failures the policy remembers, and the record of all of them.       *)

Entries == [age : 0 .. Window, healthy : BOOLEAN]

\* Of the failures remembered the first x have left the window and are still to be
\* trimmed, and the others are what the record has after its first d, which a
\* healthy run separates from them.
Linked(fs, hs, x, d) ==
  /\ x \in 0 .. Len(fs) /\ d \in 0 .. Len(hs) /\ Len(fs) - x = Len(hs) - d
  /\ \A i \in 1 .. x : fs[i] = Window + 1
  /\ \A i \in 1 .. (Len(fs) - x) : fs[x + i] = hs[d + i].age
  /\ \A i \in 2 .. (Len(fs) - x) : ~hs[d + i].healthy
  /\ d = 0 \/ (x = 0 /\ Len(fs) # 0 /\ hs[d + 1].healthy)

MemoryOK ==
  /\ failures \in Seq(0 .. Window + 1) /\ history \in Seq(Entries)
  /\ \E x, d \in Nat : Linked(failures, history, x, d)

MemoryInv ==
  /\ MemoryOK
  /\ status = "backoff"  => Len(failures) < Threshold
  /\ status = "degraded" => sup = "done" /\ Cardinality(Relevant) >= Threshold

RelevantIn(hs) == {i \in DOMAIN hs : \A j \in DOMAIN hs : j > i => ~hs[j].healthy}

\* Only what is remembered and in the window counts.
LEMMA RelevantCount ==
  ASSUME NEW fs \in Seq(0 .. Window + 1), NEW hs \in Seq(Entries), NEW x, NEW d, Linked(fs, hs, x, d)
  PROVE  Cardinality(RelevantIn(hs)) = Len(fs) - x
  <1>1. PICK f \in Nat, h \in Nat : f = Len(fs) /\ h = Len(hs) /\ DOMAIN hs = 1 .. h
    BY LenProperties
  <1>2. /\ x \in 0 .. f /\ d \in 0 .. h /\ f - x = h - d
        /\ \A i \in 2 .. (f - x) : ~hs[d + i].healthy
        /\ d = 0 \/ (x = 0 /\ f # 0 /\ hs[d + 1].healthy)
    BY <1>1 DEF Linked
  <1>3. ASSUME NEW j \in (d + 2) .. h PROVE ~hs[j].healthy
    <2>1. j - d \in 2 .. (f - x) /\ d + (j - d) = j
      BY <1>1, <1>2
    <2> QED
      BY <1>2, <2>1
  <1>4. ASSUME NEW i \in 1 .. h, i <= d PROVE i \notin RelevantIn(hs)
    <2>1. d + 1 \in DOMAIN hs /\ hs[d + 1].healthy /\ d + 1 > i
      BY <1>1, <1>2, <1>4
    <2> QED
      BY <2>1 DEF RelevantIn
  <1>5. ASSUME NEW i \in (d + 1) .. h PROVE i \in RelevantIn(hs)
    <2>1. i \in DOMAIN hs
      BY <1>1, <1>2
    <2>2. ASSUME NEW j \in DOMAIN hs, j > i PROVE ~hs[j].healthy
      <3>1. j \in (d + 2) .. h
        BY <1>1, <1>2, <2>2
      <3> QED
        BY <1>3, <3>1
    <2> QED
      BY <2>1, <2>2 DEF RelevantIn
  <1>6. RelevantIn(hs) = (d + 1) .. h
    <2>1. ASSUME NEW i \in RelevantIn(hs) PROVE i \in (d + 1) .. h
      <3>1. i \in 1 .. h
        BY <1>1 DEF RelevantIn
      <3> QED
        BY <1>1, <1>2, <1>4, <3>1
    <2> QED
      BY <1>5, <2>1
  <1>7. Cardinality((d + 1) .. h) = f - x
    <2>1. d + 1 \in Int /\ h \in Int
      BY <1>1, <1>2
    <2>2. Cardinality((d + 1) .. h) = IF d + 1 > h THEN 0 ELSE h - (d + 1) + 1
      BY <2>1, FS_Interval
    <2> QED
      BY <1>1, <1>2, <2>2
  <1> QED
    BY <1>1, <1>6, <1>7

\* The loop stops at the first that is still in the window.
LEMMA TrimTakes ==
  ASSUME NEW s \in Seq(0 .. Window + 1), NEW x \in 0 .. Len(s),
         \A i \in 1 .. x : s[i] > Window, x < Len(s) => s[x + 1] <= Window
  PROVE  Trim(s) = SubSeq(s, x + 1, Len(s))
  <1>1. PICK l \in Nat : l = Len(s)
    BY LenProperties
  <1>2. \A i \in 1 .. l : s[i] \in 0 .. Window + 1
    BY <1>1, ElementOfSeq
  <1> DEFINE Stops(k) == (\A i \in 1 .. k : s[i] > Window) /\ (k < l => s[k + 1] <= Window)
  <1>3. ASSUME NEW k \in 0 .. l, Stops(k) PROVE k = x
    <2>1. ASSUME k < x PROVE FALSE
      <3>1. k + 1 \in 1 .. x /\ k < l /\ k + 1 \in 1 .. l
        BY <1>1, <2>1
      <3>2. s[k + 1] > Window /\ s[k + 1] <= Window
        BY <1>3, <3>1
      <3> QED
        BY <1>2, <3>1, <3>2, PolicyAssumption
    <2>2. ASSUME k > x PROVE FALSE
      <3>1. x + 1 \in 1 .. k /\ x < l /\ x + 1 \in 1 .. l
        BY <1>1, <2>2
      <3>2. s[x + 1] > Window /\ s[x + 1] <= Window
        BY <1>1, <1>3, <3>1
      <3> QED
        BY <1>2, <3>1, <3>2, PolicyAssumption
    <2> QED
      BY <1>1, <2>1, <2>2
  <1>4. x \in 0 .. l /\ Stops(x)
    BY <1>1
  <1>5. Outlived(s, Window) = CHOOSE k \in 0 .. l : Stops(k)
    BY <1>1 DEF Outlived
  <1>6. Outlived(s, Window) = x
    BY <1>3, <1>4, <1>5
  <1> QED
    BY <1>6 DEF Trim

\* Trimming forgets exactly what has left the window.
LEMMA TrimLinked ==
  ASSUME NEW fs \in Seq(0 .. Window + 1), NEW hs \in Seq(Entries), NEW x, NEW d, Linked(fs, hs, x, d)
  PROVE  /\ Trim(fs) \in Seq(0 .. Window + 1) /\ Len(Trim(fs)) = Len(fs) - x
         /\ Linked(Trim(fs), hs, 0, d)
  <1>1. PICK f \in Nat, h \in Nat : f = Len(fs) /\ h = Len(hs) /\ DOMAIN hs = 1 .. h
    BY LenProperties
  <1>2. /\ x \in 0 .. f /\ d \in 0 .. h /\ f - x = h - d
        /\ \A i \in 1 .. x : fs[i] = Window + 1
        /\ \A i \in 1 .. (f - x) : fs[x + i] = hs[d + i].age
        /\ \A i \in 2 .. (f - x) : ~hs[d + i].healthy
        /\ d = 0 \/ (x = 0 /\ f # 0 /\ hs[d + 1].healthy)
    BY <1>1 DEF Linked
  <1>3. /\ \A i \in 1 .. f : fs[i] \in 0 .. Window + 1
        /\ \A i \in 1 .. h : hs[i] \in Entries
    BY <1>1, ElementOfSeq
  <1>4. x < f => fs[x + 1] <= Window
    <2>1. ASSUME x < f PROVE fs[x + 1] <= Window
      <3>1. 1 \in 1 .. (f - x) /\ d + 1 \in 1 .. h
        BY <1>2, <2>1
      <3>2. hs[d + 1].age \in 0 .. Window
        BY <1>3, <3>1 DEF Entries
      <3> QED
        BY <1>2, <3>1, <3>2, PolicyAssumption, SMTT(30)
    <2> QED
      BY <2>1
  <1>5. Trim(fs) = SubSeq(fs, x + 1, f)
    <2>1. \A i \in 1 .. x : fs[i] > Window
      BY <1>2, PolicyAssumption
    <2> QED
      BY <1>1, <1>2, <1>4, <2>1, TrimTakes
  <1>6. PICK g : /\ g = Trim(fs) /\ g \in Seq(0 .. Window + 1) /\ Len(g) = f - x
                 /\ \A i \in 1 .. (f - x) : g[i] = fs[x + i]
    <2>1. \A i \in (x + 1) .. f : fs[i] \in 0 .. Window + 1
      BY <1>2, <1>3
    <2>2. x + 1 \in Int /\ f \in Int /\ f - (x + 1) + 1 = f - x
      BY <1>1, <1>2
    <2>3. /\ SubSeq(fs, x + 1, f) \in Seq(0 .. Window + 1)
          /\ Len(SubSeq(fs, x + 1, f)) = IF x + 1 <= f THEN f - (x + 1) + 1 ELSE 0
          /\ \A i \in 1 .. f - (x + 1) + 1 : SubSeq(fs, x + 1, f)[i] = fs[x + 1 + i - 1]
      BY <2>1, <2>2, SubSeqProperties
    <2>4. Len(SubSeq(fs, x + 1, f)) = f - x
      BY <1>2, <2>2, <2>3
    <2>5. ASSUME NEW i \in 1 .. (f - x) PROVE SubSeq(fs, x + 1, f)[i] = fs[x + i]
      <3>1. x + 1 + i - 1 = x + i
        BY <1>2
      <3> QED
        BY <2>2, <2>3, <3>1
    <2> QED
      BY <1>5, <2>3, <2>4, <2>5
  <1>7. Linked(g, hs, 0, d)
    <2>1. Len(g) \in Nat /\ 0 \in 0 .. Len(g) /\ Len(g) - 0 = f - x /\ Len(g) - 0 = h - d
      BY <1>1, <1>2, <1>6
    <2>2. \A i \in 1 .. (Len(g) - 0) : g[0 + i] = hs[d + i].age
      BY <1>2, <1>6, <2>1
    <2>3. \A i \in 2 .. (Len(g) - 0) : ~hs[d + i].healthy
      BY <1>2, <2>1
    <2>4. d = 0 \/ (Len(g) # 0 /\ hs[d + 1].healthy)
      BY <1>2, <1>6
    <2> QED
      <3>1. \A i \in 1 .. 0 : g[i] = Window + 1
        OBVIOUS
      <3>2. d \in 0 .. Len(hs) /\ Len(g) - 0 = Len(hs) - d
        BY <1>1, <1>2, <2>1
      <3> QED
        BY <2>1, <2>2, <2>3, <2>4, <3>1, <3>2 DEF Linked
  <1> QED
    BY <1>1, <1>6, <1>7

\* A failure joins those remembered ...
LEMMA FailureLinked ==
  ASSUME NEW fs, NEW hs, Len(fs) \in Nat, Len(hs) \in Nat, NEW x, NEW d, Linked(fs, hs, x, d),
         NEW gs, Len(gs) = Len(fs) + 1, gs[Len(fs) + 1] = 0, \A i \in 1 .. Len(fs) : gs[i] = fs[i],
         NEW ks, Len(ks) = Len(hs) + 1, ks[Len(hs) + 1].age = 0, ~ks[Len(hs) + 1].healthy,
         \A i \in 1 .. Len(hs) : ks[i] = hs[i]
  PROVE  Linked(gs, ks, x, d)
  <1>1. PICK f \in Nat, h \in Nat : f = Len(fs) /\ h = Len(hs)
    OBVIOUS
  <1>2. /\ x \in 0 .. f /\ d \in 0 .. h /\ f - x = h - d
        /\ \A i \in 1 .. x : fs[i] = Window + 1
        /\ \A i \in 1 .. (f - x) : fs[x + i] = hs[d + i].age
        /\ \A i \in 2 .. (f - x) : ~hs[d + i].healthy
        /\ d = 0 \/ (x = 0 /\ f # 0 /\ hs[d + 1].healthy)
    BY <1>1 DEF Linked
  <1>3. x \in 0 .. f + 1 /\ d \in 0 .. h + 1 /\ (f + 1) - x = (h + 1) - d
    BY <1>2
  <1>4. ASSUME NEW i \in 1 .. ((f + 1) - x) PROVE gs[x + i] = ks[d + i].age
    <2>1. CASE i = (f + 1) - x
      <3>1. x + i = f + 1 /\ d + i = h + 1
        BY <1>2, <2>1
      <3> QED
        BY <1>1, <3>1
    <2>2. CASE i # (f + 1) - x
      <3>1. i \in 1 .. (f - x) /\ x + i \in 1 .. f /\ d + i \in 1 .. h
        BY <1>2, <2>2
      <3> QED
        BY <1>1, <1>2, <3>1
    <2> QED
      BY <2>1, <2>2
  <1>5. ASSUME NEW i \in 2 .. ((f + 1) - x) PROVE ~ks[d + i].healthy
    <2>1. CASE i = (f + 1) - x
      <3>1. d + i = h + 1
        BY <1>2, <2>1
      <3> QED
        BY <1>1, <3>1
    <2>2. CASE i # (f + 1) - x
      <3>1. i \in 2 .. (f - x) /\ d + i \in 1 .. h
        BY <1>2, <2>2
      <3> QED
        BY <1>1, <1>2, <3>1
    <2> QED
      BY <2>1, <2>2
  <1>6. \A i \in 1 .. x : gs[i] = Window + 1
    BY <1>1, <1>2
  <1>7. d = 0 \/ (x = 0 /\ f + 1 # 0 /\ ks[d + 1].healthy)
    <2>1. ASSUME d # 0 PROVE ks[d + 1] = hs[d + 1]
      <3>1. d + 1 \in 1 .. h
        BY <1>2, <2>1
      <3> QED
        BY <1>1, <3>1
    <2> QED
      BY <1>2, <2>1
  <1> QED
    BY <1>1, <1>3, <1>4, <1>5, <1>6, <1>7 DEF Linked

\* ... or, after a healthy run, is the first.
LEMMA FirstLinked ==
  ASSUME NEW gs, Len(gs) = 1, gs[1] = 0,
         NEW h \in Nat, NEW ks, Len(ks) = h + 1, ks[h + 1].age = 0, ks[h + 1].healthy
  PROVE  Linked(gs, ks, 0, h)
  <1>1. \A i \in 1 .. (1 - 0) : gs[0 + i] = ks[h + i].age
    OBVIOUS
  <1> QED
    BY <1>1 DEF Linked

LEMMA RecordKept ==
  ASSUME MemoryOK, runtime \in Nat, RecordFailure
  PROVE  /\ MemoryOK' /\ \E d \in Nat : Linked(failures', history', 0, d)
         /\ Len(Trim(failures')) = Len(failures')
  <1>1. PICK b \in BOOLEAN : b = RanHealthy
    <2>1. RanHealthy \in BOOLEAN
      BY PolicyAssumption DEF RanHealthy
    <2> QED
      BY <2>1, Zenon
  <1>2. PICK n \in Entries : n = [age |-> 0, healthy |-> b] /\ n.age = 0 /\ n.healthy = b
    <2>1. 0 \in 0 .. Window
      BY PolicyAssumption
    <2>2. [age |-> 0, healthy |-> b] \in Entries
      BY <2>1, Zenon DEF Entries
    <2> QED
      BY <2>2
  <1>3. PICK recent \in Seq(0 .. Window + 1) : recent = IF b THEN <<>> ELSE failures
    BY EmptySeq DEF MemoryOK
  <1>4. failures' = Trim(Append(recent, 0)) /\ history' = Append(history, n)
    BY <1>1, <1>2, <1>3 DEF RecordFailure
  <1>5. 0 \in 0 .. Window + 1
    BY PolicyAssumption
  <1>6. /\ history' \in Seq(Entries) /\ Len(history') = Len(history) + 1
        /\ history'[Len(history) + 1] = n
        /\ \A i \in 1 .. Len(history) : history'[i] = history[i]
    BY <1>4, AppendProperties DEF MemoryOK
  <1>7. PICK gs : /\ gs = Append(recent, 0) /\ gs \in Seq(0 .. Window + 1)
                  /\ Len(gs) = Len(recent) + 1 /\ gs[Len(recent) + 1] = 0
                  /\ \A i \in 1 .. Len(recent) : gs[i] = recent[i]
    <2>1. /\ Append(recent, 0) \in Seq(0 .. Window + 1)
          /\ Len(Append(recent, 0)) = Len(recent) + 1 /\ Append(recent, 0)[Len(recent) + 1] = 0
          /\ \A i \in 1 .. Len(recent) : Append(recent, 0)[i] = recent[i]
      BY <1>5, AppendProperties
    <2> QED
      BY <2>1
  <1>8. PICK x, d \in Nat : Linked(gs, history', x, d)
    <2>1. Len(history) \in Nat /\ Len(failures) \in Nat
      BY LenProperties DEF MemoryOK
    <2>2. CASE b
      <3>1. Len(gs) = 1 /\ gs[1] = 0
        BY <1>3, <1>7, <2>2, EmptySeq
      <3> QED
        BY <1>2, <1>6, <2>1, <2>2, <3>1, FirstLinked
    <2>3. CASE ~b
      <3>1. recent = failures
        BY <1>3, <2>3
      <3>2. PICK x, d \in Nat : Linked(failures, history, x, d)
        BY DEF MemoryOK
      <3> QED
        <4>1. history'[Len(history) + 1].age = 0 /\ ~history'[Len(history) + 1].healthy
          BY <1>2, <1>6, <2>3
        <4>2. Linked(gs, history', x, d)
          <5>1. /\ Len(gs) = Len(failures) + 1 /\ gs[Len(failures) + 1] = 0
                /\ \A i \in 1 .. Len(failures) : gs[i] = failures[i]
            BY <1>7, <3>1
          <5> QED
            BY <1>6, <2>1, <3>2, <4>1, <5>1, FailureLinked, SMTT(30)
        <4> QED
          BY <3>2, <4>2
    <2> QED
      BY <2>2, <2>3
  <1>9. /\ failures' \in Seq(0 .. Window + 1) /\ Linked(failures', history', 0, d)
    BY <1>4, <1>6, <1>7, <1>8, TrimLinked
  <1>10. Len(Trim(failures')) = Len(failures')
    <2>1. Len(failures') \in Nat /\ Len(Trim(failures')) = Len(failures') - 0
      BY <1>6, <1>9, TrimLinked, LenProperties
    <2> QED
      BY <2>1
  <1> QED
    BY <1>6, <1>8, <1>9, <1>10 DEF MemoryOK

\* What leaves the window leaves the record, and is trimmed when it is looked at.
LEMMA OlderLinked ==
  ASSUME NEW fs \in Seq(0 .. Window + 1), NEW hs \in Seq(Entries), NEW x, NEW d, Linked(fs, hs, x, d),
         NEW g \in 0 .. Len(hs), \A i \in DOMAIN hs : hs[i].age = Window <=> i <= g
  PROVE  LET gs == [i \in DOMAIN fs |-> Older(fs[i])]
             ks == [i \in 1 .. Len(hs) - g |->
                     [age |-> hs[g + i].age + 1, healthy |-> hs[g + i].healthy]]
         IN  /\ gs \in Seq(0 .. Window + 1) /\ Len(gs) = Len(fs) /\ ks \in Seq(Entries)
             /\ \E y, e \in Nat : Linked(gs, ks, y, e)
  <1> DEFINE gs == [i \in DOMAIN fs |-> Older(fs[i])]
             ks == [i \in 1 .. Len(hs) - g |->
                     [age |-> hs[g + i].age + 1, healthy |-> hs[g + i].healthy]]
  <1>1. PICK f \in Nat, h \in Nat :
          f = Len(fs) /\ h = Len(hs) /\ DOMAIN fs = 1 .. f /\ DOMAIN hs = 1 .. h /\ g \in 0 .. h
    <2>1. /\ Len(fs) \in Nat /\ Len(hs) \in Nat
          /\ DOMAIN fs = 1 .. Len(fs) /\ DOMAIN hs = 1 .. Len(hs)
      BY LenProperties
    <2> QED
      BY <2>1
  <1>2. /\ x \in 0 .. f /\ d \in 0 .. h /\ f - x = h - d
        /\ \A i \in 1 .. x : fs[i] = Window + 1
        /\ \A i \in 1 .. (f - x) : fs[x + i] = hs[d + i].age
        /\ \A i \in 2 .. (f - x) : ~hs[d + i].healthy
        /\ d = 0 \/ (x = 0 /\ f # 0 /\ hs[d + 1].healthy)
    BY <1>1 DEF Linked
  <1>3. /\ \A i \in 1 .. f : fs[i] \in 0 .. Window + 1
        /\ \A i \in 1 .. h : hs[i].age \in 0 .. Window /\ hs[i].healthy \in BOOLEAN
    <2>1. \A i \in 1 .. h : hs[i] \in Entries
      BY <1>1, ElementOfSeq
    <2> QED
      BY <1>1, <2>1, ElementOfSeq DEF Entries
  <1>4. /\ gs \in Seq(0 .. Window + 1) /\ Len(gs) = f
        /\ \A i \in 1 .. f : gs[i] = Older(fs[i])
    <2>1. gs \in [1 .. f -> 0 .. Window + 1]
      BY <1>1, <1>3, PolicyAssumption DEF Older, Least
    <2>2. DOMAIN gs = 1 .. f
      BY <1>1
    <2> QED
      BY <1>1, <2>1, <2>2
  <1>5. /\ ks \in Seq(Entries) /\ Len(ks) = h - g
        /\ \A i \in 1 .. (h - g) : ks[i].age = hs[g + i].age + 1 /\ ks[i].healthy = hs[g + i].healthy
    <2>1. h - g \in Nat
      BY <1>1
    <2>2. ASSUME NEW i \in 1 .. (h - g)
          PROVE  [age |-> hs[g + i].age + 1, healthy |-> hs[g + i].healthy] \in Entries
      <3>1. g + i \in 1 .. h /\ ~(g + i <= g)
        BY <1>1
      <3>2. hs[g + i].age # Window /\ hs[g + i].age \in 0 .. Window /\ hs[g + i].healthy \in BOOLEAN
        BY <1>1, <1>3, <3>1
      <3>3. hs[g + i].age + 1 \in 0 .. Window
        BY <3>2, PolicyAssumption
      <3> QED
        BY <3>2, <3>3, Zenon DEF Entries
    <2>3. ks \in [1 .. (h - g) -> Entries] /\ DOMAIN ks = 1 .. (h - g)
      BY <1>1, <2>2
    <2>4. PICK n \in Nat : n = h - g
      BY <2>1
    <2>5. PICK fun \in [1 .. n -> Entries] : fun = ks
      BY <2>3, <2>4
    <2>6. fun \in Seq(Entries) /\ Len(fun) = n
      OBVIOUS
    <2>7. ASSUME NEW i \in 1 .. n
          PROVE  fun[i].age = hs[g + i].age + 1 /\ fun[i].healthy = hs[g + i].healthy
      <3>1. PICK e : e = [age |-> hs[g + i].age + 1, healthy |-> hs[g + i].healthy]
        OBVIOUS
      <3>2. e.age = hs[g + i].age + 1 /\ e.healthy = hs[g + i].healthy
        BY <3>1
      <3>3. fun[i] = e
        BY <1>1, <2>4, <2>5, <3>1
      <3> QED
        BY <3>2, <3>3
    <2> QED
      BY <2>4, <2>5, <2>6, <2>7
  <1> HIDE DEF gs, ks
  <1>6. ASSUME NEW i \in 1 .. f PROVE gs[i] = Least(fs[i] + 1, Window + 1)
    BY <1>4 DEF Older
  <1>7. CASE g <= d
    <2>1. x \in 0 .. f /\ d - g \in 0 .. (h - g) /\ f - x = (h - g) - (d - g) /\ d - g \in Nat /\ x \in Nat
      BY <1>1, <1>2, <1>7
    <2>2. \A i \in 1 .. x : gs[i] = Window + 1
      BY <1>1, <1>2, <1>6, PolicyAssumption, SMTT(30) DEF Least
    <2>3. ASSUME NEW i \in 1 .. (f - x) PROVE gs[x + i] = ks[(d - g) + i].age
      <3>1. /\ x + i \in 1 .. f /\ d + i \in 1 .. h /\ ~(d + i <= g)
            /\ (d - g) + i \in 1 .. (h - g) /\ g + ((d - g) + i) = d + i
        BY <1>1, <1>2, <1>7
      <3>2. hs[d + i].age # Window /\ hs[d + i].age \in 0 .. Window /\ fs[x + i] = hs[d + i].age
        BY <1>1, <1>2, <1>3, <3>1
      <3>3. gs[x + i] = hs[d + i].age + 1
        <4>1. gs[x + i] = Least(hs[d + i].age + 1, Window + 1)
          BY <1>6, <3>1, <3>2
        <4>2. hs[d + i].age \in Int /\ hs[d + i].age + 1 <= Window + 1
          BY <3>2, PolicyAssumption
        <4> QED
          BY <4>1, <4>2 DEF Least
      <3> QED
        BY <1>5, <3>1, <3>3
    <2>4. ASSUME NEW i \in 2 .. (f - x) PROVE ~ks[(d - g) + i].healthy
      <3>1. (d - g) + i \in 1 .. (h - g) /\ g + ((d - g) + i) = d + i
        BY <1>1, <1>2, <1>7
      <3> QED
        BY <1>2, <1>5, <3>1
    <2>5. d - g = 0 \/ (x = 0 /\ f # 0 /\ ks[(d - g) + 1].healthy)
      <3>1. ASSUME d # 0, x = 0, f # 0, hs[d + 1].healthy PROVE ks[(d - g) + 1].healthy
        <4>1. (d - g) + 1 \in 1 .. (h - g) /\ g + ((d - g) + 1) = d + 1
          BY <1>1, <1>2, <1>7, <3>1
        <4> QED
          BY <1>5, <3>1, <4>1
      <3>2. CASE d = 0
        BY <1>1, <1>7, <3>2
      <3> QED
        BY <1>2, <3>1, <3>2
    <2>6. Linked(gs, ks, x, d - g)
      BY <1>4, <1>5, <2>1, <2>2, <2>3, <2>4, <2>5 DEF Linked
    <2> QED
      BY <1>1, <1>4, <1>5, <2>1, <2>6 DEF gs, ks
  <1>8. CASE g > d
    <2>1. PICK y \in Nat : y = x + (g - d) /\ y \in 0 .. f /\ f - y = h - g
      <3>1. x + (g - d) \in Nat /\ x + (g - d) \in 0 .. f /\ f - (x + (g - d)) = h - g
        BY <1>1, <1>2, <1>8
      <3> QED
        BY <3>1
    <2>2. ASSUME NEW i \in 1 .. y PROVE gs[i] = Window + 1
      <3>1. i \in 1 .. f
        BY <2>1
      <3>2. CASE i <= x
        BY <1>2, <1>6, <3>1, <3>2, PolicyAssumption DEF Least
      <3>3. CASE i > x
        <4>1. i - x \in 1 .. (f - x) /\ x + (i - x) = i /\ d + (i - x) \in 1 .. h /\ d + (i - x) <= g
          BY <1>1, <1>2, <1>8, <2>1, <3>3
        <4>2. fs[i] = Window
          BY <1>1, <1>2, <4>1
        <4> QED
          BY <1>6, <3>1, <4>2, PolicyAssumption DEF Least
      <3> QED
        BY <1>2, <3>2, <3>3
    <2>3. ASSUME NEW i \in 1 .. (f - y) PROVE gs[y + i] = ks[0 + i].age
      <3>1. PICK k \in Nat : k = (g - d) + i
        <4>1. (g - d) + i \in Nat
          BY <1>1, <1>2, <1>8
        <4> QED
          BY <4>1
      <3>2. /\ k \in 1 .. (f - x) /\ x + k = y + i /\ y + i \in 1 .. f /\ d + k = g + i /\ g + i \in 1 .. h
            /\ ~(g + i <= g) /\ i \in 1 .. (h - g) /\ 0 + i = i
        BY <1>1, <1>2, <1>8, <2>1, <3>1
      <3>3. hs[g + i].age # Window /\ hs[g + i].age \in 0 .. Window
        BY <1>1, <1>3, <3>2
      <3>4. fs[y + i] = hs[g + i].age
        BY <1>2, <3>2
      <3>5. gs[y + i] = hs[g + i].age + 1
        BY <1>6, <3>2, <3>3, <3>4, PolicyAssumption DEF Least
      <3> QED
        BY <1>5, <3>2, <3>5
    <2>4. ASSUME NEW i \in 2 .. (f - y) PROVE ~ks[0 + i].healthy
      <3>1. PICK k \in Nat : k = (g - d) + i
        <4>1. (g - d) + i \in Nat
          BY <1>1, <1>2, <1>8
        <4> QED
          BY <4>1
      <3>2. k \in 2 .. (f - x) /\ d + k = g + i /\ i \in 1 .. (h - g) /\ 0 + i = i
        BY <1>1, <1>2, <1>8, <2>1, <3>1
      <3> QED
        BY <1>2, <1>5, <3>2
    <2>5. Linked(gs, ks, y, 0)
      <3>1. y \in 0 .. f /\ 0 \in 0 .. (h - g) /\ f - y = (h - g) - 0
        BY <1>1, <2>1
      <3> QED
        BY <1>4, <1>5, <2>2, <2>3, <2>4, <3>1 DEF Linked
    <2> QED
      BY <1>1, <1>4, <1>5, <2>1, <2>5 DEF gs, ks
  <1>9. g <= d \/ g > d
    BY <1>1, <1>2
  <1> QED
    BY <1>7, <1>8, <1>9

LEMMA TimeKeeps ==
  ASSUME MemoryOK, Tick
  PROVE  MemoryOK' /\ Len(failures') = Len(failures)
<1>1. PICK x \in Nat, d \in Nat : Linked(failures, history, x, d)
  BY DEF MemoryOK
<1>2. PICK g \in 0 .. Len(history) :
        /\ \A i \in DOMAIN history : history[i].age = Window <=> i <= g
        /\ history' = [i \in 1 .. Len(history) - g |->
                         [age |-> history[g + i].age + 1, healthy |-> history[g + i].healthy]]
  BY DEF Tick
<1>3. failures' = [i \in DOMAIN failures |-> Older(failures[i])]
  BY DEF Tick
<1>4. failures \in Seq(0 .. Window + 1) /\ history \in Seq(Entries)
  BY DEF MemoryOK
<1>5. /\ failures' \in Seq(0 .. Window + 1) /\ Len(failures') = Len(failures)
      /\ history' \in Seq(Entries)
      /\ \E y, e \in Nat : Linked(failures', history', y, e)
  BY <1>1, <1>2, <1>3, <1>4, OlderLinked
<1> QED
  BY <1>5 DEF MemoryOK

DegradationInv == MemoryInv /\ runtime \in Nat

LEMMA DegradationInit == Init => DegradationInv
<1> SUFFICES ASSUME Init PROVE DegradationInv
  OBVIOUS
<1>1. failures = <<>> /\ history = <<>> /\ status = "starting" /\ runtime = 0
  BY DEF Init
<1>2. failures \in Seq(0 .. Window + 1) /\ history \in Seq(Entries) /\ Len(failures) = 0 /\ Len(history) = 0
  BY <1>1, EmptySeq
<1>3. Linked(failures, history, 0, 0)
  BY <1>2 DEF Linked
<1> QED
  BY <1>1, <1>2, <1>3 DEF DegradationInv, MemoryInv, MemoryOK

\* A failure that is judged.
LEMMA JudgeKeeps ==
  ASSUME DegradationInv, Judge
  PROVE  DegradationInv'
<1>1. MemoryOK' /\ Len(Trim(failures')) = Len(failures')
  BY RecordKept DEF DegradationInv, MemoryInv, Judge
<1>2. PICK d \in Nat : Linked(failures', history', 0, d)
  BY RecordKept DEF DegradationInv, MemoryInv, Judge
<1>3. runtime' \in Nat
  BY DEF Judge, DegradationInv
<1>4. failures' \in Seq(0 .. Window + 1) /\ history' \in Seq(Entries) /\ Len(failures') \in Nat
  BY <1>1, LenProperties DEF MemoryOK
<1>5. Cardinality(RelevantIn(history')) = Len(failures')
  <2>1. Cardinality(RelevantIn(history')) = Len(failures') - 0
    BY <1>2, <1>4, RelevantCount
  <2> QED
    BY <1>4, <2>1
<1>6. Relevant' = RelevantIn(history')
  BY DEF Relevant, RelevantIn
<1>7. CASE CrashLooping(failures')
  <2>1. sup' = "done" /\ status' = "degraded"
    BY <1>7 DEF Judge
  <2>2. Cardinality(Relevant') >= Threshold
    BY <1>1, <1>5, <1>6, <1>7 DEF CrashLooping
  <2> QED
    BY <1>1, <1>3, <2>1, <2>2 DEF DegradationInv, MemoryInv
<1>8. CASE ~CrashLooping(failures')
  <2>1. status' = "backoff"
    BY <1>8 DEF Judge
  <2>2. Len(failures') < Threshold
    BY <1>1, <1>4, <1>8, PolicyAssumption DEF CrashLooping
  <2> QED
    BY <1>1, <1>3, <2>1, <2>2 DEF DegradationInv, MemoryInv
<1> QED
  BY <1>7, <1>8

LEMMA DegradationStep == DegradationInv /\ [Next]_vars => DegradationInv'
<1> SUFFICES ASSUME DegradationInv, [Next]_vars PROVE DegradationInv'
  OBVIOUS
<1>1. CASE Judge
  BY <1>1, JudgeKeeps
<1>2. CASE Tick
  <2>1. MemoryOK' /\ Len(failures') = Len(failures)
    BY <1>2, TimeKeeps DEF DegradationInv, MemoryInv
  <2>2. status' = status /\ sup \in {"running", "backoff"}
    BY <1>2 DEF Tick
  <2>3. status # "degraded"
    BY <2>2 DEF DegradationInv, MemoryInv
  <2>4. runtime' \in Nat
    BY <1>2, PolicyAssumption DEF Tick, Least, DegradationInv
  <2> QED
    BY <2>1, <2>2, <2>3, <2>4 DEF DegradationInv, MemoryInv
<1>3. ASSUME UNCHANGED <<failures, history>>, runtime' \in Nat,
             status' \in {"running", "stopped"} \/ (status' = status /\ (sup' = sup \/ sup' = "done"))
             \/ (status' = status /\ sup # "done")
      PROVE  DegradationInv'
  <2>1. MemoryOK'
    BY <1>3 DEF DegradationInv, MemoryInv, MemoryOK
  <2>2. Relevant' = Relevant
    BY <1>3 DEF Relevant
  <2>3. /\ status' = "backoff" => Len(failures') < Threshold
        /\ status' = "degraded" => sup' = "done" /\ Cardinality(Relevant') >= Threshold
    BY <1>3, <2>2 DEF DegradationInv, MemoryInv
  <2> QED
    BY <1>3, <2>1, <2>3 DEF DegradationInv, MemoryInv
<1>4. CASE LoopHead
  <2>1. UNCHANGED <<failures, history>> /\ runtime' \in Nat
    BY <1>4 DEF LoopHead, DegradationInv
  <2>2. status' = "running" \/ (status' = status /\ sup # "done")
    BY <1>4 DEF LoopHead
  <2> QED
    BY <1>3, <2>1, <2>2
<1>5. CASE Build \/ Recheck \/ StartCheck \/ StartClear \/ Spawn \/ StopTakesEffect \/ Exit
  <2>1. UNCHANGED <<failures, history, status, runtime>> /\ sup # "done"
    BY <1>5 DEF Build, Recheck, StartCheck, StartClear, Spawn, StopTakesEffect, Exit, Return
  <2> QED
    BY <1>3, <2>1 DEF DegradationInv
<1>6. CASE Conclude \/ BackoffStopped \/ BackoffOver
  <2>1. UNCHANGED <<failures, history, runtime>> /\ sup # "done"
    BY <1>6 DEF Conclude, BackoffStopped, BackoffOver
  <2>2. status' = status \/ status' = "stopped"
    BY <1>6 DEF Conclude, BackoffStopped, BackoffOver
  <2> QED
    BY <1>3, <2>1, <2>2 DEF DegradationInv
<1>7. CASE StopSet \/ StopRead \/ StopService \/ UNCHANGED vars
  <2>1. UNCHANGED <<failures, history, runtime, status, sup>>
    BY <1>7 DEF StopSet, StopRead, StopService, vars
  <2> QED
    BY <1>3, <2>1 DEF DegradationInv
<1> QED
  BY <1>1, <1>2, <1>4, <1>5, <1>6, <1>7 DEF Next, Run, Stop, Finished

LEMMA DegradationExact == DegradationInv => DegradedExactly
<1> SUFFICES ASSUME DegradationInv PROVE DegradedExactly
  OBVIOUS
<1>1. PICK x \in Nat, d \in Nat : Linked(failures, history, x, d)
  BY DEF DegradationInv, MemoryInv, MemoryOK
<1>2. failures \in Seq(0 .. Window + 1) /\ history \in Seq(Entries) /\ Len(failures) \in Nat
  BY LenProperties DEF DegradationInv, MemoryInv, MemoryOK
<1>3. Cardinality(Relevant) = Len(failures) - x
  <2>1. Relevant = RelevantIn(history)
    BY DEF Relevant, RelevantIn
  <2> QED
    BY <1>1, <1>2, <2>1, RelevantCount
<1>4. status = "backoff" => Cardinality(Relevant) < Threshold
  <2>1. SUFFICES ASSUME Len(failures) < Threshold PROVE Len(failures) - x < Threshold
    BY <1>3 DEF DegradationInv, MemoryInv
  <2> QED
    BY <1>2, <2>1, PolicyAssumption
<1> QED
  BY <1>4 DEF DegradationInv, MemoryInv, DegradedExactly

\* A source is degraded exactly when Threshold of its failures fall in one window
\* with no healthy run between them, for every policy and every history: what
\* RestartPolicy forgets when it trims or resets never hides a crash loop.
THEOREM DegradedIsExact == Spec => []DegradedExactly
  BY DegradationInit, DegradationStep, DegradationExact, PTL DEF Spec
=============================================================================
