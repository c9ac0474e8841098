--------------------------- MODULE JobQueueReaders ---------------------------
(***************************************************************************)
(* The table of stage runs implements CurrentRuns, for every set of jobs,  *)
(* slots and projects: a step of the queue opens, files, fails or clears   *)
(* what a slot shows, or leaves it.  That a slot shows one run at all is   *)
(* OneCurrentRun, from the fences.                                         *)
(***************************************************************************)
EXTENDS JobQueueBacking

-----------------------------------------------------------------------------
(* What a slot shows *)

Shown(r) == [run |-> r, status |-> runs[r].status, result |-> runs[r].result]

LEMMA OnlyChoice ==
  ASSUME NEW C, NEW r \in C, \A q \in C : q = r
  PROVE  (CHOOSE q \in C : TRUE) = r
OBVIOUS

LEMMA HeldNow ==
  ASSUME OneCurrentRun, NEW s
  PROVE  /\ CurrentIn(s) = {} => Held(s) = Readers!Vacant
         /\ \A r \in CurrentIn(s) : Held(s) = Shown(r)
<1>1. ASSUME NEW r \in CurrentIn(s) PROVE Held(s) = Shown(r)
  <2>1. \A q \in CurrentIn(s) : q = r
    BY Zenon DEF OneCurrentRun, CurrentIn
  <2>2. (CHOOSE q \in CurrentIn(s) : TRUE) = r
    BY <2>1, OnlyChoice, Zenon
  <2>3. CurrentIn(s) # {}
    OBVIOUS
  <2> QED
    BY <2>2, <2>3, Zenon DEF Held, Shown
<1> QED
  BY <1>1, Zenon DEF Held, Readers!Vacant, NoRun, NoResult, Readers!NoResult

LEMMA HeldNext ==
  ASSUME OneCurrentRun', NEW s
  PROVE  /\ CurrentIn(s)' = {} => Held(s)' = Readers!Vacant
         /\ \A r \in CurrentIn(s)' : Held(s)' = Shown(r)'
<1>1. ASSUME NEW r \in CurrentIn(s)' PROVE Held(s)' = Shown(r)'
  <2>1. \A q \in CurrentIn(s)' : q = r
    BY Zenon DEF OneCurrentRun, CurrentIn, IsCurrent
  <2>2. (CHOOSE q \in CurrentIn(s)' : TRUE) = r
    BY <2>1, OnlyChoice, Zenon
  <2>3. CurrentIn(s)' # {}
    OBVIOUS
  <2> QED
    BY <2>2, <2>3, Zenon DEF Held, Shown
<1> QED
  BY <1>1, Zenon DEF Held, Readers!Vacant, NoRun, NoResult, Readers!NoResult

\* A row that did not change shows the same, and shows in the same slot.
LEMMA SameShown ==
  ASSUME NEW r, runs'[r] = runs[r]
  PROVE  /\ Shown(r)' = Shown(r)
         /\ r \in DOMAIN runs /\ r \in DOMAIN runs' =>
              \A s : r \in CurrentIn(s)' <=> r \in CurrentIn(s)
BY Zenon DEF Shown, CurrentIn, IsCurrent

-----------------------------------------------------------------------------
(* What a step does to the slots *)

\* A transaction that only retires rows clears the slots that showed them.
LEMMA RetiringClears ==
  ASSUME TypeOK, TypeOK', OneCurrentRun, OneCurrentRun', DOMAIN runs' = DOMAIN runs,
         \A r \in DOMAIN runs : runs'[r] = runs[r] \/ runs'[r].superseded
  PROVE  Readers!Clear
<1>1. Len(runs') = Len(runs)
  <2>1. runs \in Seq(RunRow) /\ runs' \in Seq(RunRow)
    BY Zenon DEF TypeOK
  <2> QED
    BY <2>1, SMT
<1>2. ASSUME NEW s \in Slot PROVE Held(s)' \in {Held(s), Readers!Vacant}
  <2>1. CASE CurrentIn(s)' = {}
    BY <2>1, HeldNext, Zenon
  <2>2. ASSUME NEW r \in CurrentIn(s)' PROVE Held(s)' = Held(s)
    <3>1. r \in DOMAIN runs /\ r \in DOMAIN runs' /\ ~runs'[r].superseded
      BY <2>2, Zenon DEF CurrentIn, IsCurrent
    <3>2. runs'[r] = runs[r]
      BY <3>1, Zenon
    <3>3. r \in CurrentIn(s) /\ Shown(r)' = Shown(r)
      BY <2>2, <3>1, <3>2, SameShown, Zenon
    <3> QED
      BY <2>2, <3>3, HeldNow, HeldNext, Zenon
  <2> QED
    BY <2>1, <2>2, Zenon
<1> QED
  BY <1>1, <1>2, Zenon DEF Readers!Clear

\* beginRun opens the slot of its job, whoever held it.
LEMMA BeginOpens ==
  ASSUME TypeOK, TypeOK', OneCurrentRun, OneCurrentRun', BeginRun
  PROVE  SlotOf[mid.job] \in Slot /\ Readers!Open(SlotOf[mid.job])
<1>0. PICK i, s, n : i = mid.job /\ s = SlotOf[i] /\ n = Len(runs) + 1
  BY Zenon
<1>1. s \in Slot
  <2>1. i \in Job
    BY <1>0, MidType, SMT DEF BeginRun, TypeOK
  <2> QED
    BY <1>0, <2>1, PlacesAreTyped, Zenon
<1>2. /\ DOMAIN runs' = DOMAIN runs \cup {n} /\ n \notin DOMAIN runs
      /\ runs'[n].slot = s /\ runs'[n].status = "running" /\ ~runs'[n].superseded
      /\ runs'[n].result = NoResult
      /\ \A r \in DOMAIN runs : runs'[r] = IF r \in CurrentIn(s) THEN Outgoing(runs[r]) ELSE runs[r]
  BY <1>0, Begun, Zenon
<1>3. Len(runs') = Len(runs) + 1
  <2>1. runs \in Seq(RunRow) /\ runs' \in Seq(RunRow)
    BY Zenon DEF TypeOK
  <2> QED
    BY <1>0, <1>2, <2>1, SMT
<1>4. Held(s)' = [run |-> Len(runs) + 1, status |-> "running", result |-> Readers!NoResult]
  <2>1. n \in CurrentIn(s)'
    BY <1>2, Zenon DEF CurrentIn, IsCurrent
  <2>2. Held(s)' = Shown(n)'
    BY <2>1, HeldNext, Zenon
  <2>3. Shown(n)' = [run |-> n, status |-> "running", result |-> NoResult]
    BY <1>2, Zenon DEF Shown
  <2> QED
    BY <1>0, <2>2, <2>3, Zenon DEF NoResult, Readers!NoResult
<1>5. ASSUME NEW t \in Slot, t # s PROVE Held(t)' = Held(t)
  <2>1. ASSUME NEW r \in DOMAIN runs PROVE r \in CurrentIn(t)' <=> r \in CurrentIn(t)
    <3>1. CASE r \in CurrentIn(s)
      <4>1. runs'[r].slot = s /\ runs[r].slot = s
        <5>1. runs[r] \in RunRow
          BY PlacesAreTyped, Zenon
        <5>2. Outgoing(runs[r]).slot = runs[r].slot
          BY <5>1, Zenon DEF Outgoing, RunRow
        <5>3. runs'[r] = Outgoing(runs[r]) /\ runs[r].slot = s
          BY <1>2, <3>1, Zenon DEF CurrentIn
        <5> QED
          BY <5>2, <5>3, Zenon
      <4> QED
        BY <1>5, <4>1, Zenon DEF CurrentIn
    <3>2. CASE r \notin CurrentIn(s)
      <4>1. runs'[r] = runs[r] /\ r \in DOMAIN runs'
        BY <1>2, <3>2, Zenon
      <4> QED
        BY <4>1, SameShown, Zenon
    <3> QED
      BY <3>1, <3>2
  <2>2. n \notin CurrentIn(t)'
    BY <1>2, <1>5, Zenon DEF CurrentIn
  <2>3. CurrentIn(t)' = CurrentIn(t)
    <3>1. \A r : r \in CurrentIn(t)' => r \in DOMAIN runs \cup {n}
      BY <1>2, Zenon DEF CurrentIn
    <3>2. \A r : r \in CurrentIn(t) => r \in DOMAIN runs
      BY Zenon DEF CurrentIn
    <3> QED
      BY <2>1, <2>2, <3>1, <3>2
  <2>4. ASSUME NEW r \in CurrentIn(t) PROVE Shown(r)' = Shown(r)
    <3>1. r \in DOMAIN runs /\ r \notin CurrentIn(s)
      BY <1>5, <2>4, Zenon DEF CurrentIn
    <3>2. runs'[r] = runs[r]
      BY <1>2, <3>1, Zenon
    <3> QED
      BY <3>2, SameShown, Zenon
  <2>5. CASE CurrentIn(t) = {}
    BY <2>3, <2>5, HeldNow, HeldNext, Zenon
  <2>6. CASE CurrentIn(t) # {}
    <3>1. PICK r : r \in CurrentIn(t)
      BY <2>6, Zenon
    <3> QED
      BY <2>3, <2>4, <3>1, HeldNow, HeldNext, Zenon
  <2> QED
    BY <2>5, <2>6
<1>6. [t \in Slot |-> Held(t)]' =
        [[t \in Slot |-> Held(t)] EXCEPT ![s] = [run |-> Len(runs) + 1, status |-> "running",
                                                 result |-> Readers!NoResult]]
  BY <1>1, <1>4, <1>5, Zenon
<1>7. Readers!Open(s)
  BY <1>3, <1>6, Zenon DEF Readers!Open
<1> QED
  BY <1>0, <1>1, <1>7, Zenon

\* A row that changes while it is current, and nothing else does, changes what its
\* slot shows, and no other slot.
LEMMA OneSlotChanges ==
  ASSUME TypeOK, TypeOK', OneCurrentRun, OneCurrentRun', NEW r \in DOMAIN runs, IsCurrent(r),
         DOMAIN runs' = DOMAIN runs, \A q \in DOMAIN runs : q # r => runs'[q] = runs[q],
         runs'[r].slot = runs[r].slot, ~runs'[r].superseded
  PROVE  LET s == runs[r].slot
             shown == [t \in Slot |-> Held(t)]
         IN  /\ s \in Slot /\ Len(runs') = Len(runs)
             /\ Held(s) = Shown(r) /\ Held(s)' = Shown(r)'
             /\ shown' = [shown EXCEPT ![s] = Shown(r)']
<1>0. PICK s : s = runs[r].slot
  BY Zenon
<1>1. s \in Slot
  BY <1>0, PlacesAreTyped, Zenon
<1>2. Len(runs') = Len(runs)
  <2>1. runs \in Seq(RunRow) /\ runs' \in Seq(RunRow)
    BY Zenon DEF TypeOK
  <2> QED
    BY <2>1, SMT
<1>3. Held(s) = Shown(r) /\ Held(s)' = Shown(r)'
  <2>1. r \in CurrentIn(s) /\ r \in CurrentIn(s)'
    BY <1>0, Zenon DEF CurrentIn, IsCurrent
  <2> QED
    BY <2>1, HeldNow, HeldNext, Zenon
<1>4. ASSUME NEW t \in Slot, t # s PROVE Held(t)' = Held(t)
  <2>1. ASSUME NEW q \in CurrentIn(t) PROVE Shown(q)' = Shown(q) /\ q \in CurrentIn(t)'
    <3>1. q \in DOMAIN runs /\ q # r
      BY <1>0, <1>4, <2>1, Zenon DEF CurrentIn
    <3>2. runs'[q] = runs[q] /\ q \in DOMAIN runs'
      BY <3>1, Zenon
    <3> QED
      BY <2>1, <3>1, <3>2, SameShown, Zenon
  <2>2. ASSUME NEW q \in CurrentIn(t)' PROVE q \in CurrentIn(t)
    <3>1. q \in DOMAIN runs /\ q # r
      BY <1>0, <1>4, <2>2, Zenon DEF CurrentIn
    <3>2. runs'[q] = runs[q] /\ q \in DOMAIN runs'
      BY <3>1, Zenon
    <3> QED
      BY <2>2, <3>1, <3>2, SameShown, Zenon
  <2>3. CASE CurrentIn(t) = {}
    <3>1. CurrentIn(t)' = {}
      BY <2>2, <2>3
    <3> QED
      BY <2>3, <3>1, HeldNow, HeldNext, Zenon
  <2>4. ASSUME NEW q \in CurrentIn(t) PROVE Held(t)' = Held(t)
    BY <2>1, <2>4, HeldNow, HeldNext, Zenon
  <2> QED
    BY <2>3, <2>4, Zenon
<1>5. [t \in Slot |-> Held(t)]' = [[t \in Slot |-> Held(t)] EXCEPT ![s] = Shown(r)']
  BY <1>1, <1>3, <1>4, Zenon
<1> QED
  BY <1>0, <1>1, <1>2, <1>3, <1>5, Zenon

\* A commit files what its slot shows: the fence lets only the current run through.
LEMMA CommitFiles ==
  ASSUME TypeOK, TypeOK', FenceInvariant, OneCurrentRun', NEW e \in execs, Commit(e)
  PROVE  \E s \in Slot : Readers!File(s)
<1>0. PICK r, o, res : /\ r = e.run
                       /\ o \in Outcome /\ res \in Result \cup {NoResult}
                       /\ runs' = [runs EXCEPT ![r] = Committed(@, o, res, e.attempts)]
  <2>1. PICK o \in Outcome : \E res \in (IF o = "succeeded" THEN Result ELSE {}) \cup {NoResult} :
          runs' = [runs EXCEPT ![e.run] = Committed(@, o, res, e.attempts)]
    BY Zenon DEF Commit
  <2>2. PICK res \in (IF o = "succeeded" THEN Result ELSE {}) \cup {NoResult} :
          runs' = [runs EXCEPT ![e.run] = Committed(@, o, res, e.attempts)]
    BY <2>1, Zenon
  <2>3. res \in Result \cup {NoResult}
    BY <2>2
  <2> QED
    BY <2>1, <2>2, <2>3, Zenon
<1>1. r \in DOMAIN runs /\ IsCurrent(r) /\ runs[r].status = "running" /\ runs[r] \in RunRow
  <2>1. FenceOpen(e) /\ Holds(r, e.epoch)
    BY <1>0, Zenon DEF Commit, FenceInvariant
  <2> QED
    BY <1>0, <2>1, PlacesAreTyped, Zenon DEF FenceOpen, Holds
<1>2. /\ runs'[r] = Committed(runs[r], o, res, e.attempts)
      /\ DOMAIN runs' = DOMAIN runs /\ \A q \in DOMAIN runs : q # r => runs'[q] = runs[q]
  BY <1>0, <1>1, Zenon
<1> DEFINE status == IF o \in {"fatal", "retryable"} THEN "failed" ELSE o
<1>3. /\ runs'[r].slot = runs[r].slot /\ runs'[r].superseded = runs[r].superseded
      /\ runs'[r].result = res /\ runs'[r].status = status
  BY <1>1, <1>2, Zenon DEF Committed, RunRow
<1>4. status \in {"succeeded", "empty", "skipped", "refused", "failed"}
  <2>1. o \in {"succeeded", "empty", "skipped", "refused", "fatal", "retryable"}
    BY <1>0, JobQueueAssumption, Zenon DEF ConstantAssumption
  <2> QED
    BY <2>1, SMT
<1> HIDE DEF status
<1>5. PICK s, f, g : /\ s = runs[r].slot
                     /\ f = [t \in Slot |-> Held(t)] /\ g = [t \in Slot |-> Held(t)]'
  BY Zenon
<1>6. s \in Slot /\ Len(runs') = Len(runs) /\ Held(s) = Shown(r) /\ g = [f EXCEPT ![s] = Shown(r)']
  BY <1>1, <1>2, <1>3, <1>5, OneSlotChanges, Zenon DEF FenceInvariant, IsCurrent
<1>7. f[s].run = r /\ f[s].status = "running"
  <2>1. f[s] = Shown(r)
    BY <1>5, <1>6, Zenon
  <2>2. Shown(r).run = r /\ Shown(r).status = "running"
    BY <1>1, Zenon DEF Shown
  <2> QED
    BY <2>1, <2>2, Zenon
<1>8. Shown(r)' = [run |-> f[s].run, status |-> status, result |-> res]
  BY <1>3, <1>7, Zenon DEF Shown
<1>9. g = [f EXCEPT ![s] = [run |-> @.run, status |-> status, result |-> res]]
  BY <1>6, <1>8, Zenon
<1>10. res \in Result \cup {Readers!NoResult}
  BY <1>0 DEF NoResult, Readers!NoResult
<1>11. Readers!Says(s, status, res)
  BY <1>5, <1>6, <1>7, <1>9, Zenon DEF Readers!Says
<1> QED
  BY <1>4, <1>6, <1>10, <1>11, Zenon DEF Readers!File

\* failRun files a failure on the current run it still holds; on a run that lost
\* its slot it shows nobody anything.
LEMMA FailFails ==
  ASSUME TypeOK, TypeOK', OneCurrentRun, OneCurrentRun', FailRun
  PROVE  Readers!Clear \/ \E s \in Slot : Readers!Fail(s)
<1>0. PICK r : r = mid.run
  BY Zenon
<1>1. \/ runs' = runs
      \/ runs[r].status = "running" /\ runs' = [runs EXCEPT ![r] = Failed(@)]
  BY <1>0, Zenon DEF FailRun
<1>2. DOMAIN runs' = DOMAIN runs /\ \A q \in DOMAIN runs : q # r => runs'[q] = runs[q]
  BY <1>1, Zenon
<1>3. CASE \A q \in DOMAIN runs : runs'[q] = runs[q] \/ runs'[q].superseded
  BY <1>2, <1>3, RetiringClears, Zenon
<1>4. ASSUME NEW q \in DOMAIN runs, runs'[q] # runs[q], ~runs'[q].superseded
      PROVE  \E s \in Slot : Readers!Fail(s)
  <2>1. r = q /\ r \in DOMAIN runs /\ runs[r] \in RunRow
    BY <1>2, <1>4, PlacesAreTyped, Zenon
  <2>2. runs[r].status = "running" /\ runs'[r] = Failed(runs[r])
    BY <1>1, <1>4, <2>1, Zenon
  <2>3. /\ runs'[r].slot = runs[r].slot /\ runs'[r].superseded = runs[r].superseded
        /\ runs'[r].result = runs[r].result /\ runs'[r].status = "failed"
    BY <2>1, <2>2, Zenon DEF Failed, RunRow
  <2>4. PICK s, f, g : /\ s = runs[r].slot
                       /\ f = [t \in Slot |-> Held(t)] /\ g = [t \in Slot |-> Held(t)]'
    BY Zenon
  <2>5. IsCurrent(r) /\ ~runs'[r].superseded
    BY <1>4, <2>1, <2>3, Zenon DEF IsCurrent
  <2>6. s \in Slot /\ Len(runs') = Len(runs) /\ Held(s) = Shown(r) /\ g = [f EXCEPT ![s] = Shown(r)']
    BY <1>2, <2>1, <2>3, <2>4, <2>5, OneSlotChanges, Zenon
  <2>7. f[s].run = r /\ f[s].status = "running" /\ f[s].result = runs[r].result
    <3>1. f[s] = Shown(r)
      BY <2>4, <2>6, Zenon
    <3>2. Shown(r).run = r /\ Shown(r).status = "running" /\ Shown(r).result = runs[r].result
      BY <2>2, Zenon DEF Shown
    <3> QED
      BY <3>1, <3>2, Zenon
  <2>8. Shown(r)' = [run |-> f[s].run, status |-> "failed", result |-> f[s].result]
    BY <2>3, <2>7, Zenon DEF Shown
  <2>9. g = [f EXCEPT ![s] = [run |-> @.run, status |-> "failed", result |-> f[s].result]]
    BY <2>6, <2>8, Zenon
  <2>10. Readers!Fail(s)
    BY <2>4, <2>6, <2>7, <2>9, Zenon DEF Readers!Fail, Readers!Says
  <2> QED
    BY <2>6, <2>10, Zenon
<1> QED
  BY <1>3, <1>4, Zenon

-----------------------------------------------------------------------------
(* The refinement *)

LEMMA StepKeepsReaders ==
  ASSUME TypeOK, TypeOK', FenceInvariant, FenceInvariant', [Next]_vars
  PROVE  Readers!Next
<1>0. OneCurrentRun /\ OneCurrentRun'
  BY Zenon DEF FenceInvariant
<1>1. CASE BeginRun
  BY <1>0, <1>1, BeginOpens, Zenon DEF Readers!Next
<1>2. ASSUME NEW e \in execs, Commit(e) PROVE Readers!Next
  BY <1>0, <1>2, CommitFiles, Zenon DEF Readers!Next
<1>3. CASE FailRun
  BY <1>0, <1>3, FailFails, Zenon DEF Readers!Next
<1>4. CASE ~BeginRun /\ ~FailRun /\ ~\E e \in execs : Commit(e)
  <2>1. DOMAIN runs' = DOMAIN runs
    BY <1>4, RowsStay, Zenon
  <2>2. ASSUME NEW r \in DOMAIN runs PROVE runs'[r] = runs[r] \/ runs'[r].superseded
    <3>1. runs[r] \in RunRow
      BY PlacesAreTyped, Zenon
    <3>2. Retired(runs[r]).superseded /\ [runs[r] EXCEPT !.superseded = TRUE].superseded
      BY <3>1, Zenon DEF Retired, RunRow
    <3>3. \/ runs'[r] = runs[r]
          \/ runs'[r] = Retired(runs[r])
          \/ runs'[r] = [runs[r] EXCEPT !.superseded = TRUE]
      BY <1>4, RowsTouched, Zenon
    <3> QED
      BY <3>2, <3>3, Zenon
  <2>3. Readers!Clear
    BY <1>0, <2>1, <2>2, RetiringClears, Zenon
  <2> QED
    BY <2>3, Zenon DEF Readers!Next
<1> QED
  BY <1>1, <1>2, <1>3, <1>4, Zenon

LEMMA InitShowsNothing == Init => Readers!Init
<1> SUFFICES ASSUME Init PROVE Readers!Init
  OBVIOUS
<1>1. runs = <<>>
  BY Zenon DEF Init
<1>2. Len(runs) = 0 /\ DOMAIN runs = {}
  BY <1>1, SMT
<1>3. ASSUME NEW s \in Slot PROVE Held(s) = Readers!Vacant
  <2>1. CurrentIn(s) = {}
    BY <1>2, SMT DEF CurrentIn
  <2> QED
    BY <2>1, Zenon DEF Held, Readers!Vacant, NoRun, NoResult, Readers!NoResult
<1> QED
  BY <1>2, <1>3, Zenon DEF Readers!Init

\* The table of stage runs keeps its promise to whoever reads it: a slot changes
\* only by opening a new run, filing or failing the run it shows, once, or being
\* cleared.
THEOREM ReadersAreKept == Spec => KeepsCurrentRuns
<1>1. TypeOK /\ TypeOK' /\ FenceInvariant /\ FenceInvariant' /\ [Next]_vars
        => [Readers!Next]_(Readers!runVars)
  BY StepKeepsReaders, Zenon
<1> QED
  BY <1>1, InitShowsNothing, TypeCorrect, FencesHold, PTL DEF Spec, KeepsCurrentRuns, Readers!Spec

-----------------------------------------------------------------------------
(* What follows for a reader *)

LEMMA HeldIsNumbered ==
  ASSUME TypeOK, OneCurrentRun, NEW s
  PROVE  Held(s) = Readers!Vacant \/ Held(s).run \in 1 .. Len(runs)
<1>1. CASE CurrentIn(s) = {}
  BY <1>1, HeldNow, Zenon
<1>2. ASSUME NEW r \in CurrentIn(s) PROVE Held(s).run \in 1 .. Len(runs)
  <2>1. Held(s).run = r
    <3>1. Held(s) = Shown(r)
      BY <1>2, HeldNow, Zenon
    <3>2. Shown(r).run = r
      BY Zenon DEF Shown
    <3> QED
      BY <3>1, <3>2, Zenon
  <2>2. r \in DOMAIN runs /\ runs \in Seq(RunRow)
    BY <1>2, Zenon DEF CurrentIn, TypeOK
  <2> QED
    BY <2>1, <2>2, SMT
<1> QED
  BY <1>1, <1>2, Zenon

\* What one step of the promise leaves a reader with, slot by slot.
LEMMA StepIsFinal ==
  ASSUME TypeOK, OneCurrentRun, Readers!Next, NEW s \in Slot
  PROVE  /\ Held(s).status # "running" /\ Held(s)'.run = Held(s).run => Held(s)' = Held(s)
         /\ Held(s)'.run # Held(s).run => Held(s)'.run \in {0, Len(runs) + 1}
<1> DEFINE Goal ==
      /\ Held(s).status # "running" /\ Held(s)'.run = Held(s).run => Held(s)' = Held(s)
      /\ Held(s)'.run # Held(s).run => Held(s)'.run \in {0, Len(runs) + 1}
<1>0. PICK f, g, h, k, n : /\ f = [t \in Slot |-> Held(t)] /\ g = [t \in Slot |-> Held(t)]'
                           /\ h = Held(s) /\ k = Held(s)' /\ n = Len(runs)
  BY Zenon
<1>1. f[s] = h /\ g[s] = k
  BY <1>0, Zenon
<1>2. h = Readers!Vacant \/ h.run \in 1 .. n
  BY <1>0, HeldIsNumbered, Zenon
<1>3. n \in Nat
  <2>1. runs \in Seq(RunRow)
    BY Zenon DEF TypeOK
  <2> QED
    BY <1>0, <2>1, SMT
<1>4. h.run # n + 1 /\ (h.run = 0 => h = Readers!Vacant)
  <2>1. Readers!Vacant.run = 0
    BY Zenon DEF Readers!Vacant
  <2>2. CASE h = Readers!Vacant
    BY <1>3, <2>1, <2>2, SMT
  <2>3. CASE h.run \in 1 .. n
    BY <1>3, <2>3, SMT
  <2> QED
    BY <1>2, <2>2, <2>3
<1>5. CASE Readers!Clear
  <2>1. k = h \/ k = Readers!Vacant
    BY <1>0, <1>1, <1>5, Zenon DEF Readers!Clear
  <2>2. Readers!Vacant.run = 0
    BY Zenon DEF Readers!Vacant
  <2> QED
    BY <1>0, <1>4, <2>1, <2>2, Zenon
<1>6. ASSUME NEW t \in Slot, Readers!Open(t) PROVE Goal
  <2>1. g = [f EXCEPT ![t] = [run |-> n + 1, status |-> "running", result |-> Readers!NoResult]]
    BY <1>0, <1>6, Zenon DEF Readers!Open
  <2>2. CASE s = t
    <3>1. k = [run |-> n + 1, status |-> "running", result |-> Readers!NoResult]
      BY <1>0, <1>1, <2>1, <2>2, Zenon
    <3>2. k.run = n + 1
      BY <3>1, Zenon
    <3> QED
      BY <1>0, <1>4, <3>2, Zenon
  <2>3. CASE s # t
    <3>1. k = h
      BY <1>0, <1>1, <2>1, <2>3, Zenon
    <3> QED
      BY <1>0, <3>1, Zenon
  <2> QED
    BY <2>2, <2>3
<1>7. ASSUME NEW t \in Slot, NEW status, NEW result, Readers!Says(t, status, result) PROVE Goal
  <2>1. /\ f[t].status = "running"
        /\ g = [f EXCEPT ![t] = [run |-> @.run, status |-> status, result |-> result]]
    BY <1>0, <1>7, Zenon DEF Readers!Says
  <2>2. CASE s = t
    <3>1. k = [run |-> h.run, status |-> status, result |-> result] /\ h.status = "running"
      BY <1>0, <1>1, <2>1, <2>2, Zenon
    <3>2. k.run = h.run
      BY <3>1, Zenon
    <3> QED
      BY <1>0, <3>1, <3>2, Zenon
  <2>3. CASE s # t
    <3>1. k = h
      BY <1>0, <1>1, <2>1, <2>3, Zenon
    <3> QED
      BY <1>0, <3>1, Zenon
  <2> QED
    BY <2>2, <2>3
<1> HIDE DEF Goal
<1>8. ASSUME NEW t \in Slot, Readers!File(t) \/ Readers!Fail(t) PROVE Goal
  BY <1>7, <1>8, Zenon DEF Readers!File, Readers!Fail
<1>9. Goal
  BY <1>5, <1>6, <1>8, Zenon DEF Readers!Next, Goal
<1> QED
  BY <1>9, Zenon DEF Goal

\* What a slot says of an ended run is final, and a run that lost its slot never
\* shows in it again.
THEOREM FinalStays == Spec => Readers!FinalIsFinal
<1>1. TypeOK /\ TypeOK' /\ FenceInvariant /\ FenceInvariant' /\ [Next]_vars
        => [Readers!StaysFinal]_(Readers!runVars)
  <2> SUFFICES ASSUME TypeOK, TypeOK', FenceInvariant, FenceInvariant', [Next]_vars
               PROVE  Readers!StaysFinal
    OBVIOUS
  <2>1. PICK f, g : /\ f = [t \in Slot |-> Held(t)] /\ g = [t \in Slot |-> Held(t)]'
    BY Zenon
  <2>2. ASSUME NEW s \in Slot
        PROVE  /\ f[s].status # "running" /\ g[s].run = f[s].run => g[s] = f[s]
               /\ g[s].run # f[s].run => g[s].run \in {0, Len(runs) + 1}
    <3>1. f[s] = Held(s) /\ g[s] = Held(s)'
      BY <2>1, Zenon
    <3>2. /\ Held(s).status # "running" /\ Held(s)'.run = Held(s).run => Held(s)' = Held(s)
          /\ Held(s)'.run # Held(s).run => Held(s)'.run \in {0, Len(runs) + 1}
      BY StepKeepsReaders, StepIsFinal, Zenon DEF FenceInvariant
    <3> QED
      BY <3>1, <3>2, Zenon
  <2> QED
    BY <2>1, <2>2, Zenon DEF Readers!StaysFinal
<1> QED
  BY <1>1, TypeCorrect, FencesHold, PTL DEF Spec, Readers!FinalIsFinal
=============================================================================
