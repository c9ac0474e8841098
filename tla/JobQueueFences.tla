--------------------------- MODULE JobQueueFences ---------------------------
(***************************************************************************)
(* The fence on stage_run, for every set of jobs, slots and projects: one  *)
(* current run in a slot, and an open fence only on a current run.  The    *)
(* argument follows one row: whatever a transaction does to it, the row    *)
(* only moves on.                                                          *)
(***************************************************************************)
EXTENDS JobQueueProofs

\* What FenceInvariant says of one row.
Clean(run) ==
  /\ run.superseded /\ run.output => run.status \in {"empty", "refused"}
  /\ run.status \in {"skipped", "running"} => ~run.output

\* What may become of a row in one step.
MovesOn(old, new) ==
  /\ new.slot = old.slot
  /\ old.superseded => new.superseded
  /\ old.epoch <= new.epoch
  /\ new.epoch = old.epoch /\ new.status = "running" =>
       old.status = "running" /\ (new.superseded => old.superseded)
  /\ Clean(old) => Clean(new)
  /\ old.superseded /\ ~old.output => ~new.output

-----------------------------------------------------------------------------
(* One row *)

LEMMA StaysPut ==
  ASSUME NEW run \in RunRow
  PROVE  MovesOn(run, run)
<1>1. run.epoch <= run.epoch
  BY SMT DEF RunRow
<1> QED
  BY <1>1, Zenon DEF MovesOn

LEMMA RetiredMovesOn ==
  ASSUME NEW run \in RunRow
  PROVE  MovesOn(run, Outgoing(run)) /\ MovesOn(run, Retired(run))
<1>1. run.epoch <= run.epoch + 1 /\ run.epoch + 1 # run.epoch
  BY SMT DEF RunRow
<1>2. /\ Outgoing(run).slot = run.slot /\ Outgoing(run).superseded = TRUE
      /\ Outgoing(run).epoch = run.epoch + 1 /\ Outgoing(run).output = FALSE
  BY Zenon DEF Outgoing, RunRow
<1>3. /\ Retired(run).slot = run.slot /\ Retired(run).superseded = TRUE
      /\ Retired(run).epoch = run.epoch + 1 /\ Retired(run).output = FALSE
  BY Zenon DEF Retired, RunRow
<1> QED
  BY <1>1, <1>2, <1>3, Zenon DEF MovesOn, Clean

LEMMA FailedMovesOn ==
  ASSUME NEW run \in RunRow, run.status = "running"
  PROVE  MovesOn(run, Failed(run))
<1>1. run.epoch <= run.epoch
  BY SMT DEF RunRow
<1>2. /\ Failed(run).slot = run.slot /\ Failed(run).superseded = run.superseded
      /\ Failed(run).epoch = run.epoch /\ Failed(run).output = run.output
      /\ Failed(run).status = "failed"
  BY Zenon DEF Failed, RunRow
<1>3. /\ "running" \notin {"empty", "refused"} /\ "failed" # "running" /\ "failed" # "skipped"
  OBVIOUS
<1> QED
  BY <1>1, <1>2, <1>3, Zenon DEF MovesOn, Clean

LEMMA CommittedMovesOn ==
  ASSUME NEW run \in RunRow, run.status = "running", ~run.superseded,
         NEW outcome \in Outcome, NEW result, NEW attempts
  PROVE  MovesOn(run, Committed(run, outcome, result, attempts))
<1> DEFINE new == Committed(run, outcome, result, attempts)
<1>1. run.epoch <= run.epoch
  BY SMT DEF RunRow
<1>2. /\ new.slot = run.slot /\ new.superseded = run.superseded /\ new.epoch = run.epoch
      /\ new.status = IF outcome \in {"fatal", "retryable"} THEN "failed" ELSE outcome
      /\ new.output = (outcome \in {"succeeded", "empty", "refused"} \/ Permanent(outcome, attempts))
  BY Zenon DEF Committed, RunRow
<1>3. new.status # "running"
  BY <1>2, JobQueueAssumption, SMT DEF ConstantAssumption
<1>4. new.status = "skipped" => ~new.output
  <2>1. new.status = "skipped" => outcome = "skipped"
    BY <1>2, SMT
  <2>2. ~("skipped" \in {"succeeded", "empty", "refused"} \/ Permanent("skipped", attempts))
    BY SMT DEF Permanent
  <2> QED
    BY <1>2, <2>1, <2>2, Zenon
<1>5. MovesOn(run, new)
  <2> HIDE DEF new
  <2> QED
    BY <1>1, <1>2, <1>3, <1>4, Zenon DEF MovesOn, Clean
<1> QED
  BY <1>5

\* retry only hides a verdict, and a verdict is not running.
LEMMA HiddenMovesOn ==
  ASSUME NEW run \in RunRow, NEW hide \in BOOLEAN,
         hide => run.status \in {"refused", "skipped", "empty"}
  PROVE  MovesOn(run, [run EXCEPT !.superseded = @ \/ hide])
<1> DEFINE new == [run EXCEPT !.superseded = @ \/ hide]
<1>1. run.epoch <= run.epoch
  BY SMT DEF RunRow
<1>2. /\ new.slot = run.slot /\ new.superseded = (run.superseded \/ hide)
      /\ new.epoch = run.epoch /\ new.status = run.status /\ new.output = run.output
  BY Zenon DEF RunRow
<1>3. hide => run.status # "running"
  BY SMT
<1>4. hide => run.status \in {"empty", "refused"} \/ run.status = "skipped"
  BY SMT
<1>5. MovesOn(run, new)
  <2> HIDE DEF new
  <2> QED
    BY <1>1, <1>2, <1>3, <1>4, Zenon DEF MovesOn, Clean
<1> QED
  BY <1>5

-----------------------------------------------------------------------------
(* Every row *)

\* The rows of a step, whether or not it inserts one.
LEMMA RowsMoveOn ==
  ASSUME TypeOK, FenceInvariant, [Next]_vars
  PROVE  \A r \in DOMAIN runs : r \in DOMAIN runs' /\ MovesOn(runs[r], runs'[r])
<1> SUFFICES ASSUME NEW r \in DOMAIN runs
             PROVE  r \in DOMAIN runs' /\ MovesOn(runs[r], runs'[r])
  OBVIOUS
<1>0. runs \in Seq(RunRow) /\ runs[r] \in RunRow
  BY RunAt DEF TypeOK
<1>1. CASE runs' = runs
  BY <1>0, <1>1, StaysPut, Zenon
<1>2. CASE BeginRun
  <2> DEFINE s == SlotOf[mid.job]
             new == [slot |-> s, status |-> "running", epoch |-> mid.epoch, superseded |-> FALSE,
                     input |-> Fingerprint(s), result |-> NoResult, output |-> FALSE]
             kept == [q \in DOMAIN runs |-> IF q \in CurrentIn(s) THEN Outgoing(runs[q]) ELSE runs[q]]
  <2>1. runs' = Append(kept, new)
    BY <1>2, Zenon DEF BeginRun
  <2>2. kept \in Seq(RunRow) /\ DOMAIN kept = DOMAIN runs
    BY <1>0, RunAt, RetiredTypes, RunsType, Zenon
  <2>3. MovesOn(runs[r], kept[r])
    BY <1>0, StaysPut, RetiredMovesOn, Zenon
  <2>4. r \in DOMAIN runs' /\ runs'[r] = kept[r]
    <3> HIDE DEF kept, new
    <3> QED
      BY <2>1, <2>2, SMT
  <2> QED
    BY <2>3, <2>4, Zenon
<1>3. CASE FailRun
  <2>1. \/ runs' = runs
        \/ /\ runs[mid.run].status = "running"
           /\ runs' = [runs EXCEPT ![mid.run] = Failed(@)]
    BY <1>3, Zenon DEF FailRun
  <2> QED
    BY <1>0, <2>1, StaysPut, FailedMovesOn, Zenon
<1>4. ASSUME NEW e \in execs, Commit(e) PROVE r \in DOMAIN runs' /\ MovesOn(runs[r], runs'[r])
  <2>1. PICK o \in Outcome, res \in Result \cup {NoResult} :
          runs' = [runs EXCEPT ![e.run] = Committed(@, o, res, e.attempts)]
    BY <1>4, Zenon DEF Commit
  <2>2. runs[e.run].status = "running" /\ ~runs[e.run].superseded
    BY <1>4, Zenon DEF Commit, FenceOpen, FenceInvariant, Holds, IsCurrent
  <2>3. r \in DOMAIN runs' /\ (r # e.run => runs'[r] = runs[r])
        /\ (r = e.run => runs'[r] = Committed(runs[e.run], o, res, e.attempts))
    BY <2>1, Zenon
  <2> QED
    BY <1>0, <2>2, <2>3, StaysPut, CommittedMovesOn, Zenon
<1>5. ASSUME NEW j \in Job, Retry(j) PROVE r \in DOMAIN runs' /\ MovesOn(runs[r], runs'[r])
  <2>1. r \in DOMAIN runs' /\ runs'[r] = [runs[r] EXCEPT !.superseded = @ \/ r \in Newest(Verdicts(j))]
    BY <1>5, Zenon DEF Retry
  <2>2. r \in Newest(Verdicts(j)) => runs[r].status \in {"refused", "skipped", "empty"}
    BY Zenon DEF Newest, Verdicts
  <2>3. (r \in Newest(Verdicts(j))) \in BOOLEAN
    OBVIOUS
  <2> QED
    BY <1>0, <2>1, <2>2, <2>3, HiddenMovesOn, Zenon
<1>6. CASE \/ \E j \in Job : Cancel(j)
           \/ Start
           \/ \E p, S : Rerun(p, S)
  <2>1. r \in DOMAIN runs' /\ (runs'[r] = runs[r] \/ runs'[r] = Retired(runs[r]))
    <3>1. ASSUME NEW j \in Job, Cancel(j)
          PROVE  r \in DOMAIN runs' /\ (runs'[r] = runs[r] \/ runs'[r] = Retired(runs[r]))
      BY <3>1, Zenon DEF Cancel
    <3>2. ASSUME Start
          PROVE  r \in DOMAIN runs' /\ (runs'[r] = runs[r] \/ runs'[r] = Retired(runs[r]))
      BY <3>2, Zenon DEF Start
    <3>3. ASSUME NEW p, NEW S, Rerun(p, S)
          PROVE  r \in DOMAIN runs' /\ (runs'[r] = runs[r] \/ runs'[r] = Retired(runs[r]))
      BY <3>3, Zenon DEF Rerun
    <3> QED
      BY <1>6, <3>1, <3>2, <3>3, Zenon
  <2> QED
    BY <1>0, <2>1, StaysPut, RetiredMovesOn, Zenon
<1> QED
  <2>1. \/ runs' = runs \/ BeginRun \/ FailRun \/ Start
        \/ \E e \in execs : Commit(e)
        \/ \E j \in Job : Retry(j) \/ Cancel(j)
        \/ \E p, S : Rerun(p, S)
    BY Zenon DEF Next, vars, Claim, RetireExhausted, Macrotask, AnswerFromCache, Execute, Throw,
       Settle, CancelDependents, Returns, Abandon, ApplyFails, Heartbeat, LeaseLapses,
       BackoffElapses, ReclaimExpiredLeases, Stop, Crash, User, Plan, Reprocess, RerunStage,
       ReprocessForced, WorldChanges
  <2> QED
    BY <1>1, <1>2, <1>3, <1>4, <1>5, <1>6, <2>1, Zenon

\* Only beginRun inserts a row; no other step changes how many there are.
LEMMA RowsStay ==
  ASSUME TypeOK, [Next]_vars, ~BeginRun
  PROVE  DOMAIN runs' = DOMAIN runs
BY Zenon DEF Next, vars, Claim, RetireExhausted, Macrotask, AnswerFromCache, Execute, Throw,
   Settle, FailRun, CancelDependents, Returns, Abandon, Commit, ApplyFails, Heartbeat,
   LeaseLapses, BackoffElapses, ReclaimExpiredLeases, Start, Stop, Crash, User, Plan, Reprocess,
   RerunStage, ReprocessForced, Rerun, Retry, Cancel, WorldChanges

\* A hold survives whatever becomes of its row.
LEMMA HoldsOn ==
  ASSUME TypeOK, TypeOK', NEW r, NEW epoch \in Nat, Holds(r, epoch),
         r \in DOMAIN runs', MovesOn(runs[r], runs'[r])
  PROVE  Holds(r, epoch)'
<1> DEFINE old == runs[r]
           new == runs'[r]
<1>1. old \in RunRow /\ new \in RunRow
  <2>1. runs \in Seq(RunRow) /\ runs' \in Seq(RunRow) /\ r \in DOMAIN runs
    BY Zenon DEF TypeOK, Holds
  <2> QED
    BY <2>1, SMT
<1>2. old.epoch \in Nat /\ new.epoch \in Nat
  BY <1>1, Zenon DEF RunRow
<1>3. epoch <= old.epoch /\ old.epoch <= new.epoch
  BY Zenon DEF Holds, MovesOn
<1>4. epoch <= new.epoch /\ (new.epoch = epoch => old.epoch = epoch /\ new.epoch = old.epoch)
  BY <1>2, <1>3, SMT
<1> QED
  BY <1>4, Zenon DEF Holds, MovesOn, IsCurrent

-----------------------------------------------------------------------------
(* The invariant *)

\* The row beginRun inserts, and what it does to the slot it takes.
LEMMA Begun ==
  ASSUME TypeOK, BeginRun
  PROVE  LET s == SlotOf[mid.job]
             n == Len(runs) + 1
         IN  /\ DOMAIN runs' = DOMAIN runs \cup {n}
             /\ n \notin DOMAIN runs
             /\ runs'[n].slot = s /\ runs'[n].status = "running" /\ ~runs'[n].superseded
             /\ ~runs'[n].output /\ runs'[n].epoch = mid.epoch /\ runs'[n].result = NoResult
             /\ \A r \in DOMAIN runs : runs'[r] = IF r \in CurrentIn(s) THEN Outgoing(runs[r]) ELSE runs[r]
<1> DEFINE s == SlotOf[mid.job]
           n == Len(runs) + 1
           new == [slot |-> s, status |-> "running", epoch |-> mid.epoch, superseded |-> FALSE,
                   input |-> Fingerprint(s), result |-> NoResult, output |-> FALSE]
           kept == [q \in DOMAIN runs |-> IF q \in CurrentIn(s) THEN Outgoing(runs[q]) ELSE runs[q]]
<1>1. runs \in Seq(RunRow)
  BY DEF TypeOK
<1>2. runs' = Append(kept, new)
  BY Zenon DEF BeginRun
<1>3. kept \in Seq(RunRow) /\ DOMAIN kept = DOMAIN runs
  BY <1>1, RunAt, RetiredTypes, RunsType, Zenon
<1>4. Len(kept) = Len(runs)
  <2> HIDE DEF kept
  <2> QED
    BY <1>1, <1>3, SMT
<1>5. /\ DOMAIN runs' = DOMAIN runs \cup {n} /\ n \notin DOMAIN runs
      /\ runs'[n] = new /\ \A r \in DOMAIN runs : runs'[r] = kept[r]
  <2> HIDE DEF kept, new
  <2> QED
    BY <1>1, <1>2, <1>3, <1>4, SMT
<1>6. /\ new.slot = s /\ new.status = "running" /\ new.superseded = FALSE
      /\ new.output = FALSE /\ new.epoch = mid.epoch /\ new.result = NoResult
  <2> HIDE DEF s
  <2> QED
    BY SMT
<1> HIDE DEF new, s, n
<1> QED
  BY <1>5, <1>6, Zenon DEF s, n

\* beginRun empties the slot before it takes it; every other step only retires.
LEMMA OneCurrentRunKept ==
  ASSUME TypeOK, FenceInvariant, [Next]_vars
  PROVE  OneCurrentRun'
<1> SUFFICES ASSUME NEW r \in DOMAIN runs', NEW q \in DOMAIN runs', ~runs'[r].superseded,
                    ~runs'[q].superseded, runs'[r].slot = runs'[q].slot
             PROVE  r = q
  BY Zenon DEF OneCurrentRun, IsCurrent
<1>1. OneCurrentRun
  BY DEF FenceInvariant
<1>2. \A x \in DOMAIN runs : MovesOn(runs[x], runs'[x])
  BY RowsMoveOn, Zenon
<1>3. ASSUME r \in DOMAIN runs, q \in DOMAIN runs PROVE r = q
  BY <1>1, <1>2, <1>3, Zenon DEF OneCurrentRun, IsCurrent, MovesOn
<1>4. CASE ~BeginRun
  BY <1>3, <1>4, RowsStay, Zenon
<1>5. CASE BeginRun
  <2> DEFINE s == SlotOf[mid.job]
             n == Len(runs) + 1
  <2>1. /\ DOMAIN runs' = DOMAIN runs \cup {n} /\ runs'[n].slot = s
        /\ \A x \in DOMAIN runs : runs'[x] = IF x \in CurrentIn(s) THEN Outgoing(runs[x]) ELSE runs[x]
    BY <1>5, Begun, Zenon
  <2>2. ASSUME NEW x \in DOMAIN runs, runs'[x].slot = s, ~runs'[x].superseded PROVE FALSE
    <3>1. runs[x] \in RunRow
      BY RunAt, Zenon DEF TypeOK
    <3>2. Outgoing(runs[x]).superseded = TRUE
      BY <3>1, Zenon DEF Outgoing, RunRow
    <3>3. x \notin CurrentIn(s)
      BY <2>1, <2>2, <3>2, Zenon
    <3> QED
      BY <2>1, <2>2, <3>3, Zenon DEF CurrentIn, IsCurrent
  <2> HIDE DEF s, n
  <2> QED
    BY <1>3, <2>1, <2>2, Zenon
<1> QED
  BY <1>4, <1>5

\* An execution that is not new kept its run and its epoch.
LEMMA ExecutionsHold ==
  ASSUME TypeOK, TypeOK', FenceInvariant, [Next]_vars
  PROVE  \A e \in execs' : Holds(e.run, e.epoch)'
<1>1. \A e \in execs : Holds(e.run, e.epoch)'
  <2> SUFFICES ASSUME NEW e \in execs PROVE Holds(e.run, e.epoch)'
    OBVIOUS
  <2>1. e.epoch \in Nat /\ Holds(e.run, e.epoch)
    BY Zenon DEF TypeOK, Execution, FenceInvariant
  <2>2. e.run \in DOMAIN runs' /\ MovesOn(runs[e.run], runs'[e.run])
    BY <2>1, RowsMoveOn, Zenon DEF Holds
  <2> QED
    BY <2>1, <2>2, HoldsOn, Zenon
<1>2. SUFFICES ASSUME NEW e \in execs', ~Execute
               PROVE  \E f \in execs : f.run = e.run /\ f.epoch = e.epoch
  <2>1. CASE ~Execute
    BY <1>1, <1>2, <2>1, Zenon
  <2>2. CASE Execute
    <3>1. PICK r, epoch : r = mid.run /\ epoch = mid.epoch
      BY Zenon
    <3>2. \A f \in execs' : f \in execs \/ (f.run = r /\ f.epoch = epoch)
      BY <2>2, <3>1, SMT DEF Execute
    <3>3. Holds(r, epoch) /\ runs' = runs
      BY <2>2, <3>1, Zenon DEF Execute, FenceInvariant
    <3>4. Holds(r, epoch)'
      BY <3>3, Zenon DEF Holds, IsCurrent
    <3> QED
      BY <1>1, <3>2, <3>4, Zenon
  <2> QED
    BY <2>1, <2>2
<1>3. execs' \subseteq execs => \E f \in execs : f.run = e.run /\ f.epoch = e.epoch
  BY Zenon
<1>4. ASSUME NEW g \in execs, Heartbeat(g)
      PROVE  \E f \in execs : f.run = e.run /\ f.epoch = e.epoch
  <2>1. g \in Execution
    BY DEF TypeOK
  <2>2. [g EXCEPT !.silent = FALSE].run = g.run /\ [g EXCEPT !.silent = FALSE].epoch = g.epoch
    BY <2>1, Zenon DEF Execution
  <2>3. e \in execs \/ e = [g EXCEPT !.silent = FALSE]
    BY <1>4, Zenon DEF Heartbeat
  <2> QED
    BY <2>2, <2>3, Zenon
<1>5. ASSUME NEW j \in Job, LeaseLapses(j)
      PROVE  \E f \in execs : f.run = e.run /\ f.epoch = e.epoch
  <2>1. PICK f \in execs : e = [f EXCEPT !.silent = @ \/ f.job = j]
    BY <1>5, Zenon DEF LeaseLapses
  <2>2. f \in Execution
    BY DEF TypeOK
  <2> QED
    BY <2>1, <2>2, Zenon DEF Execution
<1>6. ASSUME NEW S, execs' = Aborted(S)
      PROVE  \E f \in execs : f.run = e.run /\ f.epoch = e.epoch
  <2>1. PICK f \in execs : e = [f EXCEPT !.aborted = @ \/ (f.job \in S /\ f.epoch = controller[f.job])]
    BY <1>6, Zenon DEF Aborted
  <2>2. f \in Execution
    BY DEF TypeOK
  <2> QED
    BY <2>1, <2>2, Zenon DEF Execution
<1> QED
  <2>1. \/ execs' \subseteq execs
        \/ \E g \in execs : Heartbeat(g)
        \/ \E j \in Job : LeaseLapses(j)
        \/ \E S : execs' = Aborted(S)
    BY <1>2, Zenon DEF Next, vars, Claim, RetireExhausted, Macrotask, AnswerFromCache, BeginRun,
       Throw, Settle, FailRun, CancelDependents, Returns, Abandon, Commit, ApplyFails,
       BackoffElapses, ReclaimExpiredLeases, Start, Stop, Crash, User, Plan, Reprocess,
       RerunStage, ReprocessForced, Rerun, Retry, Cancel, WorldChanges
  <2> QED
    BY <1>3, <1>4, <1>5, <1>6, <2>1, Zenon

\* The run of a claim that has just begun one is still to be awaited.
LEMMA ClaimHolds ==
  ASSUME TypeOK, TypeOK', FenceInvariant, [Next]_vars
  PROVE  (mid.at = "begun" => Holds(mid.run, mid.epoch))'
<1> SUFFICES ASSUME mid'.at = "begun"
             PROVE  Holds(mid.run, mid.epoch)'
  OBVIOUS
<1>1. mid' = mid \/ BeginRun
  <2>1. ~Claim
    BY SMT DEF Claim
  <2>2. ~AnswerFromCache /\ ~Throw
    BY SMT DEF AnswerFromCache, Throw, Settling
  <2>3. ~Execute /\ ~FailRun /\ ~CancelDependents /\ ~Crash
    BY SMT DEF Execute, FailRun, CancelDependents, Crash, Idle
  <2>4. ~Settle
    BY SMT DEF Settle, Idle
  <2>5. \A e \in execs : ~Commit(e) /\ ~ApplyFails(e)
    BY SMT DEF Commit, ApplyFails, Settling
  <2>6. \A j \in Job : ~Cancel(j)
    BY SMT DEF Cancel
  <2> QED
    BY <2>1, <2>2, <2>3, <2>4, <2>5, <2>6, Zenon DEF Next, vars, RetireExhausted, Macrotask,
       Returns, Abandon, Heartbeat, LeaseLapses, BackoffElapses, ReclaimExpiredLeases, Start,
       Stop, User, Plan, Reprocess, RerunStage, ReprocessForced, Rerun, Retry, WorldChanges
<1>2. CASE mid' = mid
  <2>1. PICK r, epoch : r = mid.run /\ epoch = mid.epoch
    BY Zenon
  <2>2. Holds(r, epoch) /\ epoch \in Nat
    BY <1>2, <2>1, MidType, Zenon DEF TypeOK, FenceInvariant
  <2>3. r \in DOMAIN runs' /\ MovesOn(runs[r], runs'[r])
    BY <2>2, RowsMoveOn, Zenon DEF Holds
  <2>4. Holds(r, epoch)'
    BY <2>2, <2>3, HoldsOn, Zenon
  <2> QED
    BY <1>2, <2>1, <2>4, Zenon DEF Holds, IsCurrent
<1>3. CASE BeginRun
  <2> DEFINE n == Len(runs) + 1
  <2>1. /\ n \in DOMAIN runs' /\ runs'[n].epoch = mid.epoch /\ ~runs'[n].superseded
    BY <1>3, Begun, Zenon
  <2>2. mid'.run = n /\ mid'.epoch = mid.epoch /\ mid.epoch \in Nat
    BY <1>3, MidType, SMT DEF BeginRun, TypeOK
  <2>3. mid.epoch <= mid.epoch
    BY <2>2, SMT
  <2> HIDE DEF n
  <2> QED
    BY <2>1, <2>2, <2>3, Zenon DEF Holds, IsCurrent
<1> QED
  BY <1>1, <1>2, <1>3

\* Every row stays clean.
LEMMA RowsClean ==
  ASSUME TypeOK, FenceInvariant, [Next]_vars
  PROVE  \A r \in DOMAIN runs' : Clean(runs'[r])
<1>1. \A r \in DOMAIN runs : Clean(runs[r])
  BY Zenon DEF FenceInvariant, OutputGoesWithItsRun, Clean
<1>2. \A r \in DOMAIN runs : Clean(runs'[r])
  BY <1>1, RowsMoveOn, Zenon DEF MovesOn
<1>3. CASE BeginRun
  BY <1>2, <1>3, Begun, Zenon DEF Clean
<1> QED
  BY <1>2, <1>3, RowsStay, Zenon

THEOREM FencesHold == Spec => []FenceInvariant
<1>1. Init => FenceInvariant
  <2> SUFFICES ASSUME Init PROVE FenceInvariant
    OBVIOUS
  <2>1. DOMAIN runs = {} /\ execs = {} /\ mid.at # "begun"
    BY SMT DEF Init, Idle
  <2> QED
    BY <2>1, Zenon DEF FenceInvariant, OneCurrentRun, OutputGoesWithItsRun
<1>2. TypeOK /\ TypeOK' /\ FenceInvariant /\ [Next]_vars => FenceInvariant'
  <2> SUFFICES ASSUME TypeOK, TypeOK', FenceInvariant, [Next]_vars PROVE FenceInvariant'
    OBVIOUS
  <2>1. OutputGoesWithItsRun' /\ \A r \in DOMAIN runs' : runs'[r].status \in {"skipped", "running"} => ~runs'[r].output
    BY RowsClean, Zenon DEF OutputGoesWithItsRun, Clean
  <2> QED
    BY <2>1, OneCurrentRunKept, ExecutionsHold, ClaimHolds, Zenon DEF FenceInvariant
<1> QED
  BY <1>1, <1>2, TypeCorrect, PTL DEF Spec

-----------------------------------------------------------------------------
(* What the runs check, for every value of the constants *)

\* No transaction leaves a slot with two current runs: beginRun's insert never
\* meets the unique index, however reruns, retries, cancels, restarts and the
\* executions of other projects interleave with it.
THEOREM OneCurrentRunHolds == Spec => []OneCurrentRun
BY FencesHold, PTL DEF FenceInvariant

\* finishRun's fence is open only for the execution of a current run, so a
\* commit that passes it never writes under a retired one.
THEOREM OpenFenceHolds == Spec => []OpenFenceIsCurrent
<1>1. FenceInvariant => OpenFenceIsCurrent
  BY Zenon DEF FenceInvariant, Holds, OpenFenceIsCurrent, FenceOpen
<1> QED
  BY <1>1, FencesHold, PTL

\* Every path that retires a run deletes its output, but for the two verdicts
\* whose flag alone retry clears.
THEOREM OutputRetired == Spec => []OutputGoesWithItsRun
BY FencesHold, PTL DEF FenceInvariant

\* A retired run that holds no output never gains any: no late return of a
\* stage, at whatever point it was retired, files its rows under it.
THEOREM NothingLands == Spec => NothingLandsOnRetired
<1>1. TypeOK /\ FenceInvariant /\ [Next]_vars =>
        [\A r \in DOMAIN runs : runs[r].superseded /\ ~runs[r].output => ~runs'[r].output]_vars
  BY RowsMoveOn, Zenon DEF MovesOn
<1> QED
  BY <1>1, TypeCorrect, FencesHold, PTL DEF Spec, NothingLandsOnRetired
=============================================================================
