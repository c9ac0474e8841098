--------------------------- MODULE JobQueueProofs ---------------------------
(***************************************************************************)
(* What holds of the job queue for every set of jobs, slots and projects,  *)
(* every shape of the registry and every bound.                            *)
(***************************************************************************)
EXTENDS JobQueue, TLAPS

-----------------------------------------------------------------------------
(* What each write does to the type of a row *)

LEMMA RowNumbers ==
  ASSUME NEW row \in JobRow
  PROVE  /\ 0 \in 0 .. MaxAttempts
         /\ NoRun \in Nat
         /\ row.epoch + 1 \in Nat
         /\ Refunded(row) \in 0 .. MaxAttempts
         /\ ~AtCeiling(row.attempts) => row.attempts + 1 \in 0 .. MaxAttempts
BY JobQueueAssumption, SMT DEF ConstantAssumption, JobRow, AtCeiling, Refunded, NoRun

LEMMA ClaimedType ==
  ASSUME NEW row \in JobRow, ~AtCeiling(row.attempts)
  PROVE  Claimed(row) \in JobRow
BY RowNumbers, Zenon DEF Claimed, JobRow, JobStatus

LEMMA ExhaustedType ==
  ASSUME NEW row \in JobRow
  PROVE  Exhausted(row) \in JobRow
BY Zenon DEF Exhausted, JobRow, JobStatus

LEMMA SettledType ==
  ASSUME NEW row \in JobRow, NEW verdict \in Verdict, NEW attempts \in Nat
  PROVE  Settled(row, verdict, attempts) \in JobRow
<1>1. SettledStatus(verdict, attempts) \in JobStatus
  BY SMT DEF SettledStatus, JobStatus
<1>2. (IF verdict = "fatal" /\ row.attempts > 0 THEN row.attempts - 1 ELSE row.attempts)
         \in 0 .. MaxAttempts
  BY JobQueueAssumption, SMT DEF ConstantAssumption, JobRow
<1>3. (verdict = "retryable") \in BOOLEAN
  OBVIOUS
<1> QED
  BY <1>1, <1>2, <1>3, Zenon DEF Settled, JobRow

LEMMA OrphanedType ==
  ASSUME NEW row \in JobRow
  PROVE  Orphaned(row) \in JobRow
BY Zenon DEF Orphaned, JobRow, JobStatus

LEMMA RequeuedType ==
  ASSUME NEW row \in JobRow
  PROVE  Requeued(row) \in JobRow
BY RowNumbers, Zenon DEF Requeued, JobRow, JobStatus

LEMMA RevivedType ==
  ASSUME NEW row \in JobRow
  PROVE  Revived(row) \in JobRow
BY RowNumbers, Zenon DEF Revived, JobRow, JobStatus

LEMMA RetriedType ==
  ASSUME NEW row \in JobRow
  PROVE  Retried(row) \in JobRow
BY RowNumbers, Zenon DEF Retried, JobRow, JobStatus

LEMMA UnblockedType ==
  ASSUME NEW row \in JobRow
  PROVE  Unblocked(row) \in JobRow
BY Zenon DEF Unblocked, JobRow, JobStatus

LEMMA ReclaimedType ==
  ASSUME NEW row \in JobRow
  PROVE  Reclaimed(row) \in JobRow
BY RowNumbers, Zenon DEF Reclaimed, JobRow, JobStatus

LEMMA NewRowType == NewRow \in JobRow /\ [NewRow EXCEPT !.status = "absent"] \in JobRow
<1>1. 0 \in 0 .. MaxAttempts /\ 0 \in Nat
  BY JobQueueAssumption, SMT DEF ConstantAssumption
<1>2. NewRow \in JobRow
  BY <1>1, SMT DEF NewRow, JobRow, JobStatus, NoRun
<1> QED
  BY <1>2, Zenon DEF JobRow, JobStatus

LEMMA PlannedType ==
  ASSUME NEW row \in JobRow
  PROVE  Planned(row) \in JobRow
<1>1. [row EXCEPT !.status = "queued", !.attempts = 0, !.upstream = FALSE,
                  !.owner = "none", !.lease = "none"] \in JobRow
  BY RowNumbers, Zenon DEF JobRow, JobStatus
<1> QED
  BY <1>1, NewRowType, SMT DEF Planned

LEMMA DismissedType ==
  ASSUME NEW row \in JobRow
  PROVE  Dismissed(row) \in JobRow
<1>1. (IF row.status = "running" /\ row.attempts > 0 THEN row.attempts - 1 ELSE row.attempts)
         \in 0 .. MaxAttempts
  BY JobQueueAssumption, SMT DEF ConstantAssumption, JobRow
<1> QED
  BY <1>1, RowNumbers, Zenon DEF Dismissed, JobRow, JobStatus

LEMMA ResumedType ==
  ASSUME NEW row \in JobRow
  PROVE  Resumed(row) \in JobRow
BY RowNumbers, Zenon DEF Resumed, JobRow, JobStatus

LEMMA RetiredTypes ==
  ASSUME NEW run \in RunRow
  PROVE  Outgoing(run) \in RunRow /\ Retired(run) \in RunRow
<1>1. run.epoch + 1 \in Nat
  BY SMT DEF RunRow
<1> QED
  BY <1>1, Zenon DEF Outgoing, Retired, RunRow, RunStatus

LEMMA CommittedType ==
  ASSUME NEW run \in RunRow, NEW outcome \in Outcome, NEW result \in Result \cup {NoResult},
         NEW attempts \in Nat
  PROVE  Committed(run, outcome, result, attempts) \in RunRow
<1>1. result \in Nat
  BY JobQueueAssumption, SMT DEF ConstantAssumption, NoResult
<1>2. (IF outcome \in {"fatal", "retryable"} THEN "failed" ELSE outcome) \in RunStatus
  BY JobQueueAssumption, SMT DEF ConstantAssumption, RunStatus
<1>3. (\/ outcome \in {"succeeded", "empty", "refused"}
       \/ Permanent(outcome, attempts)) \in BOOLEAN
  BY Zenon DEF Permanent
<1> QED
  BY <1>1, <1>2, <1>3, Zenon DEF Committed, RunRow

-----------------------------------------------------------------------------
(* What the tables and the macrotask hold *)

\* A table of runs that keeps its length is still a table of runs.
LEMMA RunsType ==
  ASSUME runs \in Seq(RunRow), NEW f \in [DOMAIN runs -> RunRow]
  PROVE  f \in Seq(RunRow)
OBVIOUS

\* So is one in which a row is replaced by a row.
LEMMA RunReplaced ==
  ASSUME runs \in Seq(RunRow), NEW r, NEW run, r \in DOMAIN runs => run \in RunRow
  PROVE  [runs EXCEPT ![r] = run] \in Seq(RunRow)
<1>1. [runs EXCEPT ![r] = run] \in [DOMAIN runs -> RunRow]
  <2>1. \A x \in DOMAIN runs : runs[x] \in RunRow
    OBVIOUS
  <2>2. [runs EXCEPT ![r] = run] = [x \in DOMAIN runs |-> IF x = r THEN run ELSE runs[x]]
    BY Zenon
  <2> QED
    BY <2>1, <2>2, Zenon
<1> QED
  BY <1>1, RunsType, Zenon

LEMMA RunAt ==
  ASSUME runs \in Seq(RunRow), NEW r \in DOMAIN runs
  PROVE  /\ runs[r] \in RunRow
         /\ r \in 1 .. Len(runs)
OBVIOUS

LEMMA FingerprintType ==
  ASSUME runs \in Seq(RunRow), world \in [Slot -> Nat], NEW s \in Slot
  PROVE  Fingerprint(s) \in SUBSET Atom
<1>1. \A p \in Slot : Stamp(p) \subseteq Atom
  <2> SUFFICES ASSUME NEW p \in Slot, NEW a \in Stamp(p) PROVE a \in Atom
    OBVIOUS
  <2>1. CASE CurrentIn(p) = {}
    BY <2>1, SMT DEF Stamp, Atom
  <2>2. CASE CurrentIn(p) # {}
    <3>1. PICK r \in CurrentIn(p) :
            a \in {<<p, runs[r].status, runs[r].result>>}
                    \cup (IF runs[r].result = NoResult THEN runs[r].input ELSE {})
      BY <2>2, Zenon DEF Stamp
    <3>2. runs[r] \in RunRow
      BY RunAt, Zenon DEF CurrentIn
    <3>3. runs[r].status \in RunStatus /\ runs[r].result \in Nat /\ runs[r].input \in SUBSET Atom
      BY <3>2, Zenon DEF RunRow
    <3>4. <<p, runs[r].status, runs[r].result>> \in Atom
      BY <3>3, SMT DEF Atom
    <3> QED
      BY <3>1, <3>3, <3>4, Zenon
  <2> QED
    BY <2>1, <2>2
<1>2. Provider[s] \subseteq Slot
  BY JobQueueAssumption, SMT DEF ConstantAssumption
<1>3. <<s, "own", world[s]>> \in Atom
  BY SMT DEF Atom
<1> QED
  BY <1>1, <1>2, <1>3, Zenon DEF Fingerprint

LEMMA MidType ==
  ASSUME mid \in Step
  PROVE  /\ mid.at \in {"claimed", "begun"} =>
              mid.job \in Job /\ mid.epoch \in Nat /\ mid.attempts \in Nat
         /\ mid.at = "begun" => mid.run \in Nat
         /\ mid.at = "settling" => /\ mid.job \in Job /\ mid.epoch \in Nat
                                   /\ mid.attempts \in Nat /\ mid.run \in Nat
                                   /\ mid.verdict \in Verdict
         /\ mid.at = "failing" => mid.job \in Job /\ mid.epoch \in Nat /\ mid.run \in Nat
         /\ mid.at = "cascading" => mid.job \in Job
         /\ mid.at = "idle" => mid = Idle
BY SMT DEF Step, Idle

LEMMA SettlingType ==
  ASSUME NEW j \in Job, NEW epoch \in Nat, NEW attempts \in Nat, NEW r \in Nat,
         NEW verdict \in Verdict
  PROVE  Settling(j, epoch, attempts, r, verdict) \in Step
BY SMT DEF Settling, Step

LEMMA ExecType ==
  ASSUME NEW e \in Execution
  PROVE  e.job \in Job /\ e.epoch \in Nat /\ e.run \in Nat /\ e.attempts \in Nat
         /\ e.aborted \in BOOLEAN /\ e.silent \in BOOLEAN
BY SMT DEF Execution

LEMMA AbortedType ==
  ASSUME execs \subseteq Execution, NEW S
  PROVE  Aborted(S) \subseteq Execution
<1> SUFFICES ASSUME NEW e \in execs
             PROVE  [e EXCEPT !.aborted = @ \/ (e.job \in S /\ e.epoch = controller[e.job])]
                      \in Execution
  BY Zenon DEF Aborted
<1>1. e \in Execution
  OBVIOUS
<1>2. \A b \in BOOLEAN : [e EXCEPT !.aborted = b] \in Execution
  BY <1>1, Zenon DEF Execution
<1>3. (e.aborted \/ (e.job \in S /\ e.epoch = controller[e.job])) \in BOOLEAN
  BY Zenon
<1> QED
  BY <1>2, <1>3, Zenon

LEMMA ReleasedType ==
  ASSUME controller \in [Job -> Nat], NEW j \in Job, NEW epoch
  PROVE  Released(j, epoch) \in [Job -> Nat]
BY SMT DEF Released

LEMMA PointingType ==
  ASSUME job \in [Job -> JobRow], mid.job \in Job, NEW r \in Nat
  PROVE  Pointing(r) \in [Job -> JobRow]
<1>1. job[mid.job] \in JobRow
  OBVIOUS
<1>2. [job[mid.job] EXCEPT !.run = r] \in JobRow
  BY <1>1, Zenon DEF JobRow
<1> QED
  BY <1>2, SMT DEF Pointing

-----------------------------------------------------------------------------
(* Type correctness *)

LEMMA InitType == Init => TypeOK
<1> SUFFICES ASSUME Init PROVE TypeOK
  OBVIOUS
<1>1. job \in [Job -> JobRow]
  BY NewRowType, SMT DEF Init
<1>2. runs \in Seq(RunRow) /\ execs \subseteq Execution /\ mid \in Step
  BY SMT DEF Init, Step
<1>3. /\ controller \in [Job -> Nat] /\ queue \in {"booting", "running", "stopped"}
      /\ world \in [Slot -> Nat]
  BY SMT DEF Init
<1>4. ops \in 0 .. MaxOps /\ crashes \in 0 .. MaxCrashes
  BY JobQueueAssumption, SMT DEF Init, ConstantAssumption
<1> QED
  BY <1>1, <1>2, <1>3, <1>4, Zenon DEF TypeOK

\* The executing half of the queue: the tick, the macrotask and its returns.
LEMMA ExecutionType ==
  ASSUME TypeOK, \/ Claim \/ RetireExhausted \/ Macrotask \/ \E e \in execs : Returns(e)
  PROVE  TypeOK'
<1> USE DEF TypeOK
<1>1. CASE Claim
  <2>1. PICK j \in Job :
          /\ ~AtCeiling(job[j].attempts)
          /\ job' = [job EXCEPT ![j] = Claimed(@)]
          /\ controller' = [controller EXCEPT ![j] = job[j].epoch + 1]
          /\ mid' = [at |-> "claimed", job |-> j, epoch |-> job[j].epoch + 1,
                     attempts |-> job[j].attempts + 1]
    BY <1>1, Zenon DEF Claim, FirstInLine, Claimable
  <2>3. job[j] \in JobRow /\ Claimed(job[j]) \in JobRow
    BY <2>1, ClaimedType, Zenon
  <2>4. job[j].epoch + 1 \in Nat /\ job[j].attempts + 1 \in Nat
    BY <2>3, JobQueueAssumption, SMTT(40) DEF ConstantAssumption, JobRow
  <2>5. mid' \in Step
    BY <2>1, <2>4, SMT DEF Step
  <2> QED
    BY <1>1, <2>1, <2>3, <2>4, <2>5, SMT DEF Claim
<1>2. CASE RetireExhausted
  <2>1. PICK j \in Job : job' = [job EXCEPT ![j] = Exhausted(@)]
    BY <1>2, Zenon DEF RetireExhausted, FirstInLine, Claimable
  <2>2. Exhausted(job[j]) \in JobRow
    <3>1. job[j] \in JobRow
      OBVIOUS
    <3> QED
      BY <3>1, ExhaustedType, Zenon
  <2>3. job' \in [Job -> JobRow]
    BY <2>1, <2>2, SMT
  <2> QED
    BY <1>2, <2>3, Zenon DEF RetireExhausted
<1>3. CASE AnswerFromCache
  <2>1. mid.job \in Job /\ mid.epoch \in Nat /\ mid.attempts \in Nat
    BY <1>3, MidType, SMT DEF AnswerFromCache
  <2>2. PICK r \in CacheHits(SlotOf[mid.job]) :
          /\ job' = Pointing(r)
          /\ mid' = Settling(mid.job, mid.epoch, mid.attempts, r, runs[r].status)
    BY <1>3, Zenon DEF AnswerFromCache
  <2>3. r \in Nat /\ runs[r].status \in Verdict
    BY RunAt, SMT DEF CacheHits, CurrentIn, Cacheable, Verdict
  <2>4. job' \in [Job -> JobRow]
    BY <2>1, <2>2, <2>3, PointingType, Zenon
  <2>5. mid' \in Step
    BY <2>1, <2>2, <2>3, SettlingType, Zenon
  <2> QED
    BY <1>3, <2>4, <2>5, SMT DEF AnswerFromCache
<1>4. CASE BeginRun
  <2>1. mid.job \in Job /\ mid.epoch \in Nat /\ mid.attempts \in Nat
    BY <1>4, MidType, SMT DEF BeginRun
  <2> DEFINE s == SlotOf[mid.job]
             new == [slot |-> s, status |-> "running", epoch |-> mid.epoch, superseded |-> FALSE,
                     input |-> Fingerprint(s), result |-> NoResult, output |-> FALSE]
             kept == [r \in DOMAIN runs |-> IF r \in CurrentIn(s) THEN Outgoing(runs[r]) ELSE runs[r]]
  <2>2. s \in Slot
    BY <2>1, JobQueueAssumption, SMT DEF ConstantAssumption
  <2>3. new \in RunRow
    <3>1. Fingerprint(s) \in SUBSET Atom
      BY <2>2, FingerprintType, Zenon
    <3> HIDE DEF s
    <3> QED
      BY <2>1, <2>2, <3>1, SMT DEF RunRow, RunStatus, NoResult
  <2>4. kept \in [DOMAIN runs -> RunRow]
    BY RunAt, RetiredTypes, Zenon
  <2>5. kept \in Seq(RunRow)
    <3> HIDE DEF kept
    <3> QED
      BY <2>4, RunsType, Zenon
  <2>6. runs' = Append(kept, new)
    BY <1>4, Zenon DEF BeginRun
  <2>7. runs' \in Seq(RunRow)
    <3> HIDE DEF kept, new
    <3> QED
      BY <2>3, <2>5, <2>6, SMT
  <2>8. mid' \in Step
    <3>1. Len(runs) + 1 \in Nat
      BY SMT
    <3> QED
      BY <1>4, <2>1, <3>1, SMT DEF BeginRun, Step
  <2> QED
    BY <1>4, <2>7, <2>8, SMT DEF BeginRun
<1>5. CASE Execute
  <2>1. mid.job \in Job /\ mid.epoch \in Nat /\ mid.attempts \in Nat /\ mid.run \in Nat
    BY <1>5, MidType, SMT DEF Execute
  <2>2. job' \in [Job -> JobRow]
    BY <1>5, <2>1, PointingType, SMT DEF Execute
  <2>3. execs' \subseteq Execution
    <3>1. [job |-> mid.job, epoch |-> mid.epoch, run |-> mid.run, attempts |-> mid.attempts,
           aborted |-> FALSE, silent |-> FALSE] \in Execution
      BY <2>1, Zenon DEF Execution
    <3> QED
      BY <1>5, <3>1, Zenon DEF Execute
  <2>4. mid' \in Step
    BY <1>5, SMT DEF Execute, Step
  <2> QED
    BY <1>5, <2>2, <2>3, <2>4, SMT DEF Execute
<1>6. CASE Throw
  <2>1. mid.job \in Job /\ mid.epoch \in Nat /\ mid.attempts \in Nat
    BY <1>6, MidType, SMT DEF Throw
  <2>2. job' \in [Job -> JobRow]
    BY <1>6, <2>1, MidType, PointingType, SMT DEF Throw
  <2>3. mid' \in Step
    BY <1>6, <2>1, SettlingType, SMT DEF Throw, Verdict, NoRun
  <2> QED
    BY <1>6, <2>2, <2>3, SMT DEF Throw
<1>7. CASE Settle
  <2>1. /\ mid.job \in Job /\ mid.epoch \in Nat /\ mid.attempts \in Nat /\ mid.run \in Nat
        /\ mid.verdict \in Verdict
    BY <1>7, MidType, SMT DEF Settle
  <2>2. job' \in [Job -> JobRow]
    <3>1. Settled(job[mid.job], mid.verdict, mid.attempts) \in JobRow
      BY <2>1, SettledType, SMT
    <3> QED
      BY <1>7, <2>1, <3>1, SMT DEF Settle
  <2>3. mid' \in Step
    BY <1>7, <2>1, SMT DEF Settle, Step
  <2>4. controller' \in [Job -> Nat]
    BY <1>7, <2>1, ReleasedType, Zenon DEF Settle
  <2> QED
    BY <1>7, <2>2, <2>3, <2>4, SMT DEF Settle
<1>8. CASE FailRun
  <2>1. runs' \in Seq(RunRow)
    <3>1. CASE runs' = runs
      BY <3>1
    <3>2. CASE runs' = [runs EXCEPT ![mid.run] = Failed(@)]
      <4>1. mid.run \in DOMAIN runs => Failed(runs[mid.run]) \in RunRow
        BY RunAt, Zenon DEF Failed, RunRow, RunStatus
      <4> QED
        BY <3>2, <4>1, RunReplaced, Zenon
    <3> QED
      BY <1>8, <3>1, <3>2, Zenon DEF FailRun
  <2>2. mid' \in Step
    BY <1>8, SMT DEF FailRun, Step
  <2> QED
    BY <1>8, <2>1, <2>2, SMT DEF FailRun
<1>9. CASE CancelDependents
  <2>1. job' \in [Job -> JobRow]
    <3>1. \A j \in Job : job[j] \in JobRow
      OBVIOUS
    <3>2. \A j \in Job : (IF j \in Waiters({mid.job}) THEN Orphaned(job[j]) ELSE job[j]) \in JobRow
      BY <3>1, OrphanedType, Zenon
    <3> QED
      BY <1>9, <3>2, Zenon DEF CancelDependents
  <2>2. mid' \in Step
    BY <1>9, SMT DEF CancelDependents, Step
  <2> QED
    BY <1>9, <2>1, <2>2, Zenon DEF CancelDependents
<1>10. ASSUME NEW e \in execs, Abandon(e) PROVE TypeOK'
  <2>0. e \in Execution
    OBVIOUS
  <2>1. e.job \in Job
    BY <2>0, ExecType, Zenon
  <2>2. controller' \in [Job -> Nat]
    BY <1>10, <2>1, ReleasedType, Zenon DEF Abandon
  <2>3. execs' \subseteq Execution
    BY <1>10, SMT DEF Abandon
  <2> QED
    BY <1>10, <2>2, <2>3, Zenon DEF Abandon
<1>11. ASSUME NEW e \in execs, Commit(e) PROVE TypeOK'
  <2>0. e \in Execution
    OBVIOUS
  <2>1. e.job \in Job /\ e.epoch \in Nat /\ e.run \in Nat /\ e.attempts \in Nat
    BY <2>0, ExecType, Zenon
  <2>2. PICK o \in Outcome, res \in Result \cup {NoResult} :
          /\ runs' = [runs EXCEPT ![e.run] = Committed(@, o, res, e.attempts)]
          /\ mid' = Settling(e.job, e.epoch, e.attempts, e.run, o)
    BY <1>11, Zenon DEF Commit
  <2>3. runs' \in Seq(RunRow)
    <3>1. e.run \in DOMAIN runs => Committed(runs[e.run], o, res, e.attempts) \in RunRow
      BY <2>1, RunAt, CommittedType, Zenon
    <3> QED
      BY <2>2, <3>1, RunReplaced, Zenon
  <2>4. mid' \in Step
    <3>1. o \in Verdict
      BY JobQueueAssumption, SMT DEF ConstantAssumption, Verdict
    <3> QED
      BY <2>1, <2>2, <3>1, SettlingType, Zenon
  <2> QED
    BY <1>11, <2>3, <2>4, SMT DEF Commit
<1>12. ASSUME NEW e \in execs, ApplyFails(e) PROVE TypeOK'
  <2>0. e \in Execution
    OBVIOUS
  <2>1. e.job \in Job /\ e.epoch \in Nat /\ e.run \in Nat /\ e.attempts \in Nat
    BY <2>0, ExecType, Zenon
  <2>2. mid' \in Step
    BY <1>12, <2>1, SettlingType, SMT DEF ApplyFails, Verdict
  <2> QED
    BY <1>12, <2>2, SMT DEF ApplyFails
<1> QED
  BY <1>1, <1>2, <1>3, <1>4, <1>5, <1>6, <1>7, <1>8, <1>9, <1>10, <1>11, <1>12, Zenon
     DEF Macrotask, Returns

\* Every user operation counts.
LEMMA UserType ==
  ASSUME TypeOK, UserActs
  PROVE  ops' \in 0 .. MaxOps
BY JobQueueAssumption, SMT DEF TypeOK, UserActs, ConstantAssumption

\* The clock, the leases, and the life of the process.
LEMMA ClockType ==
  ASSUME TypeOK,
         \/ \E e \in execs : Heartbeat(e)
         \/ \E j \in Job : LeaseLapses(j) \/ BackoffElapses(j)
         \/ ReclaimExpiredLeases \/ Start \/ Stop \/ Crash
         \/ \E s \in Slot : WorldChanges(s)
  PROVE  TypeOK'
<1> USE DEF TypeOK
<1>0. \A j \in Job : job[j] \in JobRow
  OBVIOUS
<1>1. ASSUME NEW e \in execs, Heartbeat(e) PROVE TypeOK'
  <2>1. e \in Execution
    OBVIOUS
  <2>2. e.job \in Job /\ [e EXCEPT !.silent = FALSE] \in Execution
    BY <2>1, Zenon DEF Execution
  <2>3. execs' \subseteq Execution
    BY <1>1, <2>2, Zenon DEF Heartbeat
  <2>4. job' \in [Job -> JobRow]
    <3>1. [job[e.job] EXCEPT !.lease = "fresh"] \in JobRow
      BY <1>0, <2>2, Zenon DEF JobRow
    <3> QED
      BY <1>1, <2>2, <3>1, SMT DEF Heartbeat
  <2> QED
    BY <1>1, <2>3, <2>4, Zenon DEF Heartbeat
<1>2. ASSUME NEW j \in Job, LeaseLapses(j) PROVE TypeOK'
  <2>1. job' \in [Job -> JobRow]
    <3>1. [job[j] EXCEPT !.lease = "lapsed"] \in JobRow
      BY <1>0, Zenon DEF JobRow
    <3> QED
      BY <1>2, <3>1, SMT DEF LeaseLapses
  <2>2. execs' \subseteq Execution
    <3>1. ASSUME NEW e \in execs PROVE [e EXCEPT !.silent = @ \/ e.job = j] \in Execution
      <4>1. e \in Execution
        OBVIOUS
      <4>2. \A b \in BOOLEAN : [e EXCEPT !.silent = b] \in Execution
        BY <4>1, Zenon DEF Execution
      <4>3. (e.silent \/ e.job = j) \in BOOLEAN
        BY Zenon
      <4> QED
        BY <4>2, <4>3, Zenon
    <3> QED
      BY <1>2, <3>1, Zenon DEF LeaseLapses
  <2> QED
    BY <1>2, <2>1, <2>2, Zenon DEF LeaseLapses
<1>3. ASSUME NEW j \in Job, BackoffElapses(j) PROVE TypeOK'
  <2>1. job' \in [Job -> JobRow]
    <3>1. [job[j] EXCEPT !.waiting = FALSE] \in JobRow
      BY <1>0, Zenon DEF JobRow
    <3> QED
      BY <1>3, <3>1, SMT DEF BackoffElapses
  <2> QED
    BY <1>3, <2>1, Zenon DEF BackoffElapses
<1>4. CASE ReclaimExpiredLeases
  <2>1. job' \in [Job -> JobRow]
    <3>1. \A j \in Job : (IF j \in Expired THEN Reclaimed(job[j]) ELSE job[j]) \in JobRow
      BY <1>0, ReclaimedType, Zenon
    <3> QED
      BY <1>4, <3>1, Zenon DEF ReclaimExpiredLeases
  <2>2. execs' \subseteq Execution
    BY <1>4, AbortedType, Zenon DEF ReclaimExpiredLeases
  <2> QED
    BY <1>4, <2>1, <2>2, Zenon DEF ReclaimExpiredLeases
<1>5. CASE Start
  <2> DEFINE resumed == [j \in Job |-> Resumed(job[j])]
             abandoned == {job[j].run : j \in {k \in Job :
                job[k].status = "running" /\ Foreign(job[k]) /\ ~job[k].cancelReq}}
             kept == [r \in DOMAIN runs |-> IF r \in abandoned THEN Retired(runs[r]) ELSE runs[r]]
  <2>1. job' = [j \in Job |-> IF j \in Doomed(resumed) THEN Orphaned(resumed[j]) ELSE resumed[j]]
    BY <1>5, Zenon DEF Start
  <2>2. \A j \in Job : resumed[j] \in JobRow
    BY <1>0, ResumedType, Zenon
  <2>3. \A j \in Job : (IF j \in Doomed(resumed) THEN Orphaned(resumed[j]) ELSE resumed[j]) \in JobRow
    <3> HIDE DEF resumed
    <3> QED
      BY <2>2, OrphanedType, Zenon
  <2>4. job' \in [Job -> JobRow]
    <3> HIDE DEF resumed
    <3> QED
      BY <2>1, <2>3, Zenon
  <2>5. runs' = kept
    BY <1>5, Zenon DEF Start
  <2>6. kept \in [DOMAIN runs -> RunRow]
    BY RunAt, RetiredTypes, Zenon
  <2>7. runs' \in Seq(RunRow)
    <3> HIDE DEF kept
    <3> QED
      BY <2>5, <2>6, RunsType, Zenon
  <2> QED
    BY <1>5, <2>4, <2>7, Zenon DEF Start
<1>6. CASE Stop
  <2>1. ops' \in 0 .. MaxOps
    BY <1>6, JobQueueAssumption, SMT DEF Stop, ConstantAssumption
  <2> QED
    BY <1>6, <2>1, Zenon DEF Stop
<1>7. CASE Crash
  <2>1. job' \in [Job -> JobRow]
    <3>1. ASSUME NEW j \in Job
          PROVE  [job[j] EXCEPT !.owner = IF @ = "mine" THEN "dead" ELSE @] \in JobRow
      BY <1>0, Zenon DEF JobRow
    <3> QED
      BY <1>7, <3>1, Zenon DEF Crash
  <2>2. mid' \in Step /\ controller' \in [Job -> Nat]
    BY <1>7, SMT DEF Crash, Step
  <2>3. crashes' \in 0 .. MaxCrashes
    BY <1>7, JobQueueAssumption, SMT DEF Crash, ConstantAssumption
  <2> QED
    BY <1>7, <2>1, <2>2, <2>3, Zenon DEF Crash
<1>8. ASSUME NEW s \in Slot, WorldChanges(s) PROVE TypeOK'
  <2>1. world' \in [Slot -> Nat]
    BY <1>8, SMT DEF WorldChanges
  <2> QED
    BY <1>8, <2>1, Zenon DEF WorldChanges
<1> QED
  BY <1>1, <1>2, <1>3, <1>4, <1>5, <1>6, <1>7, <1>8, Zenon

\* A rerun, whatever the runs, jobs and projects it settles on.
LEMMA RerunType ==
  ASSUME TypeOK, NEW p, NEW S, Rerun(p, S)
  PROVE  TypeOK'
<1> USE DEF TypeOK
<1> DEFINE retired == {r \in DOMAIN runs : IsCurrent(r) /\ runs[r].slot \in Cascade(S)}
           P == {p} \cup {ProjectOf[j] : j \in {k \in Job :
                  SlotOf[k] \in ProjectSlot /\ \E r \in retired : runs[r].slot = SlotOf[k]}}
           requeued == [j \in Job |-> IF j \in Owners(retired) THEN Requeued(job[j]) ELSE job[j]]
           planned == [j \in Job |-> IF j \in JobsOf(P) THEN Planned(requeued[j]) ELSE requeued[j]]
           revived == Revivable(planned, Owners(retired) \cup JobsOf(P))
           kept == [r \in DOMAIN runs |-> IF r \in retired THEN Retired(runs[r]) ELSE runs[r]]
<1>1. \A j \in Job : job[j] \in JobRow
  OBVIOUS
<1>2. \A j \in Job : requeued[j] \in JobRow
  BY <1>1, RequeuedType, Zenon
<1>3. \A j \in Job : planned[j] \in JobRow
  <2> HIDE DEF requeued
  <2> QED
    BY <1>2, PlannedType, Zenon
<1>4. job' = [j \in Job |-> IF j \in revived THEN Revived(planned[j]) ELSE planned[j]]
  BY Zenon DEF Rerun
<1>5. job' \in [Job -> JobRow]
  <2> HIDE DEF planned, revived
  <2>1. \A j \in Job : (IF j \in revived THEN Revived(planned[j]) ELSE planned[j]) \in JobRow
    BY <1>3, RevivedType, Zenon
  <2> QED
    BY <1>4, <2>1, Zenon
<1>6. runs' = kept
  BY Zenon DEF Rerun
<1>7. kept \in [DOMAIN runs -> RunRow]
  BY RunAt, RetiredTypes, Zenon
<1>8. runs' \in Seq(RunRow)
  <2> HIDE DEF kept
  <2> QED
    BY <1>6, <1>7, RunsType, Zenon
<1>9. execs' \subseteq Execution
  BY AbortedType, Zenon DEF Rerun
<1>10. ops' \in 0 .. MaxOps
  BY UserType, Zenon DEF Rerun
<1> QED
  BY <1>5, <1>8, <1>9, <1>10, Zenon DEF Rerun, UserActs

LEMMA UserActionType ==
  ASSUME TypeOK,
         \/ \E p \in Project : Plan(p) \/ Reprocess(p) \/ ReprocessForced(p)
         \/ \E p \in Project, s \in Slot : RerunStage(p, s)
         \/ \E j \in Job : Retry(j) \/ Cancel(j)
  PROVE  TypeOK'
<1> USE DEF TypeOK
<1>0. \A j \in Job : job[j] \in JobRow
  OBVIOUS
<1>1. ASSUME NEW p \in Project, Plan(p) PROVE TypeOK'
  <2>1. \A j \in Job : (IF j \in JobsOf({p}) THEN Planned(job[j]) ELSE job[j]) \in JobRow
    BY <1>0, PlannedType, Zenon
  <2>2. job' \in [Job -> JobRow]
    BY <1>1, <2>1, Zenon DEF Plan
  <2>3. ops' \in 0 .. MaxOps
    BY <1>1, UserType, Zenon DEF Plan
  <2> QED
    BY <1>1, <2>2, <2>3, Zenon DEF Plan, UserActs
<1>2. ASSUME NEW p \in Project, Reprocess(p) PROVE TypeOK'
  <2> DEFINE planned == [j \in Job |-> IF j \in JobsOf({p}) THEN Planned(job[j]) ELSE job[j]]
             revived == Revivable(planned, JobsOf({p}))
  <2>1. \A j \in Job : planned[j] \in JobRow
    BY <1>0, PlannedType, Zenon
  <2>2. job' = [j \in Job |-> IF j \in revived THEN Revived(planned[j]) ELSE planned[j]]
    BY <1>2, Zenon DEF Reprocess
  <2>3. job' \in [Job -> JobRow]
    <3> HIDE DEF planned, revived
    <3>1. \A j \in Job : (IF j \in revived THEN Revived(planned[j]) ELSE planned[j]) \in JobRow
      BY <2>1, RevivedType, Zenon
    <3> QED
      BY <2>2, <3>1, Zenon
  <2>4. ops' \in 0 .. MaxOps
    BY <1>2, UserType, Zenon DEF Reprocess
  <2> QED
    BY <1>2, <2>3, <2>4, Zenon DEF Reprocess, UserActs
<1>3. ASSUME NEW p \in Project, ReprocessForced(p) PROVE TypeOK'
  BY <1>3, RerunType, Zenon DEF ReprocessForced
<1>4. ASSUME NEW p \in Project, NEW s \in Slot, RerunStage(p, s) PROVE TypeOK'
  BY <1>4, RerunType, Zenon DEF RerunStage
<1>5. ASSUME NEW j \in Job, Retry(j) PROVE TypeOK'
  <2>1. \A k \in Job : (IF k = j THEN Retried(job[k])
                        ELSE IF k \in Waiters({j}) THEN Unblocked(job[k]) ELSE job[k]) \in JobRow
    BY <1>0, RetriedType, UnblockedType, Zenon
  <2>2. job' \in [Job -> JobRow]
    BY <1>5, <2>1, Zenon DEF Retry
  <2>3. runs' \in Seq(RunRow)
    <3> DEFINE kept == [r \in DOMAIN runs |->
                          [runs[r] EXCEPT !.superseded = @ \/ r \in Newest(Verdicts(j))]]
    <3>1. ASSUME NEW r \in DOMAIN runs
          PROVE  [runs[r] EXCEPT !.superseded = @ \/ r \in Newest(Verdicts(j))] \in RunRow
      <4>1. runs[r] \in RunRow
        BY RunAt
      <4>2. \A b \in BOOLEAN : [runs[r] EXCEPT !.superseded = b] \in RunRow
        BY <4>1, Zenon DEF RunRow
      <4>3. (runs[r].superseded \/ r \in Newest(Verdicts(j))) \in BOOLEAN
        BY Zenon
      <4> QED
        BY <4>2, <4>3, Zenon
    <3>2. kept \in [DOMAIN runs -> RunRow]
      BY <3>1, Zenon
    <3>3. runs' = kept
      BY <1>5, Zenon DEF Retry
    <3> HIDE DEF kept
    <3> QED
      BY <3>2, <3>3, RunsType, Zenon
  <2>4. ops' \in 0 .. MaxOps
    BY <1>5, UserType, Zenon DEF Retry
  <2> QED
    BY <1>5, <2>2, <2>3, <2>4, Zenon DEF Retry, UserActs
<1>6. ASSUME NEW j \in Job, Cancel(j) PROVE TypeOK'
  <2>1. job' \in [Job -> JobRow]
    BY <1>0, <1>6, DismissedType, SMT DEF Cancel
  <2>2. runs' \in Seq(RunRow)
    <3> DEFINE kept == [r \in DOMAIN runs |->
                          IF r = job[j].run /\ runs[r].status = "running" THEN Retired(runs[r])
                          ELSE runs[r]]
    <3>1. kept \in [DOMAIN runs -> RunRow]
      BY RunAt, RetiredTypes, Zenon
    <3>2. runs' = kept
      BY <1>6, Zenon DEF Cancel
    <3> HIDE DEF kept
    <3> QED
      BY <3>1, <3>2, RunsType, Zenon
  <2>3. execs' \subseteq Execution
    BY <1>6, AbortedType, Zenon DEF Cancel
  <2>4. mid' \in Step
    BY <1>6, SMT DEF Cancel, Step
  <2>5. ops' \in 0 .. MaxOps
    BY <1>6, UserType, Zenon DEF Cancel
  <2> QED
    BY <1>6, <2>1, <2>2, <2>3, <2>4, <2>5, Zenon DEF Cancel, UserActs
<1> QED
  BY <1>1, <1>2, <1>3, <1>4, <1>5, <1>6, Zenon

\* Every table, every execution in flight and the open macrotask keep their
\* types through every transaction: attempts never passes MAX_ATTEMPTS, and a
\* row is never left in a status no consumer knows.
THEOREM TypeCorrect == Spec => []TypeOK
<1>1. TypeOK /\ [Next]_vars => TypeOK'
  <2> SUFFICES ASSUME TypeOK, [Next]_vars PROVE TypeOK'
    OBVIOUS
  <2>1. CASE UNCHANGED vars
    BY <2>1, Zenon DEF vars, TypeOK
  <2>2. CASE Next
    BY <2>2, ExecutionType, ClockType, UserActionType, Zenon DEF Next, User
  <2> QED
    BY <2>1, <2>2
<1> QED
  BY InitType, <1>1, PTL DEF Spec
=============================================================================
