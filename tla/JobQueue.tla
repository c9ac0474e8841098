------------------------------ MODULE JobQueue ------------------------------
(***************************************************************************)
(* The stage pipeline of one paper as src/main/pipeline runs it: the rows  *)
(* of processing_job, the rows of stage_run, the stage executions in       *)
(* flight, and everything that writes them.  One action per database       *)
(* transaction.  Whatever the code does between two awaits is one          *)
(* macrotask: the step it has reached is kept in mid, and while a          *)
(* macrotask is open only its own next transaction or a crash can happen.  *)
(*                                                                         *)
(* Abstractions.  A job key holds one row for life (the planner adopts     *)
(* it), so a row is named by its key.  Wording, timestamps and the columns *)
(* nothing branches on are dropped.  A lease is none, fresh (renewed less  *)
(* than five minutes plus the grace ago) or lapsed.  run_after is the flag *)
(* waiting.  outcome is dropped: the planner re-arms a queued row that     *)
(* carries one, and such a row has no attempts to reset.  Priorities are   *)
(* equal, as every caller leaves them.                                     *)
(***************************************************************************)
EXTENDS Naturals, FiniteSets, Sequences

CONSTANTS
  Job,          \* the job keys of the paper, over all its projects
  Slot,         \* the current-run slots of ux_stage_run_current
  SlotOf,       \* the slot a job's stage run occupies
  Project,      \* the projects that hold the paper
  ProjectOf,    \* the project a job was planned for
  ProjectSlot,  \* the slots of project-scoped stages
  Blockers,     \* job_dependency: the jobs a job depends on
  Provider,     \* the slots a stage's inputs are read from
  Downstream,   \* the slots of the stages that consume what a slot provides
  Rank,         \* the index of a slot's stage in the resolved registry
  LlmSlot,      \* the slots of stages that use a model
  HostSlot,     \* the slots of host-isolated stages
  Budget,       \* the two dispatch ceilings, "llm" and "local"
  Imported,     \* the projects whose pipeline was planned when the paper came in
  MaxAttempts,  \* MAX_ATTEMPTS
  Result,       \* what a stage may report as its result
  Outcome,      \* the outcomes a stage body may report
  MaxRuns,      \* bound: stage_run rows ever inserted
  MaxOps,       \* bound: user operations
  MaxCrashes,   \* bound: crashes
  MaxWorld      \* bound: changes of what a stage's own fingerprint reads

ConstantAssumption ==
  /\ SlotOf \in [Job -> Slot]
  /\ ProjectOf \in [Job -> Project]
  /\ ProjectSlot \subseteq Slot
  /\ Blockers \in [Job -> SUBSET Job]
  /\ Provider \in [Slot -> SUBSET Slot]
  /\ Downstream \in [Slot -> SUBSET Slot]
  /\ Rank \in [Slot -> Nat]
  /\ LlmSlot \subseteq Slot
  /\ HostSlot \subseteq Slot
  /\ Budget \in [{"llm", "local"} -> Nat]
  /\ Imported \subseteq Project
  /\ MaxAttempts \in Nat \ {0}
  /\ Result \subseteq Nat \ {0}
  /\ Outcome \subseteq {"succeeded", "empty", "skipped", "refused", "fatal", "retryable"}
  /\ MaxRuns \in Nat /\ MaxOps \in Nat /\ MaxCrashes \in Nat /\ MaxWorld \in Nat

ASSUME JobQueueAssumption == ConstantAssumption

VARIABLES
  job,         \* processing_job: a row for every key
  runs,        \* stage_run: the rows ever inserted, by id
  execs,       \* the executions whose stage body has not returned
  controller,  \* abortsByJob: the epoch of the execution it holds, 0 for none
  mid,         \* the macrotask that is open, and the step it has reached
  queue,       \* the scheduler: "booting" before start, "running", "stopped"
  world,       \* what each stage's own fingerprint hook reads
  ops,         \* user operations so far
  crashes      \* crashes so far

vars == <<job, runs, execs, controller, mid, queue, world, ops, crashes>>

-----------------------------------------------------------------------------
(* Types *)

JobStatus == {"absent", "queued", "running", "done", "review", "failed", "cancelled"}
RunStatus == {"running", "succeeded", "empty", "skipped", "refused", "failed"}
NoResult == 0
NoRun == 0
Atom == Slot \X (RunStatus \cup {"none", "own"}) \X Nat
Verdict == {"succeeded", "empty", "skipped", "refused", "fatal", "retryable", "broken", "thrown"}

JobRow ==
  [status: JobStatus, attempts: 0 .. MaxAttempts, epoch: Nat, owner: {"none", "mine", "dead"},
   lease: {"none", "fresh", "lapsed"}, run: Nat,
   cancelReq: BOOLEAN, upstream: BOOLEAN, waiting: BOOLEAN]

RunRow ==
  [slot: Slot, status: RunStatus, epoch: Nat, superseded: BOOLEAN,
   input: SUBSET Atom, result: Nat, output: BOOLEAN]

\* silent: no heartbeat came from this execution for the length of a lease and
\* its grace.  Nothing in the code reads it; properties do.
Execution ==
  [job: Job, epoch: Nat, run: Nat, attempts: Nat, aborted: BOOLEAN, silent: BOOLEAN]

\* The open macrotask: the execution it works for, and what it does next.
Idle == [at |-> "idle"]
Step ==
  {Idle}
    \cup [at: {"claimed"}, job: Job, epoch: Nat, attempts: Nat]
    \cup [at: {"begun"}, job: Job, epoch: Nat, attempts: Nat, run: Nat]
    \cup [at: {"settling"}, job: Job, epoch: Nat, attempts: Nat, run: Nat, verdict: Verdict]
    \cup [at: {"failing"}, job: Job, epoch: Nat, run: Nat]
    \cup [at: {"cascading"}, job: Job]

TypeOK ==
  /\ job \in [Job -> JobRow]
  /\ runs \in Seq(RunRow)
  /\ execs \subseteq Execution
  /\ controller \in [Job -> Nat]
  /\ mid \in Step
  /\ queue \in {"booting", "running", "stopped"}
  /\ world \in [Slot -> Nat]
  /\ ops \in 0 .. MaxOps
  /\ crashes \in 0 .. MaxCrashes

-----------------------------------------------------------------------------
(* Reading the tables *)

BugSatisfied == {"done"}
Satisfied == {"done", "review"}              \* DEP_SATISFIED
Dead == {"cancelled", "failed"}
Cacheable == {"succeeded", "empty", "skipped", "refused"}

\* currentRun: the row of a slot that is not superseded.
IsCurrent(r) == ~runs[r].superseded
CurrentIn(s) == {r \in DOMAIN runs : runs[r].slot = s /\ IsCurrent(r)}

\* currentRunsOfStage as a stamp: the output of the run when it recorded one,
\* its input fingerprint otherwise, and its status either way.
Stamp(s) ==
  IF CurrentIn(s) = {}
  THEN {<<s, "none", 0>>}
  ELSE UNION {{<<s, runs[r].status, runs[r].result>>}
                \cup (IF runs[r].result = NoResult THEN runs[r].input ELSE {})
              : r \in CurrentIn(s)}

\* computeFingerprint: a set of atoms stands for the hash of the parts.
Fingerprint(s) == {<<s, "own", world[s]>>} \cup UNION {Stamp(p) : p \in Provider[s]}

\* A cache that also answers from a run that was retired.
BugCacheHits(s) ==
  {r \in DOMAIN runs :
     runs[r].slot = s /\ runs[r].status \in Cacheable /\ runs[r].input = Fingerprint(s)}

\* decideCache: the current run is a terminal claim made from these inputs.
CacheHits(s) ==
  {r \in CurrentIn(s) : runs[r].status \in Cacheable /\ runs[r].input = Fingerprint(s)}

\* The jobs that wait for one of S, directly or through others: the walk down
\* job_dependency of cancelDependents and retry, S itself left out.
Waiters(S) ==
  LET Closed(T) == \A j \in Job : Blockers[j] \cap (S \cup T) # {} => j \in T
  IN  {j \in Job : \A T \in SUBSET Job : Closed(T) => j \in T}

\* A cascade that stops one hop down.
BugCascade(S) == S \cup UNION {Downstream[s] : s \in S}

\* The slots whose runs supersedeCascade retires when it starts at S.
Cascade(S) ==
  LET Closed(T) == S \subseteq T /\ \A s \in T : Downstream[s] \subseteq T
  IN  {s \in Slot : \A T \in SUBSET Slot : Closed(T) => s \in T}

Kind(s) == IF s \in LlmSlot THEN "llm" ELSE "local"
InFlight(kind) == Cardinality({e \in execs : Kind(SlotOf[e.job]) = kind})

\* claim's SELECT: what is queued, wanted, past its backoff, unblocked, and of
\* a kind with room.  breakerOpen hides the host stages.
Claimable(breakerOpen) ==
  {j \in Job :
    /\ job[j].status = "queued" /\ ~job[j].cancelReq /\ ~job[j].waiting
    /\ \A b \in Blockers[j] : job[b].status \in Satisfied
    /\ InFlight(Kind(SlotOf[j])) < Budget[Kind(SlotOf[j])]
    /\ ~(breakerOpen /\ SlotOf[j] \in HostSlot)}

\* ORDER BY stage order.  Rows of one stage go by id, which is the order their
\* projects were planned in: either may be first.
FirstInLine(C) == {j \in C : \A k \in C : Rank[SlotOf[j]] <= Rank[SlotOf[k]]}

-----------------------------------------------------------------------------
(* What each write does to a row *)

NewRow ==
  [status |-> "queued", attempts |-> 0, epoch |-> 0, owner |-> "none", lease |-> "none",
   run |-> NoRun, cancelReq |-> FALSE, upstream |-> FALSE, waiting |-> FALSE]

Claimed(row) ==
  [row EXCEPT !.status = "running", !.attempts = @ + 1, !.epoch = @ + 1,
              !.owner = "mine", !.upstream = FALSE]

BugAtCeiling(attempts) == attempts > MaxAttempts
AtCeiling(attempts) == attempts >= MaxAttempts

\* claim, on a row at the ceiling.
Exhausted(row) == [row EXCEPT !.status = "failed", !.upstream = FALSE]

\* settle, as executeStageJob and process call it for each verdict.
Permanent(verdict, attempts) ==
  verdict = "fatal" \/ (verdict = "retryable" /\ AtCeiling(attempts))

SettledStatus(verdict, attempts) ==
  CASE verdict \in {"succeeded", "skipped"} -> "done"
    [] verdict \in {"empty", "refused"} -> "review"
    [] OTHER -> IF verdict = "fatal" \/ AtCeiling(attempts) THEN "failed" ELSE "queued"

Settled(row, verdict, attempts) ==
  [row EXCEPT !.status = SettledStatus(verdict, attempts),
              !.attempts = IF verdict = "fatal" /\ @ > 0 THEN @ - 1 ELSE @,
              !.owner = "none", !.lease = "none", !.upstream = FALSE,
              !.waiting = (verdict = "retryable")]

\* A cascade that does not say the cancellation came from upstream.
BugOrphaned(row) ==
  IF row.status \in {"queued", "running"} THEN [row EXCEPT !.status = "cancelled"] ELSE row

\* cancelDependents, on a row that waits for the dead job.
Orphaned(row) ==
  IF row.status \in {"queued", "running"}
  THEN [row EXCEPT !.status = "cancelled", !.upstream = TRUE]
  ELSE row

\* A plan that takes a cancelled job back too.
BugPlanned(row) ==
  IF row.status = "cancelled" THEN [row EXCEPT !.status = "queued", !.cancelReq = FALSE]
  ELSE IF row.status = "absent" THEN NewRow ELSE row

\* planPipeline, on a row of the pipeline it plans.
Planned(row) ==
  CASE row.status = "absent" -> NewRow
    [] row.status \in {"done", "review", "failed"} ->
         [row EXCEPT !.status = "queued", !.attempts = 0, !.upstream = FALSE,
                     !.owner = "none", !.lease = "none"]
    [] OTHER -> row

\* requeueOwningJobs, on a job whose run the cascade retired.
Requeued(row) ==
  [row EXCEPT !.status = "queued", !.attempts = 0, !.cancelReq = FALSE, !.upstream = FALSE,
              !.waiting = FALSE, !.owner = "none", !.lease = "none", !.run = NoRun,
              !.epoch = @ + 1]

\* requeueUpstreamCancelled, on a dependent that is cancelled for its upstream.
Revived(row) ==
  [row EXCEPT !.status = "queued", !.attempts = 0, !.upstream = FALSE,
              !.owner = "none", !.lease = "none", !.run = NoRun, !.epoch = @ + 1]

CancelledUpstream(row) == row.status = "cancelled" /\ row.upstream

\* retry, on the job the user names, and on the dependents it revives.
Retried(row) ==
  [row EXCEPT !.status = "queued", !.attempts = 0, !.cancelReq = FALSE, !.upstream = FALSE,
              !.waiting = FALSE, !.owner = "none", !.run = NoRun]

Unblocked(row) ==
  IF CancelledUpstream(row) THEN [row EXCEPT !.status = "queued", !.upstream = FALSE] ELSE row

\* cancel.
Dismissed(row) ==
  [row EXCEPT !.status = "cancelled", !.cancelReq = TRUE, !.upstream = FALSE,
              !.owner = "none", !.lease = "none", !.epoch = @ + 1,
              !.attempts = IF row.status = "running" /\ @ > 0 THEN @ - 1 ELSE @]

\* reclaimExpiredLeases.
Reclaimed(row) ==
  [row EXCEPT !.status = "queued", !.owner = "none", !.lease = "none", !.run = NoRun,
              !.epoch = @ + 1]

\* resumePending, on a row: a dead generation's running job gets its attempt
\* back, then fails at the ceiling or goes back to the queue.
BugForeign(row) == row.owner = "none"
Foreign(row) == row.owner # "mine"

Refunded(row) == IF row.attempts > 0 THEN row.attempts - 1 ELSE 0

Resumed(row) ==
  IF ~Foreign(row) \/ row.status \notin {"running", "queued"} THEN row
  ELSE IF row.cancelReq THEN [row EXCEPT !.status = "cancelled", !.upstream = FALSE]
  ELSE IF row.status = "queued" THEN row
  ELSE IF AtCeiling(Refunded(row))
  THEN [row EXCEPT !.status = "failed", !.attempts = Refunded(row), !.upstream = FALSE]
  ELSE [row EXCEPT !.status = "queued", !.attempts = Refunded(row), !.owner = "none",
                   !.run = NoRun]

\* A retirement by beginRun that leaves the output, or the fence, behind.
BugOutgoingKeepsOutput(run) == [run EXCEPT !.superseded = TRUE, !.epoch = @ + 1]
BugOutgoingKeepsEpoch(run) == [run EXCEPT !.superseded = TRUE, !.output = FALSE]
BugOutgoingStaysCurrent(run) ==
  IF run.status = "running" THEN run ELSE [run EXCEPT !.superseded = TRUE, !.output = FALSE]

\* A retirement by beginRun: whatever the outgoing run was doing, its output
\* goes and its epoch moves.
Outgoing(run) == [run EXCEPT !.superseded = TRUE, !.epoch = @ + 1, !.output = FALSE]

\* A retirement that may meet a running run: supersedeCascade, cancel and
\* resumePending.
Retired(run) ==
  [run EXCEPT !.superseded = TRUE, !.epoch = @ + 1, !.output = FALSE,
              !.status = IF @ = "running" THEN "failed" ELSE @]

\* The abort pass after a transaction: it reaches the execution abortsByJob
\* holds for the job, and no other.
Aborted(S) ==
  {[e EXCEPT !.aborted = @ \/ (e.job \in S /\ e.epoch = controller[e.job])] : e \in execs}

\* An unconditional delete in process's finally.
BugReleased(j, epoch) == [controller EXCEPT ![j] = 0]

\* process's finally: the controller goes only if it is still this execution's.
Released(j, epoch) == IF controller[j] = epoch THEN [controller EXCEPT ![j] = 0] ELSE controller

-----------------------------------------------------------------------------
(* A claim and the start of its execution: one macrotask, up to the await *)

Init ==
  /\ job = [j \in Job |-> IF ProjectOf[j] \in Imported THEN NewRow
                          ELSE [NewRow EXCEPT !.status = "absent"]]
  /\ runs = << >>
  /\ execs = {}
  /\ controller = [j \in Job |-> 0]
  /\ mid = Idle
  /\ queue = "booting"
  /\ world = [s \in Slot |-> 0]
  /\ ops = 0
  /\ crashes = 0

\* Between macrotasks.  MaxRuns bounds the claims, each of which may insert a run.
Quiet == mid = Idle

Claim ==
  /\ Quiet /\ queue = "running" /\ Len(runs) < MaxRuns
  /\ \E breakerOpen \in BOOLEAN : \E j \in FirstInLine(Claimable(breakerOpen)) :
       /\ ~AtCeiling(job[j].attempts)
       /\ job' = [job EXCEPT ![j] = Claimed(@)]
       /\ controller' = [controller EXCEPT ![j] = job[j].epoch + 1]
       /\ mid' = [at |-> "claimed", job |-> j, epoch |-> job[j].epoch + 1,
                  attempts |-> job[j].attempts + 1]
  /\ UNCHANGED <<runs, execs, queue, world, ops, crashes>>

\* claim's early return at the ceiling.  No dependent is told.
RetireExhausted ==
  /\ Quiet /\ queue = "running"
  /\ \E breakerOpen \in BOOLEAN : \E j \in FirstInLine(Claimable(breakerOpen)) :
       /\ AtCeiling(job[j].attempts)
       /\ job' = [job EXCEPT ![j] = Exhausted(@)]
  /\ UNCHANGED <<runs, execs, controller, mid, queue, world, ops, crashes>>

\* The pointer write, fenced on the job's epoch.
Pointing(r) == IF job[mid.job].epoch = mid.epoch THEN [job EXCEPT ![mid.job].run = r] ELSE job

Settling(j, epoch, attempts, r, verdict) ==
  [at |-> "settling", job |-> j, epoch |-> epoch, attempts |-> attempts, run |-> r,
   verdict |-> verdict]

AnswerFromCache ==
  /\ mid.at = "claimed"
  /\ \E r \in CacheHits(SlotOf[mid.job]) :
       /\ job' = Pointing(r)
       /\ mid' = Settling(mid.job, mid.epoch, mid.attempts, r, runs[r].status)
  /\ UNCHANGED <<runs, execs, controller, queue, world, ops, crashes>>

BeginRun ==
  /\ mid.at = "claimed"
  /\ LET s == SlotOf[mid.job]
         new == [slot |-> s, status |-> "running", epoch |-> mid.epoch, superseded |-> FALSE,
                 input |-> Fingerprint(s), result |-> NoResult, output |-> FALSE]
     IN  /\ CacheHits(s) = {}
         /\ runs' = Append([r \in DOMAIN runs |->
                              IF r \in CurrentIn(s) THEN Outgoing(runs[r]) ELSE runs[r]], new)
  /\ mid' = [at |-> "begun", job |-> mid.job, epoch |-> mid.epoch, attempts |-> mid.attempts,
             run |-> Len(runs) + 1]
  /\ UNCHANGED <<job, execs, controller, queue, world, ops, crashes>>

\* The pointer write, and the stage body is awaited.
Execute ==
  /\ mid.at = "begun"
  /\ job' = Pointing(mid.run)
  /\ execs' = execs \cup {[job |-> mid.job, epoch |-> mid.epoch, run |-> mid.run,
                           attempts |-> mid.attempts, aborted |-> FALSE, silent |-> FALSE]}
  /\ mid' = Idle
  /\ UNCHANGED <<runs, controller, queue, world, ops, crashes>>

\* A throw outside the stage body, in a fingerprint hook or in building the
\* subject, reaches the catch of process.
Throw ==
  /\ mid.at \in {"claimed", "begun"}
  /\ job' = IF mid.at = "begun" THEN Pointing(mid.run) ELSE job
  /\ mid' = Settling(mid.job, mid.epoch, mid.attempts, NoRun, "thrown")
  /\ UNCHANGED <<runs, execs, controller, queue, world, ops, crashes>>

-----------------------------------------------------------------------------
(* The stage body returns *)

\* finishRun without its epoch term.
BugFenceOpen(e) == runs[e.run].status = "running"

\* finishRun's fence.
FenceOpen(e) == runs[e.run].epoch = e.epoch /\ runs[e.run].status = "running"

\* Aborted, or StaleExecutionError: the execution ends and writes nothing.
Abandon(e) ==
  /\ Quiet
  /\ e.aborted \/ ~FenceOpen(e)
  /\ execs' = execs \ {e}
  /\ controller' = Released(e.job, e.epoch)
  /\ UNCHANGED <<job, runs, mid, queue, world, ops, crashes>>

Committed(run, outcome, result, attempts) ==
  [run EXCEPT !.status = IF outcome \in {"fatal", "retryable"} THEN "failed" ELSE outcome,
              !.result = result,
              !.output = outcome \in {"succeeded", "empty", "refused"}
                           \/ Permanent(outcome, attempts)]

\* The stage's rows and its terminal record, in one transaction.
Commit(e) ==
  /\ Quiet
  /\ ~e.aborted /\ FenceOpen(e)
  /\ \E o \in Outcome : \E res \in (IF o = "succeeded" THEN Result ELSE {}) \cup {NoResult} :
       /\ runs' = [runs EXCEPT ![e.run] = Committed(@, o, res, e.attempts)]
       /\ mid' = Settling(e.job, e.epoch, e.attempts, e.run, o)
  /\ execs' = execs \ {e}
  /\ UNCHANGED <<job, controller, queue, world, ops, crashes>>

\* applyWrites throws, and the transaction rolls back.
ApplyFails(e) ==
  /\ Quiet
  /\ ~e.aborted
  /\ execs' = execs \ {e}
  /\ mid' = Settling(e.job, e.epoch, e.attempts, e.run, "broken")
  /\ UNCHANGED <<job, runs, controller, queue, world, ops, crashes>>

\* settle, and what the caller does next: cancelDependents, or the failed mark
\* on a run whose writes did not apply.
Settle ==
  /\ mid.at = "settling"
  /\ job' = IF job[mid.job].epoch = mid.epoch
            THEN [job EXCEPT ![mid.job] = Settled(@, mid.verdict, mid.attempts)]
            ELSE job
  /\ mid' = CASE mid.verdict = "broken" ->
                   [at |-> "failing", job |-> mid.job, epoch |-> mid.epoch, run |-> mid.run]
              [] mid.verdict = "refused" \/ Permanent(mid.verdict, mid.attempts) ->
                   [at |-> "cascading", job |-> mid.job]
              [] OTHER -> Idle
  /\ controller' = Released(mid.job, mid.epoch)
  /\ UNCHANGED <<runs, execs, queue, world, ops, crashes>>

Failed(run) == [run EXCEPT !.status = "failed"]

FailRun ==
  /\ mid.at = "failing"
  /\ runs' = IF runs[mid.run].epoch = mid.epoch /\ runs[mid.run].status = "running"
             THEN [runs EXCEPT ![mid.run] = Failed(@)]
             ELSE runs
  /\ mid' = Idle
  /\ UNCHANGED <<job, execs, controller, queue, world, ops, crashes>>

CancelDependents ==
  /\ mid.at = "cascading"
  /\ job' = [j \in Job |-> IF j \in Waiters({mid.job}) THEN Orphaned(job[j]) ELSE job[j]]
  /\ mid' = Idle
  /\ UNCHANGED <<runs, execs, controller, queue, world, ops, crashes>>

-----------------------------------------------------------------------------
(* Leases and the clock *)

\* progress: fenced on the job's epoch, and on nothing else.
Heartbeat(e) ==
  /\ Quiet
  /\ execs' = (execs \ {e}) \cup {[e EXCEPT !.silent = FALSE]}
  /\ job' = IF job[e.job].epoch = e.epoch THEN [job EXCEPT ![e.job].lease = "fresh"] ELSE job
  /\ UNCHANGED <<runs, controller, mid, queue, world, ops, crashes>>

LeaseLapses(j) ==
  /\ Quiet
  /\ job[j].lease = "fresh"
  /\ job' = [job EXCEPT ![j].lease = "lapsed"]
  /\ execs' = {[e EXCEPT !.silent = @ \/ e.job = j] : e \in execs}
  /\ UNCHANGED <<runs, controller, mid, queue, world, ops, crashes>>

BackoffElapses(j) ==
  /\ Quiet
  /\ job[j].waiting
  /\ job' = [job EXCEPT ![j].waiting = FALSE]
  /\ UNCHANGED <<runs, execs, controller, mid, queue, world, ops, crashes>>

Expired == {j \in Job : job[j].status = "running" /\ job[j].owner = "mine" /\ job[j].lease = "lapsed"}

ReclaimExpiredLeases ==
  /\ Quiet /\ queue = "running" /\ Expired # {}
  /\ job' = [j \in Job |-> IF j \in Expired THEN Reclaimed(job[j]) ELSE job[j]]
  /\ execs' = Aborted(Expired)
  /\ UNCHANGED <<runs, controller, mid, queue, world, ops, crashes>>

-----------------------------------------------------------------------------
(* Start, stop, and the death of the process *)

\* One pass of resumePending's loop.
BugDoomed(rows) ==
  {j \in Job : rows[j].status = "queued" /\ \E b \in Blockers[j] : rows[b].status \in Dead}

\* resumePending's fixed point: the jobs that are queued behind a blocker that
\* can never run, directly or through one another.
Doomed(rows) ==
  LET Behind(j, T) == \E b \in Blockers[j] : rows[b].status \in Dead \/ b \in T
      Closed(T) == \A j \in Job : rows[j].status = "queued" /\ Behind(j, T) => j \in T
  IN  {j \in Job : \A T \in SUBSET Job : Closed(T) => j \in T}

Start ==
  /\ Quiet /\ queue # "running"
  /\ LET resumed == [j \in Job |-> Resumed(job[j])]
         abandoned == {job[j].run : j \in {k \in Job :
                         job[k].status = "running" /\ Foreign(job[k]) /\ ~job[k].cancelReq}}
     IN  /\ job' = [j \in Job |-> IF j \in Doomed(resumed) THEN Orphaned(resumed[j])
                                  ELSE resumed[j]]
         /\ runs' = [r \in DOMAIN runs |-> IF r \in abandoned THEN Retired(runs[r]) ELSE runs[r]]
  /\ queue' = "running"
  /\ UNCHANGED <<execs, controller, mid, world, ops, crashes>>

Stop ==
  /\ Quiet /\ queue = "running"
  /\ ops < MaxOps /\ ops' = ops + 1
  /\ queue' = "stopped"
  /\ UNCHANGED <<job, runs, execs, controller, mid, world, crashes>>

Crash ==
  /\ crashes < MaxCrashes /\ crashes' = crashes + 1
  /\ execs' = {}
  /\ controller' = [j \in Job |-> 0]
  /\ mid' = Idle
  /\ queue' = "booting"
  /\ job' = [j \in Job |-> [job[j] EXCEPT !.owner = IF @ = "mine" THEN "dead" ELSE @]]
  /\ UNCHANGED <<runs, world, ops>>

-----------------------------------------------------------------------------
(* What the user asks for: bounded by MaxOps *)

UserActs == Quiet /\ queue # "booting" /\ ops < MaxOps /\ ops' = ops + 1

JobsOf(P) == {j \in Job : ProjectOf[j] \in P}

\* plan and planForWork, for one project.
Plan(p) ==
  /\ UserActs
  /\ job' = [j \in Job |-> IF j \in JobsOf({p}) THEN Planned(job[j]) ELSE job[j]]
  /\ UNCHANGED <<runs, execs, controller, mid, queue, world, crashes>>

\* The verdict retry takes back: the newest current one of the stage, whichever
\* project it belongs to.
Verdicts(j) ==
  {r \in DOMAIN runs : /\ IsCurrent(r) /\ Rank[runs[r].slot] = Rank[SlotOf[j]]
                       /\ runs[r].status \in {"refused", "skipped", "empty"}}

Newest(R) == {r \in R : \A q \in R : q <= r}

Retry(j) ==
  /\ UserActs
  /\ job[j].status \in {"failed", "cancelled", "review"}
  /\ runs' = [r \in DOMAIN runs |->
                [runs[r] EXCEPT !.superseded = @ \/ r \in Newest(Verdicts(j))]]
  /\ job' = [k \in Job |-> IF k = j THEN Retried(job[k])
                           ELSE IF k \in Waiters({j}) THEN Unblocked(job[k]) ELSE job[k]]
  /\ UNCHANGED <<execs, controller, mid, queue, world, crashes>>

Cancel(j) ==
  /\ UserActs
  /\ job[j].status \notin {"absent", "cancelled"}
  /\ job' = [job EXCEPT ![j] = Dismissed(@)]
  /\ runs' = [r \in DOMAIN runs |->
                IF r = job[j].run /\ runs[r].status = "running" THEN Retired(runs[r]) ELSE runs[r]]
  /\ execs' = Aborted({j})
  /\ mid' = [at |-> "cascading", job |-> j]
  /\ UNCHANGED <<controller, queue, world, crashes>>

\* Only what an ordinary plan would take back as well.
BugOwners(R) == {j \in Job : job[j].run \in R /\ job[j].status \in {"done", "review"}}

\* requeueOwningJobs' candidates, when the cascade retired the runs R.
Owners(R) ==
  {j \in Job : job[j].run \in R \/ (job[j].status = "running" /\ job[j].run = NoRun)}

\* requeueUpstreamCancelled: one hop from the jobs J.
Revivable(rows, J) == {j \in Job : CancelledUpstream(rows[j]) /\ Blockers[j] \cap J # {}}

\* rerunRuns for a project and the slots whose current runs it names: the
\* cascade, the owners requeued, the plan and the revival are one transaction,
\* and the aborts follow it.
Rerun(p, S) ==
  /\ UserActs
  /\ LET retired == {r \in DOMAIN runs : IsCurrent(r) /\ runs[r].slot \in Cascade(S)}
         P == {p} \cup {ProjectOf[j] : j \in {k \in Job :
                SlotOf[k] \in ProjectSlot /\ \E r \in retired : runs[r].slot = SlotOf[k]}}
         requeued == [j \in Job |-> IF j \in Owners(retired) THEN Requeued(job[j]) ELSE job[j]]
         planned == [j \in Job |-> IF j \in JobsOf(P) THEN Planned(requeued[j]) ELSE requeued[j]]
         revived == Revivable(planned, Owners(retired) \cup JobsOf(P))
     IN  /\ runs' = [r \in DOMAIN runs |-> IF r \in retired THEN Retired(runs[r]) ELSE runs[r]]
         /\ job' = [j \in Job |-> IF j \in revived THEN Revived(planned[j]) ELSE planned[j]]
         /\ execs' = Aborted(Owners(retired) \cup revived)
  /\ UNCHANGED <<controller, mid, queue, world, crashes>>

\* forceRerunStage names the slot of one stage; reprocessWork(force) every
\* current run of the paper.
Occupied == {s \in Slot : CurrentIn(s) # {}}

RerunStage(p, s) == s \in Occupied /\ (\E j \in JobsOf({p}) : SlotOf[j] = s) /\ Rerun(p, {s})

ReprocessForced(p) == Rerun(p, Occupied)

\* reprocessWork without force.
Reprocess(p) ==
  /\ UserActs
  /\ LET planned == [j \in Job |-> IF j \in JobsOf({p}) THEN Planned(job[j]) ELSE job[j]]
         revived == Revivable(planned, JobsOf({p}))
     IN  job' = [j \in Job |-> IF j \in revived THEN Revived(planned[j]) ELSE planned[j]]
  /\ UNCHANGED <<runs, execs, controller, mid, queue, world, crashes>>

\* A file, an identifier or a setting that a stage's fingerprint hook reads.
WorldChanges(s) ==
  /\ Quiet
  /\ world[s] < MaxWorld
  /\ world' = [world EXCEPT ![s] = @ + 1]
  /\ UNCHANGED <<job, runs, execs, controller, mid, queue, ops, crashes>>

-----------------------------------------------------------------------------
Macrotask ==
  AnswerFromCache \/ BeginRun \/ Execute \/ Throw \/ Settle \/ FailRun \/ CancelDependents

Returns(e) == Abandon(e) \/ Commit(e) \/ ApplyFails(e)

User ==
  \/ \E p \in Project : Plan(p) \/ Reprocess(p) \/ ReprocessForced(p)
  \/ \E p \in Project, s \in Slot : RerunStage(p, s)
  \/ \E j \in Job : Retry(j) \/ Cancel(j)
  \/ Stop

Next ==
  \/ Claim \/ RetireExhausted \/ Macrotask
  \/ \E e \in execs : Returns(e) \/ Heartbeat(e)
  \/ \E j \in Job : LeaseLapses(j) \/ BackoffElapses(j)
  \/ ReclaimExpiredLeases
  \/ Start \/ Crash
  \/ User
  \/ \E s \in Slot : WorldChanges(s)

Spec == Init /\ [][Next]_vars

\* What the program does keep doing: a macrotask runs to its end, the boot
\* calls start, the tick claims, a backoff ends, and every stage body returns
\* (each has a wall clock, and a killed host rejects).  Nobody has to stop or
\* resume the queue, ask for anything, or crash.
Fairness ==
  /\ WF_vars(Macrotask)
  /\ WF_vars(queue = "booting" /\ Start)
  /\ WF_vars(Claim \/ RetireExhausted)
  /\ \A j \in Job : WF_vars(BackoffElapses(j))
  /\ \A j \in Job : WF_vars(\E e \in execs : e.job = j /\ Returns(e))

FairSpec == Spec /\ Fairness

-----------------------------------------------------------------------------
(* Properties *)

\* A slot never has two current runs: beginRun and every retirement agree on
\* what is current, so the unique index ux_stage_run_current is never hit.
OneCurrentRun ==
  \A r, q \in DOMAIN runs : IsCurrent(r) /\ IsCurrent(q) /\ runs[r].slot = runs[q].slot => r = q

\* An execution that could still commit works on the current run of its slot:
\* each path that retires a run that may be executing also moves its fence.
OpenFenceIsCurrent == \A e \in execs : FenceOpen(e) => IsCurrent(e.run)

\* No output outlives the run that owns it, whoever retired that run.  The
\* verdicts retry takes back are left out: retry only clears their flag.
OutputGoesWithItsRun ==
  \A r \in DOMAIN runs : runs[r].superseded /\ runs[r].output => runs[r].status \in {"empty", "refused"}

\* What OpenFenceIsCurrent and OutputGoesWithItsRun rest on: a claim that began a
\* run and every execution hold a row whose epoch never falls behind theirs, a
\* skipped run has no output a retry could leave behind, and one that is still
\* running has none at all.
Holds(r, epoch) ==
  /\ r \in DOMAIN runs
  /\ epoch <= runs[r].epoch
  /\ runs[r].epoch = epoch /\ runs[r].status = "running" => IsCurrent(r)

FenceInvariant ==
  /\ OneCurrentRun
  /\ \A e \in execs : Holds(e.run, e.epoch)
  /\ mid.at = "begun" => Holds(mid.run, mid.epoch)
  /\ OutputGoesWithItsRun
  /\ \A r \in DOMAIN runs : runs[r].status \in {"skipped", "running"} => ~runs[r].output

\* A job that is marked running here has an execution that will settle it: one
\* of its own generation, not told to stop, whose commit is not fenced out.
NoZombieJob ==
  Quiet => \A j \in Job : job[j].status = "running" /\ job[j].owner = "mine" =>
    \E e \in execs : e.job = j /\ e.epoch = job[j].epoch /\ ~e.aborted /\ FenceOpen(e)

Backed(j) == \E r \in CurrentIn(SlotOf[j]) : runs[r].status \in {"succeeded", "skipped"}

\* In a paper of one project, a finished job stands for a current run that
\* finished, through every retirement, revival, restart and late commit.
DoneIsBacked == Quiet => \A j \in Job : job[j].status = "done" => Backed(j)

\* An execution that still owns its running job can be aborted, even after an
\* older execution of the same job has ended.
OwnerCanBeAborted ==
  Quiet => \A e \in execs :
    job[e.job].status = "running" /\ e.epoch = job[e.job].epoch => controller[e.job] = e.epoch

\* What it rests on: no claim is from the future, an execution is the only one of
\* its claim, and the controller is that of the claim whose job runs.
Owns(j, epoch) ==
  /\ epoch <= job[j].epoch
  /\ job[j].status = "running" /\ job[j].epoch = epoch => controller[j] = epoch

AbortInvariant ==
  /\ \A j \in Job : job[j].status = "absent" => job[j].epoch = 0
  /\ \A e, f \in execs : e.job = f.job /\ e.epoch = f.epoch => e = f
  /\ \A e \in execs : Owns(e.job, e.epoch)
  /\ mid.at \in {"claimed", "begun", "settling"} =>
       /\ Owns(mid.job, mid.epoch)
       /\ \A e \in execs : ~(e.job = mid.job /\ e.epoch = mid.epoch)

\* Papers in one project.  The schema keeps the jobs of two projects apart and
\* lets them share the runs of a document stage, and a fan-out puts several slots
\* in one stage.
OneJobPerSlot == \A j, k \in Job : SlotOf[j] = SlotOf[k] => j = k
OneSlotPerStage == \A s, t \in Slot : Rank[s] = Rank[t] => s = t
OneProject == \A p, q \in Project : p = q

\* A pointer, an execution and a run agree on the slot, and every run is of a
\* slot some job fills.
PointersFit ==
  /\ \A j \in Job : job[j].run # NoRun =>
       job[j].run \in DOMAIN runs /\ runs[job[j].run].slot = SlotOf[j]
  /\ \A e \in execs : runs[e.run].slot = SlotOf[e.job]
  /\ \A r \in DOMAIN runs : \E j \in Job : SlotOf[j] = runs[r].slot

\* What a macrotask may count on at its next transaction: until its stage is
\* awaited its claim is the job's latest, a run it began is open, and a finished
\* one it settles is current.
OpenRun(r, j, epoch) ==
  r \in CurrentIn(SlotOf[j]) /\ runs[r].status = "running" /\ runs[r].epoch = epoch

MidFits ==
  /\ mid.at \in {"claimed", "begun"} =>
       job[mid.job].epoch = mid.epoch /\ job[mid.job].status = "running"
  /\ mid.at = "begun" => OpenRun(mid.run, mid.job, mid.epoch)
  /\ mid.at = "settling" /\ mid.verdict \in {"succeeded", "skipped"} =>
       mid.run \in CurrentIn(SlotOf[mid.job]) /\ runs[mid.run].status = mid.verdict
  /\ mid.at = "settling" /\ mid.verdict = "broken" =>
       mid.run \in DOMAIN runs /\ runs[mid.run].slot = SlotOf[mid.job]
  /\ mid.at = "failing" =>
       /\ mid.run \in DOMAIN runs /\ runs[mid.run].slot = SlotOf[mid.job]
       /\ \A e \in execs : ~(e.job = mid.job /\ e.epoch = mid.epoch)

\* A current run that has output, or an execution that may still give it some, is
\* the run its job points to, unless a retry or a restart dropped the pointer.
Kept(r) == runs[r].output \/ \E e \in execs : e.run = r /\ FenceOpen(e)

OwnersKnown ==
  \A j \in Job : \A r \in CurrentIn(SlotOf[j]) : Kept(r) => job[j].run \in {r, NoRun}

\* A job that is marked running here is in the hands of an execution that can
\* commit, or of the macrotask that is open.
Serves(e, j) == e.job = j /\ e.epoch = job[j].epoch /\ ~e.aborted /\ FenceOpen(e)
InHand(j) == mid.at \in {"claimed", "begun", "settling"} /\ mid.job = j /\ mid.epoch = job[j].epoch

Served ==
  \A j \in Job : job[j].status = "running" /\ job[j].owner = "mine" =>
    InHand(j) \/ \E e \in execs : Serves(e, j)

\* What NoZombieJob rests on.
ServingInvariant == PointersFit /\ MidFits /\ OwnersKnown /\ Served

\* What DestroyedIsScheduled rests on besides: a cancelled row says who cancelled
\* it, the user or a job it waits for.
CancelsExplained ==
  \A j \in Job :
    /\ job[j].status = "cancelled" => job[j].cancelReq \/ job[j].upstream
    /\ job[j].upstream => Blockers[j] # {}

\* All of it, and what DoneIsBacked rests on: a finished job is backed inside a
\* macrotask too.
BackingInvariant ==
  /\ ServingInvariant
  /\ \A j \in Job : job[j].status = "done" => Backed(j)
  /\ CancelsExplained

\* The table of stage runs keeps what CurrentRuns promises, when a reader looks at
\* a slot as currentRun does.
Held(s) ==
  LET C == CurrentIn(s)
      r == CHOOSE q \in C : TRUE
  IN  IF C = {} THEN [run |-> NoRun, status |-> "none", result |-> NoResult]
      ELSE [run |-> r, status |-> runs[r].status, result |-> runs[r].result]

Readers == INSTANCE CurrentRuns WITH current <- [s \in Slot |-> Held(s)], number <- Len(runs)

KeepsCurrentRuns == Readers!Spec

\* Nothing a stage produced is ever filed under a run that was already retired.
NothingLandsOnRetired ==
  [][\A r \in DOMAIN runs : runs[r].superseded /\ ~runs[r].output => ~runs'[r].output]_vars

\* A job the user cancelled goes back to work only by a retry or a re-run, which
\* forget its run: no plan, settle, restart or cascade revives it.
CancelSticks ==
  [][\A j \in Job : job[j].cancelReq /\ ~job'[j].cancelReq => job'[j].run = NoRun /\ ops' > ops]_vars

\* Output that a re-run destroys is scheduled to be produced again, even when its
\* job failed or was cancelled since.  The exception is a job the user cancelled
\* after a retry or a restart had already dropped its run.
DestroyedIsScheduled ==
  [][\A r \in DOMAIN runs : ops' > ops /\ runs[r].output /\ ~runs'[r].output =>
       \E j \in Job : /\ SlotOf[j] = runs[r].slot
                      /\ \/ job'[j].status \in {"queued", "running"}
                         \/ job'[j].cancelReq /\ job[j].run = NoRun]_vars

\* What was derived from output that a re-run destroys goes with it, to the end of
\* the pipeline: no run stays current on top of inputs that are gone.
DerivedGoesAlong ==
  [][\A r \in DOMAIN runs : ops' > ops /\ runs[r].output /\ ~runs'[r].output =>
       \A s \in Downstream[runs[r].slot] : CurrentIn(s)' = {}]_vars

\* The same without the exception, as the comment on requeueOwningJobs has it.
RerunAlwaysSchedules ==
  [][\A r \in DOMAIN runs : ops' > ops /\ runs[r].output /\ ~runs'[r].output =>
       \E j \in Job : SlotOf[j] = runs[r].slot /\ job'[j].status \in {"queued", "running"}]_vars

\* When the queue starts, no job is left queued behind one that can never run,
\* however long the chain between them.
StartFreesTheDoomed ==
  [][queue # "running" /\ queue' = "running" =>
       \A j \in Job : job'[j].status = "queued" => \A b \in Blockers[j] : job'[b].status \notin Dead]_vars

\* The same while the queue runs: a job that dies takes its dependents with it.
NoneWaitsOnTheDead ==
  Quiet /\ queue = "running" =>
    \A j \in Job : job[j].status = "queued" => \A b \in Blockers[j] : job[b].status \notin Dead

\* A lease is reclaimed only from an execution that has gone silent.
OnlySilentIsReclaimed ==
  \A e \in execs : e.job \in Expired /\ e.epoch = job[e.job].epoch => e.silent

\* A queued job is eventually taken up, unless the queue is stopped or a job it
\* waits for can never run.
BehindDead(j) == \E b \in Job : job[b].status \in Dead /\ j \in Waiters({b})

QueuedIsTakenUp ==
  \A j \in Job : job[j].status = "queued" ~>
    (job[j].status # "queued" \/ queue = "stopped" \/ BehindDead(j))

\* A running job eventually leaves that state: no executor is fenced out and
\* forgotten with its row still marked running.
RunningEnds == \A j \in Job : job[j].status = "running" ~> job[j].status # "running"
=============================================================================
