# Corpus Studio: models of the background pipeline

Corpus Studio is an Electron application for reading research papers. Its
main process downloads a paper, extracts text and structure, asks models for
summaries, claims and analyses, and derives corpus-wide views. All of that work
goes through one queue, kept in SQLite, that survives crashes, retries,
cancellation and forced re-runs. The queue runs some of its stages in child
processes, takes a slot of a gate for every call of a model, and is stopped and
resumed by the guard that holds a closing window open while papers are read.
These four, the queue, the gate, the pool of child processes and the guard, hold
the program's hard behaviour; this directory specifies, checks and proves them.

All paths below are in the repository, mostly under `src/main/`.

## Inventory

**Job queue** (`pipeline/scheduler.ts`). State: the rows of `processing_job`
(status, attempts, lease epoch, owner, expiry of the lease, the run the row
points at, the two cancellation marks, backoff), `job_dependency`, the map
`abortsByJob`, the set of executions in flight, and whether the loop runs.
Operations: `start` (with `resumePending`), `stop`, `tick`
(`reclaimExpiredLeases`, `claim`, dispatch), `process` and `executeStageJob`
(cache answer, begin, body, commit, settle, cancel dependents), the heartbeat
inside `progress`, and the user's `plan`, `planForWork`, `retry`, `cancel`,
`forceRerunStage(s)`, `rerunRuns`, `reprocessWork`, `forceRerunSweep`.
Correct when: no work is lost and none is filed under the wrong run; a row never
says running with nobody behind it; whatever destroys output schedules its
replacement; a cancelled job stays cancelled; nothing waits for a job that can
never run.

**Stage runs** (`pipeline/stageRun.ts`). State: the rows of `stage_run`, with at
most one current row per slot (stage, document, project, fan-out key), enforced
by `ux_stage_run_current`. Operations: `computeFingerprint`, `decideCache`,
`beginRun`, `finishRun` (fenced on the run's `lease_epoch` and `running`),
`deleteRunOutput`, `supersedeCascade`. Correct when: the slot has one current
run; a retired run neither keeps nor gains output; a cached answer is that of
the current run.

**Planner** (`pipeline/planner.ts`). `planPipeline` adopts, re-arms or inserts
the jobs of one paper in one project and their edges; `planCorpusSweeps` does so
for the sweeps. Correct when: planning twice is planning once, and it takes back
nothing the user cancelled.

**Fan-out reconciliation** (`pipeline/fanoutOrphans.ts`, and `sweepOrphans` in
the scheduler) retires runs whose fan-out key, an extraction schema, is gone.

**Corpus sweeps** (`wakeCorpusSweeps`, `runCorpusSweeps` in the scheduler).
State: a generation per sweep, one debounce timer, the generation a run started
from. Correct when: a sweep that was running while its inputs changed runs
again, and the last wake is never lost.

**Host pool** (`pipeline/host/pool.ts`, child in `hostEntry.ts`). State: hosts
and which are busy, deliberate kills, exit times for the breaker, the grace timer
of each cancelled dispatch. Messages: dispatch, cancel, progress, result, ready,
exit. Correct when: every dispatch settles, a cancelled one even if its body never
looks at the signal; a call is refused only beside as many running ones as the
pool is built for; hosts never outnumber the calls the budget lets run; a kill hits
only a host whose dispatch was cancelled; crashes and only crashes open the breaker.
A host may be given to two dispatches (`acquire` returns an idle host that
is marked busy only after an await), so one request for each host is not promised.

**LLM gate** (`pipeline/gate/llmGate.ts`). State: owners, waiters, capacity and
the counter of the entry check. Operations: `run` (acquire, entry check, the race
of function and wall-clock cap, release), the abort of a waiter or of a call
inside, `setCapacity`. Correct when: no call enters above the capacity, a free slot
does not sit beside a waiter, nobody's slot is lost to an abort or a timeout, and
the line moves even if no function ever answers.

**Close guard** (`closeGuard.ts`, `busy.ts`). State: the phase (idle, asking,
finishing), the window asked, the window closing (or the whole app), whether the
queue ran, the decision, the quit intent told to the MCP server, a count of
analyses by window. Correct when: nothing is lost unasked; a question is always on a
window that can answer; a close that waits, waits for work; a decided quit
happens; a cancelled one takes back its own pause of the queue and no other (kept
while the question is being asked, not while the app finishes: see Findings).

**Write lock** (`db/lock.ts`). A reference count per library file over a lock the
kernel holds. Correct when: the lock is held exactly while a handle is.

**Registry, contracts, stage bodies** (`pipeline/registry.ts`, `types.ts`,
`pipeline/stages/`). The registry gives order, providers and dependencies. A body
reads its inputs, calls out, and returns an outcome and the rows to write.

**The rest**: database and migrations, artifacts and staleness (readers of the
two tables), freshness of analyses, model providers, MCP server, search and
embedding, plugins, references, outlets, archives, tabs and updater, renderer and
IPC. They call the queue's operations or are pure transformations of data.

How they interact. The user and the MCP server call queue operations; the tick
claims a job; the job's run is begun in `stage_run`; its body runs here or in a
host child, takes LLM slots from the gate, and reports progress, which renews the
lease; the result is committed under the run's fence and the row is settled under
the job's; a finished project stage wakes the sweeps. The close guard stops and
resumes the queue. Nothing but the database survives a crash.

What is hard. JavaScript runs one macrotask at a time, so the code between two
awaits is not interleaved with other code, but every stage body is awaited, for
minutes, and any operation may happen meanwhile: the job may be cancelled,
re-run, reclaimed, planned again, or displaced by another project's job that
shares its run. There are two fences (the job's epoch for the row, the run's
epoch for the output) and five paths that move them. A crash may fall between any
two transactions of a macrotask. `PROJECT.json` lists the hazards by line with the
properties that watch them.

## Modules

| module | what it is |
|---|---|
| `JobQueue` | the job queue, the stage runs and the planner, one paper |
| `MCJobQueue` | instances for TLC: a chain of stages, one or two projects |
| `JobQueueProofs` | types: the lemmas on rows, and `TypeCorrect` |
| `JobQueueFences` | the fences: `FencesHold` and its four consequences |
| `JobQueueAborts` | the abort controllers: `AbortsHold` and its consequences |
| `JobQueueBacking` | both tables together: running rows are served, done rows backed, destroyed output scheduled |
| `CurrentRuns` | abstract: what a reader of `stage_run` finds in each slot |
| `JobQueueReaders` | the queue implements `CurrentRuns` |
| `AdmissionLine` | abstract: one line, served from the front, under a limit |
| `LlmGate` | the gate; implements `AdmissionLine` |
| `MCLlmGate`, `LlmGateProofs` | its instance; its invariant, its refinement |
| `HostPool` | the pool of stage hosts, with what scheduler and host add to it |
| `MCHostPool`, `HostPoolProofs` | its instance; its invariant, kills, breaker |
| `CloseGuard` | the guard, the busy counts, the quit listeners of `index.ts` |
| `MCCloseGuard`, `CloseGuardProofs` | its instance; its invariant, `NoUnaskedLoss` |

The four components are composed by what one assumes of the others, not by a
product of their states. `JobQueue` has a body return or fail under any
interleaving and assumes that it does return; `LlmGate` (`Served`) and
`HostPool` (`CancelIsReal`, `RunningIsServed`) show what stands behind that.
`CloseGuard` has the queue as the set of jobs in flight and whether it claims, which
is all it reads of it, and the pool as a flag that it was shut down.

### JobQueue and the code

| TLA+ | code |
|---|---|
| `job` | `processing_job`, a row per job key (`pipelineId`, stage, fan-out) |
| `runs` | `stage_run`, by id; `output` says the run owns rows in the output tables |
| `execs` | calls of `executeStageJob` that await their stage body |
| `controller` | `abortsByJob`, by the epoch of the execution that registered |
| `mid` | the macrotask that is open, and the transaction it does next |
| `queue` | before `start`, between `start` and `stop`, after `stop` |
| `world` | what a stage's own `fingerprint` hook reads |

One action is one transaction, or one stretch of code without an await where the
transactions in it cannot be told apart by a crash. `Claim` opens a macrotask,
`BeginRun` and `Execute` (or `AnswerFromCache`, or `Throw`) continue it up to the
await. `Commit`, `ApplyFails` and `Abandon` are the three ways a body's return is
taken; a commit opens the macrotask of `Settle` and `CancelDependents`. `Quiet`
says that no macrotask is open; every other action needs it, except `Crash`,
which may cut one anywhere. `Rerun` is `rerunRuns`: cascade, requeue of owners,
plan and revival in its one transaction, then the aborts.

What is left out of the data: names, reasons, timestamps, progress figures,
priorities (every caller leaves them equal), the id of rows (a key keeps its row),
`outcome` and `input_fingerprint` of the job. A fingerprint is the set of what is
hashed, so equal sets are equal hashes and collisions are left out. A lease is
none, fresh or lapsed by more than the grace. Statements of `reclaimExpiredLeases`
and `resumePending` over several rows are one step: they run in one macrotask, and
a restart repeats the second. The dispatch slot is free from `Settle` on; in the
code a microtask later, before anything else can run.

### LlmGate and the code

| TLA+ | code |
|---|---|
| `owners`, `waiters`, `capacity`, `inFlight` | the fields of the class; a token is named by its caller |
| `granted` | promises of `acquire` that are resolved and whose `run` has not gone on, in microtask order |
| `inside` | calls of `run` between the entry check and the `finally` |
| `open` | promises of `run` that are not settled |
| `upstream`, `told` | functions that still run, and whether the gate's own signal is aborted for them |
| `resizing` | the loop of `setCapacity` |

`Acquire` is `run` up to its await, `Enter` the continuation. The function's answer
(`Answer`) may be handled among microtasks; the cap (`Cap`) and `setCapacity` are
macrotasks and wait until no grant is pending. A caller that ignores its signal
(`Deaf`) runs on after the cap, outside the gate.

### HostPool and the code

| TLA+ | code |
|---|---|
| `hosts`, `busy`, `intentional`, `exits`, `breaker`, `stopped` | fields of `HostPool`; `exits` counts the recent ones |
| `size` | `opts.size`, chosen when the pool is built |
| `proc` | the life of each child, which the pool learns of by messages |
| `call`, `at` | how far `dispatch` has come, and with which host |
| `aborted`, `timers` | its signal, and the grace timer of `onAbort` with the host it will kill |
| `bodies`, `answers` | posted work, and results in the pipe |

A call is `acquired` between `acquire` and the code after its await. Other
dispatches may fall into that gap, events of processes and timers may not
(`Quiet`). `Room` is the comparison `acquire` makes before it spawns, `Refused` the
case in which it throws. `Exit` is the exit handler: the pool forgets the host, every dispatch
bound to it fails, the breaker counts what nobody killed.

### CloseGuard and the code

| TLA+ | code |
|---|---|
| `phase`, `decided` | the variables of that name |
| `asking`, `closing`, `wasRunning` | `askingWindowId`, `closingWindowId`, `queueWasRunning` |
| `intent` | `setQuitIntent`, by which the MCP server refuses writes |
| `owner` | tokens of `trackBusy`, by window; `None` after `forgetWindow` |
| `inFlight`, `running` | the queue's `inFlightCount()` (as a set) and `isRunning()` |
| `doomed`, `pending` | what `setImmediate` of `quitNow` will destroy, or quit |
| `quitting`, `leaving` | Electron's round of closes after a quit that was let through |
| `hostsDown` | `hostPool.shutdown`, by `killHosts` on every before-quit |

`Close` and `BeforeQuit` are the one handler `guard`, called for a window and for
the app. `GoesThrough` collects its early returns, `Held` what follows
`preventDefault`.

### Bounds

`MaxRuns` caps the rows of `stage_run` (a claim needs room for one), `MaxOps` the
user's operations, `MaxCrashes` the crashes, `MaxWorld` the changes of what a
fingerprint hook reads. `MaxAttempts` is the code's constant. It is 2 in `progress`
and in the runs of the findings that need a second attempt, and 1 elsewhere: every
job meets the ceiling, and the states saved pay for a changed input or a third
stage. `CHECK_DEADLOCK` is
off: a queue with nothing to do stops, as does one whose bounds are used up.

The other three modules have no counters to bound: their state is finite for finite
sets of callers, calls and processes, or windows and tasks. Deadlock is checked for
the gate, which never stops; a pool that is shut down may, and so does an app that
has gone.

## Runs

| run | instance | shows |
|---|---|---|
| `pipeline` | one project, two stages, every outcome but `skipped`, 1 user operation, 1 crash, 1 changed input | types, output goes with its run, no row that runs with nobody behind it, and `BackingInvariant`, the invariant of the proofs about both tables |
| `operations` | three stages, two user operations, success and refusal, 4 runs | done jobs are backed by a run, owners can be aborted, cancels stick, destroyed output is scheduled, and what was derived from it goes too |
| `two_projects` | two projects sharing a document stage, one user operation | the two inductive invariants of fences and controllers, that a job displaced by another project's files nothing, and that `CurrentRuns` is implemented |
| `progress` | three stages, fairness, retryable failures, 1 crash, 7 runs | queued work is taken up, running rows end, starting frees all the doomed |
| `gate` | four callers, one deaf to its signal, capacity 1 to 3 | no slot lost, held by nobody or idle beside a waiter; the entry check never refuses; `AdmissionLine` is implemented; everybody in the line is served |
| `hosts` | two dispatches, one with a grace period, a pool of one or of two, three processes, breaker at two | every dispatch is settled, only a full pool refuses, hosts never outnumber calls, kills are wanted, only crashes are counted, a cancel ends |
| `guard` | two windows, two analyses, one queue job, macOS or not | questions can be answered, waits end, a queue is restarted only after a pause of the prompt's own, the MCP server is told, nothing is lost unasked, a decided quit happens |
| `zombie`, `dead_blocker`, `stale_lease`, `stranded_output`, `kept_session` | see Findings | a comment the code does not keep |

Two stages suffice for the one-hop relations (a dependent and its blocker, a run
and its consumer); three in `progress` and `operations` make the transitive ones,
the doomed and the cascade, differ from one hop. Three runs are a first, its replacement and a run of the other stage, and one
more where two projects share. `skipped`
settles as `succeeded` does and differs only in owning no output, which the proofs
cover. `progress` has `MaxRuns` at the claims its attempts
and the refund of one crash allow (three jobs twice, and one more), so the bound
never starves a queued job.

In `gate`, four callers and a capacity that moves between one and three give a
raise that lets several in at once, a reduction below the slots that are held, and a
line of two behind them. In `hosts`, two calls meet on one host or on two, one may be
cancelled while the other runs there, and the third process is the one left over
by a failed spawn or still dying while its place is taken; two crashes open the
breaker, one does not. The pool is built for two hosts, a budget within the size as
by default, or for one, a budget above it as a user may set: calls are then
refused, and two spawns of one tick take the pool over its size. In `guard`, two windows are the least at which a close is
about one of several, a question can move, and a window can go while another is
asked about; two analyses make one land while another runs.

Properties were chosen to relate the two tables, or a state to an earlier one.
Each is shown to be about the code by a mutant: a plausible slip in one mapped
definition that the same run refutes.

`FenceInvariant`, `AbortInvariant`, `BackingInvariant`, `GateInvariant` and
`PoolInvariant` are the inductive invariants of the proofs; the runs check them before
the provers are asked. That of the guard, `GuardInvariant`, is the invariants of the
run `guard` with two conjuncts only its proof needs, and has no line in the run. `OneCurrentRun` and
`OpenFenceIsCurrent` have no line of their own in a run: the first is a conjunct of
`FenceInvariant`, the second follows from `Holds` in it.

`AdmissionLine` states what callers may rely on: an arrival joins at the back,
entry is from the front and below the limit, a caller may leave the line or its
place inside, the limit may move. It knows neither slots nor tokens nor wakings. The
mapping takes the line to be the woken followed by the waiting, and the holders to be
those inside; a slot handed on is then a step the abstraction does not see.

`CurrentRuns` states what a reader of `stage_run` may rely on: a slot is vacant or
shows one run; it is taken open by a run with a new number, filed or failed once by
the run that holds it, and cleared by whoever retires that run. It knows no jobs,
executions, epochs or crashes. `Held` maps it, a slot read as `currentRun` reads it
(the model's `CHOOSE` stands for the first row of a query without an order, and
`OneCurrentRun` is why that does no harm). `FinalIsFinal` is what follows for the reader: what a slot
says of an ended run does not change while it shows that run, and a run that lost
the slot never shows in it again.

`NoZombieJob` is an invariant of one project and refuted for two: that is a
finding, and the same definition is used in both runs. `DoneIsBacked` is checked for
one project too, and is false for two, by the sharing again: see below.

## Fairness

`FairSpec` assumes what the program itself keeps doing: an open macrotask
continues; after boot `start` is called; the running tick claims or retires what
is claimable; a backoff ends; and every stage body returns, for every job. The
last is what the stages' wall clocks, the gate's cap and the pool's kill timer are
for. It is weak fairness throughout: each action stays enabled until it happens,
as a tick does not lose a claimable job except by another action that ends its
wait. Nothing obliges the user to act or the process to crash, and a stopped queue
need never be started again, which is why `QueuedIsTakenUp` excuses it.

`LlmGate`: microtasks run (`Enter`) and the loop of `setCapacity` ends (`Resize`),
both weakly. The cap is a timer: once due it fires at the latest when the event loop
comes round to it, however many microtasks come between, so it is strong. Nothing is
assumed of the functions, so `Served` rests on the cap alone.

`HostPool`: `Advance(c)` is what moves a cancelled dispatch on: its own
microtask, the ready message or the timer of its spawn, its grace timer, the exit of
its host. Strong, for these wait while another dispatch is `acquired` and are not
lost by it. Nothing is assumed of bodies.

`CloseGuard`: the `setImmediate` of `quitNow` runs, and Electron closes the
windows of a quit it was allowed. Nobody need ever answer a question.

## Proofs

tlapm checks everything below for arbitrary constants. Those of the queue satisfy
`ConstantAssumption` (the types of the registry's functions, `MaxAttempts` at
least 1): any number of projects, jobs, slots, runs, operations and crashes, any
dependency graph, cyclic ones too.

- `TypeCorrect` (`Spec => []TypeOK`). By row: each write (`Claimed`, `Settled`,
  `Resumed`, ...) takes a row to a row, in particular `attempts` never passes the
  ceiling; then by action.
- `FencesHold` (`Spec => []FenceInvariant`). `OneCurrentRun` is not inductive:
  `beginRun` inserts at the claim's epoch, and a re-run between claim and commit may
  have retired the row. What makes it so is `Holds`: whoever holds a run holds one
  whose epoch has not fallen behind, and if the epochs agree and the run is still
  running then it is current. The lemmas state that every action takes each row
  forward (`MovesOn`): epochs do not shrink, a retired row never returns, and it
  keeps its fence only if it is not running. `OneCurrentRunHolds`,
  `OpenFenceHolds`, `OutputRetired` and `NothingLands` follow.
- `AbortsHold` (`Spec => []AbortInvariant`). An execution is the only one of its
  claim, no claim is from the future, and a running row's controller is that of the
  execution that owns it. Claims raise the job's epoch, everything else leaves it
  or raises it (`GoesOn`), and no other step starts a row running. Without the
  uniqueness of executions it is not inductive: the clean-up of one execution would
  take the controller of another with the same claim. `OwnersCanBeAborted` follows.
- `CancelsStick` (`Spec => CancelSticks`), by the writes: those of the queue keep
  the mark of a cancelled row, those the user asks for keep it or forget the run.
- `DerivedAlwaysGoes` and `StartAlwaysFrees`. Both are about a fixed point over a
  graph that need not be acyclic: `Cascade` and `Doomed` are the intersection of all
  closed sets, and the lemmas (`CascadeIsClosed`, `DoomedIsClosed`) say that the
  intersection is closed. That is all either needs, so neither is an induction.
- `CancelsStayExplained`: a cancelled row is marked by the user or by the cascade.

The next ones are about both tables at once, and are not true of every instance. They
have hypotheses:

| hypothesis | says | why it is needed |
|---|---|---|
| `OneJobPerSlot` | no two jobs share a slot of `stage_run` | `zombie`: the other project's `beginRun` displaces an execution whose job it does not know |
| `OneSlotPerStage` | a stage has one slot | `retry` takes back the newest verdict of the stage, whichever slot it is of |
| `OneProject` | one project | the plan of a re-run reaches the projects it finds, not those that share a run with them |

A paper in one project without fan-out satisfies all three, with any number of
stages, any graph, any operations and crashes: it is what `MCJobQueue` builds for one
project, so the runs `pipeline` and `operations` have states that satisfy them.
For `DestroyedIsScheduled` TLC has no counterexample with two projects within the
bounds it finishes; the argument below does use the hypothesis.

- `ServingHolds` (`OneJobPerSlot`). `NoZombieJob` speaks of moments between
  macrotasks and is far from inductive. `Served` extends it into them: a running row
  is in the hands of the macrotask that claimed it (`InHand`) or of an execution
  whose commit would count (`Serves`). To keep that, whoever moves a run's fence must
  also move its job: so a run that has an open execution, or output, is the one its
  job points to, or the pointer was dropped (`OwnersKnown`), and pointers, executions
  and macrotasks are about the job's own slot (`PointersFit`, `MidFits`).
  `RowsTouched` lists every way a step may write a row of `stage_run`, `JobsRewritten`
  the same for a job. `NoZombies` follows.
- `BackingHolds` (all three) adds that a done job stands on a current run that
  succeeded or was skipped, inside a macrotask too. The step that could break it
  is a retirement: `beginRun` retires only when the job of the slot is running,
  not done; `retry` and `cancel` rewrite the job of the slot; a re-run requeues or
  plans it. `DoneStaysBacked` follows.
- `DestroyedStaysScheduled` (`OneJobPerSlot`, `OneProject`). The job of a run with
  output points to it and is requeued as an owner, or its pointer was dropped; then
  the plan of the same transaction arms it, unless it is cancelled. If the
  cascade cancelled it, its blocker is a job of the project and the revival reaches
  it (`CancelsExplained`); if the user did, that is the exception the property names.

The refinement of `CurrentRuns` holds for every instance, shared slots included:

- `ReadersAreKept` (`Spec => KeepsCurrentRuns`), from the fences. `OneCurrentRun`
  makes `Held` well defined on both sides of a step. `BeginRun` opens its slot
  (`BeginOpens`); a commit files the run of its slot because the fence is open only
  for the current one (`CommitFiles`); `FailRun` fails a run that is still current
  and is invisible otherwise (`FailFails`); every other step leaves each row as it was
  or retires it, which clears slots (`RetiringClears`).
- `FinalStays` (`Spec => Readers!FinalIsFinal`), from that, and from the fact that the
  number a slot shows is one that was given.

The gate, from `LlmGateAssumption` (finitely many callers, capacities positive):

- `GateHolds` (`Spec => []GateInvariant`). That a slot is held by a run which
  gives it back is not inductive alone. It needs that a caller has one place
  (`OnePlace`: no duplicates in the line or among the woken, nobody both waiting and
  owning), that the counter counts those inside, and that the capacity is not below
  the slots while a grant is pending (`Counts`), which holds because `setCapacity` is
  a macrotask. The lemmas are about the three shapes a release takes: handed on to
  an open waiter, or freed. `SlotsStayHeld`, `SlotsAreUsed`, `OutsidersTold` and
  `NobodyRefused` follow; the last says that the entry check, and the branch that
  lowers a counter nobody raised, is dead code.
- `GateKeepsLine` (`Spec => KeepsTheLine`, the refinement). By action: `Acquire` is an
  arrival (at the back, also when it is woken at once, for then nobody waits),
  `Enter` an entry, `Answer` and `Cap` departures, whose hand-over only moves the
  boundary between woken and waiting, and the rest stutters.

The pool, from `HostPoolAssumption` (finitely many calls, any sizes, nothing about
which is larger):

- `PoolHolds` (`Spec => []PoolInvariant`). `RunningIsServed` needs to know where
  every dispatch is and what state its process is in (`CallsOk`, `ProcsOk`), in
  particular that a grace timer belongs to a running, aborted dispatch at the host it
  will kill. `PoolBounded` holds because a spawn happens only when every host is
  busy: busy hosts and starting ones each have a dispatch of their own
  (`MarksOk`, `ProcsOk`), and the dispatch that spawns is one more, so by
  cardinalities the pool has at most as many hosts as there are calls
  (`PoolStaysBounded`), be that within its size or not.
- `RefusalsAreOverbooking` (`RefusedOnlyWhenFull`) counts the other way: when `acquire`
  throws there are `size` hosts or more, all busy, and each busy host has a
  running dispatch of its own. `BudgetWithinSizeIsServed` is the corollary under an
  explicit hypothesis, a budget within every size: then nothing is ever refused.
- `KillsAreWanted` and `CrashesCounted` are action theorems from that invariant: a
  timer that fires finds its call running, and what dies by a kill is marked until
  its exit, or the pool is shut down.

The guard, from `CloseGuardAssumption` (the two null values are not windows):

- `GuardHolds` (`Spec => []GuardInvariant`). The conjuncts lean on each other: a
  drain commits at once only because the phase ends with the decision, and a question
  moves with its window only if its scope is that window. `QuestionsAnswerable`,
  `WaitsEnd`, `QuitsAnnounced` follow.
- `QueueRestored` (`OnlyOurPauseIsUndone`) is an action theorem from the conjunct
  `AskingRemembers`: while a question is being asked, what it would restore is the
  queue as it is, so only a wait has something to undo, and what that remembers
  is the queue at the moment the user chose to wait.
- `LossIsAsked` (`NoUnaskedLoss`): the app ends with work in progress only after a
  decision, at the end of the session, with no window left to ask, or in the case
  described under "Seen, without a run".

Only model-checked: `QueuedIsTakenUp`, `RunningEnds`, `Served` of the gate,
`GoesWhenTold` and `CancelIsReal`, which are liveness or leads-to under fairness and
out of the prover's reach. `NoZombieJob` and `DoneIsBacked` beyond their hypotheses
are not invariants. The properties of the five findings are refuted, not proved.

## Findings

Five statements of the source's own comments that the code does not keep, each
with a run TLC refutes; `PROJECT.json` quotes the comments.

- `zombie`: in two projects that share a document stage, the second job's
  `beginRun` fences out the first job's execution, which then settles nothing; its
  row stays running.
- `dead_blocker`: three ways a job dies in a live process (a throw at the ceiling,
  writes that fail at the ceiling, a claim at the ceiling) do not cancel its
  dependents.
- `stale_lease`: `resumePending` leaves the expiry of the previous life on a row
  that is claimed again, which may then be reclaimed before its first heartbeat.
- `stranded_output`: `retry` clears the pointer by which a later re-run finds a
  run's owner; if the job was cancelled meanwhile, its output is destroyed and
  nothing is scheduled.
- `kept_session`: `killHosts` shuts the host pool down for good on every
  before-quit, also on one the guard prevents; a session the user then keeps has no
  stage hosts.

Two more comments are not kept. They have no refuted run; the property of a passing
one names how far the code goes.

- `closeGuard.ts:303`: "A user who paused it from the Queue screen while the prompt was
  open must not find it running again." `noteQueueRunStateChanged` (338) notes a pause
  only while the question is being asked. One made while the app finishes is not
  noted, and a cancel then restarts the queue (319). `OnlyOurPauseIsUndone` in `guard`
  allows just this.
- `host/pool.ts:281`: a saturated pool "means it dispatched more than the pool is sized
  for, which is a bug worth hearing about". It is a setting: the local budget may be
  set to eight (`queueSettings.ts:62`) while the pool keeps two hosts, and the
  dispatches beyond them fail and burn attempts. As `acquire` does not count hosts
  that are starting, one tick may also spawn past the size, though never past the
  budget. `RefusedOnlyWhenFull` and `PoolBounded` in `hosts` cover both cases.

### Seen, without a run

Met while modelling, each at its line, and left without a run because no statement of
the source stands against it or because it needs what the models leave out. The
first five are behaviours of `CloseGuard` as it stands.

- `closeGuard.ts:438`: a question about one of two windows stands, the other closes,
  the answer is "now": the window is destroyed as the last one and the app ends
  with queue jobs nobody was asked about. `NoUnaskedLoss` names the case.
- `closeGuard.ts:260`: a question that is asking hears when queue jobs end but
  not when direct analyses do, and stands announcing nothing.
- `closeGuard.ts:398`: on macOS the last window closes, the app lives on and the
  intent stays raised, so the MCP server refuses writes.
- `closeGuard.ts:438` again: while the app waits to finish, a close of one of several
  windows is answered for that window alone; the wait for the quit is forgotten
  and the queue, which it stopped, stays stopped.
- `closeGuard.ts:419`: a quit whose focused window has crashed is let through though
  another window could ask.
- `scheduler.ts:2190`: two projects share a document stage that was skipped; the
  second cancels and retries its own job, and the verdict that goes is the one the
  first one's done job stands on, which stays done with no current run (TLC refutes
  `DoneIsBacked` on two projects with `skipped`, in ten steps). With slots of their
  own the verdict may be the other project's, and the retried job finds its own still
  cached.
- `pipeline/stages/retrieve.ts:247`: the function given to the retrieval gate
  listens to the caller's signal, not the gate's, so it is deaf in the sense of
  `LlmGate`: after the cap two retrievals may run.
- `settings-transfer/catalog.ts:207`: imported queue limits are written but not
  applied to the running gate.
- `host/pool.ts:277`: two dispatches on one host share its fate: the cancel of one
  kills the other, which fails, retryably, at the price of an attempt.
- `host/pool.ts:234`: a spawn that times out leaves its process alive and unowned
  (`orphan` in the model); an exit before ready is not counted by the breaker.

## Not modelled, and the plan

Of the queue: `sweepOrphans`, the corpus sweeps, `replanProjectStage`,
`forceRerun` and `forceRerunSweep`, stages that were never planned, fan-out keys,
failing writes in `settle`, several documents per paper. Of the pool: the sweep of a
dead instance's hosts, run files, the size check of an envelope, the relay of model
calls. Of the guard: what is pushed to the renderer, the flush of settings, the
switch for headless runs.

Of the rest: nearly all of the repository's lines are the renderer, the IPC
contract, SQL statements and migrations, prompts, parsers and calls to external
services. They keep no state between calls that two actors could disagree about, and
a model of them would restate them. The share of lines the models cover is small for
that reason.

In order:

1. `CorpusSweeps`: wake, debounce, generation and re-arm beside a small queue; no
   change is lost; with `forceRerunSweep`.
2. `WriteLock`: the reference count and the hand-over of a library file, and with it
   failing writes in `settle`.
3. In `JobQueue`: fan-out keys and their reconciliation; then `replanProjectStage`.
4. Proofs: `ServingInvariant` for shared slots with the zombies named as the
   exception; `DestroyedIsScheduled` for several projects, from which project's plan
   reaches which slot.
