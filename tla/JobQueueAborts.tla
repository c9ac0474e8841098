--------------------------- MODULE JobQueueAborts ---------------------------
(***************************************************************************)
(* The generations of a job, for every set of jobs and projects: only a    *)
(* claim makes a row run, each claim has an epoch of its own, and the      *)
(* abort controller of a running row is that of its latest claim.          *)
(***************************************************************************)
EXTENDS JobQueueProofs

\* What may become of a row in a step that is not a claim.
GoesOn(old, new) ==
  /\ old.epoch <= new.epoch
  /\ new.status = "running" /\ new.epoch = old.epoch => old.status = "running"
  /\ new.status = "absent" => old.status = "absent" /\ new.epoch = old.epoch

-----------------------------------------------------------------------------
(* One row *)

LEMMA StaysAsItIs ==
  ASSUME NEW row \in JobRow
  PROVE  GoesOn(row, row)
BY SMT DEF GoesOn, JobRow

\* Whatever keeps the epoch and neither starts the row nor forgets it.
LEMMA SameGeneration ==
  ASSUME NEW old \in JobRow, NEW new, new.epoch = old.epoch,
         new.status = old.status \/ new.status \notin {"running", "absent"}
  PROVE  GoesOn(old, new)
BY SMT DEF GoesOn, JobRow

LEMMA NextGeneration ==
  ASSUME NEW old \in JobRow, NEW new, new.epoch = old.epoch + 1, new.status # "absent"
  PROVE  GoesOn(old, new)
BY SMT DEF GoesOn, JobRow

LEMMA GoesOnTwice ==
  ASSUME NEW a \in JobRow, NEW b \in JobRow, NEW c \in JobRow, GoesOn(a, b), GoesOn(b, c)
  PROVE  GoesOn(a, c)
<1>1. a.epoch \in Nat /\ b.epoch \in Nat /\ c.epoch \in Nat
  BY Zenon DEF JobRow
<1>2. a.epoch <= c.epoch /\ (c.epoch = a.epoch => b.epoch = a.epoch /\ c.epoch = b.epoch)
  BY <1>1, SMT DEF GoesOn
<1> QED
  BY <1>2, Zenon DEF GoesOn

LEMMA ExhaustedGoesOn ==
  ASSUME NEW row \in JobRow
  PROVE  GoesOn(row, Exhausted(row))
<1>1. Exhausted(row).epoch = row.epoch /\ Exhausted(row).status = "failed"
  BY Zenon DEF Exhausted, JobRow
<1> QED
  BY <1>1, SameGeneration, SMT

LEMMA SettledGoesOn ==
  ASSUME NEW row \in JobRow, NEW verdict, NEW attempts
  PROVE  GoesOn(row, Settled(row, verdict, attempts))
<1>1. /\ Settled(row, verdict, attempts).epoch = row.epoch
      /\ Settled(row, verdict, attempts).status = SettledStatus(verdict, attempts)
  BY Zenon DEF Settled, JobRow
<1>2. SettledStatus(verdict, attempts) \notin {"running", "absent"}
  BY SMT DEF SettledStatus
<1> QED
  BY <1>1, <1>2, SameGeneration, Zenon

LEMMA OrphanedGoesOn ==
  ASSUME NEW row \in JobRow
  PROVE  GoesOn(row, Orphaned(row))
<1>1. /\ Orphaned(row).epoch = row.epoch
      /\ Orphaned(row).status = row.status \/ Orphaned(row).status = "cancelled"
  BY Zenon DEF Orphaned, JobRow
<1> QED
  BY <1>1, SameGeneration, SMT

LEMMA PlannedGoesOn ==
  ASSUME NEW row \in JobRow, row.status = "absent" => row.epoch = 0
  PROVE  GoesOn(row, Planned(row))
<1>1. /\ row.status # "absent" => Planned(row).epoch = row.epoch
      /\ Planned(row).status = row.status \/ Planned(row).status = "queued"
  BY SMT DEF Planned, JobRow, NewRow
<1>2. row.status = "absent" => Planned(row).epoch = 0
  BY SMT DEF Planned, NewRow
<1> QED
  BY <1>1, <1>2, SameGeneration, SMT

LEMMA RequeuedGoesOn ==
  ASSUME NEW row \in JobRow
  PROVE  /\ GoesOn(row, Requeued(row)) /\ GoesOn(row, Revived(row))
         /\ GoesOn(row, Reclaimed(row)) /\ GoesOn(row, Dismissed(row))
<1>1. Requeued(row).epoch = row.epoch + 1 /\ Requeued(row).status = "queued"
  BY Zenon DEF Requeued, JobRow
<1>2. Revived(row).epoch = row.epoch + 1 /\ Revived(row).status = "queued"
  BY Zenon DEF Revived, JobRow
<1>3. Reclaimed(row).epoch = row.epoch + 1 /\ Reclaimed(row).status = "queued"
  BY Zenon DEF Reclaimed, JobRow
<1>4. Dismissed(row).epoch = row.epoch + 1 /\ Dismissed(row).status = "cancelled"
  BY Zenon DEF Dismissed, JobRow
<1> QED
  BY <1>1, <1>2, <1>3, <1>4, NextGeneration, SMT

LEMMA RetriedGoesOn ==
  ASSUME NEW row \in JobRow
  PROVE  GoesOn(row, Retried(row)) /\ GoesOn(row, Unblocked(row))
<1>1. Retried(row).epoch = row.epoch /\ Retried(row).status = "queued"
  BY Zenon DEF Retried, JobRow
<1>2. /\ Unblocked(row).epoch = row.epoch
      /\ Unblocked(row).status = row.status \/ Unblocked(row).status = "queued"
  BY Zenon DEF Unblocked, JobRow
<1> QED
  BY <1>1, <1>2, SameGeneration, SMT

LEMMA ResumedGoesOn ==
  ASSUME NEW row \in JobRow
  PROVE  GoesOn(row, Resumed(row))
<1>1. /\ Resumed(row).epoch = row.epoch
      /\ Resumed(row).status = row.status \/ Resumed(row).status \in {"cancelled", "failed", "queued"}
  BY Zenon DEF Resumed, JobRow
<1> QED
  BY <1>1, SameGeneration, SMT

LEMMA TouchedGoesOn ==
  ASSUME NEW row \in JobRow, NEW x
  PROVE  /\ GoesOn(row, [row EXCEPT !.run = x]) /\ GoesOn(row, [row EXCEPT !.lease = x])
         /\ GoesOn(row, [row EXCEPT !.waiting = x]) /\ GoesOn(row, [row EXCEPT !.owner = x])
<1>1. \A new \in {[row EXCEPT !.run = x], [row EXCEPT !.lease = x], [row EXCEPT !.waiting = x],
                  [row EXCEPT !.owner = x]} : new.epoch = row.epoch /\ new.status = row.status
  BY Zenon DEF JobRow
<1> QED
  BY <1>1, SameGeneration, Zenon

-----------------------------------------------------------------------------
(* Every row *)

LEMMA ReclaimedGoesOn ==
  ASSUME job \in [Job -> JobRow], ReclaimExpiredLeases, NEW k \in Job
  PROVE  GoesOn(job[k], job'[k])
<1>1. job[k] \in JobRow /\ job'[k] = IF k \in Expired THEN Reclaimed(job[k]) ELSE job[k]
  BY Zenon DEF ReclaimExpiredLeases
<1> QED
  BY <1>1, StaysAsItIs, RequeuedGoesOn, Zenon

LEMMA StartGoesOn ==
  ASSUME job \in [Job -> JobRow], Start, NEW k \in Job
  PROVE  GoesOn(job[k], job'[k])
<1>1. job[k] \in JobRow /\ Resumed(job[k]) \in JobRow /\ Orphaned(Resumed(job[k])) \in JobRow
  BY ResumedType, OrphanedType, Zenon
<1>2. job'[k] = Resumed(job[k]) \/ job'[k] = Orphaned(Resumed(job[k]))
  BY Zenon DEF Start
<1> QED
  BY <1>1, <1>2, ResumedGoesOn, OrphanedGoesOn, GoesOnTwice, Zenon

\* The rewriting of a re-run and of a reprocess: requeue, plan, revive.
LEMMA ReplannedGoesOn ==
  ASSUME NEW row \in JobRow, row.status = "absent" => row.epoch = 0,
         NEW a, a = row \/ a = Requeued(row),
         NEW b, b = a \/ b = Planned(a),
         NEW c, c = b \/ c = Revived(b)
  PROVE  GoesOn(row, c)
<1>1. a \in JobRow /\ GoesOn(row, a)
  BY RequeuedType, RequeuedGoesOn, StaysAsItIs, Zenon
<1>2. a.status = "absent" => a.epoch = 0
  BY <1>1, Zenon DEF GoesOn
<1>3. b \in JobRow /\ GoesOn(a, b)
  BY <1>1, <1>2, PlannedType, PlannedGoesOn, StaysAsItIs, Zenon
<1>4. c \in JobRow /\ GoesOn(b, c)
  BY <1>3, RevivedType, RequeuedGoesOn, StaysAsItIs, Zenon
<1> QED
  BY <1>1, <1>3, <1>4, GoesOnTwice, Zenon

\* The rows of a step that is not a claim.
LEMMA JobsGoOn ==
  ASSUME TypeOK, AbortInvariant, [Next]_vars, ~Claim
  PROVE  \A k \in Job : GoesOn(job[k], job'[k])
<1> SUFFICES ASSUME NEW k \in Job PROVE GoesOn(job[k], job'[k])
  OBVIOUS
<1>0. /\ job \in [Job -> JobRow] /\ job[k] \in JobRow
      /\ job[k].status = "absent" => job[k].epoch = 0
  BY Zenon DEF TypeOK, AbortInvariant
<1>1. CASE job' = job
  BY <1>0, <1>1, StaysAsItIs, Zenon
<1>2. CASE RetireExhausted
  <2>1. job'[k] = job[k] \/ job'[k] = Exhausted(job[k])
    BY <1>0, <1>2, Zenon DEF RetireExhausted
  <2> QED
    BY <1>0, <2>1, StaysAsItIs, ExhaustedGoesOn, Zenon
<1>3. CASE AnswerFromCache \/ Execute \/ Throw
  <2>1. job' = job \/ \E r : job' = Pointing(r)
    BY <1>3, Zenon DEF AnswerFromCache, Execute, Throw
  <2>2. job'[k] = job[k] \/ \E r : job'[k] = [job[k] EXCEPT !.run = r]
    BY <1>0, <2>1, ZenonT(40) DEF Pointing
  <2> QED
    BY <1>0, <2>2, StaysAsItIs, TouchedGoesOn, ZenonT(40)
<1>4. CASE Settle
  <2>1. job'[k] = job[k] \/ job'[k] = Settled(job[k], mid.verdict, mid.attempts)
    BY <1>0, <1>4, Zenon DEF Settle
  <2> QED
    BY <1>0, <2>1, StaysAsItIs, SettledGoesOn, Zenon
<1>5. CASE CancelDependents
  <2>1. job'[k] = job[k] \/ job'[k] = Orphaned(job[k])
    BY <1>5, Zenon DEF CancelDependents
  <2> QED
    BY <1>0, <2>1, StaysAsItIs, OrphanedGoesOn, Zenon
<1>6. ASSUME NEW e \in execs, Heartbeat(e) PROVE GoesOn(job[k], job'[k])
  <2>1. job'[k] = job[k] \/ \E x : job'[k] = [job[k] EXCEPT !.lease = x]
    BY <1>0, <1>6, Zenon DEF Heartbeat
  <2> QED
    BY <1>0, <2>1, StaysAsItIs, TouchedGoesOn, ZenonT(40)
<1>7. ASSUME NEW j \in Job, LeaseLapses(j) \/ BackoffElapses(j) PROVE GoesOn(job[k], job'[k])
  <2>1. CASE LeaseLapses(j)
    <3>1. job'[k] = job[k] \/ \E x : job'[k] = [job[k] EXCEPT !.lease = x]
      BY <1>0, <2>1, Zenon DEF LeaseLapses
    <3> QED
      BY <1>0, <3>1, StaysAsItIs, TouchedGoesOn, ZenonT(40)
  <2>2. CASE BackoffElapses(j)
    <3>1. job'[k] = job[k] \/ \E x : job'[k] = [job[k] EXCEPT !.waiting = x]
      BY <1>0, <2>2, Zenon DEF BackoffElapses
    <3> QED
      BY <1>0, <3>1, StaysAsItIs, TouchedGoesOn, ZenonT(40)
  <2> QED
    BY <1>7, <2>1, <2>2
<1>8. CASE Crash
  <2>1. \E x : job'[k] = [job[k] EXCEPT !.owner = x]
    BY <1>8, Zenon DEF Crash
  <2> QED
    BY <1>0, <2>1, TouchedGoesOn, Zenon
<1>9. ASSUME NEW p, Plan(p) \/ Reprocess(p) PROVE GoesOn(job[k], job'[k])
  <2>1. \E b, c : /\ b = job[k] \/ b = Planned(job[k])
                  /\ c = b \/ c = Revived(b)
                  /\ job'[k] = c
    <3>1. CASE Plan(p)
      BY <3>1, Zenon DEF Plan
    <3>2. CASE Reprocess(p)
      BY <3>2, Zenon DEF Reprocess
    <3> QED
      BY <1>9, <3>1, <3>2
  <2> QED
    BY <1>0, <2>1, ReplannedGoesOn, Zenon
<1>10. ASSUME NEW p, NEW S, Rerun(p, S) PROVE GoesOn(job[k], job'[k])
  <2>1. \E a, b, c : /\ a = job[k] \/ a = Requeued(job[k])
                     /\ b = a \/ b = Planned(a)
                     /\ c = b \/ c = Revived(b)
                     /\ job'[k] = c
    BY <1>10, Zenon DEF Rerun
  <2> QED
    BY <1>0, <2>1, ReplannedGoesOn, Zenon
<1>11. ASSUME NEW j \in Job, Retry(j) \/ Cancel(j) PROVE GoesOn(job[k], job'[k])
  <2>1. \/ job'[k] = job[k] \/ job'[k] = Retried(job[k]) \/ job'[k] = Unblocked(job[k])
        \/ job'[k] = Dismissed(job[k])
    BY <1>0, <1>11, Zenon DEF Retry, Cancel
  <2> QED
    BY <1>0, <2>1, StaysAsItIs, RetriedGoesOn, RequeuedGoesOn, Zenon
<1> QED
  <2>1. \/ job' = job \/ RetireExhausted \/ AnswerFromCache \/ Execute \/ Throw \/ Settle
        \/ CancelDependents \/ ReclaimExpiredLeases \/ Start \/ Crash
        \/ \E e \in execs : Heartbeat(e)
        \/ \E j \in Job : LeaseLapses(j) \/ BackoffElapses(j) \/ Retry(j) \/ Cancel(j)
        \/ \E p : Plan(p) \/ Reprocess(p)
        \/ \E p, S : Rerun(p, S)
    BY Zenon DEF Next, vars, Macrotask, BeginRun, FailRun, Returns, Abandon, Commit, ApplyFails,
       Stop, User, RerunStage, ReprocessForced, WorldChanges
  <2> QED
    BY <1>0, <1>1, <1>2, <1>3, <1>4, <1>5, <1>6, <1>7, <1>8, <1>9, <1>10, <1>11, <2>1,
       ReclaimedGoesOn, StartGoesOn, Zenon

-----------------------------------------------------------------------------
(* Every execution *)

Busy == {"claimed", "begun", "settling"}

\* Every step but Execute keeps some executions, with what a clock or an abort
\* marks on them; none changes the claim it is for.
LEMMA ExecutionsStay ==
  ASSUME TypeOK, [Next]_vars, ~Execute
  PROVE  \/ execs' \subseteq execs
         \/ \E g \in execs : execs' = (execs \ {g}) \cup {[g EXCEPT !.silent = FALSE]}
         \/ \E j \in Job : execs' = {[e EXCEPT !.silent = @ \/ e.job = j] : e \in execs}
         \/ \E S : execs' = Aborted(S)
BY Zenon DEF Next, vars, Claim, RetireExhausted, Macrotask, AnswerFromCache, BeginRun, Throw,
   Settle, FailRun, CancelDependents, Returns, Abandon, Commit, ApplyFails, Heartbeat, LeaseLapses,
   BackoffElapses, ReclaimExpiredLeases, Start, Stop, Crash, User, Plan, Reprocess, RerunStage,
   ReprocessForced, Rerun, Retry, Cancel, WorldChanges

SameClaim(e, f) == e.job = f.job /\ e.epoch = f.epoch

LEMMA MarksKeepTheClaim ==
  ASSUME NEW e \in Execution, NEW x
  PROVE  SameClaim([e EXCEPT !.silent = x], e) /\ SameClaim([e EXCEPT !.aborted = x], e)
BY Zenon DEF Execution, SameClaim

LEMMA ExecutionsCarry ==
  ASSUME TypeOK, [Next]_vars, ~Execute
  PROVE  \A d \in execs' : \E f \in execs : SameClaim(d, f)
<1> SUFFICES ASSUME NEW d \in execs' PROVE \E f \in execs : SameClaim(d, f)
  OBVIOUS
<1>0. execs \subseteq Execution
  BY Zenon DEF TypeOK
<1>1. CASE execs' \subseteq execs
  BY <1>1, Zenon DEF SameClaim
<1>2. ASSUME NEW g \in execs, execs' = (execs \ {g}) \cup {[g EXCEPT !.silent = FALSE]}
      PROVE  \E f \in execs : SameClaim(d, f)
  <2>1. d \in execs \/ \E x : d = [g EXCEPT !.silent = x]
    BY <1>2, Zenon
  <2>2. SameClaim(d, d)
    BY Zenon DEF SameClaim
  <2> QED
    BY <1>0, <2>1, <2>2, MarksKeepTheClaim, Zenon
<1>3. ASSUME NEW j \in Job, execs' = {[e EXCEPT !.silent = @ \/ e.job = j] : e \in execs}
      PROVE  \E f \in execs : SameClaim(d, f)
  <2>1. \E f \in execs : \E x : d = [f EXCEPT !.silent = x]
    BY <1>3, Zenon
  <2> QED
    BY <1>0, <2>1, MarksKeepTheClaim, Zenon
<1>4. ASSUME NEW S, execs' = Aborted(S) PROVE \E f \in execs : SameClaim(d, f)
  <2>1. \E f \in execs : \E x : d = [f EXCEPT !.aborted = x]
    BY <1>4, Zenon DEF Aborted
  <2> QED
    BY <1>0, <2>1, MarksKeepTheClaim, Zenon
<1> QED
  BY <1>1, <1>2, <1>3, <1>4, ExecutionsStay, Zenon

LEMMA ExecutionsAlone ==
  ASSUME TypeOK, AbortInvariant, [Next]_vars
  PROVE  \A d, e \in execs' : SameClaim(d, e) => d = e
<1> SUFFICES ASSUME NEW d \in execs', NEW e \in execs', SameClaim(d, e) PROVE d = e
  OBVIOUS
<1>0. /\ execs \subseteq Execution
      /\ \A f, g \in execs : SameClaim(f, g) => f = g
  BY Zenon DEF TypeOK, AbortInvariant, SameClaim
<1>1. CASE execs' \subseteq execs
  BY <1>0, <1>1, Zenon
<1>2. ASSUME NEW g \in execs, execs' = (execs \ {g}) \cup {[g EXCEPT !.silent = FALSE]}
      PROVE  d = e
  <2> DEFINE h == [g EXCEPT !.silent = FALSE]
  <2>1. SameClaim(h, g)
    BY <1>0, MarksKeepTheClaim, Zenon
  <2>2. \A f \in execs \ {g} : f # h => ~SameClaim(f, h) /\ ~SameClaim(h, f)
    <3> HIDE DEF h
    <3> QED
      BY <1>0, <2>1, Zenon DEF SameClaim
  <2>3. (d \in execs \ {g} \/ d = h) /\ (e \in execs \ {g} \/ e = h)
    BY <1>2, Zenon
  <2> HIDE DEF h
  <2> QED
    BY <1>0, <2>2, <2>3, Zenon
<1>3. ASSUME NEW j \in Job, execs' = {[f EXCEPT !.silent = @ \/ f.job = j] : f \in execs}
      PROVE  d = e
  <2>1. PICK f \in execs : d = [f EXCEPT !.silent = @ \/ f.job = j]
    BY <1>3, Zenon
  <2>2. PICK g \in execs : e = [g EXCEPT !.silent = @ \/ g.job = j]
    BY <1>3, Zenon
  <2>3. SameClaim(d, f) /\ SameClaim(e, g)
    BY <1>0, <2>1, <2>2, MarksKeepTheClaim, Zenon
  <2>4. f = g
    BY <1>0, <2>3, Zenon DEF SameClaim
  <2> QED
    BY <2>1, <2>2, <2>4, Zenon
<1>4. ASSUME NEW S, execs' = Aborted(S) PROVE d = e
  <2>1. PICK f \in execs : d = [f EXCEPT !.aborted = @ \/ (f.job \in S /\ f.epoch = controller[f.job])]
    BY <1>4, Zenon DEF Aborted
  <2>2. PICK g \in execs : e = [g EXCEPT !.aborted = @ \/ (g.job \in S /\ g.epoch = controller[g.job])]
    BY <1>4, Zenon DEF Aborted
  <2>3. SameClaim(d, f) /\ SameClaim(e, g)
    BY <1>0, <2>1, <2>2, MarksKeepTheClaim, Zenon
  <2>4. f = g
    BY <1>0, <2>3, Zenon DEF SameClaim
  <2> QED
    BY <2>1, <2>2, <2>4, Zenon
<1>5. CASE Execute
  <2> DEFINE h == [job |-> mid.job, epoch |-> mid.epoch, run |-> mid.run,
                   attempts |-> mid.attempts, aborted |-> FALSE, silent |-> FALSE]
  <2>1. execs' = execs \cup {h} /\ h.job = mid.job /\ h.epoch = mid.epoch
    BY <1>5, Zenon DEF Execute
  <2> HIDE DEF h
  <2>2. \A f \in execs : ~SameClaim(f, h) /\ ~SameClaim(h, f)
    BY <1>5, <2>1, SMT DEF Execute, AbortInvariant, SameClaim
  <2> QED
    BY <1>0, <2>1, <2>2, Zenon
<1> QED
  BY <1>1, <1>2, <1>3, <1>4, <1>5, ExecutionsStay, Zenon

-----------------------------------------------------------------------------
(* The controller *)

\* Only the end of an execution takes a controller away, and only its own.
LEMMA ControllersStay ==
  ASSUME TypeOK, AbortInvariant, [Next]_vars, ~Claim, NEW f \in execs', NEW d \in execs,
         SameClaim(f, d), controller[d.job] = d.epoch
  PROVE  controller'[d.job] = d.epoch
<1>0. controller \in [Job -> Nat] /\ execs \subseteq Execution /\ d.job \in Job
  BY ExecType, Zenon DEF TypeOK
<1>1. CASE controller' = controller
  BY <1>1, Zenon
<1>2. ASSUME NEW e \in execs, Abandon(e) PROVE controller'[d.job] = d.epoch
  <2>1. f \in execs /\ f # e
    BY <1>2, Zenon DEF Abandon
  <2>2. ~(d.job = e.job /\ d.epoch = e.epoch)
    BY <2>1, Zenon DEF AbortInvariant, SameClaim
  <2>3. controller' = Released(e.job, e.epoch)
    BY <1>2, Zenon DEF Abandon
  <2> QED
    BY <1>0, <2>2, <2>3, Zenon DEF Released
<1>3. CASE Settle
  <2>1. ~(d.job = mid.job /\ d.epoch = mid.epoch)
    BY <1>3, SMT DEF Settle, AbortInvariant
  <2>2. controller' = Released(mid.job, mid.epoch)
    BY <1>3, Zenon DEF Settle
  <2> QED
    BY <1>0, <2>1, <2>2, Zenon DEF Released
<1>4. CASE Crash
  BY <1>4, Zenon DEF Crash
<1> QED
  BY <1>1, <1>2, <1>3, <1>4, Zenon DEF Next, vars, RetireExhausted, Macrotask, AnswerFromCache,
     BeginRun, Execute, Throw, FailRun, CancelDependents, Returns, Commit, ApplyFails, Heartbeat,
     LeaseLapses, BackoffElapses, ReclaimExpiredLeases, Start, Stop, User, Plan, Reprocess,
     RerunStage, ReprocessForced, Rerun, Retry, Cancel, WorldChanges

\* The macrotask of a claim goes on, or that of a return takes over the claim
\* of an execution that is no more.
LEMMA MacrotaskCarries ==
  ASSUME TypeOK, [Next]_vars, ~Claim, mid'.at \in Busy
  PROVE  /\ controller' = controller
         /\ \/ /\ mid.at \in Busy /\ SameClaim(mid', mid)
               /\ execs' = execs
            \/ \E e \in execs : SameClaim(mid', e) /\ execs' = execs \ {e}
<1>1. CASE AnswerFromCache
  <2>1. \E r, v : mid' = Settling(mid.job, mid.epoch, mid.attempts, r, v)
    BY <1>1, Zenon DEF AnswerFromCache
  <2>2. SameClaim(mid', mid)
    BY <2>1, SMT DEF Settling, SameClaim
  <2> QED
    BY <1>1, <2>2, SMT DEF AnswerFromCache, Busy
<1>2. CASE BeginRun
  <2>1. SameClaim(mid', mid)
    BY <1>2, SMT DEF BeginRun, SameClaim
  <2> QED
    BY <1>2, <2>1, SMT DEF BeginRun, Busy
<1>3. CASE Throw
  <2>1. SameClaim(mid', mid)
    BY <1>3, SMT DEF Throw, Settling, SameClaim
  <2> QED
    BY <1>3, <2>1, SMT DEF Throw, Busy
<1>4. ASSUME NEW e \in execs, Commit(e) \/ ApplyFails(e)
      PROVE  controller' = controller /\ SameClaim(mid', e) /\ execs' = execs \ {e}
  <2>1. \E r, v : mid' = Settling(e.job, e.epoch, e.attempts, r, v)
    BY <1>4, Zenon DEF Commit, ApplyFails
  <2>2. SameClaim(mid', e)
    BY <2>1, SMT DEF Settling, SameClaim
  <2> QED
    BY <1>4, <2>2, Zenon DEF Commit, ApplyFails
<1>5. CASE UNCHANGED vars
  BY <1>5, Zenon DEF vars, SameClaim
<1>6. ~Execute /\ ~FailRun /\ ~CancelDependents /\ ~Crash
  BY SMT DEF Execute, FailRun, CancelDependents, Crash, Idle, Busy
<1>7. ~Settle
  BY SMT DEF Settle, Idle, Busy
<1>8. \A j \in Job : ~Cancel(j)
  BY SMT DEF Cancel, Busy
<1>9. ~(Quiet /\ mid' = mid)
  BY SMT DEF Quiet, Idle, Busy
<1> QED
  <2>1. \/ UNCHANGED vars \/ AnswerFromCache \/ BeginRun \/ Throw
        \/ \E e \in execs : Commit(e) \/ ApplyFails(e)
    BY <1>6, <1>7, <1>8, <1>9, Zenon DEF Next, RetireExhausted, Macrotask, Returns, Abandon,
       Heartbeat, LeaseLapses, BackoffElapses, ReclaimExpiredLeases, Start, Stop, User, UserActs,
       Plan, Reprocess, RerunStage, ReprocessForced, Rerun, Retry, WorldChanges
  <2> QED
    BY <1>1, <1>2, <1>3, <1>4, <1>5, <2>1, Zenon

\* A claim stays in order whatever becomes of its row, as long as nobody takes
\* its controller.
LEMMA OwnsOn ==
  ASSUME TypeOK, TypeOK', NEW j \in Job, NEW epoch \in Nat, Owns(j, epoch),
         GoesOn(job[j], job'[j]), controller[j] = epoch => controller'[j] = epoch
  PROVE  Owns(j, epoch)'
<1>1. job[j].epoch \in Nat /\ job'[j].epoch \in Nat
  BY Zenon DEF TypeOK, JobRow
<1>2. epoch <= job[j].epoch /\ job[j].epoch <= job'[j].epoch
  BY Zenon DEF Owns, GoesOn
<1>3. /\ epoch <= job'[j].epoch
      /\ job'[j].epoch = epoch => job[j].epoch = epoch /\ job'[j].epoch = job[j].epoch
  BY <1>1, <1>2, SMT
<1> QED
  BY <1>3, Zenon DEF Owns, GoesOn

-----------------------------------------------------------------------------
(* The invariant *)

\* The claim of a macrotask has a job and an epoch.
LEMMA ClaimType ==
  ASSUME NEW step \in Step, step.at \in Busy
  PROVE  step.job \in Job /\ step.epoch \in Nat
BY SMT DEF Step, Idle, Busy

LEMMA ExecutionsOwn ==
  ASSUME TypeOK, TypeOK', AbortInvariant, [Next]_vars, ~Claim
  PROVE  \A e \in execs' : Owns(e.job, e.epoch)'
<1> SUFFICES ASSUME NEW e \in execs' PROVE Owns(e.job, e.epoch)'
  OBVIOUS
<1>1. PICK j, epoch : j = e.job /\ epoch = e.epoch
  BY Zenon
<1>2. j \in Job /\ epoch \in Nat
  BY <1>1, ExecType, Zenon DEF TypeOK
<1>3. Owns(j, epoch) /\ (controller[j] = epoch => controller'[j] = epoch)
  <2>1. CASE \E d \in execs : SameClaim(e, d)
    <3>1. PICK d \in execs : SameClaim(e, d)
      BY <2>1
    <3>2. d.job = j /\ d.epoch = epoch
      BY <1>1, <3>1, Zenon DEF SameClaim
    <3>3. Owns(j, epoch)
      BY <3>2, Zenon DEF AbortInvariant
    <3>4. controller[d.job] = d.epoch => controller'[d.job] = d.epoch
      BY <3>1, ControllersStay, Zenon
    <3> QED
      BY <3>2, <3>3, <3>4, Zenon
  <2>2. CASE Execute /\ e \notin execs
    <3>1. e.job = mid.job /\ e.epoch = mid.epoch
      BY <2>2, SMT DEF Execute
    <3>2. mid.at = "begun" /\ controller' = controller
      BY <2>2, Zenon DEF Execute
    <3>3. Owns(mid.job, mid.epoch)
      BY <3>2, SMT DEF AbortInvariant
    <3> QED
      BY <1>1, <3>1, <3>2, <3>3, Zenon
  <2>3. SameClaim(e, e)
    BY Zenon DEF SameClaim
  <2> QED
    BY <2>1, <2>2, <2>3, ExecutionsCarry, Zenon
<1>4. GoesOn(job[j], job'[j])
  BY <1>2, JobsGoOn, Zenon
<1>5. Owns(j, epoch)'
  BY <1>2, <1>3, <1>4, OwnsOn, Zenon
<1> QED
  BY <1>1, <1>5, Zenon DEF Owns

LEMMA MacrotaskOwns ==
  ASSUME TypeOK, TypeOK', AbortInvariant, [Next]_vars, ~Claim, mid'.at \in Busy
  PROVE  /\ Owns(mid.job, mid.epoch)'
         /\ \A e \in execs' : ~SameClaim(e, mid')
<1>1. PICK j, epoch : j = mid'.job /\ epoch = mid'.epoch
  BY Zenon
<1>2. j \in Job /\ epoch \in Nat
  BY <1>1, ClaimType, Zenon DEF TypeOK
<1>3. Owns(j, epoch) /\ \A e \in execs' : ~SameClaim(e, mid')
  <2>1. ASSUME mid.at \in Busy, SameClaim(mid', mid), execs' = execs
        PROVE  Owns(j, epoch) /\ \A e \in execs' : ~SameClaim(e, mid')
    <3>1. Owns(mid.job, mid.epoch) /\ \A e \in execs : ~SameClaim(e, mid)
      BY <2>1, Zenon DEF AbortInvariant, Busy, SameClaim
    <3> QED
      BY <1>1, <2>1, <3>1, Zenon DEF SameClaim
  <2>2. ASSUME NEW d \in execs, SameClaim(mid', d), execs' = execs \ {d}
        PROVE  Owns(j, epoch) /\ \A e \in execs' : ~SameClaim(e, mid')
    <3>1. Owns(d.job, d.epoch) /\ \A e \in execs : SameClaim(e, d) => e = d
      BY Zenon DEF AbortInvariant, SameClaim
    <3> QED
      BY <1>1, <2>2, <3>1, Zenon DEF SameClaim
  <2> QED
    BY <2>1, <2>2, MacrotaskCarries, Zenon
<1>4. GoesOn(job[j], job'[j]) /\ controller' = controller
  BY <1>2, JobsGoOn, MacrotaskCarries, Zenon
<1>5. Owns(j, epoch)'
  BY <1>2, <1>3, <1>4, OwnsOn, Zenon
<1> QED
  BY <1>1, <1>3, <1>5, Zenon DEF Owns

\* A claim is newer than every execution of its job.
LEMMA ClaimOwns ==
  ASSUME TypeOK, AbortInvariant, Claim
  PROVE  AbortInvariant'
<1>1. PICK j \in Job : /\ job' = [job EXCEPT ![j] = Claimed(@)]
                       /\ controller' = [controller EXCEPT ![j] = job[j].epoch + 1]
                       /\ mid' = [at |-> "claimed", job |-> j, epoch |-> job[j].epoch + 1,
                                  attempts |-> job[j].attempts + 1]
  BY Zenon DEF Claim, FirstInLine, Claimable
<1>2. /\ job \in [Job -> JobRow] /\ controller \in [Job -> Nat] /\ execs \subseteq Execution
      /\ execs' = execs
  BY Zenon DEF TypeOK, Claim
<1>3. /\ Claimed(job[j]).epoch = job[j].epoch + 1 /\ Claimed(job[j]).status = "running"
      /\ job[j].epoch \in Nat
  BY <1>2, Zenon DEF Claimed, JobRow
<1>4. mid'.job = j /\ mid'.epoch = job[j].epoch + 1
  BY <1>1, SMT
<1>5. /\ job'[j].epoch = job[j].epoch + 1 /\ job'[j].status = "running"
      /\ controller'[j] = job[j].epoch + 1
      /\ \A k \in Job \ {j} : job'[k] = job[k] /\ controller'[k] = controller[k]
  BY <1>1, <1>2, <1>3, Zenon
<1>6. job[j].epoch + 1 <= job[j].epoch + 1
      /\ \A epoch \in Nat : epoch <= job[j].epoch =>
           epoch <= job[j].epoch + 1 /\ epoch # job[j].epoch + 1
  BY <1>3, SMT
<1>7. \A k \in Job : job'[k].status = "absent" => job'[k].epoch = 0
  <2>1. "running" # "absent"
    OBVIOUS
  <2> QED
    BY <1>5, <2>1, Zenon DEF AbortInvariant
<1>8. Owns(mid.job, mid.epoch)'
  BY <1>4, <1>5, <1>6, Zenon DEF Owns
<1>9. ASSUME NEW e \in execs
      PROVE  Owns(e.job, e.epoch)' /\ ~(e.job = j /\ e.epoch = job[j].epoch + 1)
  <2>1. e.job \in Job /\ e.epoch \in Nat /\ Owns(e.job, e.epoch)
    BY <1>2, ExecType, Zenon DEF AbortInvariant
  <2>2. CASE e.job = j
    BY <1>5, <1>6, <2>1, <2>2, Zenon DEF Owns
  <2>3. CASE e.job # j
    BY <1>5, <2>1, <2>3, Zenon DEF Owns
  <2> QED
    BY <2>2, <2>3
<1> QED
  BY <1>2, <1>4, <1>7, <1>8, <1>9, Zenon DEF AbortInvariant

THEOREM AbortsHold == Spec => []AbortInvariant
<1>1. Init => AbortInvariant
  <2> SUFFICES ASSUME Init PROVE AbortInvariant
    OBVIOUS
  <2>1. execs = {} /\ mid.at \notin {"claimed", "begun", "settling"}
    BY SMT DEF Init, Idle
  <2>2. \A j \in Job : job[j].epoch = 0
    <3>1. NewRow.epoch = 0 /\ [NewRow EXCEPT !.status = "absent"].epoch = 0
      BY SMT DEF NewRow
    <3> QED
      BY <3>1, Zenon DEF Init
  <2> QED
    BY <2>1, <2>2, Zenon DEF AbortInvariant
<1>2. TypeOK /\ TypeOK' /\ AbortInvariant /\ [Next]_vars => AbortInvariant'
  <2> SUFFICES ASSUME TypeOK, TypeOK', AbortInvariant, [Next]_vars, ~Claim PROVE AbortInvariant'
    BY ClaimOwns, Zenon
  <2>1. \A j \in Job : job'[j].status = "absent" => job'[j].epoch = 0
    BY JobsGoOn, Zenon DEF AbortInvariant, GoesOn
  <2>2. \A d, e \in execs' : d.job = e.job /\ d.epoch = e.epoch => d = e
    BY ExecutionsAlone, Zenon DEF SameClaim
  <2>3. \A e \in execs' : Owns(e.job, e.epoch)'
    BY ExecutionsOwn, Zenon
  <2>4. mid'.at \in Busy => Owns(mid.job, mid.epoch)' /\ \A e \in execs' : ~SameClaim(e, mid')
    BY MacrotaskOwns, Zenon
  <2> QED
    BY <2>1, <2>2, <2>3, <2>4, Zenon DEF AbortInvariant, Busy, SameClaim
<1> QED
  BY <1>1, <1>2, TypeCorrect, PTL DEF Spec

\* A running job's own execution can be aborted: the clean-up of an older one,
\* overtaken by a reclaim, a cancel or a re-run, never takes its controller.
THEOREM OwnersCanBeAborted == Spec => []OwnerCanBeAborted
<1>1. AbortInvariant => OwnerCanBeAborted
  BY Zenon DEF AbortInvariant, Owns, OwnerCanBeAborted
<1> QED
  BY <1>1, AbortsHold, PTL

-----------------------------------------------------------------------------
(* Cancelled rows *)

\* The mark is kept; or it is kept, or the run is forgotten.
Marked(old, new) == old.cancelReq => new.cancelReq
Sticks(old, new) == Marked(old, new) \/ new.run = NoRun

LEMMA QueueKeepsTheMark ==
  ASSUME NEW row \in JobRow, NEW x, NEW y
  PROVE  /\ Marked(row, row)
         /\ Marked(row, Claimed(row))
         /\ Marked(row, Exhausted(row))
         /\ Marked(row, Settled(row, x, y))
         /\ Marked(row, Orphaned(row))
         /\ Marked(row, Unblocked(row))
         /\ Marked(row, Reclaimed(row))
         /\ Marked(row, Resumed(row)) /\ Marked(row, Orphaned(Resumed(row)))
         /\ Marked(row, Dismissed(row))
<1>1. Claimed(row).cancelReq = row.cancelReq /\ Exhausted(row).cancelReq = row.cancelReq
  BY Zenon DEF Claimed, Exhausted, JobRow
<1>2. Settled(row, x, y).cancelReq = row.cancelReq
  BY Zenon DEF Settled, JobRow
<1>3. Orphaned(row).cancelReq = row.cancelReq /\ Unblocked(row).cancelReq = row.cancelReq
  BY Zenon DEF Orphaned, Unblocked, JobRow
<1>4. Reclaimed(row).cancelReq = row.cancelReq /\ Dismissed(row).cancelReq = TRUE
  BY Zenon DEF Reclaimed, Dismissed, JobRow
<1>5. Resumed(row).cancelReq = row.cancelReq
  BY Zenon DEF Resumed, JobRow
<1>6. Orphaned(Resumed(row)).cancelReq = Resumed(row).cancelReq
  BY ResumedType, Zenon DEF Orphaned, JobRow
<1> QED
  BY <1>1, <1>2, <1>3, <1>4, <1>5, <1>6, Zenon DEF Marked

LEMMA TouchKeepsTheMark ==
  ASSUME NEW row \in JobRow, NEW x
  PROVE  /\ Marked(row, [row EXCEPT !.run = x]) /\ Marked(row, [row EXCEPT !.lease = x])
         /\ Marked(row, [row EXCEPT !.waiting = x]) /\ Marked(row, [row EXCEPT !.owner = x])
BY Zenon DEF Marked, JobRow

LEMMA UserForgetsTheRun ==
  ASSUME NEW row \in JobRow, NEW a \in JobRow, Sticks(row, a)
  PROVE  /\ Sticks(row, Requeued(a)) /\ Sticks(row, Retried(a)) /\ Sticks(row, Revived(a))
         /\ Sticks(row, Planned(a))
<1>1. Requeued(a).run = NoRun /\ Retried(a).run = NoRun /\ Revived(a).run = NoRun
  BY Zenon DEF Requeued, Retried, Revived, JobRow
<1>2. NewRow.run = NoRun
  BY Zenon DEF NewRow
<1>3. \/ Planned(a) = NewRow \/ Planned(a) = a
      \/ Planned(a) = [a EXCEPT !.status = "queued", !.attempts = 0, !.upstream = FALSE,
                                !.owner = "none", !.lease = "none"]
  BY Zenon DEF Planned
<1>4. Planned(a).run = NoRun \/ (Planned(a).cancelReq = a.cancelReq /\ Planned(a).run = a.run)
  BY <1>2, <1>3, Zenon DEF JobRow
<1> QED
  BY <1>1, <1>4, Zenon DEF Sticks, Marked

\* A step of the queue keeps the mark.
LEMMA QueueStepKeepsTheMark ==
  ASSUME TypeOK, [Next]_vars, ~(ops < MaxOps /\ ops' = ops + 1), NEW k \in Job
  PROVE  Marked(job[k], job'[k])
<1>0. job \in [Job -> JobRow] /\ job[k] \in JobRow
  BY Zenon DEF TypeOK
<1>1. CASE Claim \/ RetireExhausted
  <2>1. job'[k] = job[k] \/ job'[k] = Claimed(job[k]) \/ job'[k] = Exhausted(job[k])
    BY <1>0, <1>1, Zenon DEF Claim, RetireExhausted
  <2> QED
    BY <1>0, <2>1, QueueKeepsTheMark, Zenon
<1>2. CASE AnswerFromCache \/ Execute \/ Throw
  <2>1. job' = job \/ \E r : job' = Pointing(r)
    BY <1>2, Zenon DEF AnswerFromCache, Execute, Throw
  <2>2. ASSUME NEW r, job' = Pointing(r) PROVE Marked(job[k], job'[k])
    <3>1. job'[k] = job[k] \/ job'[k] = [job[k] EXCEPT !.run = r]
      BY <1>0, <2>2, Zenon DEF Pointing
    <3> QED
      BY <1>0, <3>1, QueueKeepsTheMark, TouchKeepsTheMark, Zenon
  <2>3. CASE job' = job
    BY <1>0, <2>3, QueueKeepsTheMark, Zenon
  <2> QED
    BY <2>1, <2>2, <2>3
<1>3. CASE Settle
  <2>1. job'[k] = job[k] \/ job'[k] = Settled(job[k], mid.verdict, mid.attempts)
    BY <1>0, <1>3, Zenon DEF Settle
  <2> QED
    BY <1>0, <2>1, QueueKeepsTheMark, Zenon
<1>4. CASE CancelDependents \/ ReclaimExpiredLeases
  <2>1. job'[k] = job[k] \/ job'[k] = Orphaned(job[k]) \/ job'[k] = Reclaimed(job[k])
    BY <1>0, <1>4, Zenon DEF CancelDependents, ReclaimExpiredLeases
  <2> QED
    BY <1>0, <2>1, QueueKeepsTheMark, Zenon
<1>5. CASE Start
  <2>1. job'[k] = Resumed(job[k]) \/ job'[k] = Orphaned(Resumed(job[k]))
    BY <1>5, Zenon DEF Start
  <2> QED
    BY <1>0, <2>1, QueueKeepsTheMark, Zenon
<1>6. CASE Crash
  <2>1. \E x : job'[k] = [job[k] EXCEPT !.owner = x]
    BY <1>6, Zenon DEF Crash
  <2> QED
    BY <1>0, <2>1, QueueKeepsTheMark, TouchKeepsTheMark, Zenon
<1>7. ASSUME NEW e \in execs, Heartbeat(e) PROVE Marked(job[k], job'[k])
  <2>1. job'[k] = job[k] \/ \E x : job'[k] = [job[k] EXCEPT !.lease = x]
    BY <1>0, <1>7, Zenon DEF Heartbeat
  <2> QED
    BY <1>0, <2>1, QueueKeepsTheMark, TouchKeepsTheMark, Zenon
<1>8. ASSUME NEW j \in Job, LeaseLapses(j) PROVE Marked(job[k], job'[k])
  <2>1. job'[k] = job[k] \/ \E x : job'[k] = [job[k] EXCEPT !.lease = x]
    BY <1>0, <1>8, Zenon DEF LeaseLapses
  <2> QED
    BY <1>0, <2>1, QueueKeepsTheMark, TouchKeepsTheMark, Zenon
<1>9. ASSUME NEW j \in Job, BackoffElapses(j) PROVE Marked(job[k], job'[k])
  <2>1. job'[k] = job[k] \/ \E x : job'[k] = [job[k] EXCEPT !.waiting = x]
    BY <1>0, <1>9, Zenon DEF BackoffElapses
  <2> QED
    BY <1>0, <2>1, QueueKeepsTheMark, TouchKeepsTheMark, Zenon
<1>10. CASE job' = job
  BY <1>0, <1>10, QueueKeepsTheMark, Zenon
<1> QED
  <2>1. \/ job' = job \/ Claim \/ RetireExhausted \/ AnswerFromCache \/ Execute \/ Throw \/ Settle
        \/ CancelDependents \/ ReclaimExpiredLeases \/ Start \/ Crash
        \/ \E e \in execs : Heartbeat(e)
        \/ \E j \in Job : LeaseLapses(j) \/ BackoffElapses(j)
    BY Zenon DEF Next, vars, Macrotask, BeginRun, FailRun, Returns, Abandon, Commit, ApplyFails,
       Stop, User, UserActs, Plan, Reprocess, RerunStage, ReprocessForced, Rerun, Retry, Cancel,
       WorldChanges
  <2> QED
    BY <1>1, <1>2, <1>3, <1>4, <1>5, <1>6, <1>7, <1>8, <1>9, <1>10, <2>1, Zenon

\* What the user asks for clears it only with the run.
LEMMA UserStepSticks ==
  ASSUME TypeOK, Next, ops' = ops + 1, NEW k \in Job
  PROVE  Sticks(job[k], job'[k])
<1>0. job[k] \in JobRow /\ ops + 1 # ops
  BY SMT DEF TypeOK
<1>1. Sticks(job[k], job[k])
  BY Zenon DEF Sticks, Marked
<1>2. ASSUME NEW p, Plan(p) PROVE Sticks(job[k], job'[k])
  <2>1. job'[k] = job[k] \/ job'[k] = Planned(job[k])
    BY <1>2, Zenon DEF Plan
  <2> QED
    BY <1>0, <1>1, <2>1, UserForgetsTheRun, Zenon
<1>3. ASSUME NEW p, NEW S, Rerun(p, S) \/ Reprocess(p) PROVE Sticks(job[k], job'[k])
  <2>1. \E a, b, c : /\ a = job[k] \/ a = Requeued(job[k])
                     /\ b = a \/ b = Planned(a)
                     /\ c = b \/ c = Revived(b)
                     /\ job'[k] = c
    <3>1. CASE Rerun(p, S)
      BY <3>1, Zenon DEF Rerun
    <3>2. CASE Reprocess(p)
      BY <3>2, Zenon DEF Reprocess
    <3> QED
      BY <1>3, <3>1, <3>2
  <2>2. PICK a, b, c : /\ a = job[k] \/ a = Requeued(job[k])
                       /\ b = a \/ b = Planned(a)
                       /\ c = b \/ c = Revived(b)
                       /\ job'[k] = c
    BY <2>1
  <2>3. a \in JobRow /\ Sticks(job[k], a)
    BY <1>0, <1>1, <2>2, RequeuedType, UserForgetsTheRun, Zenon
  <2>4. b \in JobRow /\ Sticks(job[k], b)
    BY <1>0, <2>2, <2>3, PlannedType, UserForgetsTheRun, Zenon
  <2>5. Sticks(job[k], c)
    BY <1>0, <2>2, <2>4, UserForgetsTheRun, Zenon
  <2> QED
    BY <2>2, <2>5, Zenon
<1>4. ASSUME NEW j \in Job, Retry(j) \/ Cancel(j) PROVE Sticks(job[k], job'[k])
  <2>1. \/ job'[k] = job[k] \/ job'[k] = Retried(job[k]) \/ job'[k] = Unblocked(job[k])
        \/ job'[k] = Dismissed(job[k])
    BY <1>0, <1>4, Zenon DEF Retry, Cancel, TypeOK
  <2>2. Marked(job[k], Unblocked(job[k])) /\ Marked(job[k], Dismissed(job[k]))
    BY <1>0, QueueKeepsTheMark, Zenon
  <2>3. Sticks(job[k], Unblocked(job[k])) /\ Sticks(job[k], Dismissed(job[k]))
    BY <2>2, Zenon DEF Sticks
  <2> QED
    BY <1>0, <1>1, <2>1, <2>3, UserForgetsTheRun, Zenon
<1> QED
  <2>1. \/ job' = job
        \/ \E p : Plan(p) \/ Reprocess(p)
        \/ \E p, S : Rerun(p, S)
        \/ \E j \in Job : Retry(j) \/ Cancel(j)
    BY <1>0, Zenon DEF Next, Claim, RetireExhausted, Macrotask, AnswerFromCache, BeginRun, Execute,
       Throw, Settle, FailRun, CancelDependents, Returns, Abandon, Commit, ApplyFails, Heartbeat,
       LeaseLapses, BackoffElapses, ReclaimExpiredLeases, Start, Stop, Crash, User, RerunStage,
       ReprocessForced, WorldChanges
  <2> QED
    BY <1>1, <1>2, <1>3, <1>4, <2>1, Zenon

\* A job the user cancelled leaves that state only by a retry or a re-run, and
\* its run is forgotten: no plan, settle, claim, restart or cascade does it.
THEOREM CancelsStick == Spec => CancelSticks
<1>1. ASSUME TypeOK, [Next]_vars, NEW k \in Job, job[k].cancelReq, ~job'[k].cancelReq
      PROVE  job'[k].run = NoRun /\ ops' > ops
  <2>1. ops' = ops + 1 /\ ops < MaxOps
    BY <1>1, QueueStepKeepsTheMark, Zenon DEF Marked
  <2>2. ops \in Nat
    BY <1>1, SMT DEF TypeOK
  <2>3. ops' > ops /\ ops' # ops
    BY <2>1, <2>2, SMT
  <2>4. Next
    BY <1>1, <2>3, Zenon DEF vars
  <2> QED
    BY <1>1, <2>1, <2>3, <2>4, UserStepSticks, Zenon DEF Sticks, Marked
<1>2. TypeOK /\ [Next]_vars =>
        [\A j \in Job : job[j].cancelReq /\ ~job'[j].cancelReq => job'[j].run = NoRun /\ ops' > ops]_vars
  BY <1>1, Zenon
<1> QED
  BY <1>2, TypeCorrect, PTL DEF Spec, CancelSticks
=============================================================================
