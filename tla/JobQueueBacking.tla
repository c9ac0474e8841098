--------------------------- MODULE JobQueueBacking ---------------------------
(***************************************************************************)
(* What stands behind the status of a job: an execution behind a running   *)
(* one, a finished run behind a done one, and a queued job behind output   *)
(* that was taken away.  The argument needs both halves that came before:  *)
(* the rows of stage_run only move on, and the generations of a job are    *)
(* kept apart.                                                             *)
(***************************************************************************)
EXTENDS JobQueueFences, JobQueueAborts

-----------------------------------------------------------------------------
(* One row of processing_job *)

\* What becomes of a row that nothing claims, points or settles: it keeps its
\* pointer or loses it, and it is not made running, or done.
Tame(old, new) ==
  /\ new.run \in {old.run, NoRun}
  /\ new.status = "running" =>
       /\ old.status = "running" /\ new.epoch = old.epoch
       /\ new.owner = "mine" => old.owner = "mine"
  /\ new.status = "done" => old.status = "done"

\* A cancelled row says who cancelled it.
Explained(j, row) ==
  /\ row.status = "cancelled" => row.cancelReq \/ row.upstream
  /\ row.upstream => Blockers[j] # {}

LEMMA TameTwice ==
  ASSUME NEW a, NEW b, NEW c, Tame(a, b), Tame(b, c)
  PROVE  Tame(a, c)
BY Zenon DEF Tame

LEMMA WritesAreTame ==
  ASSUME NEW row \in JobRow
  PROVE  /\ Tame(row, row)
         /\ Tame(row, Exhausted(row))
         /\ Tame(row, Orphaned(row))
         /\ Tame(row, Planned(row))
         /\ Tame(row, Requeued(row)) /\ Tame(row, Revived(row))
         /\ Tame(row, Retried(row)) /\ Tame(row, Unblocked(row))
         /\ Tame(row, Dismissed(row)) /\ Tame(row, Reclaimed(row))
         /\ Tame(row, Resumed(row))
<1>0. /\ "queued" \notin {"running", "done"} /\ "failed" \notin {"running", "done"}
      /\ "cancelled" \notin {"running", "done"}
  OBVIOUS
<1>1. Tame(row, row)
  BY Zenon DEF Tame
<1>2. Exhausted(row).run = row.run /\ Exhausted(row).status = "failed"
  BY Zenon DEF Exhausted, JobRow
<1>3. \/ Orphaned(row) = row
      \/ Orphaned(row).run = row.run /\ Orphaned(row).status = "cancelled"
  BY Zenon DEF Orphaned, JobRow
<1>4. Planned(row) = row \/ (Planned(row).run \in {row.run, NoRun} /\ Planned(row).status = "queued")
  BY SMT DEF Planned, NewRow, JobRow
<1>5. /\ Requeued(row).run = NoRun /\ Requeued(row).status = "queued"
      /\ Revived(row).run = NoRun /\ Revived(row).status = "queued"
      /\ Retried(row).run = NoRun /\ Retried(row).status = "queued"
      /\ Reclaimed(row).run = NoRun /\ Reclaimed(row).status = "queued"
  BY Zenon DEF Requeued, Revived, Retried, Reclaimed, JobRow
<1>6. Unblocked(row) = row \/ (Unblocked(row).run = row.run /\ Unblocked(row).status = "queued")
  BY Zenon DEF Unblocked, JobRow
<1>7. Dismissed(row).run = row.run /\ Dismissed(row).status = "cancelled"
  BY Zenon DEF Dismissed, JobRow
<1>8. \/ Resumed(row) = row
      \/ /\ Resumed(row).run \in {row.run, NoRun}
         /\ Resumed(row).status \in {"cancelled", "failed", "queued"}
  BY Zenon DEF Resumed, JobRow
<1> QED
  BY <1>0, <1>1, <1>2, <1>3, <1>4, <1>5, <1>6, <1>7, <1>8, Zenon DEF Tame

\* The clock and a crash touch neither the pointer nor the status.
LEMMA TouchesAreTame ==
  ASSUME NEW row \in JobRow, NEW x
  PROVE  /\ Tame(row, [row EXCEPT !.lease = x]) /\ Tame(row, [row EXCEPT !.waiting = x])
         /\ Tame(row, [row EXCEPT !.owner = IF @ = "mine" THEN "dead" ELSE @])
<1> DEFINE crashed == [row EXCEPT !.owner = IF @ = "mine" THEN "dead" ELSE @]
<1>1. \A new \in {[row EXCEPT !.lease = x], [row EXCEPT !.waiting = x]} :
        /\ new.run = row.run /\ new.status = row.status /\ new.epoch = row.epoch
        /\ new.owner = row.owner
  BY Zenon DEF JobRow
<1>2. /\ crashed.run = row.run /\ crashed.status = row.status /\ crashed.epoch = row.epoch
      /\ crashed.owner # "mine"
  <2>1. "dead" # "mine"
    OBVIOUS
  <2>2. crashed.owner = IF row.owner = "mine" THEN "dead" ELSE row.owner
    BY Zenon DEF JobRow
  <2>3. crashed.run = row.run /\ crashed.status = row.status /\ crashed.epoch = row.epoch
    BY Zenon DEF JobRow
  <2> HIDE DEF crashed
  <2> QED
    BY <2>1, <2>2, <2>3, Zenon
<1> HIDE DEF crashed
<1>3. Tame(row, crashed)
  BY <1>2, Zenon DEF Tame
<1>4. Tame(row, [row EXCEPT !.lease = x]) /\ Tame(row, [row EXCEPT !.waiting = x])
  BY <1>1, Zenon DEF Tame
<1> QED
  BY <1>3, <1>4 DEF crashed

LEMMA WritesExplain ==
  ASSUME NEW row \in JobRow, NEW j, Explained(j, row), NEW x, NEW y
  PROVE  /\ Explained(j, Claimed(row)) /\ Explained(j, Exhausted(row))
         /\ Explained(j, Settled(row, x, y))
         /\ Blockers[j] # {} => Explained(j, Orphaned(row))
         /\ Explained(j, Planned(row))
         /\ Explained(j, Requeued(row)) /\ Explained(j, Revived(row))
         /\ Explained(j, Retried(row)) /\ Explained(j, Unblocked(row))
         /\ Explained(j, Dismissed(row)) /\ Explained(j, Reclaimed(row))
         /\ Explained(j, Resumed(row))
         /\ Explained(j, [row EXCEPT !.run = x]) /\ Explained(j, [row EXCEPT !.lease = x])
         /\ Explained(j, [row EXCEPT !.waiting = x]) /\ Explained(j, [row EXCEPT !.owner = x])
<1>0. "running" # "cancelled" /\ "failed" # "cancelled" /\ "queued" # "cancelled"
  OBVIOUS
<1>1. /\ Claimed(row).status = "running" /\ Claimed(row).upstream = FALSE
      /\ Exhausted(row).status = "failed" /\ Exhausted(row).upstream = FALSE
  BY Zenon DEF Claimed, Exhausted, JobRow
<1>2. Settled(row, x, y).status # "cancelled" /\ Settled(row, x, y).upstream = FALSE
  <2>1. Settled(row, x, y).status = SettledStatus(x, y) /\ Settled(row, x, y).upstream = FALSE
    BY Zenon DEF Settled, JobRow
  <2>2. SettledStatus(x, y) # "cancelled"
    BY SMT DEF SettledStatus
  <2> QED
    BY <2>1, <2>2, Zenon
<1>3. Orphaned(row) = row \/ Orphaned(row).upstream = TRUE
  BY Zenon DEF Orphaned, JobRow
<1>4. Planned(row) = row \/ (Planned(row).status = "queued" /\ Planned(row).upstream = FALSE)
  BY SMT DEF Planned, NewRow, JobRow
<1>5. /\ Requeued(row).status = "queued" /\ Requeued(row).upstream = FALSE
      /\ Revived(row).status = "queued" /\ Revived(row).upstream = FALSE
      /\ Retried(row).status = "queued" /\ Retried(row).upstream = FALSE
      /\ Reclaimed(row).status = "queued" /\ Reclaimed(row).upstream = row.upstream
  BY Zenon DEF Requeued, Revived, Retried, Reclaimed, JobRow
<1>6. Unblocked(row) = row \/ (Unblocked(row).status = "queued" /\ Unblocked(row).upstream = FALSE)
  BY Zenon DEF Unblocked, JobRow
<1>7. Dismissed(row).cancelReq = TRUE /\ Dismissed(row).upstream = FALSE
  BY Zenon DEF Dismissed, JobRow
<1>8. /\ Resumed(row).upstream \in {row.upstream, FALSE}
      /\ \/ Resumed(row) = row
         \/ Resumed(row).cancelReq
         \/ Resumed(row).status \in {"failed", "queued"}
  BY Zenon DEF Resumed, JobRow
<1>9. \A new \in {[row EXCEPT !.run = x], [row EXCEPT !.lease = x], [row EXCEPT !.waiting = x],
                  [row EXCEPT !.owner = x]} :
        new.status = row.status /\ new.upstream = row.upstream /\ new.cancelReq = row.cancelReq
  BY Zenon DEF JobRow
<1>10. /\ Explained(j, [row EXCEPT !.run = x]) /\ Explained(j, [row EXCEPT !.lease = x])
       /\ Explained(j, [row EXCEPT !.waiting = x]) /\ Explained(j, [row EXCEPT !.owner = x])
  BY <1>9, Zenon DEF Explained
<1>11. /\ Explained(j, Dismissed(row)) /\ Explained(j, Resumed(row))
  BY <1>0, <1>7, <1>8, Zenon DEF Explained
<1> QED
  BY <1>0, <1>1, <1>2, <1>3, <1>4, <1>5, <1>6, <1>10, <1>11, Zenon DEF Explained

-----------------------------------------------------------------------------
(* Every row of processing_job *)

\* A dependent has something it depends on: the walk down the dependencies, and
\* the fixed point of a restart, reach no other job.
LEMMA DependentsAreBlocked ==
  /\ \A S : \A j \in Waiters(S) : j \in Job /\ Blockers[j] # {}
  /\ \A rows : \A j \in Doomed(rows) : j \in Job /\ Blockers[j] # {}
<1> DEFINE Blocked == {j \in Job : Blockers[j] # {}}
<1>1. Blocked \in SUBSET Job
  OBVIOUS
<1>2. ASSUME NEW S, NEW j \in Waiters(S) PROVE j \in Job /\ Blockers[j] # {}
  <2>1. \A k \in Job : Blockers[k] \cap (S \cup Blocked) # {} => k \in Blocked
    BY Zenon
  <2>2. j \in Job /\ j \in Blocked
    <3> HIDE DEF Blocked
    <3> QED
      BY <1>1, <2>1, Zenon DEF Waiters
  <2> QED
    BY <2>2, Zenon
<1>3. ASSUME NEW rows, NEW j \in Doomed(rows) PROVE j \in Job /\ Blockers[j] # {}
  <2>1. \A k \in Job :
          rows[k].status = "queued" /\ (\E b \in Blockers[k] : rows[b].status \in Dead \/ b \in Blocked)
            => k \in Blocked
    BY Zenon
  <2>2. j \in Job /\ j \in Blocked
    <3> HIDE DEF Blocked
    <3> QED
      BY <1>1, <2>1, Zenon DEF Doomed
  <2> QED
    BY <2>2, Zenon
<1> QED
  BY <1>2, <1>3, Zenon

\* The run the open macrotask points its job to.
Pointed(r) ==
  \/ AnswerFromCache /\ r \in CacheHits(SlotOf[mid.job])
  \/ (Execute \/ Throw) /\ mid.at = "begun" /\ r = mid.run

\* The rewriting of a plan, a re-run and a reprocess: requeue, plan, revive.
Replanned(row, new) ==
  \E a, b : /\ a = row \/ a = Requeued(row)
            /\ b = a \/ b = Planned(a)
            /\ new = b \/ new = Revived(b)

\* Every way a step may write one row, and the only step that may.
LEMMA JobsRewritten ==
  ASSUME TypeOK, [Next]_vars, NEW k \in Job
  PROVE  \/ job'[k] = job[k]
         \/ Claim /\ job'[k] = Claimed(job[k])
         \/ \E r : /\ Pointed(r) /\ k = mid.job /\ job[k].epoch = mid.epoch
                   /\ job'[k] = [job[k] EXCEPT !.run = r]
         \/ /\ Settle /\ k = mid.job /\ job[k].epoch = mid.epoch
            /\ job'[k] = Settled(job[k], mid.verdict, mid.attempts)
         \/ job'[k] \in {Exhausted(job[k]), Retried(job[k]), Unblocked(job[k]),
                         Dismissed(job[k]), Reclaimed(job[k]), Resumed(job[k])}
         \/ Blockers[k] # {} /\ job'[k] \in {Orphaned(job[k]), Orphaned(Resumed(job[k]))}
         \/ \E x : job'[k] \in {[job[k] EXCEPT !.lease = x], [job[k] EXCEPT !.waiting = x]}
         \/ job'[k] = [job[k] EXCEPT !.owner = IF @ = "mine" THEN "dead" ELSE @]
         \/ Replanned(job[k], job'[k])
<1> DEFINE Written ==
         \/ job'[k] = job[k]
         \/ Claim /\ job'[k] = Claimed(job[k])
         \/ \E r : /\ Pointed(r) /\ k = mid.job /\ job[k].epoch = mid.epoch
                   /\ job'[k] = [job[k] EXCEPT !.run = r]
         \/ /\ Settle /\ k = mid.job /\ job[k].epoch = mid.epoch
            /\ job'[k] = Settled(job[k], mid.verdict, mid.attempts)
         \/ job'[k] \in {Exhausted(job[k]), Retried(job[k]), Unblocked(job[k]),
                         Dismissed(job[k]), Reclaimed(job[k]), Resumed(job[k])}
         \/ Blockers[k] # {} /\ job'[k] \in {Orphaned(job[k]), Orphaned(Resumed(job[k]))}
         \/ \E x : job'[k] \in {[job[k] EXCEPT !.lease = x], [job[k] EXCEPT !.waiting = x]}
         \/ job'[k] = [job[k] EXCEPT !.owner = IF @ = "mine" THEN "dead" ELSE @]
         \/ Replanned(job[k], job'[k])
<1>0. job \in [Job -> JobRow]
  BY Zenon DEF TypeOK
<1>1. ASSUME job' = job PROVE Written
  BY <1>1, Zenon
<1>2. ASSUME Claim PROVE Written
  BY <1>0, <1>2, Zenon DEF Claim
<1>3. ASSUME RetireExhausted PROVE Written
  BY <1>0, <1>3, Zenon DEF RetireExhausted
<1>4. ASSUME NEW r, Pointed(r), job' = Pointing(r) PROVE Written
  <2>0. PICK j : j = mid.job
    BY Zenon
  <2>1. \/ job'[k] = job[k]
        \/ k = j /\ job[k].epoch = mid.epoch /\ job'[k] = [job[k] EXCEPT !.run = r]
    BY <1>0, <1>4, <2>0, SMT DEF Pointing
  <2> QED
    BY <1>4, <2>0, <2>1, Zenon
<1>5. ASSUME AnswerFromCache \/ Execute \/ Throw PROVE job' = job \/ \E r : Pointed(r) /\ job' = Pointing(r)
  BY <1>5, Zenon DEF AnswerFromCache, Execute, Throw, Pointed
<1>6. ASSUME Settle PROVE Written
  <2>0. PICK j : j = mid.job
    BY Zenon
  <2>1. \/ job'[k] = job[k]
        \/ /\ k = j /\ job[k].epoch = mid.epoch
           /\ job'[k] = Settled(job[k], mid.verdict, mid.attempts)
    BY <1>0, <1>6, <2>0, SMT DEF Settle
  <2> QED
    BY <1>6, <2>0, <2>1, Zenon
<1>7. ASSUME CancelDependents PROVE Written
  BY <1>0, <1>7, DependentsAreBlocked, Zenon DEF CancelDependents
<1>8. ASSUME NEW e \in execs, Heartbeat(e) PROVE Written
  BY <1>0, <1>8, Zenon DEF Heartbeat
<1>9. ASSUME NEW j \in Job, LeaseLapses(j) PROVE Written
  BY <1>0, <1>9, Zenon DEF LeaseLapses
<1>10. ASSUME NEW j \in Job, BackoffElapses(j) PROVE Written
  BY <1>0, <1>10, Zenon DEF BackoffElapses
<1>11. ASSUME ReclaimExpiredLeases PROVE Written
  BY <1>0, <1>11, Zenon DEF ReclaimExpiredLeases
<1>12. ASSUME Start PROVE Written
  <2> DEFINE resumed == [j \in Job |-> Resumed(job[j])]
  <2>1. job'[k] = IF k \in Doomed(resumed) THEN Orphaned(Resumed(job[k])) ELSE Resumed(job[k])
    BY <1>12, Zenon DEF Start
  <2> QED
    BY <2>1, DependentsAreBlocked, Zenon
<1>13. ASSUME Crash PROVE Written
  BY <1>13, Zenon DEF Crash
<1>14. ASSUME NEW p, Plan(p) PROVE Written
  BY <1>0, <1>14, Zenon DEF Plan, Replanned
<1>15. ASSUME NEW p, Reprocess(p) PROVE Written
  BY <1>0, <1>15, Zenon DEF Reprocess, Replanned
<1>16. ASSUME NEW p, NEW S, Rerun(p, S) PROVE Written
  BY <1>0, <1>16, Zenon DEF Rerun, Replanned
<1>17. ASSUME NEW j \in Job, Retry(j) \/ Cancel(j) PROVE Written
  <2>1. CASE Retry(j)
    <3>1. job'[k] \in {Retried(job[k]), Unblocked(job[k]), job[k]}
      BY <2>1, Zenon DEF Retry
    <3> QED
      BY <3>1, Zenon
  <2>2. CASE Cancel(j)
    <3>1. job'[k] \in {Dismissed(job[k]), job[k]}
      BY <1>0, <2>2, Zenon DEF Cancel
    <3> QED
      BY <3>1, Zenon
  <2> QED
    BY <1>17, <2>1, <2>2
<1> HIDE DEF Written
<1>18. Written
  <2>1. \/ job' = job \/ Claim \/ RetireExhausted \/ AnswerFromCache \/ Execute \/ Throw \/ Settle
        \/ CancelDependents \/ ReclaimExpiredLeases \/ Start \/ Crash
        \/ \E e \in execs : Heartbeat(e)
        \/ \E j \in Job : LeaseLapses(j) \/ BackoffElapses(j) \/ Retry(j) \/ Cancel(j)
        \/ \E p : Plan(p) \/ Reprocess(p)
        \/ \E p, S : Rerun(p, S)
    BY Zenon DEF Next, vars, Macrotask, BeginRun, FailRun, Returns, Abandon, Commit, ApplyFails,
       Stop, User, RerunStage, ReprocessForced, WorldChanges
  <2> QED
    BY <1>1, <1>2, <1>3, <1>4, <1>5, <1>6, <1>7, <1>8, <1>9, <1>10, <1>11, <1>12, <1>13, <1>14,
       <1>15, <1>16, <1>17, <2>1, Zenon
<1> QED
  BY <1>18, Zenon DEF Written

LEMMA ReplannedIsTame ==
  ASSUME NEW row \in JobRow, NEW new, Replanned(row, new)
  PROVE  /\ Tame(row, new)
         /\ \A j : Explained(j, row) => Explained(j, new)
<1>1. PICK a, b : /\ a = row \/ a = Requeued(row)
                  /\ b = a \/ b = Planned(a)
                  /\ new = b \/ new = Revived(b)
  BY Zenon DEF Replanned
<1>2. a \in JobRow /\ b \in JobRow
  BY <1>1, RequeuedType, PlannedType, Zenon
<1>3. Tame(row, a) /\ Tame(a, b) /\ Tame(b, new)
  BY <1>1, <1>2, WritesAreTame, Zenon
<1>4. ASSUME NEW j, Explained(j, row) PROVE Explained(j, new)
  <2>1. Explained(j, a)
    BY <1>1, <1>4, WritesExplain, Zenon
  <2>2. Explained(j, b)
    BY <1>1, <1>2, <2>1, WritesExplain, Zenon
  <2> QED
    BY <1>1, <1>2, <2>2, WritesExplain, Zenon
<1> QED
  BY <1>3, <1>4, TameTwice, Zenon

\* A step other than a claim, a settle and a pointer write is tame on every row.
LEMMA JobsTame ==
  ASSUME TypeOK, [Next]_vars, NEW k \in Job
  PROVE  \/ Tame(job[k], job'[k])
         \/ Claim /\ job'[k] = Claimed(job[k])
         \/ \E r : /\ Pointed(r) /\ k = mid.job /\ job[k].epoch = mid.epoch
                   /\ job'[k] = [job[k] EXCEPT !.run = r]
         \/ /\ Settle /\ k = mid.job /\ job[k].epoch = mid.epoch
            /\ job'[k] = Settled(job[k], mid.verdict, mid.attempts)
<1>0. job[k] \in JobRow /\ Resumed(job[k]) \in JobRow
  BY ResumedType, Zenon DEF TypeOK
<1>1. Tame(job[k], Orphaned(Resumed(job[k])))
  BY <1>0, WritesAreTame, TameTwice, Zenon
<1>2. \A new \in {job[k], Exhausted(job[k]), Retried(job[k]), Unblocked(job[k]),
                  Dismissed(job[k]), Reclaimed(job[k]), Resumed(job[k]),
                  Orphaned(job[k]), Orphaned(Resumed(job[k]))} : Tame(job[k], new)
  BY <1>0, <1>1, WritesAreTame, Zenon
<1>3. \A x : \A new \in {[job[k] EXCEPT !.lease = x], [job[k] EXCEPT !.waiting = x],
                         [job[k] EXCEPT !.owner = IF @ = "mine" THEN "dead" ELSE @]} :
        Tame(job[k], new)
  BY <1>0, TouchesAreTame, Zenon
<1>4. \A new : Replanned(job[k], new) => Tame(job[k], new)
  BY <1>0, ReplannedIsTame, Zenon
<1> QED
  BY <1>2, <1>3, <1>4, JobsRewritten, Zenon

LEMMA JobsExplained ==
  ASSUME TypeOK, [Next]_vars, NEW k \in Job, Explained(k, job[k])
  PROVE  Explained(k, job'[k])
<1>0. job[k] \in JobRow /\ Resumed(job[k]) \in JobRow
  BY ResumedType, Zenon DEF TypeOK
<1>1. Explained(k, Resumed(job[k])) /\ (Blockers[k] # {} => Explained(k, Orphaned(Resumed(job[k]))))
  BY <1>0, WritesExplain, Zenon
<1>2. /\ \A new \in {job[k], Claimed(job[k]), Exhausted(job[k]), Retried(job[k]),
                     Unblocked(job[k]), Dismissed(job[k]), Reclaimed(job[k]), Resumed(job[k])} :
           Explained(k, new)
      /\ Explained(k, Settled(job[k], mid.verdict, mid.attempts))
  <2>1. \A x, y : Explained(k, Settled(job[k], x, y))
    BY <1>0, WritesExplain, Zenon
  <2>2. /\ Explained(k, Claimed(job[k])) /\ Explained(k, Exhausted(job[k]))
        /\ Explained(k, Retried(job[k])) /\ Explained(k, Unblocked(job[k]))
        /\ Explained(k, Dismissed(job[k])) /\ Explained(k, Reclaimed(job[k]))
    BY <1>0, WritesExplain, Zenon
  <2> QED
    BY <1>1, <2>1, <2>2, Zenon
<1>3. Blockers[k] # {} => \A new \in {Orphaned(job[k]), Orphaned(Resumed(job[k]))} : Explained(k, new)
  BY <1>0, <1>1, WritesExplain, Zenon
<1>4. \A x : \A new \in {[job[k] EXCEPT !.run = x], [job[k] EXCEPT !.lease = x],
                         [job[k] EXCEPT !.waiting = x],
                         [job[k] EXCEPT !.owner = IF @ = "mine" THEN "dead" ELSE @]} :
        Explained(k, new)
  <2>1. \A x : /\ Explained(k, [job[k] EXCEPT !.run = x]) /\ Explained(k, [job[k] EXCEPT !.lease = x])
               /\ Explained(k, [job[k] EXCEPT !.waiting = x])
               /\ Explained(k, [job[k] EXCEPT !.owner = x])
    BY <1>0, WritesExplain, Zenon
  <2> QED
    BY <2>1, Zenon
<1>5. \A new : Replanned(job[k], new) => Explained(k, new)
  BY <1>0, ReplannedIsTame, Zenon
<1> QED
  BY <1>2, <1>3, <1>4, <1>5, JobsRewritten, Zenon

-----------------------------------------------------------------------------
(* Every row of stage_run, and every execution *)

\* Every way a step may write one row of stage_run, and the only step that may.
LEMMA RowsTouched ==
  ASSUME TypeOK, [Next]_vars, NEW r \in DOMAIN runs
  PROVE  \/ runs'[r] = runs[r]
         \/ BeginRun /\ r \in CurrentIn(SlotOf[mid.job])
         \/ /\ FailRun /\ r = mid.run /\ runs[r].epoch = mid.epoch /\ runs[r].status = "running"
            /\ runs'[r] = Failed(runs[r])
         \/ \E e \in execs : Commit(e) /\ r = e.run
         \/ \E j \in Job : /\ Retry(j) /\ r \in Verdicts(j)
                           /\ runs'[r] = [runs[r] EXCEPT !.superseded = TRUE]
         \/ \E j \in Job : /\ Cancel(j) /\ r = job[j].run /\ runs[r].status = "running"
                           /\ runs'[r] = Retired(runs[r])
         \/ /\ Start /\ runs'[r] = Retired(runs[r])
            /\ \E j \in Job : r = job[j].run /\ job[j].status = "running" /\ Foreign(job[j])
         \/ \E p \in Project : \E S : /\ Rerun(p, S) /\ IsCurrent(r) /\ runs[r].slot \in Cascade(S)
                                      /\ runs'[r] = Retired(runs[r])
<1> DEFINE Touched ==
         \/ runs'[r] = runs[r]
         \/ BeginRun /\ r \in CurrentIn(SlotOf[mid.job])
         \/ /\ FailRun /\ r = mid.run /\ runs[r].epoch = mid.epoch /\ runs[r].status = "running"
            /\ runs'[r] = Failed(runs[r])
         \/ \E e \in execs : Commit(e) /\ r = e.run
         \/ \E j \in Job : /\ Retry(j) /\ r \in Verdicts(j)
                           /\ runs'[r] = [runs[r] EXCEPT !.superseded = TRUE]
         \/ \E j \in Job : /\ Cancel(j) /\ r = job[j].run /\ runs[r].status = "running"
                           /\ runs'[r] = Retired(runs[r])
         \/ /\ Start /\ runs'[r] = Retired(runs[r])
            /\ \E j \in Job : r = job[j].run /\ job[j].status = "running" /\ Foreign(job[j])
         \/ \E p \in Project : \E S : /\ Rerun(p, S) /\ IsCurrent(r) /\ runs[r].slot \in Cascade(S)
                                      /\ runs'[r] = Retired(runs[r])
<1>0. runs \in Seq(RunRow) /\ runs[r] \in RunRow
  BY RunAt DEF TypeOK
<1>1. ASSUME runs' = runs PROVE Touched
  BY <1>1, Zenon
<1>2. ASSUME BeginRun PROVE Touched
  BY <1>2, Begun, Zenon
<1>3. ASSUME FailRun PROVE Touched
  <2>0. PICK q : q = mid.run
    BY Zenon
  <2>1. \/ runs' = runs
        \/ /\ runs[q].epoch = mid.epoch /\ runs[q].status = "running"
           /\ runs' = [runs EXCEPT ![q] = Failed(@)]
    BY <1>3, <2>0, Zenon DEF FailRun
  <2>2. \/ runs'[r] = runs[r]
        \/ /\ r = q /\ runs[r].epoch = mid.epoch /\ runs[r].status = "running"
           /\ runs'[r] = Failed(runs[r])
    BY <2>1, Zenon
  <2> QED
    BY <1>3, <2>0, <2>2, Zenon
<1>4. ASSUME NEW e \in execs, Commit(e) PROVE Touched
  <2>1. r # e.run => runs'[r] = runs[r]
    BY <1>4, Zenon DEF Commit
  <2> QED
    BY <1>4, <2>1, Zenon
<1>5. ASSUME NEW j \in Job, Retry(j) PROVE Touched
  <2>1. runs'[r] = [runs[r] EXCEPT !.superseded = @ \/ r \in Newest(Verdicts(j))]
    BY <1>5, Zenon DEF Retry
  <2>2. CASE r \in Newest(Verdicts(j))
    <3>1. r \in Verdicts(j) /\ runs'[r] = [runs[r] EXCEPT !.superseded = TRUE]
      BY <1>0, <2>1, <2>2, Zenon DEF Newest, RunRow
    <3> QED
      BY <1>5, <3>1, Zenon
  <2>3. CASE r \notin Newest(Verdicts(j))
    <3>1. (runs[r].superseded \/ r \in Newest(Verdicts(j))) = runs[r].superseded
      BY <1>0, <2>3, Zenon DEF RunRow
    <3>2. runs'[r] = runs[r]
      BY <1>0, <2>1, <3>1, Zenon DEF RunRow
    <3> QED
      BY <3>2, Zenon
  <2> QED
    BY <2>2, <2>3
<1>6. ASSUME NEW j \in Job, Cancel(j) PROVE Touched
  <2>1. \/ runs'[r] = runs[r]
        \/ r = job[j].run /\ runs[r].status = "running" /\ runs'[r] = Retired(runs[r])
    BY <1>6, Zenon DEF Cancel
  <2> QED
    BY <1>6, <2>1, Zenon
<1>7. ASSUME Start PROVE Touched
  <2> DEFINE abandoned == {job[j].run : j \in {k \in Job :
                job[k].status = "running" /\ Foreign(job[k]) /\ ~job[k].cancelReq}}
  <2>1. runs'[r] = IF r \in abandoned THEN Retired(runs[r]) ELSE runs[r]
    BY <1>7, Zenon DEF Start
  <2>2. runs'[r] = runs[r] \/ (r \in abandoned /\ runs'[r] = Retired(runs[r]))
    BY <2>1, Zenon
  <2> QED
    BY <1>7, <2>2, Zenon
<1>8. ASSUME NEW p \in Project, NEW S, Rerun(p, S) PROVE Touched
  <2>1. \/ runs'[r] = runs[r]
        \/ IsCurrent(r) /\ runs[r].slot \in Cascade(S) /\ runs'[r] = Retired(runs[r])
    BY <1>8, Zenon DEF Rerun
  <2> QED
    BY <1>8, <2>1, Zenon
<1> HIDE DEF Touched
<1>9. Touched
  <2>1. \/ runs' = runs \/ BeginRun \/ FailRun \/ Start
        \/ \E e \in execs : Commit(e)
        \/ \E j \in Job : Retry(j) \/ Cancel(j)
        \/ \E p \in Project : \E S : Rerun(p, S)
    BY Zenon DEF Next, vars, Claim, RetireExhausted, Macrotask, AnswerFromCache, Execute, Throw,
       Settle, CancelDependents, Returns, Abandon, ApplyFails, Heartbeat, LeaseLapses,
       BackoffElapses, ReclaimExpiredLeases, Stop, Crash, User, Plan, Reprocess, RerunStage,
       ReprocessForced, WorldChanges
  <2> QED
    BY <1>1, <1>2, <1>3, <1>4, <1>5, <1>6, <1>7, <1>8, <2>1, Zenon
<1> QED
  BY <1>9, Zenon DEF Touched

\* An execution after a step is one from before it, with the same run; an abort
\* is not taken back.
Continues(d, e) ==
  d.job = e.job /\ d.epoch = e.epoch /\ d.run = e.run /\ (e.aborted => d.aborted)

LEMMA MarksContinue ==
  ASSUME NEW e \in Execution
  PROVE  /\ Continues(e, e)
         /\ \A x : Continues([e EXCEPT !.silent = x], e)
         /\ \A x : Continues([e EXCEPT !.aborted = @ \/ x], e)
<1>1. ASSUME NEW x PROVE Continues([e EXCEPT !.aborted = @ \/ x], e)
  BY Zenon DEF Execution, Continues
<1> QED
  BY <1>1, Zenon DEF Execution, Continues

LEMMA ExecutionsContinue ==
  ASSUME TypeOK, [Next]_vars, ~Execute
  PROVE  \A d \in execs' : \E e \in execs : Continues(d, e)
<1> SUFFICES ASSUME NEW d \in execs' PROVE \E e \in execs : Continues(d, e)
  OBVIOUS
<1>0. \A e \in execs : e \in Execution
  BY Zenon DEF TypeOK
<1>1. CASE execs' \subseteq execs
  BY <1>0, <1>1, MarksContinue, Zenon
<1>2. ASSUME NEW g \in execs, execs' = (execs \ {g}) \cup {[g EXCEPT !.silent = FALSE]}
      PROVE  \E e \in execs : Continues(d, e)
  <2>1. d \in execs \/ d = [g EXCEPT !.silent = FALSE]
    BY <1>2, Zenon
  <2>2. Continues([g EXCEPT !.silent = FALSE], g)
    BY <1>0, MarksContinue, Zenon
  <2>3. d \in execs => Continues(d, d)
    BY <1>0, MarksContinue, Zenon
  <2> QED
    BY <2>1, <2>2, <2>3, Zenon
<1>3. ASSUME NEW j \in Job, execs' = {[e EXCEPT !.silent = @ \/ e.job = j] : e \in execs}
      PROVE  \E e \in execs : Continues(d, e)
  <2>1. PICK f \in execs : d = [f EXCEPT !.silent = @ \/ f.job = j]
    BY <1>3, Zenon
  <2> QED
    BY <1>0, <2>1, MarksContinue, Zenon
<1>4. ASSUME NEW S, execs' = Aborted(S) PROVE \E e \in execs : Continues(d, e)
  <2>1. PICK f \in execs : d = [f EXCEPT !.aborted = @ \/ (f.job \in S /\ f.epoch = controller[f.job])]
    BY <1>4, Zenon DEF Aborted
  <2> QED
    BY <1>0, <2>1, MarksContinue, Zenon
<1> QED
  BY <1>1, <1>2, <1>3, <1>4, ExecutionsStay, Zenon

\* What becomes of the jobs of a re-run: an owner, and a dependent it revives, is
\* queued again, and so is every job of a project it plans that has ended.
LEMMA RerunQueues ==
  ASSUME TypeOK, NEW p, NEW S, Rerun(p, S), NEW k \in Job
  PROVE  LET retired == {r \in DOMAIN runs : IsCurrent(r) /\ runs[r].slot \in Cascade(S)}
         IN  /\ \E J : /\ execs' = Aborted(J)
                       /\ k \in J => job'[k].status = "queued"
             /\ k \in Owners(retired) => job'[k].status = "queued"
             /\ ProjectOf[k] = p =>
                  /\ job'[k] = job[k] \/ job'[k].status = "queued"
                  /\ job'[k].status \notin {"absent", "done", "review", "failed"}
                  /\ job[k].status \in {"absent", "queued", "done", "review", "failed"} =>
                       job'[k].status = "queued"
                  /\ /\ CancelledUpstream(job[k])
                     /\ \E b \in Blockers[k] : b \in Job /\ ProjectOf[b] = p
                     => job'[k].status = "queued"
<1> DEFINE retired == {r \in DOMAIN runs : IsCurrent(r) /\ runs[r].slot \in Cascade(S)}
           P == {p} \cup {ProjectOf[j] : j \in {i \in Job :
                  SlotOf[i] \in ProjectSlot /\ \E r \in retired : runs[r].slot = SlotOf[i]}}
           requeued == [j \in Job |-> IF j \in Owners(retired) THEN Requeued(job[j]) ELSE job[j]]
           planned == [j \in Job |-> IF j \in JobsOf(P) THEN Planned(requeued[j]) ELSE requeued[j]]
           revived == Revivable(planned, Owners(retired) \cup JobsOf(P))
<1>0. job[k] \in JobRow /\ requeued[k] \in JobRow /\ planned[k] \in JobRow
  <2>1. job[k] \in JobRow
    BY Zenon DEF TypeOK
  <2>2. requeued[k] = Requeued(job[k]) \/ requeued[k] = job[k]
    BY Zenon
  <2>3. planned[k] = Planned(requeued[k]) \/ planned[k] = requeued[k]
    BY Zenon
  <2> HIDE DEF requeued, planned
  <2> QED
    BY <2>1, <2>2, <2>3, RequeuedType, PlannedType, Zenon
<1>1. /\ job'[k] = IF k \in revived THEN Revived(planned[k]) ELSE planned[k]
      /\ execs' = Aborted(Owners(retired) \cup revived)
  BY Zenon DEF Rerun
<1>2. /\ requeued[k] = IF k \in Owners(retired) THEN Requeued(job[k]) ELSE job[k]
      /\ planned[k] = IF k \in JobsOf(P) THEN Planned(requeued[k]) ELSE requeued[k]
      /\ ProjectOf[k] = p => k \in JobsOf(P)
      /\ k \in revived <=> CancelledUpstream(planned[k]) /\ Blockers[k] \cap (Owners(retired) \cup JobsOf(P)) # {}
      /\ \A b \in Job : ProjectOf[b] = p => b \in JobsOf(P)
  BY Zenon DEF JobsOf, Revivable
<1>3. /\ \A row \in JobRow : Requeued(row).status = "queued" /\ Revived(row).status = "queued"
      /\ \A row \in JobRow : row.status = "queued" => Planned(row) = row
      /\ \A row \in JobRow : row.status \in {"absent", "done", "review", "failed"} =>
           Planned(row).status = "queued"
      /\ \A row \in JobRow : row.status \notin {"absent", "done", "review", "failed"} =>
           Planned(row) = row
  <2>1. \A row \in JobRow : Requeued(row).status = "queued" /\ Revived(row).status = "queued"
    BY Zenon DEF Requeued, Revived, JobRow
  <2>2. \A row \in JobRow : row.status \notin {"absent", "done", "review", "failed"} => Planned(row) = row
    BY SMT DEF Planned
  <2>3. \A row \in JobRow : row.status \in {"absent", "done", "review", "failed"} =>
           Planned(row).status = "queued"
    BY SMT DEF Planned, NewRow, JobRow
  <2>4. "queued" \notin {"absent", "done", "review", "failed"}
    OBVIOUS
  <2> QED
    BY <2>1, <2>2, <2>3, <2>4, Zenon
<1> HIDE DEF requeued, planned, revived, P, retired
<1>5. k \in revived => job'[k].status = "queued"
  <2>1. Revived(planned[k]).status = "queued"
    BY <1>0, <1>3, Zenon
  <2> QED
    BY <1>1, <2>1, Zenon
<1>4. ASSUME k \in Owners(retired) PROVE job'[k].status = "queued"
  <2>1. requeued[k] = Requeued(job[k])
    BY <1>2, <1>4, Zenon
  <2>2. requeued[k].status = "queued"
    BY <1>0, <1>3, <2>1, Zenon
  <2>3. Planned(requeued[k]) = requeued[k]
    BY <1>0, <1>3, <2>2, Zenon
  <2>4. planned[k].status = "queued"
    BY <1>2, <2>2, <2>3, Zenon
  <2> QED
    BY <1>1, <1>5, <2>4, Zenon
<1>6. \E J : execs' = Aborted(J) /\ (k \in J => job'[k].status = "queued")
  <2>1. k \in Owners(retired) \cup revived => job'[k].status = "queued"
    BY <1>4, <1>5
  <2>2. execs' = Aborted(Owners(retired) \cup revived)
    BY <1>1
  <2> DEFINE J == Owners(retired) \cup revived
  <2>3. execs' = Aborted(J) /\ (k \in J => job'[k].status = "queued")
    BY <2>1, <2>2
  <2> HIDE DEF J
  <2> QED
    BY <2>3, Zenon
<1>7. ASSUME ProjectOf[k] = p, k \notin Owners(retired)
      PROVE  /\ job'[k] = job[k] \/ job'[k].status = "queued"
             /\ job'[k].status \notin {"absent", "done", "review", "failed"}
             /\ job[k].status \in {"absent", "queued", "done", "review", "failed"} =>
                  job'[k].status = "queued"
             /\ /\ CancelledUpstream(job[k])
                /\ \E b \in Blockers[k] : b \in Job /\ ProjectOf[b] = p
                => job'[k].status = "queued"
  <2>1. planned[k] = Planned(job[k])
    BY <1>2, <1>7, Zenon
  <2>2. \/ job'[k].status = "queued"
        \/ k \notin revived /\ job'[k] = Planned(job[k])
    BY <1>1, <1>5, <2>1, Zenon
  <2>3. "queued" \notin {"absent", "done", "review", "failed"} /\ "cancelled" \notin {"absent", "done", "review", "failed"}
    OBVIOUS
  <2>4. job'[k].status \notin {"absent", "done", "review", "failed"}
    BY <1>0, <1>3, <2>2, <2>3, Zenon
  <2>5. job[k].status \in {"absent", "queued", "done", "review", "failed"} => job'[k].status = "queued"
    BY <1>0, <1>3, <2>2, <2>3, Zenon
  <2>7. job'[k] = job[k] \/ job'[k].status = "queued"
    BY <1>0, <1>3, <2>2, Zenon
  <2>6. ASSUME CancelledUpstream(job[k]), NEW b \in Blockers[k], b \in Job, ProjectOf[b] = p
        PROVE  job'[k].status = "queued"
    <3>1. planned[k] = job[k]
      BY <1>0, <1>3, <2>1, <2>3, <2>6, Zenon DEF CancelledUpstream
    <3>2. k \in revived
      BY <1>2, <2>6, <3>1, Zenon
    <3> QED
      BY <1>5, <3>2
  <2> QED
    BY <2>4, <2>5, <2>6, <2>7, Zenon
<1>8. "queued" \notin {"absent", "done", "review", "failed"}
  OBVIOUS
<1> QED
  BY <1>4, <1>6, <1>7, <1>8, Zenon DEF retired

\* An execution that nobody has told to stop goes on, unless it returns, the
\* process dies, or its job is taken out of its hands.
LEMMA ServersGoOn ==
  ASSUME TypeOK, [Next]_vars, NEW e \in execs, ~e.aborted
  PROVE  \/ Crash \/ Abandon(e) \/ Commit(e) \/ ApplyFails(e)
         \/ job'[e.job].status \in {"queued", "cancelled"}
         \/ \E d \in execs' : SameClaim(d, e) /\ d.run = e.run /\ ~d.aborted
<1> DEFINE Goes == \E d \in execs' : SameClaim(d, e) /\ d.run = e.run /\ ~d.aborted
           Taken == job'[e.job].status \in {"queued", "cancelled"}
<1>0. /\ e \in Execution /\ e.job \in Job /\ SameClaim(e, e)
      /\ job \in [Job -> JobRow] /\ job[e.job] \in JobRow
  <2>1. e \in Execution /\ job \in [Job -> JobRow]
    BY Zenon DEF TypeOK
  <2> QED
    BY <2>1, ExecType, Zenon DEF SameClaim
<1>1. e \in execs' => Goes
  BY <1>0, Zenon
<1>2. ASSUME NEW f \in execs, Abandon(f) \/ Commit(f) \/ ApplyFails(f), f # e PROVE Goes
  BY <1>1, <1>2, Zenon DEF Abandon, Commit, ApplyFails
<1>3. ASSUME NEW g \in execs, Heartbeat(g) PROVE Goes
  <2>1. CASE g # e
    BY <1>1, <1>3, <2>1, Zenon DEF Heartbeat
  <2>2. CASE g = e
    <3> DEFINE d == [e EXCEPT !.silent = FALSE]
    <3>1. d \in execs'
      BY <1>3, <2>2, Zenon DEF Heartbeat
    <3>2. d.job = e.job /\ d.epoch = e.epoch /\ d.run = e.run /\ d.aborted = e.aborted
      BY <1>0, Zenon DEF Execution
    <3> HIDE DEF d
    <3> QED
      BY <3>1, <3>2, Zenon DEF SameClaim
  <2> QED
    BY <2>1, <2>2
<1>4. ASSUME NEW j \in Job, LeaseLapses(j) PROVE Goes
  <2> DEFINE d == [e EXCEPT !.silent = @ \/ e.job = j]
  <2>1. d \in execs'
    BY <1>4, Zenon DEF LeaseLapses
  <2>2. d.job = e.job /\ d.epoch = e.epoch /\ d.run = e.run /\ d.aborted = e.aborted
    BY <1>0, Zenon DEF Execution
  <2> HIDE DEF d
  <2> QED
    BY <2>1, <2>2, Zenon DEF SameClaim
<1>5. ASSUME NEW S, execs' = Aborted(S), e.job \notin S PROVE Goes
  <2> DEFINE d == [e EXCEPT !.aborted = @ \/ (e.job \in S /\ e.epoch = controller[e.job])]
  <2>1. d \in execs'
    BY <1>5, Zenon DEF Aborted
  <2>2. d.job = e.job /\ d.epoch = e.epoch /\ d.run = e.run
    BY <1>0, Zenon DEF Execution
  <2>3. d.aborted = (e.aborted \/ (e.job \in S /\ e.epoch = controller[e.job]))
    BY <1>0, Zenon DEF Execution
  <2> HIDE DEF d
  <2> QED
    BY <1>5, <2>1, <2>2, <2>3, Zenon DEF SameClaim
<1>6. ASSUME ReclaimExpiredLeases PROVE Goes \/ Taken
  <2>1. execs' = Aborted(Expired)
    BY <1>6, Zenon DEF ReclaimExpiredLeases
  <2>2. CASE e.job \in Expired
    <3>1. job'[e.job] = Reclaimed(job[e.job])
      BY <1>0, <1>6, <2>2, Zenon DEF ReclaimExpiredLeases
    <3>2. Reclaimed(job[e.job]).status = "queued"
      BY <1>0, Zenon DEF Reclaimed, JobRow
    <3> QED
      BY <3>1, <3>2, Zenon
  <2> QED
    BY <1>5, <2>1, <2>2, Zenon
<1>7. ASSUME NEW j \in Job, Cancel(j) PROVE Goes \/ Taken
  <2>1. execs' = Aborted({j}) /\ job'[j] = Dismissed(job[j])
    BY <1>0, <1>7, Zenon DEF Cancel
  <2>2. CASE e.job = j
    <3>1. Dismissed(job[e.job]).status = "cancelled"
      BY <1>0, Zenon DEF Dismissed, JobRow
    <3> QED
      BY <2>1, <2>2, <3>1, Zenon
  <2>3. CASE e.job # j
    <3>1. e.job \notin {j}
      BY <2>3
    <3> QED
      BY <1>5, <2>1, <3>1, Zenon
  <2> QED
    BY <2>2, <2>3
<1>8. ASSUME NEW p, NEW S, Rerun(p, S) PROVE Goes \/ Taken
  <2>1. PICK J : execs' = Aborted(J) /\ (e.job \in J => job'[e.job].status = "queued")
    BY <1>0, <1>8, RerunQueues, Zenon
  <2> QED
    BY <1>5, <2>1, Zenon
<1> HIDE DEF Goes, Taken
<1>9. Crash \/ Abandon(e) \/ Commit(e) \/ ApplyFails(e) \/ Goes \/ Taken
  <2>1. \/ e \in execs' \/ Crash \/ ReclaimExpiredLeases
        \/ \E f \in execs : Abandon(f) \/ Commit(f) \/ ApplyFails(f) \/ Heartbeat(f)
        \/ \E j \in Job : LeaseLapses(j) \/ Cancel(j)
        \/ \E p, S : Rerun(p, S)
    BY Zenon DEF Next, vars, Claim, RetireExhausted, Macrotask, AnswerFromCache, BeginRun, Execute,
       Throw, Settle, FailRun, CancelDependents, Returns, BackoffElapses, Start, Stop, User, Plan,
       Reprocess, RerunStage, ReprocessForced, Retry, WorldChanges
  <2> QED
    BY <1>1, <1>2, <1>3, <1>4, <1>6, <1>7, <1>8, <2>1, Zenon
<1> QED
  BY <1>9, Zenon DEF Goes, Taken

\* The step that brings a macrotask to each of its points.
LEMMA MidReached ==
  ASSUME TypeOK, [Next]_vars
  PROVE  /\ mid'.at = "claimed" => Claim \/ UNCHANGED vars
         /\ mid'.at = "begun" => BeginRun \/ UNCHANGED vars
         /\ mid'.at = "settling" =>
              \/ AnswerFromCache \/ Throw \/ UNCHANGED vars
              \/ \E e \in execs : Commit(e) \/ ApplyFails(e)
         /\ mid'.at = "failing" => Settle \/ UNCHANGED vars
<1>1. \/ mid' = Idle \/ UNCHANGED vars \/ Claim \/ AnswerFromCache \/ BeginRun \/ Throw \/ Settle
      \/ \E e \in execs : Commit(e) \/ ApplyFails(e)
      \/ \E j \in Job : Cancel(j)
  BY Zenon DEF Next, Quiet, UserActs, RetireExhausted, Macrotask, Execute, FailRun,
     CancelDependents, Returns, Abandon, Heartbeat, LeaseLapses, BackoffElapses,
     ReclaimExpiredLeases, Start, Stop, Crash, User, Plan, Reprocess, RerunStage, ReprocessForced,
     Rerun, Retry, WorldChanges
<1>2. Claim => mid'.at = "claimed"
  BY SMT DEF Claim
<1>3. BeginRun => mid'.at = "begun"
  BY SMT DEF BeginRun
<1>4. AnswerFromCache \/ Throw => mid'.at = "settling"
  BY SMT DEF AnswerFromCache, Throw, Settling
<1>5. \A e \in execs : Commit(e) \/ ApplyFails(e) => mid'.at = "settling"
  BY SMT DEF Commit, ApplyFails, Settling
<1>6. Settle => mid'.at \in {"failing", "cascading", "idle"}
  BY SMT DEF Settle, Idle
<1>7. \A j \in Job : Cancel(j) => mid'.at = "cascading"
  BY SMT DEF Cancel
<1>8. mid' = Idle => mid'.at = "idle"
  BY SMT DEF Idle
<1>9. /\ "claimed" \notin {"begun", "settling", "failing", "cascading", "idle"}
      /\ "begun" \notin {"settling", "failing", "cascading", "idle"}
      /\ "settling" \notin {"failing", "cascading", "idle"}
      /\ "failing" \notin {"cascading", "idle"}
  OBVIOUS
<1> QED
  BY <1>1, <1>2, <1>3, <1>4, <1>5, <1>6, <1>7, <1>8, <1>9, Zenon

-----------------------------------------------------------------------------
(* Fences *)

\* A fence that is open after a step was open before it.
LEMMA FencesStayShut ==
  ASSUME TypeOK, TypeOK', FenceInvariant, [Next]_vars, NEW e \in execs
  PROVE  /\ e.run \in DOMAIN runs /\ e.run \in DOMAIN runs'
         /\ FenceOpen(e)' => FenceOpen(e)
<1>1. e.epoch \in Nat /\ Holds(e.run, e.epoch)
  BY Zenon DEF TypeOK, Execution, FenceInvariant
<1>2. e.run \in DOMAIN runs /\ e.run \in DOMAIN runs' /\ MovesOn(runs[e.run], runs'[e.run])
  BY <1>1, RowsMoveOn, Zenon DEF Holds
<1>3. runs[e.run] \in RunRow /\ runs'[e.run] \in RunRow
  <2>1. runs \in Seq(RunRow) /\ runs' \in Seq(RunRow)
    BY Zenon DEF TypeOK
  <2> QED
    BY <1>2, <2>1, SMT
<1>4. runs[e.run].epoch \in Nat /\ runs'[e.run].epoch \in Nat
  BY <1>3, Zenon DEF RunRow
<1>5. e.epoch <= runs[e.run].epoch /\ runs[e.run].epoch <= runs'[e.run].epoch
  BY <1>1, <1>2, Zenon DEF Holds, MovesOn
<1>6. runs'[e.run].epoch = e.epoch => runs[e.run].epoch = e.epoch
  BY <1>1, <1>4, <1>5, SMT
<1> QED
  BY <1>2, <1>6, Zenon DEF FenceOpen, MovesOn

\* When no two jobs share a slot, one execution at most can commit to a run.
LEMMA OneHolder ==
  ASSUME OneJobPerSlot, TypeOK, AbortInvariant, PointersFit,
         NEW e \in execs, NEW f \in execs, e.run = f.run, FenceOpen(e), FenceOpen(f)
  PROVE  e = f
<1>1. e.job \in Job /\ f.job \in Job
  BY ExecType, Zenon DEF TypeOK
<1>2. e.job = f.job
  <2>1. runs[e.run].slot = SlotOf[e.job] /\ runs[f.run].slot = SlotOf[f.job]
    BY Zenon DEF PointersFit
  <2>2. SlotOf[e.job] = SlotOf[f.job]
    BY <2>1
  <2> QED
    BY <1>1, <2>2, Zenon DEF OneJobPerSlot
<1>3. e.epoch = f.epoch
  BY Zenon DEF FenceOpen
<1> QED
  BY <1>2, <1>3, Zenon DEF AbortInvariant

-----------------------------------------------------------------------------
(* The serving invariant, part by part *)

\* The run a macrotask points its job to is the current one of the job's slot.
LEMMA PointedIsCurrent ==
  ASSUME MidFits, NEW r, Pointed(r)
  PROVE  /\ r \in CurrentIn(SlotOf[mid.job])
         /\ runs' = runs
         /\ mid.at \in {"claimed", "begun"}
BY Zenon DEF Pointed, MidFits, OpenRun, CacheHits, AnswerFromCache, Execute, Throw

LEMMA PointersKept ==
  ASSUME TypeOK, FenceInvariant, PointersFit, MidFits, [Next]_vars
  PROVE  PointersFit'
<1>0. /\ job \in [Job -> JobRow]
      /\ \A r \in DOMAIN runs : r \in DOMAIN runs' /\ runs'[r].slot = runs[r].slot
  BY RowsMoveOn, Zenon DEF TypeOK, MovesOn
<1>1. ASSUME NEW j \in Job, job'[j].run # NoRun
      PROVE  job'[j].run \in DOMAIN runs' /\ runs'[job'[j].run].slot = SlotOf[j]
  <2>1. job[j] \in JobRow
    BY <1>0, Zenon
  <2>2. ASSUME job'[j].run = job[j].run
        PROVE  job'[j].run \in DOMAIN runs' /\ runs'[job'[j].run].slot = SlotOf[j]
    <3>1. job[j].run \in DOMAIN runs /\ runs[job[j].run].slot = SlotOf[j]
      BY <1>1, <2>2, Zenon DEF PointersFit
    <3> QED
      BY <1>0, <2>2, <3>1, Zenon
  <2>3. ASSUME Tame(job[j], job'[j]) PROVE job'[j].run = job[j].run
    BY <1>1, <2>3, Zenon DEF Tame
  <2>4. ASSUME job'[j] = Claimed(job[j]) \/ job'[j] = Settled(job[j], mid.verdict, mid.attempts)
        PROVE  job'[j].run = job[j].run
    <3>1. /\ Claimed(job[j]).run = job[j].run
          /\ Settled(job[j], mid.verdict, mid.attempts).run = job[j].run
      BY <2>1, Zenon DEF Claimed, Settled, JobRow
    <3> QED
      BY <2>4, <3>1, Zenon
  <2>5. ASSUME NEW r, Pointed(r), j = mid.job, job'[j] = [job[j] EXCEPT !.run = r]
        PROVE  job'[j].run \in DOMAIN runs' /\ runs'[job'[j].run].slot = SlotOf[j]
    <3>1. job'[j].run = r
      BY <2>1, <2>5, Zenon DEF JobRow
    <3>2. r \in DOMAIN runs /\ runs[r].slot = SlotOf[j] /\ runs' = runs
      BY <2>5, PointedIsCurrent, Zenon DEF CurrentIn
    <3> QED
      BY <3>1, <3>2, Zenon
  <2> QED
    BY <2>2, <2>3, <2>4, <2>5, JobsTame, Zenon
<1>2. ASSUME NEW d \in execs' PROVE runs'[d.run].slot = SlotOf[d.job]
  <2>1. ASSUME NEW e \in execs PROVE runs'[e.run].slot = SlotOf[e.job]
    <3>1. e.run \in DOMAIN runs /\ runs[e.run].slot = SlotOf[e.job]
      BY Zenon DEF FenceInvariant, Holds, PointersFit
    <3> QED
      BY <1>0, <3>1, Zenon
  <2>2. CASE ~Execute
    <3>1. PICK e \in execs : d.job = e.job /\ d.run = e.run
      BY <2>2, ExecutionsContinue, Zenon DEF Continues
    <3> QED
      BY <2>1, <3>1, Zenon
  <2>3. CASE Execute
    <3>1. PICK j, r : j = mid.job /\ r = mid.run
      BY Zenon
    <3>2. d \in execs \/ (d.job = j /\ d.run = r)
      BY <2>3, <3>1, SMT DEF Execute
    <3>3. r \in CurrentIn(SlotOf[j]) /\ runs' = runs
      BY <2>3, <3>1, Zenon DEF Execute, MidFits, OpenRun
    <3> QED
      BY <2>1, <3>2, <3>3, Zenon DEF CurrentIn
  <2> QED
    BY <2>2, <2>3
<1>3. ASSUME NEW r \in DOMAIN runs' PROVE \E j \in Job : SlotOf[j] = runs'[r].slot
  <2>1. CASE r \in DOMAIN runs
    <3>1. PICK j \in Job : SlotOf[j] = runs[r].slot
      BY <2>1, Zenon DEF PointersFit
    <3>2. runs'[r].slot = runs[r].slot
      BY <1>0, <2>1, Zenon
    <3> QED
      BY <3>1, <3>2, Zenon
  <2>2. CASE r \notin DOMAIN runs
    <3>1. BeginRun
      BY <2>2, RowsStay, Zenon
    <3>2. r = Len(runs) + 1 /\ runs'[Len(runs) + 1].slot = SlotOf[mid.job]
      BY <2>2, <3>1, Begun, Zenon
    <3>3. mid.job \in Job
      BY <3>1, MidType, SMT DEF BeginRun, TypeOK
    <3> QED
      BY <3>2, <3>3, Zenon
  <2> QED
    BY <2>1, <2>2
<1> QED
  BY <1>1, <1>2, <1>3, Zenon DEF PointersFit

\* What a macrotask counts on is there when it gets to it.
LEMMA MidKept ==
  ASSUME TypeOK, FenceInvariant, AbortInvariant, PointersFit, MidFits, [Next]_vars
  PROVE  MidFits'
<1>0. ASSUME UNCHANGED vars PROVE MidFits'
  BY <1>0, Zenon DEF vars, MidFits, OpenRun, CurrentIn, IsCurrent
<1>1. ASSUME Claim
      PROVE  job'[mid'.job].epoch = mid'.epoch /\ job'[mid'.job].status = "running"
  <2>1. PICK j \in Job : /\ job' = [job EXCEPT ![j] = Claimed(@)]
                         /\ mid' = [at |-> "claimed", job |-> j, epoch |-> job[j].epoch + 1,
                                    attempts |-> job[j].attempts + 1]
    BY <1>1, Zenon DEF Claim, FirstInLine, Claimable
  <2>2. job \in [Job -> JobRow] /\ job[j] \in JobRow
    BY Zenon DEF TypeOK
  <2>3. Claimed(job[j]).epoch = job[j].epoch + 1 /\ Claimed(job[j]).status = "running"
    BY <2>2, Zenon DEF Claimed, JobRow
  <2>4. mid'.job = j /\ mid'.epoch = job[j].epoch + 1
    BY <2>1, SMT
  <2>5. job'[j] = Claimed(job[j])
    BY <2>1, <2>2, Zenon
  <2> QED
    BY <2>3, <2>4, <2>5, Zenon
<1>2. ASSUME BeginRun
      PROVE  /\ job'[mid'.job].epoch = mid'.epoch /\ job'[mid'.job].status = "running"
             /\ OpenRun(mid.run, mid.job, mid.epoch)'
  <2> DEFINE n == Len(runs) + 1
  <2>1. /\ n \in DOMAIN runs' /\ runs'[n].slot = SlotOf[mid.job] /\ runs'[n].status = "running"
        /\ ~runs'[n].superseded /\ runs'[n].epoch = mid.epoch
    BY <1>2, Begun, Zenon
  <2>2. mid'.run = n /\ mid'.epoch = mid.epoch /\ mid'.job = mid.job
    BY <1>2, SMT DEF BeginRun
  <2>3. job' = job /\ job[mid.job].epoch = mid.epoch /\ job[mid.job].status = "running"
    BY <1>2, Zenon DEF BeginRun, MidFits
  <2> HIDE DEF n
  <2> QED
    BY <2>1, <2>2, <2>3, Zenon DEF OpenRun, CurrentIn, IsCurrent
<1> DEFINE Settles ==
      /\ mid'.verdict \in {"succeeded", "skipped"} =>
           mid'.run \in CurrentIn(SlotOf[mid.job])' /\ runs'[mid'.run].status = mid'.verdict
      /\ mid'.verdict = "broken" =>
           mid'.run \in DOMAIN runs' /\ runs'[mid'.run].slot = SlotOf[mid'.job]
<1>3. ASSUME AnswerFromCache PROVE Settles
  <2>1. PICK r \in CacheHits(SlotOf[mid.job]) :
          mid' = Settling(mid.job, mid.epoch, mid.attempts, r, runs[r].status)
    BY <1>3, Zenon DEF AnswerFromCache
  <2>2. mid'.run = r /\ mid'.job = mid.job /\ mid'.verdict = runs[r].status
    BY <2>1, SMT DEF Settling
  <2>3. runs' = runs /\ r \in CurrentIn(SlotOf[mid.job]) /\ runs[r].status \in Cacheable
    BY <1>3, Zenon DEF AnswerFromCache, CacheHits
  <2>4. runs[r].status # "broken"
    BY <2>3, SMT DEF Cacheable
  <2> QED
    BY <2>2, <2>3, <2>4, Zenon DEF CurrentIn, IsCurrent
<1>4. ASSUME Throw PROVE Settles
  <2>1. mid'.verdict = "thrown"
    BY <1>4, SMT DEF Throw, Settling
  <2>2. "thrown" \notin {"succeeded", "skipped", "broken"}
    OBVIOUS
  <2> QED
    BY <2>1, <2>2, Zenon
<1>5. ASSUME NEW e \in execs, Commit(e) PROVE Settles
  <2>1. PICK o \in Outcome, res \in Result \cup {NoResult} :
          /\ runs' = [runs EXCEPT ![e.run] = Committed(@, o, res, e.attempts)]
          /\ mid' = Settling(e.job, e.epoch, e.attempts, e.run, o)
    BY <1>5, Zenon DEF Commit
  <2>2. mid'.run = e.run /\ mid'.job = e.job /\ mid'.verdict = o /\ o # "broken"
    <3>1. o # "broken"
      BY JobQueueAssumption, SMT DEF ConstantAssumption
    <3> QED
      BY <2>1, <3>1, SMT DEF Settling
  <2>3. /\ e.run \in DOMAIN runs /\ runs[e.run].slot = SlotOf[e.job] /\ ~runs[e.run].superseded
        /\ runs[e.run] \in RunRow
    <3>1. /\ e.run \in DOMAIN runs /\ runs[e.run].slot = SlotOf[e.job] /\ ~runs[e.run].superseded
      BY <1>5, Zenon DEF Commit, FenceOpen, FenceInvariant, Holds, PointersFit, IsCurrent
    <3> QED
      BY <3>1, RunAt, Zenon DEF TypeOK
  <2>4. /\ runs'[e.run].slot = runs[e.run].slot /\ runs'[e.run].superseded = runs[e.run].superseded
        /\ o \in {"succeeded", "skipped"} => runs'[e.run].status = o
        /\ e.run \in DOMAIN runs'
    <3>1. runs'[e.run] = Committed(runs[e.run], o, res, e.attempts) /\ e.run \in DOMAIN runs'
      BY <2>1, <2>3, Zenon
    <3>2. o \in {"succeeded", "skipped"} => o \notin {"fatal", "retryable"}
      BY SMT
    <3> QED
      BY <2>3, <3>1, <3>2, Zenon DEF Committed, RunRow
  <2> QED
    BY <2>2, <2>3, <2>4, Zenon DEF CurrentIn, IsCurrent
<1>6. ASSUME NEW e \in execs, ApplyFails(e) PROVE Settles
  <2>1. mid'.run = e.run /\ mid'.job = e.job /\ mid'.verdict = "broken" /\ runs' = runs
    BY <1>6, SMT DEF ApplyFails, Settling
  <2>2. e.run \in DOMAIN runs /\ runs[e.run].slot = SlotOf[e.job]
    BY Zenon DEF FenceInvariant, Holds, PointersFit
  <2>3. "broken" \notin {"succeeded", "skipped"}
    OBVIOUS
  <2> QED
    BY <2>1, <2>2, <2>3, Zenon
<1>7. ASSUME Settle, mid'.at = "failing"
      PROVE  /\ mid'.run \in DOMAIN runs' /\ runs'[mid'.run].slot = SlotOf[mid'.job]
             /\ \A e \in execs' : ~(e.job = mid'.job /\ e.epoch = mid'.epoch)
  <2>1. /\ mid.verdict = "broken"
        /\ mid'.run = mid.run /\ mid'.job = mid.job /\ mid'.epoch = mid.epoch
    BY <1>7, SMT DEF Settle, Idle
  <2>2. mid.at = "settling" /\ runs' = runs /\ execs' = execs
    BY <1>7, Zenon DEF Settle
  <2>3. mid.run \in DOMAIN runs /\ runs[mid.run].slot = SlotOf[mid.job]
    BY <2>1, <2>2, Zenon DEF MidFits
  <2>4. \A e \in execs : ~(e.job = mid.job /\ e.epoch = mid.epoch)
    BY <2>2, Zenon DEF AbortInvariant
  <2> QED
    BY <2>1, <2>2, <2>3, <2>4, Zenon
<1> HIDE DEF Settles
<1>8. CASE ~UNCHANGED vars
  <2>1. mid'.at = "claimed" => Claim
    BY <1>8, MidReached, Zenon
  <2>2. mid'.at = "begun" => BeginRun
    BY <1>8, MidReached, Zenon
  <2>3. mid'.at = "settling" => Settles
    BY <1>3, <1>4, <1>5, <1>6, <1>8, MidReached, Zenon
  <2>4. mid'.at = "failing" => Settle
    BY <1>8, MidReached, Zenon
  <2> QED
    BY <1>1, <1>2, <1>7, <2>1, <2>2, <2>3, <2>4, Zenon DEF MidFits, Settles
<1> QED
  BY <1>0, <1>8

\* A run gains output only by a commit that passed its fence.
LEMMA KeptBefore ==
  ASSUME TypeOK, TypeOK', FenceInvariant, [Next]_vars, ~Execute,
         NEW r \in DOMAIN runs, ~runs'[r].superseded, Kept(r)'
  PROVE  Kept(r)
<1>0. runs[r] \in RunRow
  BY RunAt, Zenon DEF TypeOK
<1>1. ASSUME runs'[r].output PROVE Kept(r)
  <2>1. /\ Outgoing(runs[r]).superseded = TRUE /\ Retired(runs[r]).superseded = TRUE
        /\ [runs[r] EXCEPT !.superseded = TRUE].superseded = TRUE
        /\ Failed(runs[r]).output = runs[r].output
    BY <1>0, Zenon DEF Outgoing, Retired, Failed, RunRow
  <2>2. BeginRun /\ r \in CurrentIn(SlotOf[mid.job]) => runs'[r] = Outgoing(runs[r])
    BY Begun, Zenon
  <2>3. \A e \in execs : Commit(e) => FenceOpen(e)
    BY Zenon DEF Commit
  <2>4. runs[r].output \/ \E e \in execs : Commit(e) /\ r = e.run
    BY <1>1, <2>1, <2>2, RowsTouched, Zenon
  <2> QED
    BY <2>3, <2>4, Zenon DEF Kept
<1>2. ASSUME NEW d \in execs', d.run = r, FenceOpen(d)' PROVE Kept(r)
  <2>1. PICK e \in execs : e.run = r /\ e.epoch = d.epoch
    BY <1>2, ExecutionsContinue, Zenon DEF Continues
  <2>2. FenceOpen(e)'
    BY <1>2, <2>1, Zenon DEF FenceOpen
  <2>3. FenceOpen(e)
    BY <2>2, FencesStayShut, Zenon
  <2> QED
    BY <2>1, <2>3, Zenon DEF Kept
<1> QED
  BY <1>1, <1>2, Zenon DEF Kept

LEMMA OwnersKept ==
  ASSUME OneJobPerSlot, TypeOK, TypeOK', FenceInvariant, PointersFit, MidFits, OwnersKnown,
         [Next]_vars
  PROVE  OwnersKnown'
<1> SUFFICES ASSUME NEW j \in Job, NEW r \in DOMAIN runs', runs'[r].slot = SlotOf[j],
                    ~runs'[r].superseded, Kept(r)'
             PROVE  job'[j].run \in {r, NoRun}
  BY Zenon DEF OwnersKnown, CurrentIn, IsCurrent
<1>1. r \in DOMAIN runs
  <2> SUFFICES ASSUME r \notin DOMAIN runs PROVE FALSE
    OBVIOUS
  <2>1. BeginRun
    BY RowsStay, Zenon
  <2>2. r = Len(runs) + 1 /\ ~runs'[Len(runs) + 1].output
    BY <2>1, Begun, Zenon
  <2>3. ~runs'[r].output
    BY <2>2
  <2>4. execs' = execs
    BY <2>1, Zenon DEF BeginRun
  <2>5. \A e \in execs : e.run \in DOMAIN runs
    BY FencesStayShut, Zenon
  <2> QED
    BY <2>3, <2>4, <2>5, Zenon DEF Kept
<1>2. r \in CurrentIn(SlotOf[j])
  BY <1>1, RowsMoveOn, Zenon DEF MovesOn, CurrentIn, IsCurrent
<1>3. job[j] \in JobRow
  BY Zenon DEF TypeOK
<1>4. CASE ~Execute
  <2>1. job[j].run \in {r, NoRun}
    BY <1>1, <1>2, <1>4, KeptBefore, Zenon DEF OwnersKnown
  <2>2. \/ job'[j].run \in {job[j].run, NoRun}
        \/ \E q : Pointed(q) /\ j = mid.job /\ job'[j].run = q
    <3>1. /\ Claimed(job[j]).run = job[j].run
          /\ Settled(job[j], mid.verdict, mid.attempts).run = job[j].run
          /\ \A q : [job[j] EXCEPT !.run = q].run = q
      BY <1>3, Zenon DEF Claimed, Settled, JobRow
    <3>2. \/ Tame(job[j], job'[j])
          \/ job'[j] = Claimed(job[j])
          \/ job'[j] = Settled(job[j], mid.verdict, mid.attempts)
          \/ \E q : Pointed(q) /\ j = mid.job /\ job'[j] = [job[j] EXCEPT !.run = q]
      BY JobsTame, Zenon
    <3>3. Tame(job[j], job'[j]) => job'[j].run \in {job[j].run, NoRun}
      BY Zenon DEF Tame
    <3> QED
      BY <3>1, <3>2, <3>3, Zenon
  <2>3. ASSUME NEW q, Pointed(q), j = mid.job, job'[j].run = q PROVE job'[j].run = r
    <3>1. q \in CurrentIn(SlotOf[j])
      BY <2>3, PointedIsCurrent, Zenon
    <3>2. q = r
      BY <1>2, <3>1, Zenon DEF FenceInvariant, OneCurrentRun, CurrentIn
    <3> QED
      BY <2>3, <3>2, Zenon
  <2> QED
    BY <2>1, <2>2, <2>3, Zenon
<1>5. CASE Execute
  <2>1. PICK i, q, epoch : i = mid.job /\ q = mid.run /\ epoch = mid.epoch
    BY Zenon
  <2>2. /\ runs' = runs /\ i \in Job /\ runs[q].slot = SlotOf[i] /\ job[i].epoch = epoch
        /\ \A d \in execs' : d \in execs \/ d.run = q
    <3>1. mid.at = "begun" /\ runs' = runs
      BY <1>5, Zenon DEF Execute
    <3>2. i \in Job
      BY <2>1, <3>1, MidType, SMT DEF TypeOK
    <3>3. runs[q].slot = SlotOf[i] /\ job[i].epoch = epoch
      BY <2>1, <3>1, Zenon DEF MidFits, OpenRun, CurrentIn
    <3>4. \A d \in execs' : d \in execs \/ d.run = q
      BY <1>5, <2>1, SMT DEF Execute
    <3> QED
      BY <3>1, <3>2, <3>3, <3>4
  <2>3. job' = [job EXCEPT ![i].run = q]
    BY <1>5, <2>1, <2>2, Zenon DEF Execute, Pointing
  <2>4. job'[i].run = q /\ (j # i => job'[j] = job[j])
    <3>1. job \in [Job -> JobRow] /\ job[i] \in JobRow
      BY <2>2, Zenon DEF TypeOK
    <3>2. [job[i] EXCEPT !.run = q].run = q
      BY <3>1, Zenon DEF JobRow
    <3> QED
      BY <2>2, <2>3, <3>1, <3>2, Zenon
  <2>5. CASE j = i
    <3>1. q \in CurrentIn(SlotOf[i])
      BY <1>5, <2>1, Zenon DEF Execute, MidFits, OpenRun
    <3>2. q = r
      BY <1>2, <2>5, <3>1, Zenon DEF FenceInvariant, OneCurrentRun, CurrentIn
    <3> QED
      BY <2>4, <2>5, <3>2, Zenon
  <2>6. CASE j # i
    <3>1. r # q
      BY <1>2, <2>2, <2>6, Zenon DEF OneJobPerSlot, CurrentIn
    <3>2. Kept(r)
      BY <2>2, <3>1, Zenon DEF Kept, FenceOpen
    <3> QED
      BY <1>2, <2>4, <2>6, <3>2, Zenon DEF OwnersKnown
  <2> QED
    BY <2>5, <2>6
<1> QED
  BY <1>4, <1>5

\* No step but its own commit shuts the fence of an execution whose job goes on
\* running here, unless the job has been claimed again.
LEMMA FenceKept ==
  ASSUME OneJobPerSlot, TypeOK, FenceInvariant, AbortInvariant, PointersFit, MidFits,
         OwnersKnown, [Next]_vars,
         NEW e \in execs, FenceOpen(e),
         job[e.job].status = "running", job[e.job].owner = "mine", job'[e.job].status = "running"
  PROVE  FenceOpen(e)' \/ Commit(e) \/ (BeginRun /\ mid.job = e.job)
<1> DEFINE r == e.run
<1>0. /\ e \in Execution /\ e.job \in Job /\ job \in [Job -> JobRow] /\ job[e.job] \in JobRow
      /\ r \in DOMAIN runs /\ runs[r] \in RunRow /\ runs[r].slot = SlotOf[e.job]
      /\ runs[r].epoch = e.epoch /\ runs[r].status = "running" /\ r # NoRun
  <2>1. e \in Execution /\ job \in [Job -> JobRow] /\ runs \in Seq(RunRow)
    BY Zenon DEF TypeOK
  <2>2. r \in DOMAIN runs /\ runs[r].slot = SlotOf[e.job]
    BY Zenon DEF FenceInvariant, Holds, PointersFit
  <2>3. runs[r].epoch = e.epoch /\ runs[r].status = "running"
    BY Zenon DEF FenceOpen
  <2>4. r # NoRun
    BY <2>1, <2>2, SMT DEF NoRun
  <2> QED
    BY <2>1, <2>2, <2>3, <2>4, ExecType, RunAt, Zenon
<1>1. ASSUME NEW i \in Job, SlotOf[i] = SlotOf[e.job] PROVE i = e.job
  BY <1>0, <1>1, Zenon DEF OneJobPerSlot
<1>2. CASE runs'[r].epoch = runs[r].epoch /\ runs'[r].status = runs[r].status
  BY <1>0, <1>2, Zenon DEF FenceOpen
<1>3. ASSUME BeginRun, r \in CurrentIn(SlotOf[mid.job]) PROVE mid.job = e.job
  <2>1. mid.job \in Job
    BY <1>3, MidType, SMT DEF BeginRun, TypeOK
  <2> QED
    BY <1>0, <1>1, <1>3, <2>1, Zenon DEF CurrentIn
<1>4. ASSUME FailRun, r = mid.run, runs[r].epoch = mid.epoch PROVE FALSE
  <2>1. mid.job \in Job
    BY <1>4, MidType, SMT DEF FailRun, TypeOK
  <2>2. runs[mid.run].slot = SlotOf[mid.job] /\ ~(e.job = mid.job /\ e.epoch = mid.epoch)
    BY <1>4, Zenon DEF FailRun, MidFits
  <2>3. SlotOf[mid.job] = SlotOf[e.job]
    BY <1>0, <1>4, <2>2
  <2> QED
    BY <1>0, <1>1, <1>4, <2>1, <2>2, <2>3, Zenon
<1>5. ASSUME NEW f \in execs, Commit(f), r = f.run PROVE Commit(e)
  <2>1. FenceOpen(f)
    BY <1>5, Zenon DEF Commit
  <2> QED
    BY <1>5, <2>1, OneHolder, Zenon
<1>6. ASSUME NEW i \in Job, r = job[i].run PROVE i = e.job
  <2>1. runs[r].slot = SlotOf[i]
    BY <1>0, <1>6, Zenon DEF PointersFit
  <2> QED
    BY <1>0, <1>1, <2>1
<1>7. ASSUME NEW i \in Job, Cancel(i), r = job[i].run PROVE FALSE
  <2>1. job'[e.job] = Dismissed(job[e.job])
    BY <1>0, <1>6, <1>7, Zenon DEF Cancel
  <2>2. Dismissed(job[e.job]).status = "cancelled"
    BY <1>0, Zenon DEF Dismissed, JobRow
  <2> QED
    BY <2>1, <2>2
<1>8. ASSUME NEW i \in Job, r = job[i].run, Foreign(job[i]) PROVE FALSE
  BY <1>6, <1>8, Zenon DEF Foreign
<1>9. ASSUME NEW p \in Project, NEW S, Rerun(p, S), IsCurrent(r), runs[r].slot \in Cascade(S)
      PROVE  FALSE
  <2> DEFINE retired == {q \in DOMAIN runs : IsCurrent(q) /\ runs[q].slot \in Cascade(S)}
  <2>1. r \in retired
    BY <1>0, <1>9, Zenon
  <2>2. Kept(r) /\ r \in CurrentIn(SlotOf[e.job])
    BY <1>0, <1>9, Zenon DEF Kept, CurrentIn
  <2>3. job[e.job].run \in {r, NoRun}
    BY <1>0, <2>2, Zenon DEF OwnersKnown
  <2>4. job[e.job].run \in retired \/ job[e.job].run = NoRun
    BY <2>1, <2>3
  <2>5. e.job \in Owners(retired)
    <3> HIDE DEF retired
    <3> QED
      BY <1>0, <2>4, Zenon DEF Owners
  <2>6. job'[e.job].status = "queued"
    BY <1>0, <1>9, <2>5, RerunQueues, Zenon
  <2> QED
    BY <2>6
<1>10. ASSUME runs'[r] = [runs[r] EXCEPT !.superseded = TRUE]
       PROVE  runs'[r].epoch = runs[r].epoch /\ runs'[r].status = runs[r].status
  BY <1>0, <1>10, Zenon DEF RunRow
<1> HIDE DEF r
<1> QED
  BY <1>0, <1>2, <1>3, <1>4, <1>5, <1>7, <1>8, <1>9, <1>10, RowsTouched, Zenon

\* A job that has just been claimed is in hand until its execution is under way.
LEMMA HandKept ==
  ASSUME TypeOK, MidFits, [Next]_vars, NEW j \in Job, InHand(j),
         job'[j].status = "running", job'[j].owner = "mine", job'[j].epoch = job[j].epoch
  PROVE  InHand(j)' \/ \E e \in execs' : Serves(e, j)'
<1>0. mid.at \in {"claimed", "begun", "settling"} /\ mid.job = j /\ mid.epoch = job[j].epoch
  BY Zenon DEF InHand
<1>1. CASE UNCHANGED vars
  BY <1>0, <1>1, Zenon DEF vars, InHand
<1>2. CASE AnswerFromCache \/ BeginRun \/ Throw
  <2>1. mid'.at \in {"begun", "settling"} /\ mid'.job = mid.job /\ mid'.epoch = mid.epoch
    BY <1>2, SMT DEF AnswerFromCache, BeginRun, Throw, Settling
  <2> QED
    BY <1>0, <2>1, Zenon DEF InHand
<1>3. CASE Execute
  <2>1. PICK d \in execs' : /\ d.job = mid.job /\ d.epoch = mid.epoch /\ d.run = mid.run
                            /\ d.aborted = FALSE
    <3> DEFINE new == [job |-> mid.job, epoch |-> mid.epoch, run |-> mid.run,
                       attempts |-> mid.attempts, aborted |-> FALSE, silent |-> FALSE]
    <3>1. new \in execs'
      BY <1>3, Zenon DEF Execute
    <3>2. new.job = mid.job /\ new.epoch = mid.epoch /\ new.run = mid.run /\ new.aborted = FALSE
      OBVIOUS
    <3> HIDE DEF new
    <3> QED
      BY <3>1, <3>2, Zenon
  <2>2. runs' = runs /\ runs[mid.run].epoch = mid.epoch /\ runs[mid.run].status = "running"
    BY <1>3, Zenon DEF Execute, MidFits, OpenRun
  <2>3. Serves(d, j)'
    BY <1>0, <2>1, <2>2, Zenon DEF Serves, FenceOpen
  <2> QED
    BY <2>3, Zenon
<1>4. CASE Settle
  <2>1. job'[j] = Settled(job[j], mid.verdict, mid.attempts)
    <3>1. job \in [Job -> JobRow]
      BY Zenon DEF TypeOK
    <3>2. job' = [job EXCEPT ![j] = Settled(@, mid.verdict, mid.attempts)]
      BY <1>0, <1>4, Zenon DEF Settle
    <3> QED
      BY <3>1, <3>2, Zenon
  <2>2. Settled(job[j], mid.verdict, mid.attempts).status = SettledStatus(mid.verdict, mid.attempts)
    BY Zenon DEF Settled, TypeOK, JobRow
  <2>3. SettledStatus(mid.verdict, mid.attempts) # "running"
    BY SMT DEF SettledStatus
  <2> QED
    BY <2>1, <2>2, <2>3
<1>5. CASE Crash
  <2>1. job'[j].owner # "mine"
    <3>1. job[j] \in JobRow /\ "dead" # "mine"
      BY Zenon DEF TypeOK
    <3>2. job'[j] = [job[j] EXCEPT !.owner = IF @ = "mine" THEN "dead" ELSE @]
      BY <1>5, Zenon DEF Crash
    <3>3. job'[j].owner = IF job[j].owner = "mine" THEN "dead" ELSE job[j].owner
      BY <3>1, <3>2, Zenon DEF JobRow
    <3> QED
      BY <3>1, <3>3, Zenon
  <2> QED
    BY <2>1
<1> QED
  <2>1. mid # Idle
    BY <1>0, SMT DEF Idle
  <2>2. ~FailRun /\ ~CancelDependents
    BY <1>0, SMT DEF FailRun, CancelDependents
  <2>3. UNCHANGED vars \/ AnswerFromCache \/ BeginRun \/ Throw \/ Execute \/ Settle \/ Crash
    BY <2>1, <2>2, Zenon DEF Next, Quiet, UserActs, Claim, RetireExhausted, Macrotask, Returns,
       Abandon, Commit, ApplyFails, Heartbeat, LeaseLapses, BackoffElapses, ReclaimExpiredLeases,
       Start, Stop, User, Plan, Reprocess, RerunStage, ReprocessForced, Rerun, Retry, Cancel,
       WorldChanges
  <2> QED
    BY <1>1, <1>2, <1>3, <1>4, <1>5, <2>3

LEMMA ServedKept ==
  ASSUME OneJobPerSlot, TypeOK, FenceInvariant, AbortInvariant, ServingInvariant, [Next]_vars
  PROVE  Served'
<1> USE DEF ServingInvariant
<1> SUFFICES ASSUME NEW j \in Job, job'[j].status = "running", job'[j].owner = "mine"
             PROVE  InHand(j)' \/ \E e \in execs' : Serves(e, j)'
  BY Zenon DEF Served
<1>0. job \in [Job -> JobRow] /\ job[j] \in JobRow
  BY Zenon DEF TypeOK
<1>1. ASSUME Claim, job'[j] # job[j] PROVE InHand(j)'
  <2>1. PICK i \in Job : /\ job' = [job EXCEPT ![i] = Claimed(@)]
                         /\ mid' = [at |-> "claimed", job |-> i, epoch |-> job[i].epoch + 1,
                                    attempts |-> job[i].attempts + 1]
    BY <1>1, Zenon DEF Claim, FirstInLine, Claimable
  <2>2. i = j /\ job'[j] = Claimed(job[j])
    BY <1>0, <1>1, <2>1, Zenon
  <2>3. Claimed(job[j]).epoch = job[j].epoch + 1
    BY <1>0, Zenon DEF Claimed, JobRow
  <2>4. mid'.at = "claimed" /\ mid'.job = j /\ mid'.epoch = job[j].epoch + 1
    BY <2>1, <2>2, SMT
  <2> QED
    BY <2>2, <2>3, <2>4, Zenon DEF InHand
<1>2. CASE ~Claim \/ job'[j] = job[j]
  <2>1. job[j].status = "running" /\ job[j].owner = "mine" /\ job'[j].epoch = job[j].epoch
    <3>1. ASSUME NEW r, job'[j] = [job[j] EXCEPT !.run = r]
          PROVE  /\ job[j].status = "running" /\ job[j].owner = "mine"
                 /\ job'[j].epoch = job[j].epoch
      BY <1>0, <3>1, Zenon DEF JobRow
    <3>2. job'[j] # Settled(job[j], mid.verdict, mid.attempts)
      <4>1. Settled(job[j], mid.verdict, mid.attempts).status = SettledStatus(mid.verdict, mid.attempts)
        BY <1>0, Zenon DEF Settled, JobRow
      <4>2. SettledStatus(mid.verdict, mid.attempts) # "running"
        BY SMT DEF SettledStatus
      <4> QED
        BY <4>1, <4>2
    <3>3. ASSUME Tame(job[j], job'[j])
          PROVE  /\ job[j].status = "running" /\ job[j].owner = "mine"
                 /\ job'[j].epoch = job[j].epoch
      BY <3>3, Zenon DEF Tame
    <3> QED
      BY <1>2, <3>1, <3>2, <3>3, JobsTame, Zenon
  <2>2. CASE InHand(j)
    BY <2>1, <2>2, HandKept, Zenon
  <2>3. ASSUME NEW e \in execs, Serves(e, j)
        PROVE  InHand(j)' \/ \E d \in execs' : Serves(d, j)'
    <3>0. e.job = j /\ e.epoch = job[j].epoch /\ ~e.aborted /\ FenceOpen(e)
      BY <2>3, Zenon DEF Serves
    <3>1. ASSUME Commit(e) \/ ApplyFails(e) PROVE InHand(j)'
      <4>1. mid'.at = "settling" /\ mid'.job = e.job /\ mid'.epoch = e.epoch
        BY <3>1, SMT DEF Commit, ApplyFails, Settling
      <4> QED
        BY <2>1, <3>0, <4>1, Zenon DEF InHand
    <3>2. ASSUME BeginRun, mid.job = j PROVE InHand(j)'
      <4>1. job[j].epoch = mid.epoch
        BY <3>2, Zenon DEF BeginRun, MidFits
      <4>2. mid'.at = "begun" /\ mid'.job = mid.job /\ mid'.epoch = mid.epoch
        BY <3>2, SMT DEF BeginRun
      <4> QED
        BY <2>1, <3>2, <4>1, <4>2, Zenon DEF InHand
    <3>3. ~Abandon(e)
      BY <3>0, Zenon DEF Abandon
    <3>4. ~Crash
      <4> SUFFICES ASSUME Crash PROVE FALSE
        OBVIOUS
      <4>1. job'[j] = [job[j] EXCEPT !.owner = IF @ = "mine" THEN "dead" ELSE @]
        BY Zenon DEF Crash
      <4>2. job'[j].owner = IF job[j].owner = "mine" THEN "dead" ELSE job[j].owner
        BY <1>0, <4>1, Zenon DEF JobRow
      <4>3. "dead" # "mine"
        OBVIOUS
      <4> QED
        BY <4>2, <4>3, Zenon
    <3>5. job'[e.job].status \notin {"queued", "cancelled"}
      BY <3>0
    <3>6. ASSUME NEW d \in execs', SameClaim(d, e), d.run = e.run, ~d.aborted, FenceOpen(e)'
          PROVE  Serves(d, j)'
      BY <2>1, <3>0, <3>6, Zenon DEF SameClaim, Serves, FenceOpen
    <3>7. FenceOpen(e)' \/ Commit(e) \/ (BeginRun /\ mid.job = j)
      BY <2>1, <3>0, FenceKept, Zenon
    <3>8. \/ Commit(e) \/ ApplyFails(e)
          \/ \E d \in execs' : SameClaim(d, e) /\ d.run = e.run /\ ~d.aborted
      BY <3>0, <3>3, <3>4, <3>5, ServersGoOn, Zenon
    <3> QED
      BY <3>1, <3>2, <3>6, <3>7, <3>8, Zenon
  <2> QED
    BY <2>1, <2>2, <2>3, Zenon DEF Served
<1> QED
  BY <1>1, <1>2

\* On papers whose jobs have slots of their own, every pointer, macrotask,
\* execution and running job fit together in every state, between and inside
\* macrotasks.
THEOREM ServingHolds ==
  ASSUME OneJobPerSlot
  PROVE  Spec => []ServingInvariant
<1>1. Init => ServingInvariant
  <2> SUFFICES ASSUME Init PROVE ServingInvariant
    OBVIOUS
  <2>1. DOMAIN runs = {} /\ execs = {} /\ mid.at = "idle"
    BY SMT DEF Init, Idle
  <2>2. \A j \in Job : job[j].run = NoRun /\ job[j].status # "running"
    <3>1. /\ NewRow.run = NoRun /\ [NewRow EXCEPT !.status = "absent"].run = NoRun
          /\ NewRow.status = "queued" /\ [NewRow EXCEPT !.status = "absent"].status = "absent"
      BY SMT DEF NewRow
    <3>2. "queued" # "running" /\ "absent" # "running"
      OBVIOUS
    <3> QED
      BY <3>1, <3>2, Zenon DEF Init
  <2>3. PointersFit /\ OwnersKnown /\ Served
    BY <2>1, <2>2, Zenon DEF PointersFit, OwnersKnown, CurrentIn, Served
  <2>4. MidFits
    BY <2>1, SMT DEF MidFits
  <2> QED
    BY <2>3, <2>4, Zenon DEF ServingInvariant
<1>2. /\ TypeOK /\ TypeOK' /\ FenceInvariant /\ AbortInvariant /\ ServingInvariant /\ [Next]_vars
      => ServingInvariant'
  BY PointersKept, MidKept, OwnersKept, ServedKept, Zenon DEF ServingInvariant
<1> QED
  BY <1>1, <1>2, TypeCorrect, FencesHold, AbortsHold, PTL DEF Spec

\* Where no two jobs share a slot, a job that is marked running here always has
\* an execution that can still settle it: no reclaim, cancel, re-run, retry,
\* restart or late return leaves one behind that nobody will finish.
THEOREM NoZombies ==
  ASSUME OneJobPerSlot
  PROVE  Spec => []NoZombieJob
<1>1. ServingInvariant => NoZombieJob
  <2>1. Quiet => mid.at \notin {"claimed", "begun", "settling"}
    BY SMT DEF Quiet, Idle
  <2> QED
    BY <2>1, Zenon DEF ServingInvariant, Served, InHand, Serves, NoZombieJob
<1> QED
  BY <1>1, ServingHolds, PTL

-----------------------------------------------------------------------------
(* What is done, and what is destroyed *)

\* The slots and the projects of jobs, and the slots of rows, are slots and
\* projects.
LEMMA PlacesAreTyped ==
  /\ \A j \in Job : SlotOf[j] \in Slot /\ ProjectOf[j] \in Project /\ Blockers[j] \subseteq Job
  /\ TypeOK => \A r \in DOMAIN runs : runs[r] \in RunRow /\ runs[r].slot \in Slot
<1>1. \A j \in Job : SlotOf[j] \in Slot /\ ProjectOf[j] \in Project /\ Blockers[j] \subseteq Job
  BY JobQueueAssumption, Zenon DEF ConstantAssumption
<1>2. ASSUME TypeOK, NEW r \in DOMAIN runs PROVE runs[r] \in RunRow /\ runs[r].slot \in Slot
  <2>1. runs[r] \in RunRow
    BY <1>2, RunAt, Zenon DEF TypeOK
  <2> QED
    BY <2>1, Zenon DEF RunRow
<1> QED
  BY <1>1, <1>2, Zenon

\* Within one project whose jobs have slots and stages of their own, a step that
\* leaves a job done, or makes it so, leaves a finished current run behind it.
LEMMA BackedKept ==
  ASSUME OneJobPerSlot, OneSlotPerStage, OneProject, TypeOK, FenceInvariant, PointersFit,
         MidFits, [Next]_vars,
         NEW j \in Job, job[j].status = "done" => Backed(j), job'[j].status = "done"
  PROVE  Backed(j)'
<1>0. /\ job[j] \in JobRow
      /\ "done" \notin {"running", "failed", "cancelled", "review", "queued"}
  BY Zenon DEF TypeOK
<1>1. ASSUME Settle, j = mid.job, job'[j] = Settled(job[j], mid.verdict, mid.attempts)
      PROVE  Backed(j)'
  <2>1. Settled(job[j], mid.verdict, mid.attempts).status = SettledStatus(mid.verdict, mid.attempts)
    BY <1>0, Zenon DEF Settled, JobRow
  <2>2. SettledStatus(mid.verdict, mid.attempts) = "done"
    BY <1>1, <2>1
  <2>3. mid.verdict \in {"succeeded", "skipped"}
    BY <2>2, SMT DEF SettledStatus
  <2>4. PICK q : q \in CurrentIn(SlotOf[j]) /\ runs[q].status \in {"succeeded", "skipped"}
    BY <1>1, <2>3, Zenon DEF Settle, MidFits
  <2>5. runs' = runs
    BY <1>1, Zenon DEF Settle
  <2> QED
    BY <2>4, <2>5, Zenon DEF Backed, CurrentIn, IsCurrent
<1>2. ASSUME ~(Settle /\ j = mid.job /\ job'[j] = Settled(job[j], mid.verdict, mid.attempts))
      PROVE  Backed(j)'
  <2>1. job[j].status = "done"
    <3>1. Claimed(job[j]).status = "running"
      BY <1>0, Zenon DEF Claimed, JobRow
    <3>2. \A q : [job[j] EXCEPT !.run = q].status = job[j].status
      BY <1>0, Zenon DEF JobRow
    <3>3. Tame(job[j], job'[j]) => job[j].status = "done"
      BY Zenon DEF Tame
    <3>4. \/ Tame(job[j], job'[j])
          \/ job'[j] = Claimed(job[j])
          \/ Settle /\ j = mid.job /\ job'[j] = Settled(job[j], mid.verdict, mid.attempts)
          \/ \E q : job'[j] = [job[j] EXCEPT !.run = q]
      BY JobsTame, Zenon
    <3>5. job'[j].status = "done" /\ "done" # "running"
      BY <1>0
    <3> QED
      BY <1>2, <3>1, <3>2, <3>3, <3>4, <3>5, Zenon
  <2>2. PICK r : r \in CurrentIn(SlotOf[j]) /\ runs[r].status \in {"succeeded", "skipped"}
    BY <2>1, Zenon DEF Backed
  <2>3. /\ r \in DOMAIN runs /\ IsCurrent(r) /\ runs[r].slot = SlotOf[j]
        /\ runs[r].status # "running" /\ r \in DOMAIN runs'
    <3>1. r \in DOMAIN runs /\ IsCurrent(r) /\ runs[r].slot = SlotOf[j]
      BY <2>2, Zenon DEF CurrentIn
    <3>2. r \in DOMAIN runs'
      BY <3>1, RowsMoveOn, Zenon
    <3>3. runs[r].status # "running"
      BY <2>2, SMT
    <3> QED
      BY <3>1, <3>2, <3>3
  <2>4. ASSUME NEW i \in Job, SlotOf[i] = SlotOf[j] PROVE i = j
    BY <2>4, Zenon DEF OneJobPerSlot
  <2>5. ~(BeginRun /\ r \in CurrentIn(SlotOf[mid.job]))
    <3> SUFFICES ASSUME BeginRun, r \in CurrentIn(SlotOf[mid.job]) PROVE FALSE
      OBVIOUS
    <3>1. mid.job \in Job /\ job[mid.job].status = "running"
      BY MidType, SMT DEF BeginRun, TypeOK, MidFits
    <3>2. SlotOf[mid.job] = SlotOf[j]
      BY <2>3, Zenon DEF CurrentIn
    <3>3. mid.job = j
      BY <2>4, <3>1, <3>2
    <3> QED
      BY <1>0, <2>1, <3>1, <3>3
  <2>6. \A e \in execs : ~(Commit(e) /\ r = e.run)
    BY <2>3, Zenon DEF Commit, FenceOpen
  <2>7. ASSUME NEW i \in Job, Retry(i), r \in Verdicts(i) PROVE FALSE
    <3>1. Rank[SlotOf[j]] = Rank[SlotOf[i]]
      BY <2>3, <2>7, Zenon DEF Verdicts
    <3>2. i = j
      BY <2>4, <3>1, PlacesAreTyped, Zenon DEF OneSlotPerStage
    <3>3. job[i].status \in {"failed", "cancelled", "review"}
      BY <2>7, Zenon DEF Retry
    <3> QED
      BY <1>0, <2>1, <3>2, <3>3
  <2>8. ASSUME Start, NEW i \in Job, r = job[i].run, job[i].status = "running" PROVE FALSE
    <3>1. r # NoRun
      BY <2>3, SMT DEF TypeOK, NoRun
    <3>2. SlotOf[i] = SlotOf[j]
      BY <2>3, <2>8, <3>1, Zenon DEF PointersFit
    <3> QED
      BY <1>0, <2>1, <2>4, <2>8, <3>2
  <2>9. ASSUME NEW p \in Project, NEW S, Rerun(p, S) PROVE FALSE
    <3>1. ProjectOf[j] = p
      BY PlacesAreTyped, Zenon DEF OneProject
    <3>2. job'[j].status \notin {"absent", "done", "review", "failed"}
      BY <2>9, <3>1, RerunQueues, Zenon
    <3> QED
      BY <3>2
  <2>10. runs'[r] = runs[r]
    BY <2>3, <2>5, <2>6, <2>7, <2>8, <2>9, RowsTouched, Zenon
  <2> QED
    BY <2>2, <2>3, <2>10, Zenon DEF Backed, CurrentIn, IsCurrent
<1> QED
  BY <1>1, <1>2

\* A cancelled row says who cancelled it, the user or a job it waits for, in
\* every state and on any paper.
THEOREM CancelsStayExplained == Spec => []CancelsExplained
<1>1. Init => CancelsExplained
  <2> SUFFICES ASSUME Init PROVE CancelsExplained
    OBVIOUS
  <2>1. \A j \in Job : job[j].status \in {"queued", "absent"} /\ job[j].upstream = FALSE
    <3>1. /\ NewRow.upstream = FALSE /\ [NewRow EXCEPT !.status = "absent"].upstream = FALSE
          /\ NewRow.status = "queued" /\ [NewRow EXCEPT !.status = "absent"].status = "absent"
      BY SMT DEF NewRow
    <3> QED
      BY <3>1, Zenon DEF Init
  <2>2. \A j \in Job : job[j].status # "cancelled" /\ ~job[j].upstream
    BY <2>1, SMT
  <2> QED
    BY <2>2, Zenon DEF CancelsExplained
<1>2. TypeOK /\ CancelsExplained /\ [Next]_vars => CancelsExplained'
  <2> SUFFICES ASSUME TypeOK, CancelsExplained, [Next]_vars, NEW j \in Job
               PROVE  Explained(j, job'[j])
    BY Zenon DEF CancelsExplained, Explained
  <2>1. Explained(j, job[j])
    BY Zenon DEF CancelsExplained, Explained
  <2> QED
    BY <2>1, JobsExplained, Zenon
<1> QED
  BY <1>1, <1>2, TypeCorrect, PTL DEF Spec

\* Where a paper is in one project and each of its jobs has a slot and a stage
\* of its own, a finished job is backed and a cancelled one explained in every
\* state, between and inside macrotasks.
THEOREM BackingHolds ==
  ASSUME OneJobPerSlot, OneSlotPerStage, OneProject
  PROVE  Spec => []BackingInvariant
<1>1. Init /\ ServingInvariant /\ CancelsExplained => BackingInvariant
  <2> SUFFICES ASSUME Init, NEW j \in Job PROVE job[j].status # "done"
    BY Zenon DEF BackingInvariant
  <2>1. NewRow.status = "queued" /\ [NewRow EXCEPT !.status = "absent"].status = "absent"
    BY SMT DEF NewRow
  <2>2. job[j].status \in {"queued", "absent"}
    BY <2>1, Zenon DEF Init
  <2> QED
    BY <2>2, SMT
<1>2. /\ TypeOK /\ FenceInvariant /\ BackingInvariant /\ ServingInvariant' /\ CancelsExplained'
      /\ [Next]_vars
      => BackingInvariant'
  BY BackedKept, Zenon DEF BackingInvariant, ServingInvariant
<1> QED
  BY <1>1, <1>2, TypeCorrect, FencesHold, ServingHolds, CancelsStayExplained, PTL DEF Spec

\* There, a finished job stands for a current run that finished, whatever
\* retired, revived, restarted or committed late in between.
THEOREM DoneStaysBacked ==
  ASSUME OneJobPerSlot, OneSlotPerStage, OneProject
  PROVE  Spec => []DoneIsBacked
<1>1. BackingInvariant => DoneIsBacked
  BY Zenon DEF BackingInvariant, DoneIsBacked
<1> QED
  BY <1>1, BackingHolds, PTL

\* supersedeCascade's walk takes whatever is downstream of anything it takes.
LEMMA CascadeIsClosed ==
  ASSUME NEW S, NEW s \in Cascade(S)
  PROVE  Downstream[s] \subseteq Cascade(S)
<1> DEFINE Closed(T) == S \subseteq T /\ \A u \in T : Downstream[u] \subseteq T
<1>1. \A c : c \in Cascade(S) <=> c \in Slot /\ \A T \in SUBSET Slot : Closed(T) => c \in T
  BY Zenon DEF Cascade
<1> SUFFICES ASSUME NEW t \in Downstream[s] PROVE t \in Cascade(S)
  OBVIOUS
<1>2. s \in Slot /\ t \in Slot
  BY <1>1, JobQueueAssumption, Zenon DEF ConstantAssumption
<1> QED
  BY <1>1, <1>2, Zenon

\* An operation of the user that takes output away is a re-run, and the run was
\* in its cascade: a cancel meets only a run that has none yet, and a retry
\* leaves what it takes back.
LEMMA RerunsDestroy ==
  ASSUME TypeOK, FenceInvariant, [Next]_vars,
         NEW r \in DOMAIN runs, ops' > ops, runs[r].output, ~runs'[r].output
  PROVE  \E p \in Project : \E S : Rerun(p, S) /\ IsCurrent(r) /\ runs[r].slot \in Cascade(S)
<1>1. ops' # ops
  <2>1. ops \in Nat
    BY JobQueueAssumption, SMT DEF TypeOK, ConstantAssumption
  <2> QED
    BY <2>1, SMT
<1>2. runs[r].status # "running"
  BY SMT DEF FenceInvariant
<1>3. [runs[r] EXCEPT !.superseded = TRUE].output = runs[r].output
  BY PlacesAreTyped, Zenon DEF RunRow
<1>4. ~BeginRun /\ ~FailRun /\ ~Start /\ \A e \in execs : ~Commit(e)
  BY <1>1, Zenon DEF BeginRun, FailRun, Start, Commit
<1> QED
  BY <1>2, <1>3, <1>4, RowsTouched, Zenon

\* Within one project whose jobs have slots of their own, output that a re-run
\* destroys is scheduled again: its job owned it, or ended, or waits for a job of
\* the same project, and is queued; or the user cancelled it after its run was
\* dropped, and the cancellation stands.
THEOREM DestroyedStaysScheduled ==
  ASSUME OneJobPerSlot, OneProject
  PROVE  Spec => DestroyedIsScheduled
<1> DEFINE Lost(r) == ops' > ops /\ runs[r].output /\ ~runs'[r].output
           Scheduled(r) == \E j \in Job : /\ SlotOf[j] = runs[r].slot
                                          /\ \/ job'[j].status \in {"queued", "running"}
                                             \/ job'[j].cancelReq /\ job[j].run = NoRun
<1>1. ASSUME TypeOK, FenceInvariant, ServingInvariant, CancelsExplained, [Next]_vars,
             NEW r \in DOMAIN runs, Lost(r)
      PROVE  Scheduled(r)
  <2>0. runs[r] \in RunRow /\ runs[r].output
    BY <1>1, PlacesAreTyped, Zenon
  <2>1. PICK p, S : /\ p \in Project /\ Rerun(p, S)
                    /\ IsCurrent(r) /\ runs[r].slot \in Cascade(S)
    BY <1>1, RerunsDestroy, Zenon
  <2>2. PICK j \in Job : SlotOf[j] = runs[r].slot
    BY <1>1, Zenon DEF ServingInvariant, PointersFit
  <2>3. /\ job[j] \in JobRow /\ ProjectOf[j] = p
        /\ \A b \in Blockers[j] : b \in Job /\ ProjectOf[b] = p
    BY <1>1, <2>1, PlacesAreTyped, Zenon DEF TypeOK, OneProject
  <2> DEFINE retired == {q \in DOMAIN runs : IsCurrent(q) /\ runs[q].slot \in Cascade(S)}
  <2>4. r \in retired
    BY <2>1, Zenon
  <2>5. job[j].run \in {r, NoRun}
    BY <1>1, <2>0, <2>1, <2>2, Zenon DEF ServingInvariant, OwnersKnown, CurrentIn, Kept
  <2>6. j \in Owners(retired) => job'[j].status = "queued"
    BY <1>1, <2>1, RerunQueues, Zenon
  <2>7. /\ job'[j] = job[j] \/ job'[j].status = "queued"
        /\ job[j].status \in {"absent", "queued", "done", "review", "failed"} =>
             job'[j].status = "queued"
        /\ /\ CancelledUpstream(job[j])
           /\ \E b \in Blockers[j] : b \in Job /\ ProjectOf[b] = p
           => job'[j].status = "queued"
    BY <1>1, <2>1, <2>3, RerunQueues, Zenon
  <2> HIDE DEF retired
  <2>8. CASE job[j].run = r \/ job[j].status = "running"
    <3>1. j \in Owners(retired)
      BY <2>4, <2>5, <2>8, Zenon DEF Owners
    <3> QED
      BY <2>2, <2>6, <3>1, Zenon
  <2>9. CASE job[j].status = "cancelled" /\ job[j].run = NoRun
    <3>1. CASE job[j].upstream
      <4>1. CancelledUpstream(job[j])
        BY <2>9, <3>1, Zenon DEF CancelledUpstream
      <4>2. PICK b : b \in Blockers[j]
        BY <1>1, <3>1, Zenon DEF CancelsExplained
      <4> QED
        BY <2>2, <2>3, <2>7, <4>1, <4>2, Zenon
    <3>2. CASE ~job[j].upstream
      <4>1. job[j].cancelReq
        BY <1>1, <2>9, <3>2, Zenon DEF CancelsExplained
      <4> QED
        BY <2>2, <2>7, <2>9, <4>1, Zenon
    <3> QED
      BY <3>1, <3>2
  <2>10. job[j].status \in {"absent", "queued", "done", "review", "failed", "running", "cancelled"}
    BY <2>3, Zenon DEF JobRow, JobStatus
  <2> QED
    BY <2>2, <2>5, <2>7, <2>8, <2>9, <2>10, Zenon
<1>2. /\ TypeOK /\ FenceInvariant /\ ServingInvariant /\ CancelsExplained /\ [Next]_vars
      => [\A r \in DOMAIN runs : Lost(r) => Scheduled(r)]_vars
  BY <1>1, Zenon
<1> QED
  BY <1>2, TypeCorrect, FencesHold, ServingHolds, CancelsStayExplained, PTL
     DEF Spec, DestroyedIsScheduled

\* On any paper: what was derived from output that a re-run destroys goes with it,
\* to the end of the pipeline, because the cascade is closed.
THEOREM DerivedAlwaysGoes == Spec => DerivedGoesAlong
<1>1. ASSUME TypeOK, FenceInvariant, [Next]_vars,
             NEW r \in DOMAIN runs, ops' > ops, runs[r].output, ~runs'[r].output,
             NEW s \in Downstream[runs[r].slot]
      PROVE  CurrentIn(s)' = {}
  <2>1. PICK p, S : p \in Project /\ Rerun(p, S) /\ runs[r].slot \in Cascade(S)
    BY <1>1, RerunsDestroy, Zenon
  <2>2. s \in Cascade(S)
    BY <1>1, <2>1, CascadeIsClosed, Zenon
  <2>3. DOMAIN runs' = DOMAIN runs
    BY <2>1, Zenon DEF Rerun
  <2>4. ASSUME NEW q \in DOMAIN runs', runs'[q].slot = s, ~runs'[q].superseded PROVE FALSE
    <3>1. runs[q] \in RunRow
      BY <1>1, <2>3, PlacesAreTyped, Zenon
    <3>2. \/ runs'[q] = Retired(runs[q])
          \/ runs'[q] = runs[q] /\ ~(IsCurrent(q) /\ runs[q].slot \in Cascade(S))
      BY <2>1, <2>3, Zenon DEF Rerun
    <3>3. Retired(runs[q]).superseded = TRUE
      BY <3>1, Zenon DEF Retired, RunRow
    <3> QED
      BY <2>2, <2>4, <3>2, <3>3, Zenon DEF IsCurrent
  <2> QED
    BY <2>4, Zenon DEF CurrentIn, IsCurrent
<1>2. TypeOK /\ FenceInvariant /\ [Next]_vars
      => [\A r \in DOMAIN runs : ops' > ops /\ runs[r].output /\ ~runs'[r].output =>
            \A s \in Downstream[runs[r].slot] : CurrentIn(s)' = {}]_vars
  BY <1>1, Zenon
<1> QED
  BY <1>2, TypeCorrect, FencesHold, PTL DEF Spec, DerivedGoesAlong

-----------------------------------------------------------------------------
(* Restarts *)

\* resumePending's fixed point is one: nothing is queued behind it and outside it.
LEMMA DoomedIsClosed ==
  ASSUME NEW rows, NEW j \in Job, rows[j].status = "queued",
         NEW b \in Blockers[j], rows[b].status \in Dead \/ b \in Doomed(rows)
  PROVE  j \in Doomed(rows)
<1> DEFINE Behind(k, T) == \E c \in Blockers[k] : rows[c].status \in Dead \/ c \in T
           Closed(T) == \A k \in Job : rows[k].status = "queued" /\ Behind(k, T) => k \in T
<1>1. \A c : c \in Doomed(rows) <=> c \in Job /\ \A T \in SUBSET Job : Closed(T) => c \in T
  BY Zenon DEF Doomed
<1> SUFFICES ASSUME NEW T \in SUBSET Job, Closed(T) PROVE j \in T
  BY <1>1, Zenon
<1>2. rows[b].status \in Dead \/ b \in T
  BY <1>1, Zenon
<1> QED
  BY <1>2, Zenon

\* On any paper: when the queue starts, no job is left queued behind one that can
\* never run, however long the chain between them and in whatever order the rows
\* are visited.
THEOREM StartAlwaysFrees == Spec => StartFreesTheDoomed
<1>1. ASSUME TypeOK, [Next]_vars, queue # "running", queue' = "running",
             NEW j \in Job, job'[j].status = "queued", NEW b \in Blockers[j]
      PROVE  job'[b].status \notin Dead
  <2> DEFINE rows == [k \in Job |-> Resumed(job[k])]
  <2>1. Start
    BY <1>1, Zenon DEF Next, vars, Claim, RetireExhausted, Macrotask, AnswerFromCache, BeginRun,
       Execute, Throw, Settle, FailRun, CancelDependents, Returns, Abandon, Commit, ApplyFails,
       Heartbeat, LeaseLapses, BackoffElapses, ReclaimExpiredLeases, Stop, Crash, User, Plan,
       Reprocess, RerunStage, ReprocessForced, Rerun, Retry, Cancel, WorldChanges
  <2>2. \A k \in Job : job'[k] = IF k \in Doomed(rows) THEN Orphaned(rows[k]) ELSE rows[k]
    BY <2>1, Zenon DEF Start
  <2>3. \A k \in Job : rows[k] \in JobRow
    <3>1. \A k \in Job : rows[k] = Resumed(job[k])
      BY Zenon
    <3> HIDE DEF rows
    <3> QED
      BY <1>1, <3>1, ResumedType, Zenon DEF TypeOK
  <2> HIDE DEF rows
  <2>4. b \in Job
    BY PlacesAreTyped, Zenon
  <2>5. ASSUME NEW row \in JobRow PROVE Orphaned(row).status # "queued"
    BY Zenon DEF Orphaned, JobRow
  <2>6. j \notin Doomed(rows) /\ rows[j].status = "queued"
    BY <1>1, <2>2, <2>3, <2>5, Zenon
  <2>7. rows[b].status \notin Dead /\ b \notin Doomed(rows)
    BY <2>6, DoomedIsClosed, Zenon
  <2> QED
    BY <2>2, <2>4, <2>7, Zenon
<1>2. TypeOK /\ [Next]_vars
      => [queue # "running" /\ queue' = "running" =>
            \A j \in Job : job'[j].status = "queued" =>
              \A b \in Blockers[j] : job'[b].status \notin Dead]_vars
  BY <1>1, Zenon
<1> QED
  BY <1>2, TypeCorrect, PTL DEF Spec, StartFreesTheDoomed
=============================================================================
