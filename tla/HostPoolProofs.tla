--------------------------- MODULE HostPoolProofs ---------------------------
(***************************************************************************)
(* What holds of the pool for every size, every set of calls, more than    *)
(* the size or fewer, every set of processes and every threshold of the    *)
(* breaker.                                                                *)
(***************************************************************************)
EXTENDS HostPool, FiniteSetTheorems, TLAPS

-----------------------------------------------------------------------------
(* The invariant *)

\* A step keeps the types: a call that acts has a host.
LEMMA TypesKept ==
  ASSUME TypeOK, CallsOk, [Next]_vars
  PROVE  TypeOK'
<1>1. ASSUME NEW c \in Call, Dispatch(c) PROVE TypeOK'
  <2>1. /\ call[c] = "idle"
        /\ UNCHANGED <<size, stopped, hosts, busy, intentional, exits, breaker, aborted, timers,
                       bodies, answers>>
    BY <1>1 DEF Dispatch
  <2>2. ASSUME NEW p \in Proc, p \in hosts,
               call' = [call EXCEPT ![c] = "acquired"], at' = [at EXCEPT ![c] = p], proc' = proc
        PROVE  TypeOK'
    BY <2>1, <2>2, HostPoolAssumption DEF TypeOK
  <2>3. ASSUME NEW p \in Proc, proc[p] = "none", proc' = [proc EXCEPT ![p] = "starting"],
               call' = [call EXCEPT ![c] = "spawning"], at' = [at EXCEPT ![c] = p]
        PROVE  TypeOK'
    BY <2>1, <2>3, HostPoolAssumption DEF TypeOK
  <2> QED
    BY <1>1, <2>2, <2>3 DEF Dispatch, Idle, TypeOK
<1>2. ASSUME NEW c \in Call, Begin(c) PROVE TypeOK'
  <2>1. at[c] \in Proc
    BY <1>2 DEF Begin, TypeOK, CallsOk
  <2> QED
    BY <1>2, <2>1 DEF Begin, CancelAt, Killed, Marked, TypeOK
<1>3. ASSUME NEW c \in Call, BodyEnds(c) PROVE TypeOK'
  BY <1>3, HostPoolAssumption DEF BodyEnds, TypeOK
<1>4. ASSUME NEW c \in Call, Answered(c) PROVE TypeOK'
  BY <1>4, HostPoolAssumption DEF Answered, Settle, Disarmed, Freed, TypeOK
<1>5. ASSUME NEW c \in Call, Abort(c) PROVE TypeOK'
  <2>1. at[c] \in Proc
    BY <1>5 DEF Abort, TypeOK, CallsOk
  <2> QED
    BY <1>5, <2>1 DEF Abort, CancelAt, Killed, Marked, TypeOK
<1>6. ASSUME NEW c \in Call, NEW p \in Proc, GraceOver(c, p) PROVE TypeOK'
  BY <1>6, HostPoolAssumption DEF GraceOver, Killed, Marked, TypeOK
<1>7. ASSUME NEW p \in Proc, Ready(p) PROVE TypeOK'
  BY <1>7, HostPoolAssumption DEF Ready, TypeOK
<1>8. ASSUME NEW p \in Proc, SpawnFails(p) PROVE TypeOK'
  BY <1>8, HostPoolAssumption DEF SpawnFails, Settle, Disarmed, TypeOK
<1>9. ASSUME NEW p \in Proc, OrphanGone(p) PROVE TypeOK'
  BY <1>9, HostPoolAssumption DEF OrphanGone, TypeOK
<1>10. ASSUME NEW p \in Proc, Crash(p) PROVE TypeOK'
  BY <1>10, HostPoolAssumption DEF Crash, TypeOK
<1>11. ASSUME NEW p \in Proc, Exit(p) PROVE TypeOK'
  <2>1. breaker' \in BOOLEAN
    BY <1>11, Zenon DEF Exit, NoteExit, TypeOK
  <2>2. exits' \in 0 .. Threshold - 1
    <3>1. exits' \in {0, exits} \/ (exits' = exits + 1 /\ ~(exits + 1 >= Threshold))
      BY <1>11, Zenon DEF Exit, NoteExit
    <3> QED
      BY <3>1, HostPoolAssumption, SMT DEF TypeOK
  <2>3. UNCHANGED <<size, stopped>>
    BY <1>11 DEF Exit
  <2> QED
    BY <1>11, <2>1, <2>2, <2>3 DEF Exit, Settle, Disarmed, Freed, Forgotten, Running, TypeOK
<1>12. ASSUME Shutdown PROVE TypeOK'
  BY <1>12, HostPoolAssumption DEF Shutdown, Killed, TypeOK
<1>13. ASSUME Age PROVE TypeOK'
  BY <1>13, HostPoolAssumption DEF Age, TypeOK
<1>14. ASSUME BreakerCloses PROVE TypeOK'
  BY <1>14, HostPoolAssumption DEF BreakerCloses, TypeOK
<1>15. CASE UNCHANGED vars
  BY <1>15, HostPoolAssumption DEF vars, TypeOK
<1> QED
  BY <1>1, <1>2, <1>3, <1>4, <1>5, <1>6, <1>7, <1>8, <1>9, <1>10, <1>11, <1>12, <1>13,
     <1>14, <1>15 DEF Next

\* A step leaves no call without a host and no idle call with a trace.
LEMMA CallsKept ==
  ASSUME TypeOK, CallsOk, ProcsOk, [Next]_vars
  PROVE  CallsOk'
<1>1. ASSUME NEW c \in Call, Dispatch(c) PROVE CallsOk'
  <2>1. /\ call[c] = "idle"
        /\ UNCHANGED <<size, stopped, hosts, busy, intentional, exits, breaker, aborted, timers,
                       bodies, answers>>
    BY <1>1 DEF Dispatch
  <2>2. ASSUME NEW p \in Proc, p \in hosts,
               call' = [call EXCEPT ![c] = "acquired"], at' = [at EXCEPT ![c] = p], proc' = proc
        PROVE  CallsOk'
    BY <2>1, <2>2, HostPoolAssumption DEF TypeOK, CallsOk, ProcsOk
  <2>3. ASSUME NEW p \in Proc, proc[p] = "none", proc' = [proc EXCEPT ![p] = "starting"],
               call' = [call EXCEPT ![c] = "spawning"], at' = [at EXCEPT ![c] = p]
        PROVE  CallsOk'
    BY <2>1, <2>3, HostPoolAssumption DEF TypeOK, CallsOk, ProcsOk
  <2> QED
    BY <1>1, <2>2, <2>3 DEF Dispatch, Idle, TypeOK
<1>2. ASSUME NEW c \in Call, Begin(c) PROVE CallsOk'
  <2>1. at[c] \in Proc /\ c \notin bodies \cup answers
    BY <1>2 DEF Begin, TypeOK, CallsOk
  <2>2. /\ \A d \in Call : (call'[d] = "idle") <=> (at'[d] = None)
        /\ \A d \in Call : call'[d] = "idle" => d \notin aborted'
        /\ \A d \in bodies' \cup answers' : call'[d] = "running"
    BY <1>2, <2>1 DEF Begin, TypeOK, CallsOk
  <2>3. \A t \in timers : call'[t[1]] = "running" /\ at'[t[1]] = t[2] /\ t[1] \in aborted'
    BY <1>2 DEF Begin, TypeOK, CallsOk
  <2>4. \A t \in timers' : t \in timers \/ (c \in aborted /\ t = <<c, at[c]>>)
    BY <1>2 DEF Begin, CancelAt, Heard
  <2>5. call'[c] = "running" /\ at'[c] = at[c] /\ aborted' = aborted
    BY <1>2 DEF Begin, TypeOK
  <2> QED
    BY <2>2, <2>3, <2>4, <2>5 DEF CallsOk
<1>3. ASSUME NEW c \in Call, BodyEnds(c) PROVE CallsOk'
  BY <1>3, HostPoolAssumption DEF BodyEnds, TypeOK, CallsOk, ProcsOk
<1>4. ASSUME NEW c \in Call, Answered(c) PROVE CallsOk'
  BY <1>4, HostPoolAssumption DEF Answered, Settle, Disarmed, Freed, TypeOK, CallsOk,
     ProcsOk
<1>5. ASSUME NEW c \in Call, Abort(c) PROVE CallsOk'
  BY <1>5, HostPoolAssumption DEF Abort, CancelAt, Killed, Marked, TypeOK, CallsOk, ProcsOk
<1>6. ASSUME NEW c \in Call, NEW p \in Proc, GraceOver(c, p) PROVE CallsOk'
  BY <1>6, HostPoolAssumption DEF GraceOver, Killed, Marked, TypeOK, CallsOk, ProcsOk
<1>7. ASSUME NEW p \in Proc, Ready(p) PROVE CallsOk'
  BY <1>7, HostPoolAssumption DEF Ready, TypeOK, CallsOk, ProcsOk
<1>8. ASSUME NEW p \in Proc, SpawnFails(p) PROVE CallsOk'
  BY <1>8, HostPoolAssumption DEF SpawnFails, Settle, Disarmed, TypeOK, CallsOk, ProcsOk
<1>9. ASSUME NEW p \in Proc, OrphanGone(p) PROVE CallsOk'
  BY <1>9, HostPoolAssumption DEF OrphanGone, TypeOK, CallsOk, ProcsOk
<1>10. ASSUME NEW p \in Proc, Crash(p) PROVE CallsOk'
  BY <1>10, HostPoolAssumption DEF Crash, TypeOK, CallsOk, ProcsOk
<1>11. ASSUME NEW p \in Proc, Exit(p) PROVE CallsOk'
  BY <1>11, HostPoolAssumption DEF Exit, Settle, Disarmed, Freed, Forgotten, NoteExit,
     Running, TypeOK, CallsOk, ProcsOk
<1>12. ASSUME Shutdown PROVE CallsOk'
  BY <1>12, HostPoolAssumption DEF Shutdown, Killed, TypeOK, CallsOk, ProcsOk
<1>13. ASSUME Age PROVE CallsOk'
  BY <1>13, HostPoolAssumption DEF Age, TypeOK, CallsOk, ProcsOk
<1>14. ASSUME BreakerCloses PROVE CallsOk'
  BY <1>14, HostPoolAssumption DEF BreakerCloses, TypeOK, CallsOk, ProcsOk
<1>15. CASE UNCHANGED vars
  BY <1>15, HostPoolAssumption DEF vars, TypeOK, CallsOk, ProcsOk
<1> QED
  BY <1>1, <1>2, <1>3, <1>4, <1>5, <1>6, <1>7, <1>8, <1>9, <1>10, <1>11, <1>12, <1>13,
     <1>14, <1>15 DEF Next

\* A step keeps processes in the state their calls suppose.
LEMMA ProcsKept ==
  ASSUME TypeOK, CallsOk, ProcsOk, [Next]_vars
  PROVE  ProcsOk'
<1>1. ASSUME NEW c \in Call, Dispatch(c) PROVE ProcsOk'
  <2>1. /\ call[c] = "idle"
        /\ UNCHANGED <<size, stopped, hosts, busy, intentional, exits, breaker, aborted, timers,
                       bodies, answers>>
    BY <1>1 DEF Dispatch
  <2>2. ASSUME NEW p \in Proc, p \in hosts,
               call' = [call EXCEPT ![c] = "acquired"], at' = [at EXCEPT ![c] = p], proc' = proc
        PROVE  ProcsOk'
    BY <2>1, <2>2, HostPoolAssumption DEF TypeOK, CallsOk, ProcsOk
  <2>3. ASSUME NEW p \in Proc, proc[p] = "none", proc' = [proc EXCEPT ![p] = "starting"],
               call' = [call EXCEPT ![c] = "spawning"], at' = [at EXCEPT ![c] = p]
        PROVE  ProcsOk'
    BY <2>1, <2>3, HostPoolAssumption DEF TypeOK, CallsOk, ProcsOk
  <2> QED
    BY <1>1, <2>2, <2>3 DEF Dispatch, Idle, TypeOK
<1>2. ASSUME NEW c \in Call, Begin(c) PROVE ProcsOk'
  BY <1>2, HostPoolAssumption DEF Begin, CancelAt, Killed, Marked, TypeOK, CallsOk, ProcsOk
<1>3. ASSUME NEW c \in Call, BodyEnds(c) PROVE ProcsOk'
  BY <1>3, HostPoolAssumption DEF BodyEnds, TypeOK, CallsOk, ProcsOk
<1>4. ASSUME NEW c \in Call, Answered(c) PROVE ProcsOk'
  BY <1>4, HostPoolAssumption DEF Answered, Settle, Disarmed, Freed, TypeOK, CallsOk,
     ProcsOk
<1>5. ASSUME NEW c \in Call, Abort(c) PROVE ProcsOk'
  BY <1>5, HostPoolAssumption DEF Abort, CancelAt, Killed, Marked, TypeOK, CallsOk, ProcsOk
<1>6. ASSUME NEW c \in Call, NEW p \in Proc, GraceOver(c, p) PROVE ProcsOk'
  BY <1>6, HostPoolAssumption DEF GraceOver, Killed, Marked, TypeOK, CallsOk, ProcsOk
<1>7. ASSUME NEW p \in Proc, Ready(p) PROVE ProcsOk'
  BY <1>7, HostPoolAssumption DEF Ready, TypeOK, CallsOk, ProcsOk
<1>8. ASSUME NEW p \in Proc, SpawnFails(p) PROVE ProcsOk'
  BY <1>8, HostPoolAssumption DEF SpawnFails, Settle, Disarmed, TypeOK, CallsOk, ProcsOk
<1>9. ASSUME NEW p \in Proc, OrphanGone(p) PROVE ProcsOk'
  BY <1>9, HostPoolAssumption DEF OrphanGone, TypeOK, CallsOk, ProcsOk
<1>10. ASSUME NEW p \in Proc, Crash(p) PROVE ProcsOk'
  BY <1>10, HostPoolAssumption DEF Crash, TypeOK, CallsOk, ProcsOk
<1>11. ASSUME NEW p \in Proc, Exit(p) PROVE ProcsOk'
  <2>1. /\ proc' = [proc EXCEPT ![p] = "none"] /\ hosts' = hosts \ {p}
        /\ proc[p] \in {"killed", "crashed"}
        /\ \A d \in Call : call[d] # "acquired"
        /\ \A d \in Call : IF call[d] = "running" /\ at[d] = p
                           THEN call'[d] = "idle" /\ at'[d] = None
                           ELSE call'[d] = call[d] /\ at'[d] = at[d]
    BY <1>11 DEF Exit, Settle, Forgotten, Running, Quiet
  <2>2. /\ \A d \in Call : call'[d] = "spawning" => proc'[at'[d]] = "starting"
        /\ \A d \in Call : call'[d] \in {"acquired", "running"} => proc'[at'[d]] \in {"ready", "killed", "crashed"}
    BY <2>1, HostPoolAssumption DEF TypeOK, CallsOk, ProcsOk
  <2>3. ASSUME NEW q \in Proc, proc'[q] = "starting" PROVE \E d \in Call : at'[d] = q
    <3>1. q # p /\ proc[q] = "starting"
      BY <2>1, <2>3 DEF TypeOK
    <3>2. PICK d \in Call : at[d] = q
      BY <3>1 DEF ProcsOk
    <3> QED
      BY <2>1, <3>1, <3>2
  <2>4. \A q \in hosts' : proc'[q] \in {"ready", "killed", "crashed"}
    BY <2>1 DEF TypeOK, ProcsOk
  <2> QED
    BY <2>2, <2>3, <2>4 DEF ProcsOk
<1>12. ASSUME Shutdown PROVE ProcsOk'
  BY <1>12, HostPoolAssumption DEF Shutdown, Killed, TypeOK, CallsOk, ProcsOk
<1>13. ASSUME Age PROVE ProcsOk'
  BY <1>13, HostPoolAssumption DEF Age, TypeOK, CallsOk, ProcsOk
<1>14. ASSUME BreakerCloses PROVE ProcsOk'
  BY <1>14, HostPoolAssumption DEF BreakerCloses, TypeOK, CallsOk, ProcsOk
<1>15. CASE UNCHANGED vars
  BY <1>15, HostPoolAssumption DEF vars, TypeOK, CallsOk, ProcsOk
<1> QED
  BY <1>1, <1>2, <1>3, <1>4, <1>5, <1>6, <1>7, <1>8, <1>9, <1>10, <1>11, <1>12, <1>13,
     <1>14, <1>15 DEF Next

\* A step keeps busy hosts at work and killed hosts marked.
LEMMA MarksKept ==
  ASSUME TypeOK, CallsOk, ProcsOk, MarksOk, [Next]_vars
  PROVE  MarksOk'
<1>1. ASSUME NEW c \in Call, Dispatch(c) PROVE MarksOk'
  BY <1>1, HostPoolAssumption DEF Dispatch, TypeOK, CallsOk, ProcsOk, MarksOk, Running
<1>2. ASSUME NEW c \in Call, Begin(c) PROVE MarksOk'
  BY <1>2, HostPoolAssumption DEF Begin, CancelAt, Killed, Marked, TypeOK, CallsOk,
     ProcsOk, MarksOk, Running
<1>3. ASSUME NEW c \in Call, BodyEnds(c) PROVE MarksOk'
  BY <1>3, HostPoolAssumption DEF BodyEnds, TypeOK, CallsOk, ProcsOk, MarksOk, Running
<1>4. ASSUME NEW c \in Call, Answered(c) PROVE MarksOk'
  BY <1>4, HostPoolAssumption DEF Answered, Settle, Disarmed, Freed, TypeOK, CallsOk,
     ProcsOk, MarksOk, Running
<1>5. ASSUME NEW c \in Call, Abort(c) PROVE MarksOk'
  BY <1>5, HostPoolAssumption DEF Abort, CancelAt, Killed, Marked, TypeOK, CallsOk,
     ProcsOk, MarksOk, Running
<1>6. ASSUME NEW c \in Call, NEW p \in Proc, GraceOver(c, p) PROVE MarksOk'
  BY <1>6, HostPoolAssumption DEF GraceOver, Killed, Marked, TypeOK, CallsOk, ProcsOk,
     MarksOk, Running
<1>7. ASSUME NEW p \in Proc, Ready(p) PROVE MarksOk'
  <2>1. /\ busy' = busy /\ stopped' = stopped /\ intentional' = intentional /\ at' = at
        /\ proc[p] = "starting"
        /\ \A q \in Proc : proc'[q] = "killed" => proc[q] = "killed"
        /\ \A d \in Call : at[d] # p => call'[d] = call[d]
    BY <1>7 DEF Ready, TypeOK
  <2>2. ASSUME NEW q \in busy PROVE Running(q)' # {}
    <3>1. PICK d \in Call : call[d] = "running" /\ at[d] = q
      BY DEF MarksOk, Running
    <3>2. at[d] # p
      BY <2>1, <3>1 DEF ProcsOk
    <3> QED
      BY <2>1, <3>1, <3>2 DEF Running
  <2> QED
    BY <2>1, <2>2 DEF MarksOk
<1>8. ASSUME NEW p \in Proc, SpawnFails(p) PROVE MarksOk'
  <2>1. /\ busy' = busy /\ stopped' = stopped /\ intentional' = intentional
        /\ proc[p] = "starting"
        /\ \A q \in Proc : proc'[q] = "killed" => proc[q] = "killed"
        /\ \A d \in Call : at[d] # p => call'[d] = call[d] /\ at'[d] = at[d]
    BY <1>8 DEF SpawnFails, Settle, TypeOK
  <2>2. ASSUME NEW q \in busy PROVE Running(q)' # {}
    <3>1. PICK d \in Call : call[d] = "running" /\ at[d] = q
      BY DEF MarksOk, Running
    <3>2. at[d] # p
      BY <2>1, <3>1 DEF ProcsOk
    <3> QED
      BY <2>1, <3>1, <3>2 DEF Running
  <2> QED
    BY <2>1, <2>2 DEF MarksOk
<1>9. ASSUME NEW p \in Proc, OrphanGone(p) PROVE MarksOk'
  BY <1>9, HostPoolAssumption DEF OrphanGone, TypeOK, CallsOk, ProcsOk, MarksOk, Running
<1>10. ASSUME NEW p \in Proc, Crash(p) PROVE MarksOk'
  BY <1>10, HostPoolAssumption DEF Crash, TypeOK, CallsOk, ProcsOk, MarksOk, Running
<1>11. ASSUME NEW p \in Proc, Exit(p) PROVE MarksOk'
  BY <1>11, HostPoolAssumption DEF Exit, Settle, Disarmed, Freed, Forgotten, NoteExit,
     Running, TypeOK, CallsOk, ProcsOk, MarksOk, Running
<1>12. ASSUME Shutdown PROVE MarksOk'
  BY <1>12, HostPoolAssumption DEF Shutdown, Killed, TypeOK, CallsOk, ProcsOk, MarksOk,
     Running
<1>13. ASSUME Age PROVE MarksOk'
  BY <1>13, HostPoolAssumption DEF Age, TypeOK, CallsOk, ProcsOk, MarksOk, Running
<1>14. ASSUME BreakerCloses PROVE MarksOk'
  BY <1>14, HostPoolAssumption DEF BreakerCloses, TypeOK, CallsOk, ProcsOk, MarksOk, Running
<1>15. CASE UNCHANGED vars
  BY <1>15, HostPoolAssumption DEF vars, TypeOK, CallsOk, ProcsOk, MarksOk, Running
<1> QED
  BY <1>1, <1>2, <1>3, <1>4, <1>5, <1>6, <1>7, <1>8, <1>9, <1>10, <1>11, <1>12, <1>13,
     <1>14, <1>15 DEF Next

\* A step keeps every running dispatch in the care of its host or of an exit.
LEMMA ServedKept ==
  ASSUME TypeOK, CallsOk, ProcsOk, RunningIsServed, [Next]_vars
  PROVE  RunningIsServed'
<1>1. ASSUME NEW c \in Call, Dispatch(c) PROVE RunningIsServed'
  BY <1>1, HostPoolAssumption DEF Dispatch, TypeOK, CallsOk, ProcsOk, RunningIsServed,
     Running
<1>2. ASSUME NEW c \in Call, Begin(c) PROVE RunningIsServed'
  BY <1>2, HostPoolAssumption DEF Begin, CancelAt, Killed, Marked, TypeOK, CallsOk,
     ProcsOk, RunningIsServed, Running
<1>3. ASSUME NEW c \in Call, BodyEnds(c) PROVE RunningIsServed'
  BY <1>3, HostPoolAssumption DEF BodyEnds, TypeOK, CallsOk, ProcsOk, RunningIsServed,
     Running
<1>4. ASSUME NEW c \in Call, Answered(c) PROVE RunningIsServed'
  BY <1>4, HostPoolAssumption DEF Answered, Settle, Disarmed, Freed, TypeOK, CallsOk,
     ProcsOk, RunningIsServed, Running
<1>5. ASSUME NEW c \in Call, Abort(c) PROVE RunningIsServed'
  BY <1>5, HostPoolAssumption DEF Abort, CancelAt, Killed, Marked, TypeOK, CallsOk,
     ProcsOk, RunningIsServed, Running
<1>6. ASSUME NEW c \in Call, NEW p \in Proc, GraceOver(c, p) PROVE RunningIsServed'
  BY <1>6, HostPoolAssumption DEF GraceOver, Killed, Marked, TypeOK, CallsOk, ProcsOk,
     RunningIsServed, Running
<1>7. ASSUME NEW p \in Proc, Ready(p) PROVE RunningIsServed'
  BY <1>7, HostPoolAssumption DEF Ready, TypeOK, CallsOk, ProcsOk, RunningIsServed, Running
<1>8. ASSUME NEW p \in Proc, SpawnFails(p) PROVE RunningIsServed'
  BY <1>8, HostPoolAssumption DEF SpawnFails, Settle, Disarmed, TypeOK, CallsOk, ProcsOk,
     RunningIsServed, Running
<1>9. ASSUME NEW p \in Proc, OrphanGone(p) PROVE RunningIsServed'
  BY <1>9, HostPoolAssumption DEF OrphanGone, TypeOK, CallsOk, ProcsOk, RunningIsServed,
     Running
<1>10. ASSUME NEW p \in Proc, Crash(p) PROVE RunningIsServed'
  BY <1>10, HostPoolAssumption DEF Crash, TypeOK, CallsOk, ProcsOk, RunningIsServed, Running
<1>11. ASSUME NEW p \in Proc, Exit(p) PROVE RunningIsServed'
  BY <1>11, HostPoolAssumption DEF Exit, Settle, Disarmed, Freed, Forgotten, NoteExit,
     Running, TypeOK, CallsOk, ProcsOk, RunningIsServed, Running
<1>12. ASSUME Shutdown PROVE RunningIsServed'
  BY <1>12, HostPoolAssumption DEF Shutdown, Killed, TypeOK, CallsOk, ProcsOk,
     RunningIsServed, Running
<1>13. ASSUME Age PROVE RunningIsServed'
  BY <1>13, HostPoolAssumption DEF Age, TypeOK, CallsOk, ProcsOk, RunningIsServed, Running
<1>14. ASSUME BreakerCloses PROVE RunningIsServed'
  BY <1>14, HostPoolAssumption DEF BreakerCloses, TypeOK, CallsOk, ProcsOk,
     RunningIsServed, Running
<1>15. CASE UNCHANGED vars
  BY <1>15, HostPoolAssumption DEF vars, TypeOK, CallsOk, ProcsOk, RunningIsServed, Running
<1> QED
  BY <1>1, <1>2, <1>3, <1>4, <1>5, <1>6, <1>7, <1>8, <1>9, <1>10, <1>11, <1>12, <1>13,
     <1>14, <1>15 DEF Next

\* A function has no more values than arguments.
LEMMA ImageBound ==
  ASSUME NEW S, IsFiniteSet(S), NEW f
  PROVE  LET T == {f[x] : x \in S}
         IN  IsFiniteSet(T) /\ Cardinality(T) <= Cardinality(S)
<1> DEFINE T == {f[x] : x \in S}
           g == [x \in S |-> f[x]]
<1>1. g \in Surjection(S, T)
  BY DEF Surjection
<1> HIDE DEF g
<1>2. IsFiniteSet(T) /\ Cardinality(T) <= Cardinality(S)
  BY <1>1, FS_Surjection
<1> QED
  BY <1>2

\* A step keeps the pool bounded.  Only a spawn adds to it, and then every host
\* in it has a call of its own.
LEMMA BoundedKept ==
  ASSUME TypeOK, CallsOk, ProcsOk, MarksOk, IsFiniteSet(Pool), PoolBounded, [Next]_vars
  PROVE  IsFiniteSet(Pool)' /\ PoolBounded'
<1>1. ASSUME Pool' \subseteq Pool
      PROVE  IsFiniteSet(Pool)' /\ PoolBounded'
  <2>1. /\ IsFiniteSet(Pool') /\ Cardinality(Pool') <= Cardinality(Pool)
        /\ Cardinality(Pool') \in Nat /\ Cardinality(Pool) \in Nat
    BY <1>1, FS_Subset, FS_CardinalityType
  <2>2. Cardinality(Call) \in Nat
    BY HostPoolAssumption, FS_CardinalityType
  <2> QED
    BY <2>1, <2>2, SMT DEF PoolBounded
<1>2. ASSUME Pool' \subseteq {at'[c] : c \in Call}
      PROVE  IsFiniteSet(Pool)' /\ PoolBounded'
  <2> DEFINE there == {at'[c] : c \in Call}
  <2>1. IsFiniteSet(there) /\ Cardinality(there) <= Cardinality(Call)
    BY ImageBound, HostPoolAssumption, Zenon
  <2>2. IsFiniteSet(Pool') /\ Cardinality(Pool') <= Cardinality(there)
    BY <1>2, <2>1, FS_Subset
  <2>3. Cardinality(Pool') \in Nat /\ Cardinality(there) \in Nat /\ Cardinality(Call) \in Nat
    BY <2>1, <2>2, HostPoolAssumption, FS_CardinalityType
  <2> HIDE DEF there
  <2> QED
    BY <2>1, <2>2, <2>3, SMT DEF PoolBounded
<1>3. ASSUME NEW c \in Call, Dispatch(c)
      PROVE  Pool' \subseteq Pool \/ Pool' \subseteq {at'[d] : d \in Call}
  <2>1. CASE proc' = proc
    BY <1>3, <2>1 DEF Dispatch, Pool
  <2>2. CASE proc' # proc
    <3>1. PICK p \in Proc : /\ proc' = [proc EXCEPT ![p] = "starting"]
                           /\ at' = [at EXCEPT ![c] = p]
      BY <1>3, <2>2 DEF Dispatch
    <3>2. hosts \subseteq busy /\ call[c] = "idle" /\ hosts' = hosts
      BY <1>3, <2>2 DEF Dispatch, Idle
    <3>3. at'[c] = p
      BY <3>1 DEF TypeOK
    <3>4. ASSUME NEW q \in Pool', q # p
          PROVE  \E d \in Call : at'[d] = q
      <4>1. q \in hosts \/ (q \in Proc /\ proc[q] = "starting")
        BY <3>1, <3>2, <3>4 DEF Pool, TypeOK
      <4>2. PICK d \in Call : at[d] = q /\ call[d] # "idle"
        <5>1. CASE q \in hosts
          BY <3>2, <5>1 DEF MarksOk, Running
        <5>2. CASE q \in Proc /\ proc[q] = "starting"
          BY <5>2, HostPoolAssumption DEF ProcsOk, CallsOk
        <5> QED
          BY <4>1, <5>1, <5>2
      <4>3. at'[d] = q
        BY <3>1, <3>2, <4>2 DEF TypeOK
      <4> QED
        BY <4>3
    <3> QED
      BY <3>3, <3>4
  <2> QED
    BY <2>1, <2>2
<1>4. ASSUME NEW c \in Call, Begin(c) PROVE Pool' \subseteq Pool
  BY <1>4 DEF Begin, CancelAt, Killed, Marked, Pool, TypeOK
<1>5. ASSUME NEW c \in Call, BodyEnds(c) PROVE Pool' \subseteq Pool
  BY <1>5 DEF BodyEnds, Pool, TypeOK
<1>6. ASSUME NEW c \in Call, Answered(c) PROVE Pool' \subseteq Pool
  BY <1>6 DEF Answered, Settle, Disarmed, Freed, Pool, TypeOK
<1>7. ASSUME NEW c \in Call, Abort(c) PROVE Pool' \subseteq Pool
  BY <1>7 DEF Abort, CancelAt, Killed, Marked, Pool, TypeOK
<1>8. ASSUME NEW c \in Call, NEW p \in Proc, GraceOver(c, p) PROVE Pool' \subseteq Pool
  BY <1>8 DEF GraceOver, Killed, Marked, Pool, TypeOK
<1>9. ASSUME NEW p \in Proc, Ready(p) PROVE Pool' \subseteq Pool
  BY <1>9 DEF Ready, Pool, TypeOK
<1>10. ASSUME NEW p \in Proc, SpawnFails(p) PROVE Pool' \subseteq Pool
  BY <1>10 DEF SpawnFails, Settle, Disarmed, Pool, TypeOK
<1>11. ASSUME NEW p \in Proc, OrphanGone(p) PROVE Pool' \subseteq Pool
  BY <1>11 DEF OrphanGone, Pool, TypeOK
<1>12. ASSUME NEW p \in Proc, Crash(p) PROVE Pool' \subseteq Pool
  BY <1>12 DEF Crash, Pool, TypeOK
<1>13. ASSUME NEW p \in Proc, Exit(p) PROVE Pool' \subseteq Pool
  BY <1>13 DEF Exit, Settle, Disarmed, Freed, Forgotten, NoteExit, Running, Pool, TypeOK
<1>14. ASSUME Shutdown PROVE Pool' \subseteq Pool
  BY <1>14 DEF Shutdown, Killed, Pool, TypeOK
<1>15. ASSUME Age PROVE Pool' \subseteq Pool
  BY <1>15 DEF Age, Pool, TypeOK
<1>16. ASSUME BreakerCloses PROVE Pool' \subseteq Pool
  BY <1>16 DEF BreakerCloses, Pool, TypeOK
<1>17. CASE UNCHANGED vars
  BY <1>1, <1>17 DEF vars, Pool
<1> QED
  BY <1>1, <1>2, <1>3, <1>4, <1>5, <1>6, <1>7, <1>8, <1>9, <1>10, <1>11, <1>12, <1>13,
     <1>14, <1>15, <1>16, <1>17 DEF Next

\* The invariant holds at the start.
LEMMA Starts ==
  Init => PoolInvariant
<1> SUFFICES ASSUME Init PROVE PoolInvariant
  OBVIOUS
<1>1. TypeOK /\ CallsOk /\ ProcsOk /\ MarksOk /\ RunningIsServed
  <2>1. TypeOK
    <3>1. exits \in 0 .. Threshold - 1
      BY HostPoolAssumption, SMT DEF Init
    <3>2. size \in Sizes /\ stopped \in BOOLEAN /\ breaker \in BOOLEAN
      BY Zenon DEF Init
    <3>3. /\ hosts \subseteq Proc /\ busy \subseteq Proc /\ intentional \subseteq Proc
          /\ aborted \subseteq Call /\ timers \subseteq Call \X Proc
          /\ bodies \subseteq Call /\ answers \subseteq Call
      BY DEF Init
    <3>4. /\ proc \in [Proc -> {"none", "starting", "orphan", "ready", "killed", "crashed"}]
          /\ call \in [Call -> {"idle", "spawning", "acquired", "running"}]
          /\ at \in [Call -> Proc \cup {None}]
      BY DEF Init
    <3> QED
      BY <3>1, <3>2, <3>3, <3>4, Zenon DEF TypeOK
  <2> QED
    BY <2>1 DEF Init, CallsOk, ProcsOk, MarksOk, RunningIsServed
<1>2. Pool = {}
  BY DEF Init, Pool
<1>3. IsFiniteSet(Pool) /\ PoolBounded
  <2>1. Cardinality(Call) \in Nat
    BY HostPoolAssumption, FS_CardinalityType
  <2> QED
    BY <1>2, <2>1, FS_EmptySet DEF PoolBounded
<1> QED
  BY <1>1, <1>3 DEF PoolInvariant

\* Every step keeps it.
LEMMA StepsKeep ==
  PoolInvariant /\ [Next]_vars => PoolInvariant'
BY TypesKept, CallsKept, ProcsKept, MarksKept, ServedKept, BoundedKept DEF PoolInvariant

\* The invariant that carries the others holds in every state of the pool, for
\* every size, every finite set of calls and every set of processes.
THEOREM PoolHolds == Spec => []PoolInvariant
<1>1. Init => PoolInvariant
  BY Starts
<1>2. PoolInvariant /\ [Next]_vars => PoolInvariant'
  BY StepsKeep
<1> QED
  BY <1>1, <1>2, PTL DEF Spec

\* Every variable of the pool has its type.
THEOREM PoolTypes == Spec => []TypeOK
<1>1. PoolInvariant => TypeOK
  BY DEF PoolInvariant
<1> QED
  BY <1>1, PoolHolds, PTL

\* A dispatch that runs will be settled: its host has the work, or its answer
\* or its exit is still to come.
THEOREM DispatchesServed == Spec => []RunningIsServed
<1>1. PoolInvariant => RunningIsServed
  BY DEF PoolInvariant
<1> QED
  BY <1>1, PoolHolds, PTL

\* Hosts that are ready and hosts that are starting are never more than the calls
\* the local budget lets run, whether that is within the size of the pool or not.
THEOREM PoolStaysBounded == Spec => []PoolBounded
<1>1. PoolInvariant => PoolBounded
  BY DEF PoolInvariant
<1> QED
  BY <1>1, PoolHolds, PTL

\* Every host of a saturated pool runs a dispatch of its own.
LEMMA FullAtWork ==
  ASSUME PoolInvariant, Refused
  PROVE  LET work == {d \in Call : call[d] = "running"}
         IN  IsFiniteSet(work) /\ Cardinality(work) >= size
<1> DEFINE work == {d \in Call : call[d] = "running"}
           there == {at[d] : d \in work}
<1>1. hosts \subseteq there
  BY DEF PoolInvariant, MarksOk, Running, Refused, Idle
<1>2. IsFiniteSet(work)
  BY HostPoolAssumption, FS_Subset
<1>3. IsFiniteSet(there) /\ Cardinality(there) <= Cardinality(work)
  BY <1>2, ImageBound, Zenon
<1>4. IsFiniteSet(hosts) /\ Cardinality(hosts) <= Cardinality(there)
  BY <1>1, <1>3, FS_Subset
<1>5. Cardinality(hosts) \in Nat /\ Cardinality(there) \in Nat /\ Cardinality(work) \in Nat
  BY <1>2, <1>3, <1>4, FS_CardinalityType
<1>6. size \in Nat /\ ~(Cardinality(hosts) < size)
  BY HostPoolAssumption DEF PoolInvariant, TypeOK, Refused, Room
<1> HIDE DEF work, there
<1>7. Cardinality(work) >= size
  BY <1>3, <1>4, <1>5, <1>6, SMT
<1> QED
  BY <1>2, <1>7 DEF work

\* A call is refused only beside as many running dispatches as the pool was built
\* for, so a refusal is the scheduler's overbooking and never a mark left behind.
THEOREM RefusalsAreOverbooking == Spec => []RefusedOnlyWhenFull
<1>1. PoolInvariant => RefusedOnlyWhenFull
  BY FullAtWork DEF RefusedOnlyWhenFull
<1> QED
  BY <1>1, PoolHolds, PTL

\* With a budget within every size, as the defaults are, no call is ever refused.
THEOREM BudgetWithinSizeIsServed ==
  ASSUME \A s \in Sizes : Cardinality(Call) <= s
  PROVE  Spec => [](\A c \in Call : call[c] = "idle" => ~Refused)
<1>1. ASSUME PoolInvariant, NEW c \in Call, call[c] = "idle", Refused PROVE FALSE
  <2> DEFINE work == {d \in Call : call[d] = "running"}
             others == Call \ {c}
  <2>1. IsFiniteSet(work) /\ Cardinality(work) >= size
    BY <1>1, FullAtWork
  <2>2. IsFiniteSet(others) /\ Cardinality(others) = Cardinality(Call) - 1
    BY HostPoolAssumption, FS_RemoveElement
  <2>3. work \subseteq others
    BY <1>1
  <2>4. Cardinality(work) <= Cardinality(others)
    BY <2>2, <2>3, FS_Subset
  <2>5. /\ Cardinality(work) \in Nat /\ Cardinality(Call) \in Nat
        /\ size \in Nat /\ Cardinality(Call) <= size
    BY <1>1, <2>1, HostPoolAssumption, FS_CardinalityType DEF PoolInvariant, TypeOK
  <2> HIDE DEF work, others
  <2> QED
    BY <2>1, <2>2, <2>4, <2>5, SMT
<1>2. PoolInvariant => \A c \in Call : call[c] = "idle" => ~Refused
  BY <1>1
<1> QED
  BY <1>2, PoolHolds, PTL

-----------------------------------------------------------------------------
(* What a step may not do *)

\* The steps that kill: a begin, an abort, a grace that is over.
LEMMA OnlyWanted ==
  ASSUME TypeOK, CallsOk, [Next]_vars,
         NEW p \in Proc, proc[p] = "ready", proc'[p] = "killed", ~stopped'
  PROVE  \E c \in Call : call'[c] = "running" /\ at'[c] = p /\ c \in aborted'
<1>1. ASSUME NEW c \in Call, Begin(c) \/ Abort(c)
      PROVE  call'[c] = "running" /\ at'[c] = p /\ c \in aborted'
  <2>1. CASE Begin(c)
    BY <2>1 DEF Begin, Heard, CancelAt, Killed, TypeOK
  <2>2. CASE Abort(c)
    BY <2>2 DEF Abort, CancelAt, Killed, TypeOK
  <2> QED
    BY <1>1, <2>1, <2>2
<1>2. ASSUME NEW c \in Call, NEW q \in Proc, GraceOver(c, q)
      PROVE  call'[c] = "running" /\ at'[c] = p /\ c \in aborted'
  BY <1>2 DEF GraceOver, Killed, CallsOk, TypeOK
<1>3. ASSUME NEW c \in Call, Dispatch(c) PROVE FALSE
  BY <1>3 DEF Dispatch, TypeOK
<1>4. ASSUME NEW c \in Call, BodyEnds(c) \/ Answered(c) PROVE FALSE
  BY <1>4 DEF BodyEnds, Answered
<1>5. ASSUME NEW q \in Proc, Ready(q) \/ SpawnFails(q) \/ OrphanGone(q) \/ Crash(q) \/ Exit(q)
      PROVE  FALSE
  BY <1>5 DEF Ready, SpawnFails, OrphanGone, Crash, Exit, TypeOK
<1>6. ASSUME Shutdown \/ Age \/ BreakerCloses \/ UNCHANGED vars PROVE FALSE
  BY <1>6 DEF Shutdown, Age, BreakerCloses, vars
<1> QED
  BY <1>1, <1>2, <1>3, <1>4, <1>5, <1>6 DEF Next

\* No kill but the one a cancelled call on that very host has asked for: a
\* grace timer does not outlive its call.
THEOREM KillsAreWanted == Spec => KillIsWanted
<1>1. PoolInvariant /\ [Next]_vars =>
        [\A p \in Proc : proc[p] = "ready" /\ proc'[p] = "killed" /\ ~stopped' =>
           \E c \in Call : call'[c] = "running" /\ at'[c] = p /\ c \in aborted']_vars
  BY OnlyWanted DEF PoolInvariant
<1> QED
  BY <1>1, PoolHolds, PTL DEF Spec, KillIsWanted

\* The one step that counts is the exit of a host nobody had marked.
LEMMA OnlyCrashes ==
  ASSUME TypeOK, MarksOk, [Next]_vars,
         exits' > exits \/ (breaker' /\ ~breaker)
  PROVE  \E p \in Proc : proc[p] = "crashed" /\ proc'[p] = "none"
<1>1. exits \in Int /\ ~(exits > exits) /\ ~(exits - 1 > exits)
  BY HostPoolAssumption, SMT DEF TypeOK
<1>2. ~(UNCHANGED <<exits, breaker>>)
  BY <1>1
<1>3. ASSUME NEW p \in Proc, Exit(p)
      PROVE  proc[p] = "crashed" /\ proc'[p] = "none"
  <2>1. ~(p \in intentional \/ stopped)
    BY <1>2, <1>3, Zenon DEF Exit
  <2> QED
    BY <1>3, <2>1 DEF Exit, MarksOk, TypeOK
<1>4. ASSUME NEW c \in Call, Dispatch(c) \/ Begin(c) \/ BodyEnds(c) \/ Answered(c) \/ Abort(c)
      PROVE  FALSE
  BY <1>2, <1>4, Zenon DEF Dispatch, Begin, BodyEnds, Answered, Abort
<1>5. ASSUME NEW c \in Call, NEW p \in Proc, GraceOver(c, p) PROVE FALSE
  BY <1>2, <1>5, Zenon DEF GraceOver
<1>6. ASSUME NEW p \in Proc, Ready(p) \/ SpawnFails(p) \/ OrphanGone(p) \/ Crash(p)
      PROVE  FALSE
  BY <1>2, <1>6, Zenon DEF Ready, SpawnFails, OrphanGone, Crash
<1>7. ASSUME Shutdown \/ UNCHANGED vars PROVE FALSE
  BY <1>2, <1>7, Zenon DEF Shutdown, vars
<1>8. ASSUME Age PROVE FALSE
  BY <1>1, <1>8, Zenon DEF Age
<1>9. ASSUME BreakerCloses PROVE FALSE
  BY <1>1, <1>9, Zenon DEF BreakerCloses
<1> QED
  BY <1>3, <1>4, <1>5, <1>6, <1>7, <1>8, <1>9, Zenon DEF Next

\* The breaker counts crashes and nothing else: every host that is killed on
\* purpose is marked before it dies, until the pool is shut down.
THEOREM CrashesCounted == Spec => KilledNotCounted
<1>1. PoolInvariant /\ [Next]_vars =>
        [exits' > exits \/ (breaker' /\ ~breaker) =>
           \E p \in Proc : proc[p] = "crashed" /\ proc'[p] = "none"]_vars
  BY OnlyCrashes DEF PoolInvariant
<1> QED
  BY <1>1, PoolHolds, PTL DEF Spec, KilledNotCounted

=============================================================================
