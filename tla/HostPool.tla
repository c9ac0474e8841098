------------------------------ MODULE HostPool ------------------------------
(***************************************************************************)
(* The pool of stage hosts, src/main/pipeline/host/pool, with what its     *)
(* caller in the scheduler and the host's own entry point add to it.       *)
(*                                                                         *)
(* dispatch awaits acquire, so a call that was given a host takes it only  *)
(* in a later microtask: it is "acquired" until then.  Dispatches of the   *)
(* same tick, and those other microtasks make, fall into that gap; events  *)
(* of processes and timers are macrotasks and wait until it is closed      *)
(* (Quiet).  A process may die at any moment; the pool learns of it by an  *)
(* exit event.                                                             *)
(*                                                                         *)
(* Abstractions.  acquire takes the first idle host of an array, here any  *)
(* of them.  A process identity is free again after its exit.  The window  *)
(* of the breaker is a count of recent exits that may age, its pause ends  *)
(* at any time.  The cooperative cancel message can only make a body end   *)
(* early, which BodyEnds allows anyway.  Progress, logs, envelope sizes,   *)
(* run files and model calls are dropped.                                  *)
(***************************************************************************)
EXTENDS Integers, FiniteSets

CONSTANTS
  Call,       \* what the local budget lets run: one dispatch each at a time
  Proc,       \* host processes
  Sizes,      \* the sizes a pool may be built with
  Threshold,  \* how many recent exits open the breaker
  Patient,    \* calls of stages that grant a grace period to a cancel
  None

\* The local budget and the size of a pool are set apart: both are two unless the
\* user raises the budget, so there may be more calls than hosts.
ASSUME HostPoolAssumption ==
  /\ IsFiniteSet(Call)
  /\ Sizes \subseteq Nat
  /\ Threshold \in Nat \ {0}
  /\ Patient \subseteq Call
  /\ None \notin Proc

VARIABLES
  size,         \* how many hosts the pool keeps, for good
  stopped,      \* shutdown was called
  hosts,        \* the hosts the pool knows
  busy,         \* of those, the ones marked busy
  intentional,  \* intentionalKills
  exits,        \* exits the breaker has counted in its window
  breaker,      \* the breaker is open
  proc,         \* the life of each process
  call,         \* how far each dispatch has come
  at,           \* the host of each dispatch
  aborted,      \* dispatches whose signal is aborted
  timers,       \* the kills that wait for a grace period, with their host
  bodies,       \* dispatches posted to a host that has not answered them
  answers       \* dispatches whose result is on its way

vars == <<size, stopped, hosts, busy, intentional, exits, breaker, proc, call, at, aborted,
          timers, bodies, answers>>

TypeOK ==
  /\ size \in Sizes
  /\ stopped \in BOOLEAN
  /\ hosts \subseteq Proc
  /\ busy \subseteq Proc
  /\ intentional \subseteq Proc
  /\ exits \in 0 .. Threshold - 1
  /\ breaker \in BOOLEAN
  /\ proc \in [Proc -> {"none", "starting", "orphan", "ready", "killed", "crashed"}]
  /\ call \in [Call -> {"idle", "spawning", "acquired", "running"}]
  /\ at \in [Call -> Proc \cup {None}]
  /\ aborted \subseteq Call
  /\ timers \subseteq Call \X Proc
  /\ bodies \subseteq Call
  /\ answers \subseteq Call

Init ==
  /\ size \in Sizes
  /\ stopped = FALSE
  /\ hosts = {}
  /\ busy = {}
  /\ intentional = {}
  /\ exits = 0
  /\ breaker = FALSE
  /\ proc = [p \in Proc |-> "none"]
  /\ call = [c \in Call |-> "idle"]
  /\ at = [c \in Call |-> None]
  /\ aborted = {}
  /\ timers = {}
  /\ bodies = {}
  /\ answers = {}

Quiet == \A c \in Call : call[c] # "acquired"

Running(p) == {c \in Call : call[c] = "running" /\ at[c] = p}

-----------------------------------------------------------------------------
(* What the handlers share *)

\* A crashed process is dead before the signal; it stays crashed.
Killed(P) == [p \in Proc |-> IF p \in P /\ proc[p] = "ready" THEN "killed" ELSE proc[p]]

\* A kill that is not marked before it is sent.
BugMarked(p) == intentional
Marked(p) == intentional \cup {p}

\* The cancel of a call at host p: at once, or after its grace.
CancelAt(c, p) ==
  IF c \in Patient
  THEN /\ timers' = timers \cup {<<c, p>>}
       /\ UNCHANGED <<proc, intentional>>
  ELSE /\ proc' = Killed({p})
       /\ intentional' = Marked(p)
       /\ UNCHANGED timers

\* The grace timers of C live on.
BugDisarmed(C) == timers
Disarmed(C) == {t \in timers : t[1] \notin C}

\* A host that stays busy after its call.
BugFreed(P) == busy
Freed(P) == busy \ P

\* The dispatches C settle: cleanup and the finally.
Settle(C) ==
  /\ call' = [c \in Call |-> IF c \in C THEN "idle" ELSE call[c]]
  /\ at' = [c \in Call |-> IF c \in C THEN None ELSE at[c]]
  /\ aborted' = aborted \ C
  /\ timers' = Disarmed(C)
  /\ bodies' = bodies \ C
  /\ answers' = answers \ C

\* An exited host that stays in the pool.
BugForgotten(p) == hosts
Forgotten(p) == hosts \ {p}

\* A breaker that keeps its count when it opens.
BugNoteExit ==
  /\ exits' = exits + 1
  /\ breaker' = (breaker \/ exits + 1 >= Threshold)
NoteExit ==
  IF exits + 1 >= Threshold
  THEN exits' = 0 /\ breaker' = TRUE
  ELSE exits' = exits + 1 /\ UNCHANGED breaker

-----------------------------------------------------------------------------
(* The steps of a dispatch *)

\* Hosts that are never used again.
BugIdle == {}
Idle == hosts \ busy

\* acquire: room for one more counts the hosts that are ready, not those that start.
Room == Cardinality(hosts) < size
Refused == Idle = {} /\ ~Room

\* dispatch up to its first await.  A call that is refused fails in the same step
\* and leaves nothing behind.
Dispatch(c) ==
  /\ ~stopped
  /\ ~breaker
  /\ call[c] = "idle"
  /\ \/ \E p \in Idle :
          /\ call' = [call EXCEPT ![c] = "acquired"]
          /\ at' = [at EXCEPT ![c] = p]
          /\ UNCHANGED proc
     \/ /\ Idle = {}
        /\ Room
        /\ \E p \in Proc :
             /\ proc[p] = "none"
             /\ proc' = [proc EXCEPT ![p] = "starting"]
             /\ call' = [call EXCEPT ![c] = "spawning"]
             /\ at' = [at EXCEPT ![c] = p]
  /\ UNCHANGED <<size, stopped, hosts, busy, intentional, exits, breaker, aborted, timers,
                 bodies, answers>>

\* A signal that was aborted before its listener was added is never heard.
BugHeard(c) == FALSE
Heard(c) == c \in aborted

\* dispatch after its await: the host is marked and the work posted.
Begin(c) ==
  /\ call[c] = "acquired"
  /\ call' = [call EXCEPT ![c] = "running"]
  /\ busy' = busy \cup {at[c]}
  /\ bodies' = bodies \cup {c}
  /\ IF Heard(c) THEN CancelAt(c, at[c]) ELSE UNCHANGED <<proc, intentional, timers>>
  /\ UNCHANGED <<size, stopped, hosts, exits, breaker, at, aborted, answers>>

\* The host posts its result; a killed one may still come to that.
BodyEnds(c) ==
  /\ c \in bodies
  /\ proc[at[c]] \in {"ready", "killed"}
  /\ bodies' = bodies \ {c}
  /\ answers' = answers \cup {c}
  /\ UNCHANGED <<size, stopped, hosts, busy, intentional, exits, breaker, proc, call, at,
                 aborted, timers>>

Answered(c) ==
  /\ Quiet
  /\ c \in answers
  /\ busy' = Freed({at[c]})
  /\ Settle({c})
  /\ UNCHANGED <<size, stopped, hosts, intentional, exits, breaker, proc>>

Abort(c) ==
  /\ call[c] # "idle"
  /\ c \notin aborted
  /\ aborted' = aborted \cup {c}
  /\ IF call[c] = "running" THEN CancelAt(c, at[c]) ELSE UNCHANGED <<proc, intentional, timers>>
  /\ UNCHANGED <<size, stopped, hosts, busy, exits, breaker, call, at, bodies, answers>>

GraceOver(c, p) ==
  /\ Quiet
  /\ <<c, p>> \in timers
  /\ timers' = timers \ {<<c, p>>}
  /\ proc' = Killed({p})
  /\ intentional' = Marked(p)
  /\ UNCHANGED <<size, stopped, hosts, busy, exits, breaker, call, at, aborted, bodies,
                 answers>>

-----------------------------------------------------------------------------
(* The life of a process *)

\* The ready message.  spawn does not look whether the pool was shut down.
Ready(p) ==
  /\ Quiet
  /\ proc[p] = "starting"
  /\ proc' = [proc EXCEPT ![p] = "ready"]
  /\ hosts' = hosts \cup {p}
  /\ call' = [c \in Call |-> IF at[c] = p THEN "acquired" ELSE call[c]]
  /\ UNCHANGED <<size, stopped, busy, intentional, exits, breaker, at, aborted, timers,
                 bodies, answers>>

\* The process exits before it is ready, or the timer of spawn fires first and
\* leaves it alive with nobody to own it.  Neither is an exit the breaker counts.
SpawnFails(p) ==
  /\ Quiet
  /\ proc[p] = "starting"
  /\ \E end \in {"none", "orphan"} : proc' = [proc EXCEPT ![p] = end]
  /\ Settle({c \in Call : at[c] = p})
  /\ UNCHANGED <<size, stopped, hosts, busy, intentional, exits, breaker>>

OrphanGone(p) ==
  /\ proc[p] = "orphan"
  /\ proc' = [proc EXCEPT ![p] = "none"]
  /\ UNCHANGED <<size, stopped, hosts, busy, intentional, exits, breaker, call, at, aborted,
                 timers, bodies, answers>>

Crash(p) ==
  /\ proc[p] = "ready"
  /\ proc' = [proc EXCEPT ![p] = "crashed"]
  /\ UNCHANGED <<size, stopped, hosts, busy, intentional, exits, breaker, call, at, aborted,
                 timers, bodies, answers>>

\* The exit event: the pool forgets the host, then every dispatch on it fails.
Exit(p) ==
  /\ Quiet
  /\ proc[p] \in {"killed", "crashed"}
  /\ proc' = [proc EXCEPT ![p] = "none"]
  /\ hosts' = Forgotten(p)
  /\ busy' = Freed({p})
  /\ intentional' = intentional \ {p}
  /\ Settle(Running(p))
  /\ IF p \in intentional \/ stopped THEN UNCHANGED <<exits, breaker>> ELSE NoteExit
  /\ UNCHANGED <<size, stopped>>

-----------------------------------------------------------------------------
(* The pool *)

Shutdown ==
  /\ Quiet
  /\ ~stopped \/ hosts # {}
  /\ stopped' = TRUE
  /\ proc' = Killed(hosts)
  /\ hosts' = {}
  /\ intentional' = {}
  /\ UNCHANGED <<size, busy, exits, breaker, call, at, aborted, timers, bodies, answers>>

\* The oldest exit leaves the breaker's window.
Age ==
  /\ exits > 0
  /\ exits' = exits - 1
  /\ UNCHANGED <<size, stopped, hosts, busy, intentional, breaker, proc, call, at, aborted,
                 timers, bodies, answers>>

BreakerCloses ==
  /\ breaker
  /\ breaker' = FALSE
  /\ UNCHANGED <<size, stopped, hosts, busy, intentional, exits, proc, call, at, aborted,
                 timers, bodies, answers>>

Next ==
  \/ \E c \in Call : Dispatch(c) \/ Begin(c) \/ BodyEnds(c) \/ Answered(c) \/ Abort(c)
  \/ \E c \in Call, p \in Proc : GraceOver(c, p)
  \/ \E p \in Proc : Ready(p) \/ SpawnFails(p) \/ OrphanGone(p) \/ Crash(p) \/ Exit(p)
  \/ Shutdown
  \/ Age
  \/ BreakerCloses

\* What moves a cancelled dispatch on: its microtask, the ready message or the
\* timer of its spawn, its own grace timer, the exit of its host.
Advance(c) ==
  \/ Begin(c)
  \/ \E p \in Proc :
       \/ GraceOver(c, p)
       \/ at[c] = p /\ (Ready(p) \/ SpawnFails(p) \/ Exit(p))

\* The event loop runs its microtasks, due timers fire, and the system reports
\* the death of a process.  Strongly, for these wait while other dispatches are
\* acquired and are not lost by it.  Nothing is asked of a body: it may never
\* end.
Fairness == \A c \in Call : SF_vars(Advance(c))

Spec == Init /\ [][Next]_vars /\ Fairness

-----------------------------------------------------------------------------
(* Properties *)

\* A dispatch that runs will be settled: its host is dying and the exit event
\* is still to come, or the host lives and has the work or has answered it.
\* Without it a dispatch could be bound to a host whose exit it has missed, or
\* whose answer it no longer hears, and its job would run for ever.
RunningIsServed ==
  \A c \in Call : call[c] = "running" =>
    \/ proc[at[c]] \in {"killed", "crashed"}
    \/ proc[at[c]] = "ready" /\ c \in bodies \cup answers

\* A saturated pool means what acquire says it means, that the scheduler
\* dispatched more than the pool is sized for: a call is refused only beside size
\* others that run, never for a busy mark or a host that some cancel, crash or
\* timeout left behind.  So a budget within the size is never refused.
RefusedOnlyWhenFull ==
  \A c \in Call : call[c] = "idle" /\ Refused =>
    Cardinality({d \in Call : call[d] = "running"}) >= size

Pool == hosts \cup {p \in Proc : proc[p] = "starting"}

\* The hosts, with those that are starting, are never more than the calls the
\* budget lets run.  A budget above the size may take the pool over its size, for
\* acquire does not count the starting ones; the budget it cannot pass, as nothing
\* is spawned beside an idle host.
PoolBounded == Cardinality(Pool) <= Cardinality(Call)

\* No delayed grenade: outside a shutdown a host is killed only while a
\* dispatch that runs on it is aborted, never by a timer its call left behind.
KillIsWanted ==
  [][\A p \in Proc : proc[p] = "ready" /\ proc'[p] = "killed" /\ ~stopped' =>
       \E c \in Call : call'[c] = "running" /\ at'[c] = p /\ c \in aborted']_vars

\* What the user cancels is no crash: the breaker counts an exit, or opens,
\* only when a process has died that nobody had killed.
KilledNotCounted ==
  [][exits' > exits \/ (breaker' /\ ~breaker) =>
       \E p \in Proc : proc[p] = "crashed" /\ proc'[p] = "none"]_vars

\* A cancel is real: a dispatch whose signal is aborted is settled, even when
\* its body never ends and never looks at the signal.
CancelIsReal == \A c \in Call : (c \in aborted) ~> (c \notin aborted)

-----------------------------------------------------------------------------
(* The inductive invariant of the proofs *)

\* A dispatch has a host exactly while it is under way, and what is noted of
\* it ends with it.
CallsOk ==
  /\ \A c \in Call : (call[c] = "idle") <=> (at[c] = None)
  /\ \A c \in Call : call[c] = "idle" => c \notin aborted
  /\ \A c \in bodies \cup answers : call[c] = "running"
  /\ \A t \in timers : call[t[1]] = "running" /\ at[t[1]] = t[2] /\ t[1] \in aborted

\* Where a dispatch is, its process is in the state the dispatch supposes.
ProcsOk ==
  /\ \A c \in Call : call[c] = "spawning" => proc[at[c]] = "starting"
  /\ \A c \in Call : call[c] \in {"acquired", "running"} => proc[at[c]] \in {"ready", "killed", "crashed"}
  /\ \A p \in Proc : proc[p] = "starting" => \E c \in Call : at[c] = p
  /\ \A p \in hosts : proc[p] \in {"ready", "killed", "crashed"}

\* A busy host has a running dispatch; a killed one is marked, unless all is over.
MarksOk ==
  /\ \A p \in busy : Running(p) # {}
  /\ \A p \in Proc : proc[p] = "killed" /\ ~stopped => p \in intentional

PoolInvariant ==
  /\ TypeOK
  /\ CallsOk
  /\ ProcsOk
  /\ MarksOk
  /\ RunningIsServed
  /\ IsFiniteSet(Pool)
  /\ PoolBounded

=============================================================================
