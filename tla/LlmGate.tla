------------------------------- MODULE LlmGate -------------------------------
(***************************************************************************)
(* The gate every call of a model passes, src/main/pipeline/gate/llmGate,  *)
(* and the gate of PDF retrievals, another instance of the same class.     *)
(*                                                                         *)
(* run awaits acquire, so a caller that has been given a slot goes on in a *)
(* microtask of its own.  granted holds those callers in the order their   *)
(* microtasks were queued; the wall-clock timer and the IPC handler that   *)
(* changes the capacity are macrotasks and wait until it is empty.  The    *)
(* loop of setCapacity is one promotion a step, and nothing comes between. *)
(*                                                                         *)
(* Abstractions.  A slot's token is named by the caller it was given to:   *)
(* each run has one of its own and releases it once.  The abort listener   *)
(* of a waiter marks it settled and takes it out of the line in one        *)
(* synchronous step, so promote never meets the mark and it is not kept.   *)
(* A call whose signal is already aborted is rejected before it touches    *)
(* the gate, and an abort that falls between the grant of a slot and the   *)
(* continuation has no listener: neither is a step.  Statistics are        *)
(* dropped.                                                                *)
(***************************************************************************)
EXTENDS Integers, Sequences, FiniteSets

CONSTANTS
  Caller,      \* the calls of run; a call that is over may be made again
  Capacities,  \* the capacities the user may choose
  Deaf         \* callers whose function ignores the signal the gate gives it

ASSUME LlmGateAssumption ==
  /\ IsFiniteSet(Caller)
  /\ Capacities \subseteq Nat \ {0}
  /\ Deaf \subseteq Caller

VARIABLES
  capacity,  \* how many may hold a slot
  owners,    \* the slots that are held, by the caller they were given to
  waiters,   \* the line of callers without a slot
  granted,   \* callers whose wait is resolved and whose run has not gone on
  inside,    \* callers between the entry check of run and its finally
  inFlight,  \* the counter that check reads
  open,      \* callers whose run has not been settled
  upstream,  \* callers whose function is still running
  told,      \* of those, the ones whose signal from the gate is aborted
  resizing   \* the loop of setCapacity is open

vars == <<capacity, owners, waiters, granted, inside, inFlight, open, upstream, told, resizing>>

Members(s) == {s[i] : i \in DOMAIN s}

TypeOK ==
  /\ capacity \in Nat \ {0}
  /\ owners \subseteq Caller
  /\ waiters \in Seq(Caller)
  /\ granted \in Seq(Caller)
  /\ inside \subseteq Caller
  /\ inFlight \in Nat
  /\ open \subseteq Caller
  /\ upstream \subseteq Caller
  /\ told \subseteq upstream
  /\ resizing \in BOOLEAN

Init ==
  /\ capacity = 1
  /\ owners = {}
  /\ waiters = <<>>
  /\ granted = <<>>
  /\ inside = {}
  /\ inFlight = 0
  /\ open = {}
  /\ upstream = {}
  /\ told = {}
  /\ resizing = FALSE

-----------------------------------------------------------------------------
(* The slots *)

BugRoom(held) == Cardinality(held) <= capacity
Room(held) == Cardinality(held) < capacity

\* promote, when held are the other slots and rest the other grants: the head
\* of the line gets a slot.  Resolving a wait that was rejected wakes nobody.
Promote(held, rest) ==
  /\ owners' = held \cup {Head(waiters)}
  /\ granted' = (IF Head(waiters) \in open THEN Append(rest, Head(waiters)) ELSE rest)
  /\ waiters' = Tail(waiters)

\* A slot that is handed on whatever the capacity has become.
BugHandsOn(held) == waiters # <<>>
HandsOn(held) == waiters # <<>> /\ Room(held)

\* release, when rest are the grants that remain.
Release(c, rest) ==
  LET held == owners \ {c} IN
  IF HandsOn(held)
  THEN Promote(held, rest)
  ELSE owners' = held /\ granted' = rest /\ UNCHANGED waiters

\* The finally of run for a caller that was inside, after its function has
\* answered or the cap has fired.
Leave(c) ==
  /\ inside' = inside \ {c}
  /\ inFlight' = inFlight - 1
  /\ open' = open \ {c}
  /\ Release(c, granted)

-----------------------------------------------------------------------------
(* The steps *)

\* The line with the newest caller at its front.
BugJoined(c) == <<c>> \o waiters
Joined(c) == Append(waiters, c)

\* run up to its await: a free slot is taken at once, others join the line.
Acquire(c) ==
  /\ ~resizing
  /\ c \notin open \cup upstream
  /\ open' = open \cup {c}
  /\ IF Room(owners)
     THEN owners' = owners \cup {c} /\ granted' = Append(granted, c) /\ UNCHANGED waiters
     ELSE waiters' = Joined(c) /\ UNCHANGED <<owners, granted>>
  /\ UNCHANGED <<capacity, inside, inFlight, upstream, told, resizing>>

\* An entry that is not counted.
BugCounted == inFlight
Counted == inFlight + 1

\* The continuation of run.  A caller the entry check refuses still passes
\* through the finally, which lowers a counter that it never raised.
Enter ==
  /\ ~resizing
  /\ granted # <<>>
  /\ LET c == Head(granted) IN
     IF inFlight < capacity
     THEN /\ inside' = inside \cup {c}
          /\ inFlight' = Counted
          /\ upstream' = upstream \cup {c}
          /\ granted' = Tail(granted)
          /\ UNCHANGED <<owners, waiters, open>>
     ELSE /\ inFlight' = inFlight - 1
          /\ open' = open \ {c}
          /\ Release(c, Tail(granted))
          /\ UNCHANGED <<inside, upstream>>
  /\ UNCHANGED <<capacity, told, resizing>>

\* The function answers: its run leaves, unless the cap has ended it already.
Answer(c) ==
  /\ ~resizing
  /\ c \in upstream
  /\ upstream' = upstream \ {c}
  /\ told' = told \ {c}
  /\ IF c \in inside THEN Leave(c) ELSE UNCHANGED <<owners, waiters, granted, inside, inFlight, open>>
  /\ UNCHANGED <<capacity, resizing>>

\* The cap: the request is aborted and the race is lost.  A function that heeds
\* the signal is over with it.
BugTold(c) == told
Told(c) == told \cup {c}

Cap(c) ==
  /\ ~resizing /\ granted = <<>>
  /\ c \in inside
  /\ upstream' = upstream \ ({c} \ Deaf)
  /\ told' = Told(c) \ ({c} \ Deaf)
  /\ Leave(c)
  /\ UNCHANGED <<capacity, resizing>>

Without(s, i) == [j \in 1 .. Len(s) - 1 |-> IF j < i THEN s[j] ELSE s[j + 1]]

\* A waiter that is rejected and keeps its place.
BugSpliced(i) == waiters
Spliced(i) == Without(waiters, i)

\* onAbort: a caller in the line is rejected and leaves it.
AbortWaiting(c) ==
  /\ ~resizing
  /\ \E i \in DOMAIN waiters : waiters[i] = c /\ waiters' = Spliced(i)
  /\ open' = open \ {c}
  /\ UNCHANGED <<capacity, owners, granted, inside, inFlight, upstream, told, resizing>>

\* relayOuter: the function of a caller inside is told.
AbortInside(c) ==
  /\ ~resizing
  /\ c \in inside
  /\ told' = told \cup {c}
  /\ UNCHANGED <<capacity, owners, waiters, granted, inside, inFlight, open, upstream, resizing>>

\* setCapacity, and one turn of its loop.
BugResizing == FALSE
Resizing == TRUE

SetCapacity(n) ==
  /\ ~resizing /\ granted = <<>>
  /\ capacity' = n
  /\ resizing' = Resizing
  /\ UNCHANGED <<owners, waiters, granted, inside, inFlight, open, upstream, told>>

Resize ==
  /\ resizing
  /\ IF HandsOn(owners)
     THEN Promote(owners, granted) /\ UNCHANGED resizing
     ELSE resizing' = FALSE /\ UNCHANGED <<owners, waiters, granted>>
  /\ UNCHANGED <<capacity, inside, inFlight, open, upstream, told>>

Next ==
  \/ \E c \in Caller :
       Acquire(c) \/ Answer(c) \/ Cap(c) \/ AbortWaiting(c) \/ AbortInside(c)
  \/ Enter
  \/ \E n \in Capacities : SetCapacity(n)
  \/ Resize

\* Microtasks are run and a synchronous loop ends.  A timer that is due is run
\* at the latest when the event loop comes round to it, whatever else is
\* queued.  A function need never answer.
Fairness ==
  /\ WF_vars(Enter)
  /\ WF_vars(Resize)
  /\ \A c \in Caller : SF_vars(Cap(c))

Spec == Init /\ [][Next]_vars /\ Fairness

-----------------------------------------------------------------------------
(* Properties *)

\* Every slot is held by a run that will give it back: one that has been woken
\* or is inside.  A slot given to a caller that was aborted in the line would
\* be held by nobody, and every later call would queue behind it.
SlotsAreHeld ==
  /\ owners = Members(granted) \cup inside
  /\ owners \subseteq open

\* Nobody waits while a slot is free, whatever was released, aborted or resized.
NoIdleSlot == waiters # <<>> /\ ~resizing => Cardinality(owners) >= capacity

\* The entry check never refuses a caller the line has let in: between the
\* grant and the continuation neither the counter nor the capacity moves
\* against it.
EntryAdmitted == granted # <<>> => inFlight < capacity

\* A function that runs on after its call has left the gate was told to stop,
\* so what still runs beyond the capacity is only what ignores its signal.
OutsidersAreTold == upstream \ inside \subseteq told \cap Deaf

\* A caller in the line gets in or is rejected, with functions that never
\* answer ahead of it and new calls arriving behind it.
Served == \A c \in Caller : c \in Members(waiters) ~> c \notin Members(waiters)

\* The parts an induction needs besides: a caller has one place at most, ...
Injective(s) == \A i, j \in DOMAIN s : s[i] = s[j] => i = j

OnePlace ==
  /\ Injective(waiters) /\ Injective(granted)
  /\ Members(granted) \cap inside = {}
  /\ Members(waiters) \subseteq open \ owners

\* ... the counter counts the callers inside, the capacity does not fall below
\* the slots before every grant has been taken up, ...
Counts ==
  /\ inFlight = Cardinality(inside)
  /\ granted # <<>> => Cardinality(owners) <= capacity

\* ... and a call that is inside has its function running.
InsideRuns == inside \subseteq upstream

GateInvariant ==
  TypeOK /\ SlotsAreHeld /\ OnePlace /\ Counts /\ NoIdleSlot /\ InsideRuns /\ OutsidersAreTold

\* What the gate promises: one line, served from the front.
Line == INSTANCE AdmissionLine
  WITH Limits <- Capacities, line <- granted \o waiters, holders <- inside, limit <- capacity
KeepsTheLine == Line!Spec

=============================================================================
