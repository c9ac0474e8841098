---------------------------- MODULE CurrentRuns ----------------------------
(***************************************************************************)
(* What the table of stage runs promises to whoever reads it: every slot   *)
(* is vacant or held by one run.  A run takes its slot open, and is filed  *)
(* or fails while it holds it, once; after that the slot says the same     *)
(* until another run takes it or somebody clears it.  A run that has lost  *)
(* its slot never comes back: numbers are not used twice.  Nothing is said *)
(* of jobs, executions, epochs and crashes.                                *)
(***************************************************************************)
EXTENDS Naturals

CONSTANTS
  Slot,    \* the current-run slots
  Result   \* what a stage may report as its result

VARIABLES
  current,  \* what a reader finds in each slot
  number    \* the runs that have been numbered

runVars == <<current, number>>

NoResult == 0
Vacant == [run |-> 0, status |-> "none", result |-> NoResult]

Init ==
  /\ current = [s \in Slot |-> Vacant]
  /\ number = 0

\* A run takes the slot, from whichever run held it.
Open(s) ==
  /\ number' = number + 1
  /\ current' = [current EXCEPT ![s] = [run |-> number + 1, status |-> "running",
                                        result |-> NoResult]]

\* The run that holds the slot ends, and the slot says how.
Says(s, status, result) ==
  /\ current[s].status = "running"
  /\ current' = [current EXCEPT ![s] = [run |-> @.run, status |-> status, result |-> result]]
  /\ UNCHANGED number

File(s) ==
  \E status \in {"succeeded", "empty", "skipped", "refused", "failed"} :
    \E result \in Result \cup {NoResult} : Says(s, status, result)

Fail(s) == Says(s, "failed", current[s].result)

\* Some slots are cleared, or none.
Clear ==
  /\ UNCHANGED number
  /\ \A s \in Slot : current'[s] \in {current[s], Vacant}
  /\ current' = [s \in Slot |-> current'[s]]

Next ==
  \/ Clear
  \/ \E s \in Slot : Open(s) \/ File(s) \/ Fail(s)

Spec == Init /\ [][Next]_runVars

\* What a slot says of a run is final once it is not running, and a run that has
\* lost its slot does not come back.
StaysFinal ==
  \A s \in Slot :
    /\ current[s].status # "running" /\ current'[s].run = current[s].run =>
         current'[s] = current[s]
    /\ current'[s].run # current[s].run => current'[s].run \in {0, number + 1}

FinalIsFinal == [][StaysFinal]_runVars
=============================================================================
