----------------------------- MODULE CloseGuard -----------------------------
(***************************************************************************)
(* Closing a window and quitting the app while papers are being read,      *)
(* src/main/closeGuard.ts, with the work counts of src/main/busy.ts, the   *)
(* queue's run state, and the shutdown of the stage hosts on every         *)
(* before-quit, src/main/index.ts.                                         *)
(*                                                                         *)
(* Abstractions.  The guard only asks whether a count is zero, so direct   *)
(* analyses are tasks with an owner and queue jobs a set.  A window's      *)
(* close and closed events are one step when the close is not prevented.   *)
(* osSessionEnding is set with every member of sessionEnded and never      *)
(* reset, so it stands for both.  Window ids are not reused by Electron: a *)
(* model value may be opened again once it is gone, with nothing left of   *)
(* it.  A window opened while the app is going is left out, and so is the  *)
(* switch that disarms the guard for headless runs.                        *)
(***************************************************************************)
CONSTANTS
  Window, Task, Job,
  None,   \* null: no window, the whole app
  Off     \* a task that is not running

ASSUME CloseGuardAssumption == None \notin Window /\ Off \notin Window \cup {None}

VARIABLES
  darwin,     \* the app outlives its last window
  live,       \* windows that are not destroyed
  crashed,    \* of those, the ones whose renderer is gone
  owner,      \* per task, the window it is counted for
  inFlight,   \* the jobs the queue is running
  running,    \* the queue claims jobs
  hostsDown,  \* the host pool has been shut down
  phase, decided, asking, closing, wasRunning, intent, osEnding,
  doomed,     \* windows a setImmediate will destroy
  pending,    \* a setImmediate will call app.quit
  quitting,   \* Electron is closing the windows for a quit ...
  leaving,    \* ... and these have still to be asked
  gone        \* the process has ended

desk == <<darwin, osEnding>>
windows == <<live, crashed, doomed, leaving>>
work == <<owner, inFlight>>
prompt == <<phase, asking, closing, wasRunning>>
verdict == <<decided, intent, pending>>
exit == <<quitting, gone>>
vars == <<desk, windows, work, running, hostsDown, prompt, verdict, exit>>

TypeOK ==
  /\ darwin \in BOOLEAN /\ live \subseteq Window /\ crashed \subseteq live
  /\ owner \in [Task -> live \cup {None, Off}] /\ inFlight \subseteq Job
  /\ running \in BOOLEAN /\ hostsDown \in BOOLEAN
  /\ phase \in {"idle", "asking", "finishing"}
  /\ decided \in BOOLEAN /\ wasRunning \in BOOLEAN /\ intent \in BOOLEAN
  /\ asking \in Window \cup {None} /\ closing \in Window \cup {None}
  /\ osEnding \in BOOLEAN /\ pending \in BOOLEAN /\ quitting \in BOOLEAN /\ gone \in BOOLEAN
  /\ doomed \subseteq live /\ leaving \subseteq live

Init ==
  /\ darwin \in BOOLEAN
  /\ live \in SUBSET Window \ {{}}
  /\ crashed = {} /\ doomed = {} /\ leaving = {}
  /\ owner = [t \in Task |-> Off] /\ inFlight = {}
  /\ running = TRUE /\ hostsDown = FALSE
  /\ phase = "idle" /\ asking = None /\ closing = None /\ wasRunning = FALSE
  /\ decided = FALSE /\ intent = FALSE /\ pending = FALSE
  /\ osEnding = FALSE /\ quitting = FALSE /\ gone = FALSE

-----------------------------------------------------------------------------
(* What is at risk, when o says who owns the tasks and jobs are in flight *)

\* The queue alone.
BugBusy(o, jobs) == jobs # {}
Busy(o, jobs) == jobs # {} \/ \E t \in Task : o[t] # Off

AtRisk(scope, o, jobs) ==
  IF scope = None THEN Busy(o, jobs) ELSE \E t \in Task : o[t] = scope

\* A window that closes is one of several, or it is the app.
Scope(w) == IF w # None /\ live # {w} THEN w ELSE None

-----------------------------------------------------------------------------
(* Deciding *)

\* A commitment that is forgotten when the quit comes round again.
BugCommitted == decided
Committed == TRUE

QuitNow(scope) ==
  /\ phase' = "idle" /\ closing' = None
  /\ UNCHANGED wasRunning
  /\ IF scope # None
     THEN /\ asking' = None /\ intent' = FALSE
          /\ doomed' = doomed \cup ({scope} \cap live)
          /\ UNCHANGED <<decided, pending, running>>
     ELSE /\ decided' = Committed /\ intent' = TRUE /\ pending' = TRUE /\ running' = FALSE
          /\ UNCHANGED <<asking, doomed>>

\* A drain that nobody looks at.
BugCheckDrained(o, jobs) == UNCHANGED <<prompt, verdict, running, doomed>>

CheckDrained(o, jobs) ==
  IF phase # "idle" /\ ~AtRisk(closing, o, jobs)
  THEN QuitNow(closing)
  ELSE UNCHANGED <<prompt, verdict, running, doomed>>

CancelQuit ==
  /\ phase' = "idle" /\ asking' = None /\ closing' = None
  /\ decided' = FALSE /\ intent' = FALSE
  /\ running' = (running \/ (closing = None /\ wasRunning))
  /\ UNCHANGED <<wasRunning, pending>>

\* decideQuit, from the window that was asked.
Cancel ==
  /\ phase # "idle"
  /\ CancelQuit
  /\ UNCHANGED <<desk, windows, work, hostsDown, exit>>

CloseNow ==
  /\ phase # "idle"
  /\ QuitNow(closing)
  /\ UNCHANGED <<desk, live, crashed, leaving, work, hostsDown, exit>>

Finish ==
  /\ phase # "idle"
  /\ IF AtRisk(closing, owner, inFlight)
     THEN /\ phase' = "finishing"
          /\ running' = (running /\ closing # None)
          /\ UNCHANGED <<asking, closing, wasRunning, verdict, doomed>>
     ELSE QuitNow(closing)
  /\ UNCHANGED <<desk, live, crashed, leaving, work, hostsDown, exit>>

-----------------------------------------------------------------------------
(* A window is lost *)

\* A question that stays on a window that cannot answer it.
BugLost(w, announced) == intent' = announced /\ UNCHANGED <<prompt, decided, pending, running>>

\* askingWindowLost, when the intent has been announced before it.
Lost(w, announced) ==
  LET others == live \ (crashed \cup {w}) IN
  IF phase = "idle" \/ asking # w
  THEN intent' = announced /\ UNCHANGED <<prompt, decided, pending, running>>
  ELSE IF closing = w \/ others = {}
  THEN CancelQuit
  ELSE /\ asking' \in others
       /\ intent' = announced
       /\ UNCHANGED <<phase, closing, wasRunning, decided, pending, running>>

\* forgetWindow: the work goes on, and is nobody's.
BugForget(w) == owner
Forget(w) == [t \in Task |-> IF owner[t] = w THEN None ELSE owner[t]]

\* closed.  The last window takes the app along, except on macOS.
Closed(w, announced) ==
  /\ live' = live \ {w} /\ crashed' = crashed \ {w}
  /\ doomed' = doomed \ {w} /\ leaving' = leaving \ {w}
  /\ owner' = Forget(w)
  /\ Lost(w, announced)
  /\ gone' = (live = {w} /\ (quitting \/ ~darwin))
  /\ hostsDown' = (hostsDown \/ gone')
  /\ UNCHANGED <<desk, inFlight, quitting>>

\* render-process-gone.
Crash(w) ==
  /\ w \in live \ crashed
  /\ crashed' = crashed \cup {w}
  /\ Lost(w, intent)
  /\ UNCHANGED <<desk, live, doomed, leaving, work, hostsDown, exit>>

\* The setImmediate of a quitNow about one window.
Destroy(w) == w \in doomed /\ Closed(w, intent)

-----------------------------------------------------------------------------
(* The guard *)

\* The intent is announced only by a close that will be asked about.
BugAnnounced(w) == intent
Announced(w) == intent \/ (Scope(w) = None /\ ~osEnding)

\* A close that is not prevented: the OS does not wait, it is settled, nothing
\* is at risk, or there is nobody to ask.
GoesThrough(w, target) ==
  \/ osEnding \/ decided
  \/ ~AtRisk(Scope(w), owner, inFlight)
  \/ phase = "idle" /\ (target = None \/ target \in crashed)

\* A close that is: the user is asked, or has now said it twice.
Held(w, target) ==
  IF phase # "idle"
  THEN QuitNow(Scope(w))
  ELSE /\ phase' = "asking" /\ wasRunning' = running
       /\ asking' = target /\ closing' = Scope(w)
       /\ intent' = Announced(w)
       /\ UNCHANGED <<decided, pending, running, doomed>>

\* A window is closed, by its user or by a quit that is under way.
Close(w) ==
  /\ w \in live
  /\ IF GoesThrough(w, w)
     THEN Closed(w, Announced(w))
     ELSE /\ Held(w, w)
          /\ leaving' = leaving \ {w} /\ quitting' = FALSE
          /\ UNCHANGED <<desk, live, crashed, work, hostsDown, gone>>

\* before-quit, from the user or from quitNow.  The window asked is the focused
\* one, or some other.  killHosts is registered first and is not held back.
BeforeQuit ==
  /\ ~quitting
  /\ hostsDown' = TRUE
  /\ \E target \in IF live = {} THEN {None} ELSE live :
       IF GoesThrough(None, target)
       THEN /\ quitting' = TRUE /\ leaving' = live /\ gone' = (live = {})
            /\ intent' = Announced(None) /\ pending' = FALSE
            /\ UNCHANGED <<prompt, decided, running, doomed>>
       ELSE Held(None, target) /\ UNCHANGED <<exit, leaving>>
  /\ UNCHANGED <<desk, live, crashed, work>>

-----------------------------------------------------------------------------
(* Work, the queue and the desktop *)

\* trackBusy: a count that grows cannot drain anything.
StartTask(t, w) ==
  /\ owner[t] = Off
  /\ owner' = [owner EXCEPT ![t] = w]
  /\ UNCHANGED <<desk, windows, inFlight, running, hostsDown, prompt, verdict, exit>>

\* Its finally: only a prompt that is finishing has subscribed.
EndTask(t) ==
  /\ owner[t] # Off
  /\ owner' = [owner EXCEPT ![t] = Off]
  /\ IF phase = "finishing"
     THEN CheckDrained(owner', inFlight)
     ELSE UNCHANGED <<prompt, verdict, running, doomed>>
  /\ UNCHANGED <<desk, live, crashed, leaving, inFlight, hostsDown, exit>>

StartJob(j) ==
  /\ running
  /\ inFlight' = inFlight \cup {j}
  /\ UNCHANGED <<desk, windows, owner, running, hostsDown, prompt, verdict, exit>>

\* onSettled, in either phase.
EndJob(j) ==
  /\ j \in inFlight
  /\ inFlight' = inFlight \ {j}
  /\ CheckDrained(owner, inFlight')
  /\ UNCHANGED <<desk, live, crashed, leaving, owner, hostsDown, exit>>

\* refreshQuitState from a change of the queue, and the timer of finishing.
Refresh ==
  /\ phase # "idle"
  /\ CheckDrained(owner, inFlight)
  /\ UNCHANGED <<desk, live, crashed, leaving, work, hostsDown, exit>>

\* A word of the user that the prompt does not hear.
BugNoted(r) == wasRunning
Noted(r) == IF phase = "asking" THEN r ELSE wasRunning

\* Pause and resume.
SetRunning(r) ==
  /\ running' = r
  /\ wasRunning' = Noted(r)
  /\ UNCHANGED <<desk, windows, work, hostsDown, phase, asking, closing, verdict, exit>>

Open(w) ==
  /\ w \notin live /\ ~decided /\ ~quitting
  /\ live' = live \cup {w}
  /\ UNCHANGED <<desk, crashed, doomed, leaving, work, running, hostsDown, prompt, verdict, exit>>

SessionEnd ==
  /\ live # {}
  /\ osEnding' = TRUE
  /\ UNCHANGED <<darwin, windows, work, running, hostsDown, prompt, verdict, exit>>

Next ==
  /\ ~gone
  /\ \/ \E w \in Window : Crash(w) \/ Destroy(w) \/ Close(w) \/ Open(w)
     \/ Cancel \/ CloseNow \/ Finish \/ BeforeQuit \/ Refresh \/ SessionEnd
     \/ \E t \in Task : EndTask(t) \/ \E w \in (live \ crashed) \cup {None} : StartTask(t, w)
     \/ \E j \in Job : StartJob(j) \/ EndJob(j)
     \/ \E r \in BOOLEAN : SetRunning(r)

\* A setImmediate runs, and Electron closes the windows of a quit.
Fairness ==
  /\ WF_vars(pending /\ ~gone /\ BeforeQuit)
  /\ \A w \in Window : WF_vars(w \in leaving /\ ~gone /\ Close(w))

Spec == Init /\ [][Next]_vars /\ Fairness

-----------------------------------------------------------------------------
(* Properties *)

\* A question is always on a window that can answer it, and a question about
\* one window on that window, whatever was closed or crashed while it stood:
\* the next close would take an unanswered one for an answer.
PromptIsAnswerable ==
  /\ phase # "idle" => asking \in live \ crashed
  /\ closing # None => phase # "idle" /\ closing = asking

\* A close that waits for work has work to wait for: the commitment is made in
\* the step that lands the last of it, so it cannot wait for ever.
FinishingWaits == phase = "finishing" => AtRisk(closing, owner, inFlight)

\* A question that ends in anything but a quit restarts the queue only if the
\* prompt itself had stopped it: never one that is still being asked, whatever the
\* user did to the queue meanwhile, never one about a window, and a wait for the
\* whole app only if the queue ran when the user chose to wait.  cancelQuit promises
\* more, that a queue paused while the prompt is open is not found running again,
\* and that is so for a question being asked only: a pause made in the wait is not
\* noted, and is undone.
OnlyOurPauseIsUndone ==
  [][/\ phase # "idle" /\ phase' = "idle" /\ ~decided' /\ running' # running =>
          phase = "finishing" /\ closing = None /\ wasRunning
     /\ phase' = "finishing" =>
          wasRunning' = IF phase = "asking" THEN running ELSE wasRunning]_vars

\* While the app is held open, or going, the MCP server has been told.
QuitIsAnnounced == decided \/ (phase # "idle" /\ closing = None) => intent

\* The app does not go with a paper in progress unless the user decided so,
\* the session ended, nobody was left to ask, or its last window was one that
\* had been given up with its own work.
Reading == inFlight # {} \/ \E t \in Task : owner[t] # Off

NoUnaskedLoss ==
  [][gone' /\ Reading => decided \/ osEnding \/ live \subseteq crashed \cup doomed]_vars

\* A quit that is decided happens, in spite of the guard that held it.
GoesWhenTold == pending ~> gone

\* While a question is being asked, what a cancel would restore is what the queue
\* does: a pause or a resume of the user has been noted.
AskingRemembers == phase = "asking" => wasRunning = running

\* The inductive invariant of the proofs: a decision ends the question.
GuardInvariant ==
  /\ TypeOK
  /\ decided => phase = "idle"
  /\ PromptIsAnswerable
  /\ FinishingWaits
  /\ AskingRemembers
  /\ QuitIsAnnounced

\* A session the user chose to keep keeps its stage hosts.
KeptSessionHasHosts == phase = "idle" /\ ~decided /\ ~quitting /\ ~gone => ~hostsDown

=============================================================================
