-------------------------- MODULE CloseGuardProofs --------------------------
(***************************************************************************)
(* What holds of the close guard for every set of windows, of direct       *)
(* analyses and of queue jobs.                                             *)
(***************************************************************************)
EXTENDS CloseGuard, TLAPS

-----------------------------------------------------------------------------
(* The invariant *)

\* The types of what a prompt and its decision keep.
PromptTypes ==
  /\ phase \in {"idle", "asking", "finishing"}
  /\ decided \in BOOLEAN /\ wasRunning \in BOOLEAN /\ intent \in BOOLEAN
  /\ asking \in Window \cup {None} /\ closing \in Window \cup {None}
  /\ pending \in BOOLEAN /\ running \in BOOLEAN

\* A drain, a decision and a window that is lost keep them.
LEMMA DrainTypes ==
  ASSUME TypeOK, NEW o, NEW jobs, CheckDrained(o, jobs)
  PROVE  PromptTypes' /\ doomed' \subseteq live
<1>1. CASE phase # "idle" /\ ~AtRisk(closing, o, jobs)
  <2>1. QuitNow(closing)
    BY <1>1 DEF CheckDrained
  <2> QED
    BY <2>1, <1>1 DEF QuitNow, Committed, TypeOK, PromptTypes
<1>2. CASE ~(phase # "idle" /\ ~AtRisk(closing, o, jobs))
  <2>1. UNCHANGED <<prompt, verdict, running, doomed>>
    BY <1>2 DEF CheckDrained
  <2> QED
    BY <2>1 DEF prompt, verdict, TypeOK, PromptTypes
<1> QED
  BY <1>1, <1>2

LEMMA CancelTypes ==
  ASSUME TypeOK, CancelQuit
  PROVE  PromptTypes'
<1>1. running' \in BOOLEAN
  BY Zenon DEF CancelQuit
<1> QED
  BY <1>1 DEF CancelQuit, TypeOK, PromptTypes

LEMMA LostTypes ==
  ASSUME TypeOK, NEW w, NEW announced \in BOOLEAN, Lost(w, announced)
  PROVE  PromptTypes'
<1>1. \/ CancelQuit
      \/ intent' = announced /\ UNCHANGED <<prompt, decided, pending, running>>
      \/ /\ asking' \in live
         /\ intent' = announced
         /\ UNCHANGED <<phase, closing, wasRunning, decided, pending, running>>
  BY Zenon DEF Lost
<1>2. CASE UNCHANGED <<prompt, decided, pending, running>> /\ intent' = announced
  BY <1>2 DEF prompt, TypeOK, PromptTypes
<1>3. CASE /\ asking' \in live
           /\ intent' = announced
           /\ UNCHANGED <<phase, closing, wasRunning, decided, pending, running>>
  BY <1>3 DEF TypeOK, PromptTypes
<1> QED
  BY <1>1, <1>2, <1>3, CancelTypes

\* A step keeps the types.
LEMMA TypesKept ==
  ASSUME TypeOK, [Next]_vars
  PROVE  TypeOK'
<1>1. ASSUME NEW w \in Window, Crash(w)
      PROVE  TypeOK'
  <2>1. PromptTypes'
    BY <1>1, LostTypes DEF Crash, TypeOK
  <2> QED
    BY <1>1, <2>1 DEF Crash, desk, work, exit, PromptTypes, TypeOK
<1>2. ASSUME NEW w \in Window, Destroy(w)
      PROVE  TypeOK'
  BY <1>2, CloseGuardAssumption, ZenonT(40) DEF Destroy, Closed, Forget, Lost, CancelQuit, vars,
     desk, windows, work, prompt, verdict, exit, TypeOK
<1>3. ASSUME NEW w \in Window, Close(w)
      PROVE  TypeOK'
  <2>1. CASE GoesThrough(w, w)
    <3>1. Closed(w, Announced(w))
      BY <1>3, <2>1 DEF Close
    <3>2. Announced(w) \in BOOLEAN
      BY Zenon DEF Announced, TypeOK
    <3> HIDE DEF Announced
    <3>3. PromptTypes'
      BY <3>1, <3>2, LostTypes, Zenon DEF Closed
    <3>4. gone' \in BOOLEAN /\ hostsDown' \in BOOLEAN
      BY <3>1, Zenon DEF Closed
    <3>5. owner' \in [Task -> live' \cup {None, Off}]
      BY <3>1, CloseGuardAssumption DEF Closed, Forget, TypeOK
    <3> QED
      BY <3>1, <3>3, <3>4, <3>5 DEF Closed, desk, PromptTypes, TypeOK
  <2>2. CASE ~GoesThrough(w, w)
    <3>1. /\ Held(w, w) /\ leaving' = leaving \ {w} /\ quitting' = FALSE
          /\ UNCHANGED <<desk, live, crashed, work, hostsDown, gone>>
      BY <1>3, <2>2 DEF Close
    <3>2. intent' \in BOOLEAN
      BY <3>1, Zenon DEF Held, QuitNow, Announced, TypeOK
    <3> QED
      BY <3>1, <3>2, CloseGuardAssumption DEF Held, QuitNow, Committed, Scope, desk, work, TypeOK
  <2> QED
    BY <2>1, <2>2
<1>4. ASSUME NEW w \in Window, Open(w)
      PROVE  TypeOK'
  BY <1>4, CloseGuardAssumption DEF Open, vars, desk, windows, work, prompt, verdict,
     exit, TypeOK
<1>5. ASSUME Cancel
      PROVE  TypeOK'
  BY <1>5, CloseGuardAssumption DEF Cancel, CancelQuit, vars, desk, windows, work,
     prompt, verdict, exit, TypeOK
<1>6. ASSUME CloseNow
      PROVE  TypeOK'
  BY <1>6, CloseGuardAssumption DEF CloseNow, QuitNow, Committed, vars, desk, windows,
     work, prompt, verdict, exit, TypeOK
<1>7. ASSUME Finish
      PROVE  TypeOK'
  BY <1>7, CloseGuardAssumption, ZenonT(40) DEF Finish, QuitNow, Committed, vars, desk, windows,
     work, prompt, verdict, exit, TypeOK
<1>8. ASSUME BeforeQuit
      PROVE  TypeOK'
  BY <1>8, CloseGuardAssumption DEF BeforeQuit, GoesThrough, Held, QuitNow, Committed,
     Announced, Scope, vars, desk, windows, work, prompt, verdict, exit, TypeOK
<1>9. ASSUME Refresh
      PROVE  TypeOK'
  <2>1. PromptTypes' /\ doomed' \subseteq live
    BY <1>9, DrainTypes DEF Refresh
  <2> QED
    BY <1>9, <2>1 DEF Refresh, desk, work, exit, PromptTypes, TypeOK
<1>10. ASSUME SessionEnd
      PROVE  TypeOK'
  BY <1>10, CloseGuardAssumption DEF SessionEnd, vars, desk, windows, work, prompt,
     verdict, exit, TypeOK
<1>11. ASSUME NEW t \in Task, EndTask(t)
      PROVE  TypeOK'
  <2>1. PromptTypes' /\ doomed' \subseteq live
    <3>1. CASE phase = "finishing"
      BY <1>11, <3>1, DrainTypes DEF EndTask
    <3>2. CASE phase # "finishing"
      BY <1>11, <3>2 DEF EndTask, prompt, verdict, TypeOK, PromptTypes
    <3> QED
      BY <3>1, <3>2
  <2> QED
    BY <1>11, <2>1 DEF EndTask, desk, exit, PromptTypes, TypeOK
<1>12. ASSUME NEW t \in Task, NEW w \in (live \ crashed) \cup {None}, StartTask(t, w)
      PROVE  TypeOK'
  BY <1>12, CloseGuardAssumption DEF StartTask, vars, desk, windows, work, prompt,
     verdict, exit, TypeOK
<1>13. ASSUME NEW j \in Job, StartJob(j)
      PROVE  TypeOK'
  BY <1>13, CloseGuardAssumption DEF StartJob, vars, desk, windows, work, prompt,
     verdict, exit, TypeOK
<1>14. ASSUME NEW j \in Job, EndJob(j)
      PROVE  TypeOK'
  <2>1. PromptTypes' /\ doomed' \subseteq live
    BY <1>14, DrainTypes DEF EndJob
  <2> QED
    BY <1>14, <2>1 DEF EndJob, desk, exit, PromptTypes, TypeOK
<1>15. ASSUME NEW r \in BOOLEAN, SetRunning(r)
      PROVE  TypeOK'
  BY <1>15, CloseGuardAssumption DEF SetRunning, Noted, vars, desk, windows, work,
     prompt, verdict, exit, TypeOK
<1>16. CASE UNCHANGED vars
  BY <1>16 DEF vars, desk, windows, work, prompt, verdict, exit, TypeOK
<1> QED
  BY <1>1, <1>2, <1>3, <1>4, <1>5, <1>6, <1>7, <1>8, <1>9, <1>10, <1>11, <1>12, <1>13,
     <1>14, <1>15, <1>16 DEF Next

\* A decision leaves no question open, and no question is asked after it.
LEMMA DecisionKept ==
  ASSUME TypeOK, decided => phase = "idle", [Next]_vars
  PROVE  (decided => phase = "idle")'
<1>1. ASSUME NEW w \in Window, Crash(w)
      PROVE  (decided => phase = "idle")'
  BY <1>1, CloseGuardAssumption DEF Crash, Lost, CancelQuit, vars, desk, windows, work,
     prompt, verdict, exit, TypeOK
<1>2. ASSUME NEW w \in Window, Destroy(w)
      PROVE  (decided => phase = "idle")'
  BY <1>2, CloseGuardAssumption, ZenonT(40) DEF Destroy, Closed, Forget, Lost, CancelQuit, vars,
     desk, windows, work, prompt, verdict, exit, TypeOK
<1>3. ASSUME NEW w \in Window, Close(w)
      PROVE  (decided => phase = "idle")'
  BY <1>3, CloseGuardAssumption DEF Close, GoesThrough, Closed, Forget, Lost,
     CancelQuit, Announced, Held, QuitNow, Committed, Scope, vars, desk, windows, work,
     prompt, verdict, exit, TypeOK
<1>4. ASSUME NEW w \in Window, Open(w)
      PROVE  (decided => phase = "idle")'
  BY <1>4, CloseGuardAssumption DEF Open, vars, desk, windows, work, prompt, verdict,
     exit, TypeOK
<1>5. ASSUME Cancel
      PROVE  (decided => phase = "idle")'
  BY <1>5, CloseGuardAssumption DEF Cancel, CancelQuit, vars, desk, windows, work,
     prompt, verdict, exit, TypeOK
<1>6. ASSUME CloseNow
      PROVE  (decided => phase = "idle")'
  BY <1>6, CloseGuardAssumption DEF CloseNow, QuitNow, Committed, vars, desk, windows,
     work, prompt, verdict, exit, TypeOK
<1>7. ASSUME Finish
      PROVE  (decided => phase = "idle")'
  BY <1>7, CloseGuardAssumption, ZenonT(40) DEF Finish, QuitNow, Committed, vars, desk, windows,
     work, prompt, verdict, exit, TypeOK
<1>8. ASSUME BeforeQuit
      PROVE  (decided => phase = "idle")'
  BY <1>8, CloseGuardAssumption DEF BeforeQuit, GoesThrough, Held, QuitNow, Committed,
     Announced, Scope, vars, desk, windows, work, prompt, verdict, exit, TypeOK
<1>9. ASSUME Refresh
      PROVE  (decided => phase = "idle")'
  BY <1>9, CloseGuardAssumption DEF Refresh, CheckDrained, QuitNow, Committed, vars,
     desk, windows, work, prompt, verdict, exit, TypeOK
<1>10. ASSUME SessionEnd
      PROVE  (decided => phase = "idle")'
  BY <1>10, CloseGuardAssumption DEF SessionEnd, vars, desk, windows, work, prompt,
     verdict, exit, TypeOK
<1>11. ASSUME NEW t \in Task, EndTask(t)
      PROVE  (decided => phase = "idle")'
  BY <1>11, CloseGuardAssumption DEF EndTask, CheckDrained, QuitNow, Committed, vars,
     desk, windows, work, prompt, verdict, exit, TypeOK
<1>12. ASSUME NEW t \in Task, NEW w \in (live \ crashed) \cup {None}, StartTask(t, w)
      PROVE  (decided => phase = "idle")'
  BY <1>12, CloseGuardAssumption DEF StartTask, vars, desk, windows, work, prompt,
     verdict, exit, TypeOK
<1>13. ASSUME NEW j \in Job, StartJob(j)
      PROVE  (decided => phase = "idle")'
  BY <1>13, CloseGuardAssumption DEF StartJob, vars, desk, windows, work, prompt,
     verdict, exit, TypeOK
<1>14. ASSUME NEW j \in Job, EndJob(j)
      PROVE  (decided => phase = "idle")'
  BY <1>14, CloseGuardAssumption DEF EndJob, CheckDrained, QuitNow, Committed, vars,
     desk, windows, work, prompt, verdict, exit, TypeOK
<1>15. ASSUME NEW r \in BOOLEAN, SetRunning(r)
      PROVE  (decided => phase = "idle")'
  BY <1>15, CloseGuardAssumption DEF SetRunning, Noted, vars, desk, windows, work,
     prompt, verdict, exit, TypeOK
<1>16. CASE UNCHANGED vars
  BY <1>16 DEF vars, desk, windows, work, prompt, verdict, exit, TypeOK
<1> QED
  BY <1>1, <1>2, <1>3, <1>4, <1>5, <1>6, <1>7, <1>8, <1>9, <1>10, <1>11, <1>12, <1>13,
     <1>14, <1>15, <1>16 DEF Next

\* A question moves off the window that is lost, or goes with it.
LEMMA AnswerableKept ==
  ASSUME TypeOK, PromptIsAnswerable, [Next]_vars
  PROVE  PromptIsAnswerable'
<1>1. ASSUME NEW w \in Window, Crash(w)
      PROVE  PromptIsAnswerable'
  BY <1>1, CloseGuardAssumption DEF Crash, Lost, CancelQuit, vars, desk, windows, work,
     prompt, verdict, exit, TypeOK, PromptIsAnswerable
<1>2. ASSUME NEW w \in Window, Destroy(w)
      PROVE  PromptIsAnswerable'
  BY <1>2, CloseGuardAssumption DEF Destroy, Closed, Forget, Lost, CancelQuit, vars,
     desk, windows, work, prompt, verdict, exit, TypeOK, PromptIsAnswerable
<1>3. ASSUME NEW w \in Window, Close(w)
      PROVE  PromptIsAnswerable'
  BY <1>3, CloseGuardAssumption DEF Close, GoesThrough, Closed, Forget, Lost,
     CancelQuit, Announced, Held, QuitNow, Committed, Scope, vars, desk, windows, work,
     prompt, verdict, exit, TypeOK, PromptIsAnswerable
<1>4. ASSUME NEW w \in Window, Open(w)
      PROVE  PromptIsAnswerable'
  BY <1>4, CloseGuardAssumption DEF Open, vars, desk, windows, work, prompt, verdict,
     exit, TypeOK, PromptIsAnswerable
<1>5. ASSUME Cancel
      PROVE  PromptIsAnswerable'
  BY <1>5, CloseGuardAssumption DEF Cancel, CancelQuit, vars, desk, windows, work,
     prompt, verdict, exit, TypeOK, PromptIsAnswerable
<1>6. ASSUME CloseNow
      PROVE  PromptIsAnswerable'
  BY <1>6, CloseGuardAssumption DEF CloseNow, QuitNow, Committed, vars, desk, windows,
     work, prompt, verdict, exit, TypeOK, PromptIsAnswerable
<1>7. ASSUME Finish
      PROVE  PromptIsAnswerable'
  BY <1>7, CloseGuardAssumption DEF Finish, QuitNow, Committed, vars, desk, windows,
     work, prompt, verdict, exit, TypeOK, PromptIsAnswerable
<1>8. ASSUME BeforeQuit
      PROVE  PromptIsAnswerable'
  BY <1>8, CloseGuardAssumption DEF BeforeQuit, GoesThrough, Held, QuitNow, Committed,
     Announced, Scope, vars, desk, windows, work, prompt, verdict, exit, TypeOK,
     PromptIsAnswerable
<1>9. ASSUME Refresh
      PROVE  PromptIsAnswerable'
  BY <1>9, CloseGuardAssumption DEF Refresh, CheckDrained, QuitNow, Committed, vars,
     desk, windows, work, prompt, verdict, exit, TypeOK, PromptIsAnswerable
<1>10. ASSUME SessionEnd
      PROVE  PromptIsAnswerable'
  BY <1>10, CloseGuardAssumption DEF SessionEnd, vars, desk, windows, work, prompt,
     verdict, exit, TypeOK, PromptIsAnswerable
<1>11. ASSUME NEW t \in Task, EndTask(t)
      PROVE  PromptIsAnswerable'
  BY <1>11, CloseGuardAssumption DEF EndTask, CheckDrained, QuitNow, Committed, vars,
     desk, windows, work, prompt, verdict, exit, TypeOK, PromptIsAnswerable
<1>12. ASSUME NEW t \in Task, NEW w \in (live \ crashed) \cup {None}, StartTask(t, w)
      PROVE  PromptIsAnswerable'
  BY <1>12, CloseGuardAssumption DEF StartTask, vars, desk, windows, work, prompt,
     verdict, exit, TypeOK, PromptIsAnswerable
<1>13. ASSUME NEW j \in Job, StartJob(j)
      PROVE  PromptIsAnswerable'
  BY <1>13, CloseGuardAssumption DEF StartJob, vars, desk, windows, work, prompt,
     verdict, exit, TypeOK, PromptIsAnswerable
<1>14. ASSUME NEW j \in Job, EndJob(j)
      PROVE  PromptIsAnswerable'
  BY <1>14, CloseGuardAssumption DEF EndJob, CheckDrained, QuitNow, Committed, vars,
     desk, windows, work, prompt, verdict, exit, TypeOK, PromptIsAnswerable
<1>15. ASSUME NEW r \in BOOLEAN, SetRunning(r)
      PROVE  PromptIsAnswerable'
  BY <1>15, CloseGuardAssumption DEF SetRunning, Noted, vars, desk, windows, work,
     prompt, verdict, exit, TypeOK, PromptIsAnswerable
<1>16. CASE UNCHANGED vars
  BY <1>16 DEF vars, desk, windows, work, prompt, verdict, exit, TypeOK, PromptIsAnswerable
<1> QED
  BY <1>1, <1>2, <1>3, <1>4, <1>5, <1>6, <1>7, <1>8, <1>9, <1>10, <1>11, <1>12, <1>13,
     <1>14, <1>15, <1>16 DEF Next

\* A close that waits has work to wait for.
LEMMA WaitKept ==
  ASSUME TypeOK, PromptIsAnswerable, FinishingWaits, [Next]_vars
  PROVE  FinishingWaits'
<1>1. ASSUME NEW w \in Window, Crash(w)
      PROVE  FinishingWaits'
  BY <1>1, CloseGuardAssumption DEF Crash, Lost, CancelQuit, vars, desk, windows, work,
     prompt, verdict, exit, TypeOK, PromptIsAnswerable, FinishingWaits, AtRisk, Busy
<1>2. ASSUME NEW w \in Window, Destroy(w)
      PROVE  FinishingWaits'
  BY <1>2, CloseGuardAssumption DEF Destroy, Closed, Forget, Lost, CancelQuit, vars,
     desk, windows, work, prompt, verdict, exit, TypeOK, PromptIsAnswerable,
     FinishingWaits, AtRisk, Busy
<1>3. ASSUME NEW w \in Window, Close(w)
      PROVE  FinishingWaits'
  BY <1>3, CloseGuardAssumption DEF Close, GoesThrough, Closed, Forget, Lost,
     CancelQuit, Announced, Held, QuitNow, Committed, Scope, vars, desk, windows, work,
     prompt, verdict, exit, TypeOK, PromptIsAnswerable, FinishingWaits, AtRisk, Busy
<1>4. ASSUME NEW w \in Window, Open(w)
      PROVE  FinishingWaits'
  BY <1>4, CloseGuardAssumption DEF Open, vars, desk, windows, work, prompt, verdict,
     exit, TypeOK, PromptIsAnswerable, FinishingWaits, AtRisk, Busy
<1>5. ASSUME Cancel
      PROVE  FinishingWaits'
  BY <1>5, CloseGuardAssumption DEF Cancel, CancelQuit, vars, desk, windows, work,
     prompt, verdict, exit, TypeOK, PromptIsAnswerable, FinishingWaits, AtRisk, Busy
<1>6. ASSUME CloseNow
      PROVE  FinishingWaits'
  BY <1>6, CloseGuardAssumption DEF CloseNow, QuitNow, Committed, vars, desk, windows,
     work, prompt, verdict, exit, TypeOK, PromptIsAnswerable, FinishingWaits, AtRisk,
     Busy
<1>7. ASSUME Finish
      PROVE  FinishingWaits'
  BY <1>7, CloseGuardAssumption DEF Finish, QuitNow, Committed, vars, desk, windows,
     work, prompt, verdict, exit, TypeOK, PromptIsAnswerable, FinishingWaits, AtRisk,
     Busy
<1>8. ASSUME BeforeQuit
      PROVE  FinishingWaits'
  BY <1>8, CloseGuardAssumption DEF BeforeQuit, GoesThrough, Held, QuitNow, Committed,
     Announced, Scope, vars, desk, windows, work, prompt, verdict, exit, TypeOK,
     PromptIsAnswerable, FinishingWaits, AtRisk, Busy
<1>9. ASSUME Refresh
      PROVE  FinishingWaits'
  BY <1>9, CloseGuardAssumption DEF Refresh, CheckDrained, QuitNow, Committed, vars,
     desk, windows, work, prompt, verdict, exit, TypeOK, PromptIsAnswerable,
     FinishingWaits, AtRisk, Busy
<1>10. ASSUME SessionEnd
      PROVE  FinishingWaits'
  BY <1>10, CloseGuardAssumption DEF SessionEnd, vars, desk, windows, work, prompt,
     verdict, exit, TypeOK, PromptIsAnswerable, FinishingWaits, AtRisk, Busy
<1>11. ASSUME NEW t \in Task, EndTask(t)
      PROVE  FinishingWaits'
  BY <1>11, CloseGuardAssumption DEF EndTask, CheckDrained, QuitNow, Committed, vars,
     desk, windows, work, prompt, verdict, exit, TypeOK, PromptIsAnswerable,
     FinishingWaits, AtRisk, Busy
<1>12. ASSUME NEW t \in Task, NEW w \in (live \ crashed) \cup {None}, StartTask(t, w)
      PROVE  FinishingWaits'
  BY <1>12, CloseGuardAssumption DEF StartTask, vars, desk, windows, work, prompt,
     verdict, exit, TypeOK, PromptIsAnswerable, FinishingWaits, AtRisk, Busy
<1>13. ASSUME NEW j \in Job, StartJob(j)
      PROVE  FinishingWaits'
  BY <1>13, CloseGuardAssumption DEF StartJob, vars, desk, windows, work, prompt,
     verdict, exit, TypeOK, PromptIsAnswerable, FinishingWaits, AtRisk, Busy
<1>14. ASSUME NEW j \in Job, EndJob(j)
      PROVE  FinishingWaits'
  BY <1>14, CloseGuardAssumption DEF EndJob, CheckDrained, QuitNow, Committed, vars,
     desk, windows, work, prompt, verdict, exit, TypeOK, PromptIsAnswerable,
     FinishingWaits, AtRisk, Busy
<1>15. ASSUME NEW r \in BOOLEAN, SetRunning(r)
      PROVE  FinishingWaits'
  BY <1>15, CloseGuardAssumption DEF SetRunning, Noted, vars, desk, windows, work,
     prompt, verdict, exit, TypeOK, PromptIsAnswerable, FinishingWaits, AtRisk, Busy
<1>16. CASE UNCHANGED vars
  BY <1>16 DEF vars, desk, windows, work, prompt, verdict, exit, TypeOK, PromptIsAnswerable, FinishingWaits, AtRisk, Busy
<1> QED
  BY <1>1, <1>2, <1>3, <1>4, <1>5, <1>6, <1>7, <1>8, <1>9, <1>10, <1>11, <1>12, <1>13,
     <1>14, <1>15, <1>16 DEF Next

\* While a question is being asked, what a cancel would restore is what the queue
\* does.
LEMMA MemoryKept ==
  ASSUME TypeOK, AskingRemembers, [Next]_vars
  PROVE  AskingRemembers'
<1>1. ASSUME NEW w \in Window, Crash(w)
      PROVE  AskingRemembers'
  BY <1>1, CloseGuardAssumption DEF Crash, Lost, CancelQuit, vars, desk, windows, work,
     prompt, verdict, exit, TypeOK, AskingRemembers
<1>2. ASSUME NEW w \in Window, Destroy(w)
      PROVE  AskingRemembers'
  BY <1>2, CloseGuardAssumption DEF Destroy, Closed, Forget, Lost, CancelQuit, vars,
     desk, windows, work, prompt, verdict, exit, TypeOK, AskingRemembers
<1>3. ASSUME NEW w \in Window, Close(w)
      PROVE  AskingRemembers'
  BY <1>3, CloseGuardAssumption DEF Close, GoesThrough, Closed, Forget, Lost,
     CancelQuit, Announced, Held, QuitNow, Committed, Scope, vars, desk, windows, work,
     prompt, verdict, exit, TypeOK, AskingRemembers
<1>4. ASSUME NEW w \in Window, Open(w)
      PROVE  AskingRemembers'
  BY <1>4, CloseGuardAssumption DEF Open, vars, desk, windows, work, prompt, verdict,
     exit, TypeOK, AskingRemembers
<1>5. ASSUME Cancel
      PROVE  AskingRemembers'
  BY <1>5, CloseGuardAssumption DEF Cancel, CancelQuit, vars, desk, windows, work,
     prompt, verdict, exit, TypeOK, AskingRemembers
<1>6. ASSUME CloseNow
      PROVE  AskingRemembers'
  BY <1>6, CloseGuardAssumption DEF CloseNow, QuitNow, Committed, vars, desk, windows,
     work, prompt, verdict, exit, TypeOK, AskingRemembers
<1>7. ASSUME Finish
      PROVE  AskingRemembers'
  BY <1>7, CloseGuardAssumption DEF Finish, QuitNow, Committed, vars, desk, windows,
     work, prompt, verdict, exit, TypeOK, AskingRemembers
<1>8. ASSUME BeforeQuit
      PROVE  AskingRemembers'
  BY <1>8, CloseGuardAssumption DEF BeforeQuit, GoesThrough, Held, QuitNow, Committed,
     Announced, Scope, vars, desk, windows, work, prompt, verdict, exit, TypeOK,
     AskingRemembers
<1>9. ASSUME Refresh
      PROVE  AskingRemembers'
  BY <1>9, CloseGuardAssumption DEF Refresh, CheckDrained, QuitNow, Committed, vars,
     desk, windows, work, prompt, verdict, exit, TypeOK, AskingRemembers
<1>10. ASSUME SessionEnd
      PROVE  AskingRemembers'
  BY <1>10, CloseGuardAssumption DEF SessionEnd, vars, desk, windows, work, prompt,
     verdict, exit, TypeOK, AskingRemembers
<1>11. ASSUME NEW t \in Task, EndTask(t)
      PROVE  AskingRemembers'
  BY <1>11, CloseGuardAssumption DEF EndTask, CheckDrained, QuitNow, Committed, vars,
     desk, windows, work, prompt, verdict, exit, TypeOK, AskingRemembers
<1>12. ASSUME NEW t \in Task, NEW w \in (live \ crashed) \cup {None}, StartTask(t, w)
      PROVE  AskingRemembers'
  BY <1>12, CloseGuardAssumption DEF StartTask, vars, desk, windows, work, prompt,
     verdict, exit, TypeOK, AskingRemembers
<1>13. ASSUME NEW j \in Job, StartJob(j)
      PROVE  AskingRemembers'
  BY <1>13, CloseGuardAssumption DEF StartJob, vars, desk, windows, work, prompt,
     verdict, exit, TypeOK, AskingRemembers
<1>14. ASSUME NEW j \in Job, EndJob(j)
      PROVE  AskingRemembers'
  BY <1>14, CloseGuardAssumption DEF EndJob, CheckDrained, QuitNow, Committed, vars,
     desk, windows, work, prompt, verdict, exit, TypeOK, AskingRemembers
<1>15. ASSUME NEW r \in BOOLEAN, SetRunning(r)
      PROVE  AskingRemembers'
  BY <1>15, CloseGuardAssumption DEF SetRunning, Noted, vars, desk, windows, work,
     prompt, verdict, exit, TypeOK, AskingRemembers
<1>16. CASE UNCHANGED vars
  BY <1>16 DEF vars, desk, windows, work, prompt, verdict, exit, TypeOK, AskingRemembers
<1> QED
  BY <1>1, <1>2, <1>3, <1>4, <1>5, <1>6, <1>7, <1>8, <1>9, <1>10, <1>11, <1>12, <1>13,
     <1>14, <1>15, <1>16 DEF Next

\* The MCP server is told while the app is held open or going.
LEMMA NoticeKept ==
  ASSUME TypeOK, PromptIsAnswerable, decided => phase = "idle", QuitIsAnnounced, [Next]_vars
  PROVE  QuitIsAnnounced'
<1>1. ASSUME NEW w \in Window, Crash(w)
      PROVE  QuitIsAnnounced'
  BY <1>1, CloseGuardAssumption DEF Crash, Lost, CancelQuit, vars, desk, windows, work,
     prompt, verdict, exit, TypeOK, PromptIsAnswerable, QuitIsAnnounced
<1>2. ASSUME NEW w \in Window, Destroy(w)
      PROVE  QuitIsAnnounced'
  BY <1>2, CloseGuardAssumption DEF Destroy, Closed, Forget, Lost, CancelQuit, vars,
     desk, windows, work, prompt, verdict, exit, TypeOK, PromptIsAnswerable,
     QuitIsAnnounced
<1>3. ASSUME NEW w \in Window, Close(w)
      PROVE  QuitIsAnnounced'
  BY <1>3, CloseGuardAssumption DEF Close, GoesThrough, Closed, Forget, Lost,
     CancelQuit, Announced, Held, QuitNow, Committed, Scope, vars, desk, windows, work,
     prompt, verdict, exit, TypeOK, PromptIsAnswerable, QuitIsAnnounced
<1>4. ASSUME NEW w \in Window, Open(w)
      PROVE  QuitIsAnnounced'
  BY <1>4, CloseGuardAssumption DEF Open, vars, desk, windows, work, prompt, verdict,
     exit, TypeOK, PromptIsAnswerable, QuitIsAnnounced
<1>5. ASSUME Cancel
      PROVE  QuitIsAnnounced'
  BY <1>5, CloseGuardAssumption DEF Cancel, CancelQuit, vars, desk, windows, work,
     prompt, verdict, exit, TypeOK, PromptIsAnswerable, QuitIsAnnounced
<1>6. ASSUME CloseNow
      PROVE  QuitIsAnnounced'
  BY <1>6, CloseGuardAssumption DEF CloseNow, QuitNow, Committed, vars, desk, windows,
     work, prompt, verdict, exit, TypeOK, PromptIsAnswerable, QuitIsAnnounced
<1>7. ASSUME Finish
      PROVE  QuitIsAnnounced'
  BY <1>7, CloseGuardAssumption DEF Finish, QuitNow, Committed, vars, desk, windows,
     work, prompt, verdict, exit, TypeOK, PromptIsAnswerable, QuitIsAnnounced
<1>8. ASSUME BeforeQuit
      PROVE  QuitIsAnnounced'
  BY <1>8, CloseGuardAssumption DEF BeforeQuit, GoesThrough, Held, QuitNow, Committed,
     Announced, Scope, vars, desk, windows, work, prompt, verdict, exit, TypeOK,
     PromptIsAnswerable, QuitIsAnnounced
<1>9. ASSUME Refresh
      PROVE  QuitIsAnnounced'
  BY <1>9, CloseGuardAssumption DEF Refresh, CheckDrained, QuitNow, Committed, vars,
     desk, windows, work, prompt, verdict, exit, TypeOK, PromptIsAnswerable,
     QuitIsAnnounced
<1>10. ASSUME SessionEnd
      PROVE  QuitIsAnnounced'
  BY <1>10, CloseGuardAssumption DEF SessionEnd, vars, desk, windows, work, prompt,
     verdict, exit, TypeOK, PromptIsAnswerable, QuitIsAnnounced
<1>11. ASSUME NEW t \in Task, EndTask(t)
      PROVE  QuitIsAnnounced'
  BY <1>11, CloseGuardAssumption DEF EndTask, CheckDrained, QuitNow, Committed, vars,
     desk, windows, work, prompt, verdict, exit, TypeOK, PromptIsAnswerable,
     QuitIsAnnounced
<1>12. ASSUME NEW t \in Task, NEW w \in (live \ crashed) \cup {None}, StartTask(t, w)
      PROVE  QuitIsAnnounced'
  BY <1>12, CloseGuardAssumption DEF StartTask, vars, desk, windows, work, prompt,
     verdict, exit, TypeOK, PromptIsAnswerable, QuitIsAnnounced
<1>13. ASSUME NEW j \in Job, StartJob(j)
      PROVE  QuitIsAnnounced'
  BY <1>13, CloseGuardAssumption DEF StartJob, vars, desk, windows, work, prompt,
     verdict, exit, TypeOK, PromptIsAnswerable, QuitIsAnnounced
<1>14. ASSUME NEW j \in Job, EndJob(j)
      PROVE  QuitIsAnnounced'
  BY <1>14, CloseGuardAssumption DEF EndJob, CheckDrained, QuitNow, Committed, vars,
     desk, windows, work, prompt, verdict, exit, TypeOK, PromptIsAnswerable,
     QuitIsAnnounced
<1>15. ASSUME NEW r \in BOOLEAN, SetRunning(r)
      PROVE  QuitIsAnnounced'
  BY <1>15, CloseGuardAssumption DEF SetRunning, Noted, vars, desk, windows, work,
     prompt, verdict, exit, TypeOK, PromptIsAnswerable, QuitIsAnnounced
<1>16. CASE UNCHANGED vars
  BY <1>16 DEF vars, desk, windows, work, prompt, verdict, exit, TypeOK, PromptIsAnswerable, QuitIsAnnounced
<1> QED
  BY <1>1, <1>2, <1>3, <1>4, <1>5, <1>6, <1>7, <1>8, <1>9, <1>10, <1>11, <1>12, <1>13,
     <1>14, <1>15, <1>16 DEF Next

\* The invariant holds at the start.
LEMMA Starts ==
  Init => GuardInvariant
BY CloseGuardAssumption
   DEF Init, GuardInvariant, TypeOK, PromptIsAnswerable, FinishingWaits, AskingRemembers,
       QuitIsAnnounced

\* Every step keeps it.
LEMMA StepsKeep ==
  GuardInvariant /\ [Next]_vars => GuardInvariant'
BY TypesKept, DecisionKept, AnswerableKept, WaitKept, MemoryKept, NoticeKept DEF GuardInvariant

\* The invariant that carries the others holds in every state of the guard.
THEOREM GuardHolds == Spec => []GuardInvariant
BY Starts, StepsKeep, PTL DEF Spec

\* Every variable of the guard has its type.
THEOREM GuardTypes == Spec => []TypeOK
<1>1. GuardInvariant => TypeOK
  BY DEF GuardInvariant
<1> QED
  BY <1>1, GuardHolds, PTL

\* A question is always on a window that can answer it.
THEOREM QuestionsAnswerable == Spec => []PromptIsAnswerable
<1>1. GuardInvariant => PromptIsAnswerable
  BY DEF GuardInvariant
<1> QED
  BY <1>1, GuardHolds, PTL

\* A close that waits for work to land always has work to wait for, so the
\* landing of the last of it is what commits the close.
THEOREM WaitsEnd == Spec => []FinishingWaits
<1>1. GuardInvariant => FinishingWaits
  BY DEF GuardInvariant
<1> QED
  BY <1>1, GuardHolds, PTL

\* While a quit is asked about or decided, the MCP server has been told.
THEOREM QuitsAnnounced == Spec => []QuitIsAnnounced
<1>1. GuardInvariant => QuitIsAnnounced
  BY DEF GuardInvariant
<1> QED
  BY <1>1, GuardHolds, PTL

-----------------------------------------------------------------------------
(* What a step may not do *)

\* What a step may do to the run state when it ends a question without a quit.
Ours == phase = "finishing" /\ closing = None /\ wasRunning

\* A cancel restarts what was running; while it is asked, that is what runs.
LEMMA CancelsOurs ==
  ASSUME TypeOK, AskingRemembers, phase # "idle", CancelQuit, running' # running
  PROVE  Ours
<1>1. running' = (running \/ (closing = None /\ wasRunning))
  BY DEF CancelQuit
<1>2. closing = None /\ wasRunning /\ ~running
  <2>1. running \in BOOLEAN /\ wasRunning \in BOOLEAN
    BY DEF TypeOK
  <2> QED
    BY <1>1, <2>1, Zenon
<1>3. phase # "asking"
  BY <1>2, Zenon DEF AskingRemembers
<1>4. phase = "finishing"
  BY <1>3 DEF TypeOK
<1> QED
  BY <1>2, <1>4 DEF Ours

\* Giving a window up leaves the queue alone; giving the app up is a decision.
LEMMA QuitsLeave ==
  ASSUME NEW scope, QuitNow(scope), ~decided'
  PROVE  running' = running
<1>1. CASE scope = None
  BY <1>1, Zenon DEF QuitNow, Committed
<1>2. CASE scope # None
  BY <1>2, Zenon DEF QuitNow
<1> QED
  BY <1>1, <1>2

\* The other ways a handler may end: a drain, and the loss of a window.
LEMMA DrainsLeave ==
  ASSUME NEW o, NEW jobs, CheckDrained(o, jobs), ~decided'
  PROVE  running' = running
<1>1. CASE phase # "idle" /\ ~AtRisk(closing, o, jobs)
  BY <1>1, QuitsLeave, Zenon DEF CheckDrained
<1>2. CASE ~(phase # "idle" /\ ~AtRisk(closing, o, jobs))
  BY <1>2, Zenon DEF CheckDrained
<1> QED
  BY <1>1, <1>2

LEMMA LossesOurs ==
  ASSUME TypeOK, AskingRemembers, NEW w, NEW announced,
         phase # "idle", Lost(w, announced), running' # running
  PROVE  Ours
<1>1. CancelQuit
  BY Zenon DEF Lost
<1> QED
  BY <1>1, CancelsOurs

LEMMA OnlyOurs ==
  ASSUME TypeOK, AskingRemembers, Next,
         phase # "idle", phase' = "idle", ~decided', running' # running
  PROVE  Ours
<1>1. ASSUME NEW w \in Window, Crash(w) PROVE Ours
  BY <1>1, LossesOurs, Zenon DEF Crash
<1>2. ASSUME NEW w \in Window, Destroy(w) PROVE Ours
  BY <1>2, LossesOurs, Zenon DEF Destroy, Closed
<1>3. ASSUME NEW w \in Window, Close(w) PROVE Ours
  <2>1. CASE GoesThrough(w, w)
    BY <1>3, <2>1, LossesOurs, Zenon DEF Close, Closed
  <2>2. CASE ~GoesThrough(w, w)
    <3>1. QuitNow(Scope(w))
      BY <1>3, <2>2, Zenon DEF Close, Held
    <3> QED
      BY <3>1, QuitsLeave
  <2> QED
    BY <2>1, <2>2
<1>4. ASSUME Cancel PROVE Ours
  BY <1>4, CancelsOurs DEF Cancel
<1>5. ASSUME CloseNow PROVE Ours
  BY <1>5, QuitsLeave DEF CloseNow
<1>6. ASSUME Finish PROVE Ours
  <2>1. CASE AtRisk(closing, owner, inFlight)
    BY <1>6, <2>1, Zenon DEF Finish
  <2>2. CASE ~AtRisk(closing, owner, inFlight)
    BY <1>6, <2>2, QuitsLeave, Zenon DEF Finish
  <2> QED
    BY <2>1, <2>2
<1>7. ASSUME BeforeQuit PROVE Ours
  <2>1. \/ UNCHANGED running
        \/ QuitNow(Scope(None))
    BY <1>7, Zenon DEF BeforeQuit, Held
  <2> QED
    BY <2>1, QuitsLeave
<1>8. ASSUME Refresh PROVE Ours
  BY <1>8, DrainsLeave DEF Refresh
<1>9. ASSUME NEW t \in Task, EndTask(t) PROVE Ours
  <2>1. CASE phase = "finishing"
    BY <1>9, <2>1, DrainsLeave, Zenon DEF EndTask
  <2>2. CASE phase # "finishing"
    BY <1>9, <2>2, Zenon DEF EndTask
  <2> QED
    BY <2>1, <2>2
<1>10. ASSUME NEW j \in Job, EndJob(j) PROVE Ours
  BY <1>10, DrainsLeave DEF EndJob
<1>11. ASSUME NEW r \in BOOLEAN, SetRunning(r) PROVE Ours
  BY <1>11, Zenon DEF SetRunning
<1>12. ASSUME NEW w \in Window, Open(w) PROVE Ours
  BY <1>12, Zenon DEF Open
<1>13. ASSUME NEW t \in Task, NEW w \in (live \ crashed) \cup {None}, StartTask(t, w) PROVE Ours
  BY <1>13, Zenon DEF StartTask
<1>14. ASSUME NEW j \in Job, StartJob(j) PROVE Ours
  BY <1>14, Zenon DEF StartJob
<1>15. ASSUME SessionEnd PROVE Ours
  BY <1>15, Zenon DEF SessionEnd
<1> QED
  BY <1>1, <1>2, <1>3, <1>4, <1>5, <1>6, <1>7, <1>8, <1>9, <1>10, <1>11, <1>12, <1>13, <1>14,
     <1>15 DEF Next

\* A wait begins with the run state the queue has, and keeps that in mind.
LEMMA WaitRemembers ==
  ASSUME TypeOK, AskingRemembers, Next, phase' = "finishing"
  PROVE  wasRunning' = IF phase = "asking" THEN running ELSE wasRunning
<1>1. CASE wasRunning' = wasRunning
  BY <1>1, Zenon DEF AskingRemembers
<1>2. CASE wasRunning' # wasRunning
  <2>1. ASSUME NEW r \in BOOLEAN, SetRunning(r) PROVE FALSE
    <3>1. phase # "asking"
      BY <2>1, Zenon DEF SetRunning
    <3> QED
      BY <1>2, <2>1, <3>1, Zenon DEF SetRunning, Noted
  <2>2. ASSUME NEW w \in Window, Crash(w) \/ Destroy(w) PROVE FALSE
    BY <1>2, <2>2, Zenon DEF Crash, Destroy, Closed, Lost, CancelQuit, prompt
  <2>3. ASSUME NEW w \in Window, Close(w) PROVE FALSE
    BY <1>2, <2>3, Zenon DEF Close, Closed, Lost, CancelQuit, Held, QuitNow, prompt
  <2>4. ASSUME BeforeQuit PROVE FALSE
    BY <1>2, <2>4, Zenon DEF BeforeQuit, Held, QuitNow, prompt
  <2>5. ASSUME Cancel \/ CloseNow \/ Finish \/ Refresh PROVE FALSE
    BY <1>2, <2>5, Zenon DEF Cancel, CloseNow, Finish, Refresh, CancelQuit, CheckDrained, QuitNow,
       prompt
  <2>6. ASSUME NEW t \in Task, EndTask(t) PROVE FALSE
    BY <1>2, <2>6, Zenon DEF EndTask, CheckDrained, QuitNow, prompt
  <2>7. ASSUME NEW j \in Job, EndJob(j) PROVE FALSE
    BY <1>2, <2>7, Zenon DEF EndJob, CheckDrained, QuitNow, prompt
  <2>8. ASSUME NEW w \in Window, Open(w) PROVE FALSE
    BY <1>2, <2>8, Zenon DEF Open, prompt
  <2>9. ASSUME NEW t \in Task, NEW w \in (live \ crashed) \cup {None}, StartTask(t, w) PROVE FALSE
    BY <1>2, <2>9, Zenon DEF StartTask, prompt
  <2>10. ASSUME NEW j \in Job, StartJob(j) PROVE FALSE
    BY <1>2, <2>10, Zenon DEF StartJob, prompt
  <2>11. ASSUME SessionEnd PROVE FALSE
    BY <1>2, <2>11, Zenon DEF SessionEnd, prompt
  <2> QED
    BY <2>1, <2>2, <2>3, <2>4, <2>5, <2>6, <2>7, <2>8, <2>9, <2>10, <2>11 DEF Next
<1> QED
  BY <1>1, <1>2

\* A question that ends without a quit restarts the queue only after a wait for
\* the whole app, and then only if the queue ran when the wait began.  A pause made
\* in the wait is not excepted: it is undone.
THEOREM QueueRestored == Spec => OnlyOurPauseIsUndone
<1>1. GuardInvariant /\ [Next]_vars =>
        [/\ phase # "idle" /\ phase' = "idle" /\ ~decided' /\ running' # running =>
              phase = "finishing" /\ closing = None /\ wasRunning
         /\ phase' = "finishing" =>
              wasRunning' = IF phase = "asking" THEN running ELSE wasRunning]_vars
  <2>1. ASSUME GuardInvariant, Next, phase # "idle", phase' = "idle", ~decided', running' # running
        PROVE  phase = "finishing" /\ closing = None /\ wasRunning
    BY <2>1, OnlyOurs DEF GuardInvariant, Ours
  <2>2. ASSUME GuardInvariant, Next, phase' = "finishing"
        PROVE  wasRunning' = IF phase = "asking" THEN running ELSE wasRunning
    BY <2>2, WaitRemembers DEF GuardInvariant
  <2> QED
    BY <2>1, <2>2, Zenon
<1> QED
  BY <1>1, GuardHolds, PTL DEF Spec, OnlyOurPauseIsUndone

\* The process ends only in a close that is not prevented, in the destruction of
\* a window that was given up, or when there is no window.
LEMMA OnlyAsked ==
  ASSUME Next, gone', Reading
  PROVE  decided \/ osEnding \/ live \subseteq crashed \cup doomed
<1>1. ~gone
  BY DEF Next
<1>2. ASSUME NEW w \in Window, Crash(w)
      PROVE  decided \/ osEnding \/ live \subseteq crashed \cup doomed
  BY <1>1, <1>2 DEF Crash, windows, verdict, exit
<1>3. ASSUME NEW w \in Window, Destroy(w)
      PROVE  decided \/ osEnding \/ live \subseteq crashed \cup doomed
  BY <1>3 DEF Destroy, Closed
<1>4. ASSUME NEW w \in Window, Close(w)
      PROVE  decided \/ osEnding \/ live \subseteq crashed \cup doomed
  <2>1. CASE GoesThrough(w, w)
    <3>1. live = {w}
      BY <1>4, <2>1, Zenon DEF Close, Closed
    <3>2. Scope(w) = None
      BY <3>1, Zenon DEF Scope
    <3>3. AtRisk(None, owner, inFlight)
      BY Zenon DEF AtRisk, Busy, Reading
    <3>4. osEnding \/ decided \/ w \in crashed
      BY <2>1, <3>2, <3>3, CloseGuardAssumption, Zenon DEF GoesThrough
    <3> QED
      BY <3>1, <3>4
  <2>2. CASE ~GoesThrough(w, w)
    BY <1>1, <1>4, <2>2, Zenon DEF Close
  <2> QED
    BY <2>1, <2>2
<1>5. ASSUME NEW w \in Window, Open(w)
      PROVE  decided \/ osEnding \/ live \subseteq crashed \cup doomed
  BY <1>1, <1>5 DEF Open, windows, verdict, exit
<1>6. ASSUME Cancel
      PROVE  decided \/ osEnding \/ live \subseteq crashed \cup doomed
  BY <1>1, <1>6 DEF Cancel, windows, verdict, exit
<1>7. ASSUME CloseNow
      PROVE  decided \/ osEnding \/ live \subseteq crashed \cup doomed
  BY <1>1, <1>7 DEF CloseNow, windows, verdict, exit
<1>8. ASSUME Finish
      PROVE  decided \/ osEnding \/ live \subseteq crashed \cup doomed
  BY <1>1, <1>8 DEF Finish, windows, verdict, exit
<1>9. ASSUME BeforeQuit
      PROVE  decided \/ osEnding \/ live \subseteq crashed \cup doomed
  BY <1>1, <1>9 DEF BeforeQuit, Held, exit
<1>10. ASSUME Refresh
      PROVE  decided \/ osEnding \/ live \subseteq crashed \cup doomed
  BY <1>1, <1>10 DEF Refresh, windows, verdict, exit
<1>11. ASSUME SessionEnd
      PROVE  decided \/ osEnding \/ live \subseteq crashed \cup doomed
  BY <1>1, <1>11 DEF SessionEnd, windows, verdict, exit
<1>12. ASSUME NEW t \in Task, EndTask(t)
      PROVE  decided \/ osEnding \/ live \subseteq crashed \cup doomed
  BY <1>1, <1>12 DEF EndTask, windows, verdict, exit
<1>13. ASSUME NEW t \in Task, NEW w \in (live \ crashed) \cup {None}, StartTask(t, w)
      PROVE  decided \/ osEnding \/ live \subseteq crashed \cup doomed
  BY <1>1, <1>13 DEF StartTask, windows, verdict, exit
<1>14. ASSUME NEW j \in Job, StartJob(j)
      PROVE  decided \/ osEnding \/ live \subseteq crashed \cup doomed
  BY <1>1, <1>14 DEF StartJob, windows, verdict, exit
<1>15. ASSUME NEW j \in Job, EndJob(j)
      PROVE  decided \/ osEnding \/ live \subseteq crashed \cup doomed
  BY <1>1, <1>15 DEF EndJob, windows, verdict, exit
<1>16. ASSUME NEW r \in BOOLEAN, SetRunning(r)
      PROVE  decided \/ osEnding \/ live \subseteq crashed \cup doomed
  BY <1>1, <1>16 DEF SetRunning, windows, verdict, exit
<1> QED
  BY <1>2, <1>3, <1>4, <1>5, <1>6, <1>7, <1>8, <1>9, <1>10, <1>11, <1>12, <1>13, <1>14,
     <1>15, <1>16 DEF Next

\* The app does not go with a paper in progress unless the user decided so, the
\* session ended, or no window was left but such as could not be asked or had
\* been given up.
THEOREM LossIsAsked == Spec => NoUnaskedLoss
<1>1. [Next]_vars =>
        [gone' /\ Reading => decided \/ osEnding \/ live \subseteq crashed \cup doomed]_vars
  BY OnlyAsked
<1> QED
  BY <1>1, PTL DEF Spec, NoUnaskedLoss

=============================================================================
