----------------------------- MODULE MCJobQueue -----------------------------
(***************************************************************************)
(* Small papers for TLC: a chain of stages cut from the registry, the last *)
(* of them project-scoped, planned for each project.                       *)
(***************************************************************************)
EXTENDS JobQueue

CONSTANTS MCProject, MCStage

Order == [download |-> 1, text |-> 2, claims |-> 3]

\* The stage a stage takes its input from: the nearest one before it.
Source(t) ==
  {s \in MCStage : Order[s] < Order[t] /\ \A u \in MCStage : Order[u] < Order[t] => Order[u] <= Order[s]}

\* A document slot is shared by every project; 0 is the sentinel of its key.
SlotFor(p, t) == IF t = "claims" THEN <<t, p>> ELSE <<t, 0>>

MCJob == MCProject \X MCStage
MCSlot == {SlotFor(j[1], j[2]) : j \in MCJob}
MCSlotOf == [j \in MCJob |-> SlotFor(j[1], j[2])]
MCProjectOf == [j \in MCJob |-> j[1]]
MCProjectSlot == {s \in MCSlot : s[1] = "claims"}
MCBlockers == [j \in MCJob |-> {j[1]} \X Source(j[2])]
MCProvider == [s \in MCSlot |-> {t \in MCSlot : t[1] \in Source(s[1])}]
MCDownstream == [s \in MCSlot |-> {t \in MCSlot : s[1] \in Source(t[1])}]
MCRank == [s \in MCSlot |-> Order[s[1]]]
MCLlmSlot == MCProjectSlot
MCHostSlot == {s \in MCSlot : s[1] = "text"}
MCBudget == [llm |-> 1, local |-> 2]
=============================================================================
