---------------------------- MODULE AdmissionLine ----------------------------
(***************************************************************************)
(* What the LLM gate promises its callers: one line for the whole app,     *)
(* served from the front, and nobody lets a caller in while as many are    *)
(* inside as the limit allows.  A caller may give up its place.  The limit *)
(* may change at any time, and lowering it sends nobody out.               *)
(***************************************************************************)
EXTENDS Naturals, Sequences, FiniteSets

CONSTANTS
  Caller,  \* the calls that may be waiting or running
  Limits   \* the limits the user may choose

VARIABLES
  line,     \* the callers that wait, in the order they came
  holders,  \* the callers that are inside
  limit     \* how many may be let in

lineVars == <<line, holders, limit>>

Standing == {line[i] : i \in DOMAIN line}

\* A sequence without its i-th member.
Without(s, i) == [j \in 1 .. Len(s) - 1 |-> IF j < i THEN s[j] ELSE s[j + 1]]

Init ==
  /\ line = <<>>
  /\ holders = {}
  /\ limit = 1

Join(c) ==
  /\ c \notin Standing \cup holders
  /\ line' = Append(line, c)
  /\ UNCHANGED <<holders, limit>>

GiveUp ==
  /\ \E i \in DOMAIN line : line' = Without(line, i)
  /\ UNCHANGED <<holders, limit>>

LetIn ==
  /\ line # <<>>
  /\ Cardinality(holders) < limit
  /\ holders' = holders \cup {Head(line)}
  /\ line' = Tail(line)
  /\ UNCHANGED limit

Exit(c) ==
  /\ c \in holders
  /\ holders' = holders \ {c}
  /\ UNCHANGED <<line, limit>>

Resize(n) ==
  /\ limit' = n
  /\ UNCHANGED <<line, holders>>

Next ==
  \/ \E c \in Caller : Join(c) \/ Exit(c)
  \/ GiveUp
  \/ LetIn
  \/ \E n \in Limits : Resize(n)

Spec == Init /\ [][Next]_lineVars

=============================================================================
