---------------------------- MODULE MCCloseGuard ----------------------------
(* The close guard with two windows, two direct analyses and one queue job. *)
EXTENDS CloseGuard

CONSTANTS w1, w2, t1, t2, j1

TwoWindows == {w1, w2}
TwoTasks == {t1, t2}
OneJob == {j1}

=============================================================================
