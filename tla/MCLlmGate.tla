------------------------------ MODULE MCLlmGate ------------------------------
EXTENDS LlmGate

CONSTANTS c1, c2, c3, c4

AnyCaller == {c1, c2, c3, c4}
OneDeaf == {c1}
UpToThree == {1, 2, 3}

=============================================================================
