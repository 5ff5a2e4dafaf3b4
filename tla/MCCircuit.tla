------------------------------ MODULE MCCircuit ------------------------------
(* Small instances of Circuit for TLC.                                     *)
EXTENDS Circuit

CONSTANTS a1, s1, q1, q2

MCApi == {a1}
MCServer == {s1}
MCAll == {a1, s1}
MCRequest == {q1, q2}

\* CloseTimeout of two ticks: longer than a lag of one.
MCTwoTicks == [r \in Res |-> 2]

\* CloseTimeout as the builder leaves it when nobody sets it.
MCUnset == [r \in Res |-> 0]
=============================================================================
