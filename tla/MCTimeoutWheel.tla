---------------------------- MODULE MCTimeoutWheel ----------------------------
(* Small instances of TimeoutWheel for TLC.                                *)
EXTENDS TimeoutWheel

\* Inline, next tick, and one round of the wheel later.
MCDuration == {0, 1, 3}
MCShort == {0, 1}
=============================================================================
