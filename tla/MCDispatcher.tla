----------------------------- MODULE MCDispatcher -----------------------------
(* Small instances of Dispatcher for TLC.                                  *)
EXTENDS Dispatcher

CONSTANTS c1, s1, w1, w2

MCCluster == {c1}
MCServer == {s1}
MCWorker == {w1}
MCWorkers == {w1, w2}
=============================================================================
