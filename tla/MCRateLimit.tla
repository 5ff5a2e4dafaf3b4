----------------------------- MODULE MCRateLimit -----------------------------
(* A small instance of RateLimit for TLC.                                  *)
EXTENDS RateLimit

MCCount == {1, 2}
MCMaxWait == {1}
=============================================================================
