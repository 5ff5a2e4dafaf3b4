----------------------------- MODULE MCRequestFlow -----------------------------
(* RequestFlow for TLC: two requests on five APIs.                        *)
EXTENDS RequestFlow, TLC

CONSTANTS q1, q2

MCRequest == {q1, q2}
MCWorker == 1..2
MCObject == 1..5
MCGroup == 1..4

Plain(batch, may) ==
    [batch |-> batch, useDefault |-> FALSE, def |-> FALSE, rewrite |-> FALSE,
     attr |-> TRUE, copy |-> FALSE, retry |-> "none", may |-> may]

\* Batches of two (with indexes -1 and 0) and one, of one and two, and a default
\* API; a single node that meets every other event, and a batch of two.
MCApi ==
    q1 :> {[def |-> FALSE, nodes |-> <<[Plain(-1, {"ok"}) EXCEPT !.rewrite = TRUE],
                                       Plain(0, {"bad"}),
                                       [Plain(1, {"ok"}) EXCEPT !.rewrite = TRUE]>>],
           [def |-> FALSE, nodes |-> <<[Plain(0, {"error"}) EXCEPT !.def = TRUE],
                                       [Plain(1, {"ok"}) EXCEPT !.rewrite = TRUE],
                                       [Plain(1, {"hit"}) EXCEPT !.attr = FALSE]>>],
           [def |-> TRUE, nodes |-> <<>>]}
 @@ q2 :> {[def |-> TRUE, nodes |-> <<[Plain(0, Event \ {"bad"}) EXCEPT !.retry = "all",
                                                                          !.copy = TRUE]>>],
           [def |-> FALSE, nodes |-> <<[Plain(0, {}) EXCEPT !.useDefault = TRUE, !.def = TRUE],
                                       [Plain(0, {"bad"}) EXCEPT !.retry = "codes"]>>]}
=============================================================================
