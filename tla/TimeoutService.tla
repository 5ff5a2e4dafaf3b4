---------------------------- MODULE TimeoutService ----------------------------
(***************************************************************************)
(* What the proxy relies on when it calls Schedule and Stop of a           *)
(* goetty.TimeoutWheel: a scheduled callback runs at most once, never      *)
(* before its deadline, and never once Stop has cancelled it.  A wheel     *)
(* that is stopped refuses new calls and drops the pending ones.           *)
(***************************************************************************)
EXTENDS Integers

CONSTANTS Call, Duration

VARIABLES now, outcome, due

svars == <<now, outcome, due>>

ServiceInit ==
    /\ now = 0
    /\ outcome = [c \in Call |-> "none"]
    /\ due = [c \in Call |-> 0]

Advance ==
    /\ now' = now + 1
    /\ UNCHANGED <<outcome, due>>

Request(c) ==
    /\ outcome[c] = "none"
    /\ outcome' = [outcome EXCEPT ![c] = "pending"]
    /\ \E d \in Duration : due' = [due EXCEPT ![c] = now + d]
    /\ UNCHANGED now

Fire(c) ==
    /\ outcome[c] = "pending"
    /\ now >= due[c]
    /\ outcome' = [outcome EXCEPT ![c] = "fired"]
    /\ UNCHANGED <<now, due>>

Give(c, how) ==
    /\ outcome[c] = "pending"
    /\ outcome' = [outcome EXCEPT ![c] = how]
    /\ UNCHANGED <<now, due>>

\* TimeoutWheel.Stop drops any number of pending calls at once.
Drop ==
    /\ \E D \in SUBSET {c \in Call : outcome[c] = "pending"} :
         outcome' = [c \in Call |-> IF c \in D THEN "dropped" ELSE outcome[c]]
    /\ UNCHANGED <<now, due>>

ServiceNext ==
    \/ Advance
    \/ \E c \in Call : Request(c) \/ Fire(c) \/ Give(c, "stopped") \/ Give(c, "refused")
    \/ Drop

ServiceSpec == ServiceInit /\ [][ServiceNext]_svars
=============================================================================
