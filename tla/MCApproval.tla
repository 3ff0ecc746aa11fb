------------------------------ MODULE MCApproval ------------------------------
(* Three calls of two server processes and four approvals, for TLC.         *)
EXTENDS ApprovedRerun

CONSTANTS c1, c2, c3, p1, p2, a1, a2, a3, a4, r1, r2, r3

TwoServers == [c \in Call |-> IF c = c3 THEN p2 ELSE p1]

(* Two approvals of the same request, and two of other requests.             *)
Requests == [a \in Approval |-> CASE a = a3 -> r2 [] a = a4 -> r3 [] OTHER -> r1]

FirstAttempt == [r \in Request |-> 1]

(* The second server gets an approval of its own, or a second one of a       *)
(* request the first server has.                                             *)
Submitted == {[c \in Call |-> CASE c = c1 -> a1 [] c = c2 -> a3 [] OTHER -> a] : a \in {a2, a4}}
===============================================================================
