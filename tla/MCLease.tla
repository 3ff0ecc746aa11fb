-------------------------------- MODULE MCLease --------------------------------
(* Polls and webhooks of two observer processes, for TLC.                    *)
EXTENDS ObserverLease

CONSTANTS poll1, hook1, poll2, p1, p2

(* A process with a webhook receiver and, after a redeployment, a second.    *)
TwoProcesses == [c \in Call |-> IF c = poll2 THEN p2 ELSE p1]
===============================================================================
