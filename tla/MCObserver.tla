------------------------------ MODULE MCObserver ------------------------------
(* Values TLC gives to the constants of ObserverRuntime in every run.        *)
EXTENDS ObserverRuntime

(* No document of a run reaches pruneSeen's threshold.                       *)
NeverPruned == Cardinality(Event)

(* The whole history of a run lies within the initial lookback ...           *)
WholeHistory == MaxClock

(* ... and, where staleness is not the subject, is fresh.                    *)
AlwaysFresh == MaxClock + 1
===============================================================================
