------------------------- MODULE NotificationLedger -------------------------
(***************************************************************************)
(* What the observer promises about each failing event, whatever crashes   *)
(* and repeats: an intention is recorded, the sink is told at most under   *)
(* a recorded intention, the outcome is final, and a failure analysis is   *)
(* started at most once and only for a failure the sink was told about.    *)
(***************************************************************************)
CONSTANT Failures

VARIABLES
    record,     \* what is known of the red notification
    told,       \* failures the sink has heard of
    analysed    \* failures whose one analysis has been started

ledgerVars == <<record, told, analysed>>

LedgerTypeOK ==
    /\ record \in [Failures -> {"none", "pending", "delivered", "suppressed"}]
    /\ told \subseteq Failures
    /\ analysed \subseteq Failures

LedgerInit ==
    /\ record = [f \in Failures |-> "none"]
    /\ told = {}
    /\ analysed = {}

Intend(f) ==
    /\ record[f] = "none"
    /\ record' = [record EXCEPT ![f] = "pending"]
    /\ UNCHANGED <<told, analysed>>

Tell(f) ==
    /\ record[f] = "pending"
    /\ told' = told \cup {f}
    /\ UNCHANGED <<record, analysed>>

Confirm(f) ==
    /\ record[f] = "pending"
    /\ record' = [record EXCEPT ![f] = "delivered"]
    /\ told' = told \cup {f}
    /\ UNCHANGED analysed

(* A failure that has gone stale is given up; it is never analysed.        *)
GiveUp(f) ==
    /\ record[f] # "suppressed"
    /\ f \notin analysed
    /\ record' = [record EXCEPT ![f] = "suppressed"]
    /\ UNCHANGED <<told, analysed>>

Analyse(f) ==
    /\ record[f] = "delivered"
    /\ f \notin analysed
    /\ analysed' = analysed \cup {f}
    /\ UNCHANGED <<record, told>>

LedgerNext ==
    \E f \in Failures :
        Intend(f) \/ Tell(f) \/ Confirm(f) \/ GiveUp(f) \/ Analyse(f)

LedgerSpec == LedgerInit /\ [][LedgerNext]_ledgerVars
=============================================================================
