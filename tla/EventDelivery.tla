----------------------------- MODULE EventDelivery -----------------------------
(***************************************************************************)
(* What ObserverDeliverySink.deliver promises the observer                 *)
(* (observer/delivery.ts): a call returns, and says "delivered" only for   *)
(* an event its endpoint has accepted.  A call that fails, or that a       *)
(* restart interrupts, says nothing: the event may have been accepted, or  *)
(* may still be.  ObserverRuntime sends an event in one step on the        *)
(* strength of this promise.                                               *)
(***************************************************************************)
CONSTANT Event

VARIABLES
    accepted,       \* events their endpoint has accepted
    outcome         \* what the last call for each event came to

vars == <<accepted, outcome>>

Init ==
    /\ accepted = {}
    /\ outcome = [e \in Event |-> "none"]

Begin(e) ==
    /\ outcome[e] \in {"none", "failed", "delivered"}
    /\ outcome' = [outcome EXCEPT ![e] = "pending"]
    /\ UNCHANGED accepted

(* An endpoint accepts an event some call was made for, at any time after. *)
Accept(e) ==
    /\ outcome[e] # "none"
    /\ accepted' = accepted \cup {e}
    /\ UNCHANGED outcome

Return(e) ==
    /\ outcome[e] = "pending"
    /\ \/ e \in accepted /\ outcome' = [outcome EXCEPT ![e] = "delivered"]
       \/ outcome' = [outcome EXCEPT ![e] = "failed"]
    /\ UNCHANGED accepted

(* The process dies: every pending call is gone.                           *)
Interrupt ==
    /\ outcome' = [e \in Event |->
                      IF outcome[e] = "pending" THEN "failed" ELSE outcome[e]]
    /\ UNCHANGED accepted

Next ==
    \/ \E e \in Event : Begin(e) \/ Accept(e) \/ Return(e)
    \/ Interrupt

Spec ==
    /\ Init
    /\ [][Next]_vars
    /\ \A e \in Event : WF_vars(Return(e))

================================================================================
