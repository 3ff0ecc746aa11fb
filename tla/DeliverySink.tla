------------------------------ MODULE DeliverySink ------------------------------
(***************************************************************************)
(* HttpDeliverySink (observer/delivery.ts): the requests by which an event *)
(* gets to the endpoint of its route, over a network that loses and delays *)
(* requests and answers, to a receiver that may accept an event and still  *)
(* answer that it is busy.                                                 *)
(*                                                                         *)
(* A request whose signal has fired is not taken back: it may arrive after *)
(* later attempts, after the call has failed and after the process is      *)
(* restarted.  The timestamp and the signature are computed once per call, *)
(* so all requests of a call are the same bytes and "round" tells calls    *)
(* apart.  The observer has one call at a time for an event and calls      *)
(* again for one that failed or, if it dies before it records it, for one  *)
(* that was delivered.                                                     *)
(*                                                                         *)
(* Bounds: MaxCalls calls per event, MaxCrashes restarts.                  *)
(***************************************************************************)
EXTENDS Integers, FiniteSets

CONSTANTS
    Event,
    RouteOf,        \* the route of each event: "success" or "analysis"
    Options,        \* the sinks there may be: routes, trusted, maxAttempts
    MaxCalls,
    MaxCrashes

ASSUME SinkAssumption ==
    /\ RouteOf \in [Event -> {"success", "analysis"}]
    /\ \A o \in Options : o.maxAttempts \in Int
    /\ MaxCalls \in Nat /\ MaxCrashes \in Nat

(* isTrustedDeliveryUrl: https, or http to a literal of the tailnet or to  *)
(* a host the configuration names; never with a user name or a password.   *)
isTrustedDeliveryUrl(url, trusted) ==
    /\ ~url.credentials
    /\ \/ url.scheme = "https"
       \/ url.scheme = "http" /\ (url.tailnet \/ url.host \in trusted)

(* Without a route of their own analyses go where the status goes.         *)
Routes(options) ==
    [r \in {"success", "analysis"} |->
        IF r = "analysis" /\ options.analysis # {}
        THEN CHOOSE url \in options.analysis : TRUE
        ELSE options.success]

(* The options the constructor does not refuse.                            *)
Constructed ==
    {o \in Options :
        \A r \in {"success", "analysis"} : isTrustedDeliveryUrl(Routes(o)[r], o.trusted)}

AttemptsOf(options) ==
    LET capped == IF options.maxAttempts > 8 THEN 8 ELSE options.maxAttempts
    IN  IF capped < 1 THEN 1 ELSE capped

VARIABLES
    sink,           \* the options it was constructed with
    call,           \* the last call for each event
    flight,         \* requests under way
    answers,        \* the answer under way to the attempt of each event
    accepted,       \* the events each endpoint has accepted
    crashes

vars == <<sink, call, flight, answers, accepted, crashes>>

Statuses == {"ok", "busy", "refused"}
Ended == {"none", "delivered", "rejected", "unavailable", "interrupted"}

(* The POST of attempt n, in call number c for the event.                  *)
RequestOf(e, c, n) ==
    [event |-> e, url |-> Routes(sink)[RouteOf[e]], round |-> c, attempt |-> n]

(* Is it the attempt a call is waiting on?                                 *)
IsAwaited(m) ==
    /\ call[m.event].pc = "waiting"
    /\ call[m.event].round = m.round /\ call[m.event].attempt = m.attempt

TypeOK ==
    /\ sink \in Constructed
    /\ call \in [Event -> [pc: Ended \cup {"waiting", "sleeping"},
                           attempt: 0..AttemptsOf(sink), round: 0..MaxCalls]]
    /\ flight \subseteq {RequestOf(e, c, n) : e \in Event, c \in 1..MaxCalls,
                                              n \in 1..AttemptsOf(sink)}
    /\ answers \in [Event -> Statuses \cup {"none"}]
    /\ \A a \in accepted : a.event \in Event /\ isTrustedDeliveryUrl(a.url, sink.trusted)
    /\ crashes \in 0..MaxCrashes

Init ==
    /\ sink \in Constructed
    /\ call = [e \in Event |-> [pc |-> "none", attempt |-> 0, round |-> 0]]
    /\ flight = {} /\ accepted = {}
    /\ answers = [e \in Event |-> "none"]
    /\ crashes = 0

Post(e, c, n) ==
    /\ call' = [call EXCEPT ![e] = [pc |-> "waiting", attempt |-> n, round |-> c]]
    /\ flight' = flight \cup {RequestOf(e, c, n)}

-----------------------------------------------------------------------------
(* The sink *)

Deliver(e) ==
    /\ call[e].pc \in Ended
    /\ call[e].round < MaxCalls
    /\ Post(e, call[e].round + 1, 1)
    /\ UNCHANGED <<sink, answers, accepted, crashes>>

(* After an attempt that may be repeated: sleep, unless it was the last.   *)
AfterFailure(e) ==
    IF call[e].attempt < AttemptsOf(sink) THEN "sleeping" ELSE "unavailable"

(* Mutant: only a definite refusal keeps an event from being delivered.    *)
AfterAnswerTrusting(e, status) == IF status = "refused" THEN "rejected" ELSE "delivered"

AfterAnswer(e, status) ==
    CASE status = "ok" -> "delivered"
      [] status = "busy" -> AfterFailure(e)     \* 408, 429, 5xx
      [] status = "refused" -> "rejected"       \* any other

(* The fetch resolves with the answer to the attempt under way.            *)
Answered(e) ==
    /\ call[e].pc = "waiting"
    /\ answers[e] # "none"
    /\ call' = [call EXCEPT ![e].pc = AfterAnswer(e, answers[e])]
    /\ answers' = [answers EXCEPT ![e] = "none"]
    /\ UNCHANGED <<sink, flight, accepted, crashes>>

(* The fetch rejects: no connection, a redirect, or the signal's timeout.  *)
Thrown(e) ==
    /\ call[e].pc = "waiting"
    /\ call' = [call EXCEPT ![e].pc = AfterFailure(e)]
    /\ answers' = [answers EXCEPT ![e] = "none"]
    /\ UNCHANGED <<sink, flight, accepted, crashes>>

Wake(e) ==
    /\ call[e].pc = "sleeping"
    /\ Post(e, call[e].round, call[e].attempt + 1)
    /\ UNCHANGED <<sink, answers, accepted, crashes>>

-----------------------------------------------------------------------------
(* The receiver, the network and the host *)

(* The receiver takes a request: it accepts the event or not, and answers  *)
(* when somebody waits for it.  A request nothing takes is lost.           *)
Receive ==
    /\ \E m \in flight, status \in Statuses, accepts \in BOOLEAN :
          /\ status = "ok" => accepts
          /\ status = "refused" => ~accepts
          /\ flight' = flight \ {m}
          /\ accepted' = IF accepts THEN accepted \cup {[event |-> m.event, url |-> m.url]}
                         ELSE accepted
          /\ answers' = IF IsAwaited(m)
                        THEN [answers EXCEPT ![m.event] = status] ELSE answers
    /\ UNCHANGED <<sink, call, crashes>>

Restart ==
    /\ crashes < MaxCrashes
    /\ crashes' = crashes + 1
    /\ call' = [e \in Event |->
                   IF call[e].pc \in {"waiting", "sleeping"}
                   THEN [call[e] EXCEPT !.pc = "interrupted"] ELSE call[e]]
    /\ answers' = [e \in Event |-> "none"]
    /\ UNCHANGED <<sink, flight, accepted>>

Attempt(e) == Answered(e) \/ Thrown(e)

Next ==
    \/ \E e \in Event : Deliver(e) \/ Attempt(e) \/ Wake(e)
    \/ Receive \/ Restart

(* AbortSignal.timeout ends every fetch and the timer of sleep fires.      *)
Fairness ==
    \A e \in Event : WF_vars(Attempt(e)) /\ WF_vars(Wake(e))

Spec == Init /\ [][Next]_vars /\ Fairness

-----------------------------------------------------------------------------
(* Properties *)

(* The endpoint an event is meant for: the analysis route's own when the   *)
(* options name one.                                                       *)
Meant(e) ==
    IF RouteOf[e] = "analysis" /\ sink.analysis # {} THEN sink.analysis
    ELSE {sink.success}

Promise == INSTANCE EventDelivery WITH
    accepted <- {e \in Event : \E a \in accepted : a.event = e /\ a.url \in Meant(e)},
    outcome <- [e \in Event |->
                   CASE call[e].pc = "none" -> "none"
                     [] call[e].pc \in {"waiting", "sleeping"} -> "pending"
                     [] call[e].pc = "delivered" -> "delivered"
                     [] OTHER -> "failed"]

(* However requests and answers are lost, delayed and repeated, a call of  *)
(* the sink ends after its attempts, and it reports an event as delivered  *)
(* only when the endpoint of its own route has accepted it: what the       *)
(* observer records as delivered was delivered.                            *)
KeepsPromise == Promise!Spec

================================================================================
