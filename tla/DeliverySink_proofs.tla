------------------------- MODULE DeliverySink_proofs -------------------------
(***************************************************************************)
(* The sink keeps the promise the observer relies on, for every set of     *)
(* events, all options the constructor takes, and any number of calls and  *)
(* restarts.  That a call ends is left to model checking.                  *)
(***************************************************************************)
EXTENDS DeliverySink, TLAPS

(* The endpoint an event is sent to, by every call for it.                 *)
Endpoint(e) == Routes(sink)[RouteOf[e]]

Accepted(e) == \E a \in accepted : a.event = e /\ a.url \in Meant(e)

(* A call under way has a number, and one that sleeps an attempt left.     *)
CallsAreCounted ==
    \A e \in Event :
        /\ call[e].pc \in {"waiting", "sleeping"} => call[e].round >= 1
        /\ call[e].pc = "sleeping" => call[e].attempt < AttemptsOf(sink)

(* A request is of a call that was made and goes to the event's endpoint,  *)
(* an endpoint accepts what was sent to it, and an answer that is "ok" is  *)
(* one of the endpoint the event is meant for.                             *)
AnswersAreTrue ==
    /\ \A m \in flight : call[m.event].pc # "none" /\ m.url = Endpoint(m.event)
    /\ \A e \in Event : answers[e] = "ok" => Accepted(e)

SinkInv == TypeOK /\ CallsAreCounted /\ AnswersAreTrue

-----------------------------------------------------------------------------
(* The number of attempts is clamped to what a loop can run                *)
(* (delivery.ts 52).                                                       *)
LEMMA AttemptsAreClamped ==
    ASSUME NEW o \in Options
    PROVE  AttemptsOf(o) \in 1..8
BY SinkAssumption DEF AttemptsOf

(* Every event has one endpoint, which the constructor has found trusted   *)
(* and which is the one its route is meant to have (delivery.ts 31-55).    *)
LEMMA EndpointIsMeant ==
    ASSUME sink \in Constructed, NEW e \in Event
    PROVE  Endpoint(e) \in Meant(e) /\ isTrustedDeliveryUrl(Endpoint(e), sink.trusted)
<1>1. RouteOf[e] \in {"success", "analysis"}
  BY SinkAssumption
<1>2. isTrustedDeliveryUrl(Endpoint(e), sink.trusted)
  BY <1>1 DEF Constructed, Endpoint
<1>3. CASE RouteOf[e] = "analysis" /\ sink.analysis # {}
  <2>1. (CHOOSE url \in sink.analysis : TRUE) \in sink.analysis
    BY <1>3
  <2> QED
    BY <1>2, <1>3, <2>1 DEF Endpoint, Routes, Meant
<1>4. CASE ~(RouteOf[e] = "analysis" /\ sink.analysis # {})
  BY <1>1, <1>2, <1>4 DEF Endpoint, Routes, Meant
<1> QED
  BY <1>3, <1>4

(* What the receiver accepts stays accepted.                               *)
LEMMA AcceptedStays ==
    ASSUME sink' = sink, accepted \subseteq accepted', NEW e \in Event, Accepted(e)
    PROVE  Accepted(e)'
BY DEF Accepted, Meant

-----------------------------------------------------------------------------
(* A request that leaves is the next attempt of a call for its event.      *)
LEMMA PostKeepsSink ==
    ASSUME SinkInv, NEW e \in Event, NEW c \in 1..MaxCalls, NEW n \in 1..AttemptsOf(sink),
           Post(e, c, n), UNCHANGED <<sink, answers, accepted, crashes>>
    PROVE  SinkInv'
<1> USE SinkAssumption DEF SinkInv
<1>1. call' = [call EXCEPT ![e] = [pc |-> "waiting", attempt |-> n, round |-> c]]
  BY DEF Post
<1>2. /\ RequestOf(e, c, n) = [event |-> e, url |-> Endpoint(e), round |-> c, attempt |-> n]
      /\ flight' = flight \cup {RequestOf(e, c, n)}
  BY DEF Post, RequestOf, Endpoint
<1>3. call' \in [Event -> [pc: Ended \cup {"waiting", "sleeping"},
                           attempt: 0..AttemptsOf(sink), round: 0..MaxCalls]]
  <2>1. n \in 0..AttemptsOf(sink) /\ c \in 0..MaxCalls
    BY AttemptsAreClamped DEF TypeOK, Constructed
  <2> QED
    BY <1>1, <2>1 DEF TypeOK
<1>4. TypeOK'
  <2>1. flight' \subseteq {RequestOf(d, r, k) : d \in Event, r \in 1..MaxCalls,
                                                k \in 1..AttemptsOf(sink)}
    BY <1>2 DEF TypeOK
  <2> QED
    BY <1>3, <2>1 DEF TypeOK, RequestOf
<1>5. CallsAreCounted'
  BY <1>1 DEF CallsAreCounted, TypeOK
<1>6. AnswersAreTrue'
  <2>1. \A m \in flight' : m.url = Endpoint(m.event)
    BY <1>2 DEF AnswersAreTrue
  <2>2. \A m \in flight : m.event \in Event
    BY DEF TypeOK, RequestOf
  <2>3. \A m \in flight' : call'[m.event].pc # "none"
    BY <1>1, <1>2, <2>2 DEF AnswersAreTrue, TypeOK
  <2> QED
    BY <2>1, <2>3 DEF AnswersAreTrue, Accepted, Meant, Endpoint
<1> QED
  BY <1>4, <1>5, <1>6

(* The end of a fetch moves its call on and takes the answer away.         *)
LEMMA AttemptKeepsSink ==
    ASSUME SinkInv, NEW e \in Event, Attempt(e)
    PROVE  SinkInv'
<1> USE SinkAssumption DEF SinkInv
<1>1. PICK place \in {"delivered", "rejected", "sleeping", "unavailable"} :
          /\ call[e].pc = "waiting"
          /\ call' = [call EXCEPT ![e].pc = place]
          /\ answers' = [answers EXCEPT ![e] = "none"]
          /\ place = "sleeping" => call[e].attempt < AttemptsOf(sink)
  BY DEF Attempt, Answered, Thrown, AfterAnswer, AfterFailure, TypeOK, Statuses
<1>2. UNCHANGED <<sink, flight, accepted, crashes>>
  BY DEF Attempt, Answered, Thrown
<1>3. TypeOK'
  BY <1>1, <1>2 DEF TypeOK, Ended, RequestOf
<1>4. CallsAreCounted'
  BY <1>1, <1>2 DEF CallsAreCounted, TypeOK
<1>5. AnswersAreTrue'
  BY <1>1, <1>2 DEF AnswersAreTrue, TypeOK, Accepted, Meant, Endpoint
<1> QED
  BY <1>3, <1>4, <1>5

(* The receiver accepts what was sent to it, and answers "ok" to nothing   *)
(* else.                                                                   *)
LEMMA ReceiveKeepsSink ==
    ASSUME SinkInv, Receive
    PROVE  SinkInv'
<1> USE SinkAssumption DEF SinkInv
<1> PICK m \in flight, status \in Statuses, accepts \in BOOLEAN :
          /\ status = "ok" => accepts
          /\ status = "refused" => ~accepts
          /\ flight' = flight \ {m}
          /\ accepted' = IF accepts THEN accepted \cup {[event |-> m.event, url |-> m.url]}
                         ELSE accepted
          /\ answers' = IF IsAwaited(m)
                        THEN [answers EXCEPT ![m.event] = status] ELSE answers
  BY DEF Receive
<1>1. UNCHANGED <<sink, call, crashes>>
  BY DEF Receive
<1>2. m.event \in Event /\ m.url = Endpoint(m.event)
  BY DEF TypeOK, RequestOf, AnswersAreTrue
<1>3. m.url \in Meant(m.event) /\ isTrustedDeliveryUrl(m.url, sink.trusted)
  BY <1>2, EndpointIsMeant DEF TypeOK
<1>4. TypeOK'
  <2>1. answers' \in [Event -> Statuses \cup {"none"}]
    BY <1>2 DEF TypeOK
  <2>2. \A a \in accepted' : a.event \in Event /\ isTrustedDeliveryUrl(a.url, sink.trusted)
    BY <1>2, <1>3 DEF TypeOK
  <2>3. flight' \subseteq {RequestOf(e, c, n)' : e \in Event, c \in 1..MaxCalls,
                                                 n \in 1..AttemptsOf(sink)}
    <3>1. flight' \subseteq flight
      OBVIOUS
    <3> QED
      BY <1>1, <3>1 DEF TypeOK, RequestOf
  <2>4. sink' \in Constructed /\ crashes' \in 0..MaxCrashes
    BY <1>1 DEF TypeOK
  <2>5. call' \in [Event -> [pc: Ended \cup {"waiting", "sleeping"},
                            attempt: 0..AttemptsOf(sink), round: 0..MaxCalls]]
    BY <1>1 DEF TypeOK
  <2> QED
    BY <1>1, <2>1, <2>2, <2>3, <2>4, <2>5 DEF TypeOK
<1>5. CallsAreCounted'
  BY <1>1 DEF CallsAreCounted
<1>6. AnswersAreTrue'
  <2>1. accepts => Accepted(m.event)'
    <3> DEFINE a == [event |-> m.event, url |-> m.url]
    <3>1. accepts => a \in accepted'
      OBVIOUS
    <3>2. a.event = m.event /\ a.url \in Meant(m.event)'
      BY <1>1, <1>3 DEF Meant
    <3> HIDE DEF a
    <3> QED
      BY <3>1, <3>2 DEF Accepted
  <2>2. \A e \in Event : Accepted(e) => Accepted(e)'
    BY <1>1, AcceptedStays
  <2>3. \A e \in Event : answers'[e] = "ok" => Accepted(e)'
    BY <1>2, <2>1, <2>2 DEF AnswersAreTrue, TypeOK
  <2> QED
    BY <1>1, <2>3 DEF AnswersAreTrue, Endpoint
<1> QED
  BY <1>4, <1>5, <1>6

(* A restart forgets the calls and the answers, not the requests.          *)
LEMMA RestartKeepsSink ==
    ASSUME SinkInv, Restart
    PROVE  SinkInv'
<1> USE SinkAssumption DEF SinkInv
<1>1. /\ call' = [e \in Event |->
                     IF call[e].pc \in {"waiting", "sleeping"}
                     THEN [call[e] EXCEPT !.pc = "interrupted"] ELSE call[e]]
      /\ answers' = [e \in Event |-> "none"]
      /\ crashes' = crashes + 1 /\ crashes < MaxCrashes
      /\ UNCHANGED <<sink, flight, accepted>>
  BY DEF Restart
<1>2. \A e \in Event : /\ call'[e] \in [pc: Ended, attempt: 0..AttemptsOf(sink),
                                        round: 0..MaxCalls]
                       /\ call[e].pc # "none" => call'[e].pc # "none"
  BY <1>1 DEF TypeOK, Ended
<1>3. TypeOK'
  BY <1>1, <1>2 DEF TypeOK, RequestOf
<1>4. CallsAreCounted'
  BY <1>2 DEF CallsAreCounted, Ended
<1>5. AnswersAreTrue'
  <2>1. \A m \in flight : m.event \in Event
    BY DEF TypeOK, RequestOf
  <2> QED
    BY <1>1, <1>2, <2>1 DEF AnswersAreTrue, Endpoint
<1> QED
  BY <1>3, <1>4, <1>5

(* Requests go to trusted endpoints only, each call sends as many as it    *)
(* has attempts, and no answer that is "ok" is of another endpoint than    *)
(* the event's own (delivery.ts 31-95).                                    *)
THEOREM SinkIsConsistent == Spec => []SinkInv
<1>1. Init => SinkInv
  <2> SUFFICES ASSUME Init PROVE SinkInv
    OBVIOUS
  <2>1. AttemptsOf(sink) \in 1..8
    BY AttemptsAreClamped DEF Init, Constructed
  <2>2. call \in [Event -> [pc: Ended, attempt: 0..AttemptsOf(sink), round: 0..MaxCalls]]
    BY <2>1, SinkAssumption DEF Init, Ended
  <2>3. \A e \in Event : call[e].pc = "none"
    BY DEF Init
  <2>4. TypeOK
    BY <2>2, SinkAssumption DEF Init, TypeOK
  <2> QED
    BY <2>3, <2>4 DEF Init, SinkInv, CallsAreCounted, AnswersAreTrue
<1>2. SinkInv /\ [Next]_vars => SinkInv'
  <2> SUFFICES ASSUME SinkInv, [Next]_vars PROVE SinkInv'
    OBVIOUS
  <2>0. AttemptsOf(sink) \in 1..8
    BY AttemptsAreClamped DEF SinkInv, TypeOK, Constructed
  <2>1. ASSUME NEW e \in Event, Deliver(e) PROVE SinkInv'
    <3>1. call[e].round + 1 \in 1..MaxCalls /\ 1 \in 1..AttemptsOf(sink)
      BY <2>0, <2>1, SinkAssumption DEF Deliver, SinkInv, TypeOK
    <3> QED
      BY <2>1, <3>1, PostKeepsSink DEF Deliver
  <2>2. ASSUME NEW e \in Event, Wake(e) PROVE SinkInv'
    <3>1. call[e].attempt + 1 \in 1..AttemptsOf(sink)
      BY <2>0, <2>2 DEF Wake, SinkInv, TypeOK, CallsAreCounted
    <3>2. call[e].round \in 1..MaxCalls
      BY <2>2, SinkAssumption DEF Wake, SinkInv, TypeOK, CallsAreCounted
    <3> QED
      BY <2>2, <3>1, <3>2, PostKeepsSink DEF Wake
  <2>3. CASE UNCHANGED vars
    BY <2>3, SMTT(30) DEF vars, SinkInv, TypeOK, CallsAreCounted, AnswersAreTrue,
                Accepted, Meant, Endpoint, RequestOf
  <2> QED
    BY <2>1, <2>2, <2>3, AttemptKeepsSink, ReceiveKeepsSink, RestartKeepsSink DEF Next
<1> QED
  BY <1>1, <1>2, PTL DEF Spec

-----------------------------------------------------------------------------
(* What the observer sees of a call.                                       *)
OutcomeOf(e) ==
    CASE call[e].pc = "none" -> "none"
      [] call[e].pc \in {"waiting", "sleeping"} -> "pending"
      [] call[e].pc = "delivered" -> "delivered"
      [] OTHER -> "failed"

Outcome == [e \in Event |-> OutcomeOf(e)]

AcceptedEvents == {e \in Event : Accepted(e)}

(* The step of the promise each step of the sink is.                       *)
PromiseStep ==
    \/ \E e \in Event :
          \/ /\ Outcome[e] \in {"none", "failed", "delivered"}
             /\ Outcome' = [Outcome EXCEPT ![e] = "pending"]
             /\ UNCHANGED AcceptedEvents
          \/ /\ Outcome[e] # "none"
             /\ AcceptedEvents' = AcceptedEvents \cup {e}
             /\ UNCHANGED Outcome
          \/ /\ Outcome[e] = "pending"
             /\ \/ e \in AcceptedEvents /\ Outcome' = [Outcome EXCEPT ![e] = "delivered"]
                \/ Outcome' = [Outcome EXCEPT ![e] = "failed"]
             /\ UNCHANGED AcceptedEvents
    \/ /\ Outcome' = [e \in Event |->
                         IF Outcome[e] = "pending" THEN "failed" ELSE Outcome[e]]
       /\ UNCHANGED AcceptedEvents
    \/ UNCHANGED <<Outcome, AcceptedEvents>>

(* It is one of EventDelivery's, under the mapping of Promise.              *)
LEMMA PromiseStepIsItsOwn ==
    ASSUME PromiseStep
    PROVE  [Promise!Next]_(Promise!vars)
BY DEF PromiseStep, Outcome, OutcomeOf, AcceptedEvents, Accepted, Promise!Next,
       Promise!Begin, Promise!Accept, Promise!Return, Promise!Interrupt, Promise!vars

(* A step that moves one call moves one outcome.                           *)
LEMMA OneOutcomeMoves ==
    ASSUME TypeOK, NEW e \in Event, NEW c, NEW o,
           call' = [call EXCEPT ![e] = c],
           OutcomeOf(e)' = o
    PROVE  Outcome' = [Outcome EXCEPT ![e] = o]
<1>1. \A d \in Event : d # e => OutcomeOf(d)' = OutcomeOf(d)
  BY DEF TypeOK, OutcomeOf
<1> QED
  BY <1>1 DEF Outcome

(* A request that leaves begins a call, or is unseen.                      *)
LEMMA PostKeepsPromise ==
    ASSUME SinkInv, NEW e \in Event, Deliver(e) \/ Wake(e)
    PROVE  PromiseStep
<1>1. UNCHANGED AcceptedEvents
  BY DEF Deliver, Wake, AcceptedEvents, Accepted, Meant
<1>2. PICK r, n : call' = [call EXCEPT ![e] = [pc |-> "waiting", attempt |-> n, round |-> r]]
  BY DEF Deliver, Wake, Post
<1>3. OutcomeOf(e)' = "pending"
  BY <1>2 DEF OutcomeOf, SinkInv, TypeOK
<1>4. Outcome' = [Outcome EXCEPT ![e] = "pending"]
  BY <1>2, <1>3, OneOutcomeMoves DEF SinkInv
<1>5. CASE Deliver(e)
  <2>1. Outcome[e] \in {"none", "failed", "delivered"}
    BY <1>5 DEF Deliver, Ended, Outcome, OutcomeOf
  <2> QED
    BY <1>1, <1>4, <2>1 DEF PromiseStep
<1>6. CASE Wake(e)
  <2>1. Outcome[e] = "pending"
    BY <1>6 DEF Wake, Outcome, OutcomeOf
  <2>2. UNCHANGED Outcome
    BY <1>4, <2>1 DEF Outcome
  <2> QED
    BY <1>1, <2>2 DEF PromiseStep
<1> QED
  BY <1>5, <1>6

(* The end of a fetch ends the call or is unseen, and ends it as delivered *)
(* only when the endpoint has answered that it has accepted the event.     *)
LEMMA AttemptKeepsPromise ==
    ASSUME SinkInv, NEW e \in Event, Attempt(e)
    PROVE  PromiseStep
<1>1. UNCHANGED AcceptedEvents
  BY DEF Attempt, Answered, Thrown, AcceptedEvents, Accepted, Meant
<1>2. PICK place \in {"delivered", "rejected", "sleeping", "unavailable"} :
          /\ call' = [call EXCEPT ![e].pc = place]
          /\ place = "delivered" => answers[e] = "ok"
  BY DEF Attempt, Answered, Thrown, AfterAnswer, AfterFailure, SinkInv, TypeOK, Statuses
<1>3. Outcome[e] = "pending"
  BY DEF Attempt, Answered, Thrown, Outcome, OutcomeOf
<1>4. OutcomeOf(e)' = CASE place = "sleeping" -> "pending"
                        [] place = "delivered" -> "delivered"
                        [] OTHER -> "failed"
  BY <1>2 DEF OutcomeOf, SinkInv, TypeOK
<1>5. Outcome' = [Outcome EXCEPT ![e] = OutcomeOf(e)']
  <2>1. call' = [call EXCEPT ![e] = [@ EXCEPT !.pc = place]]
    BY <1>2
  <2> QED
    BY <2>1, OneOutcomeMoves DEF SinkInv
<1>6. CASE place = "sleeping"
  <2>1. UNCHANGED Outcome
    BY <1>3, <1>4, <1>5, <1>6 DEF Outcome
  <2> QED
    BY <1>1, <2>1 DEF PromiseStep
<1>7. CASE place = "delivered"
  <2>1. e \in AcceptedEvents
    BY <1>2, <1>7 DEF SinkInv, AnswersAreTrue, AcceptedEvents
  <2> QED
    BY <1>1, <1>3, <1>4, <1>5, <1>7, <2>1 DEF PromiseStep
<1>8. CASE place \in {"rejected", "unavailable"}
  BY <1>1, <1>3, <1>4, <1>5, <1>8 DEF PromiseStep
<1> QED
  BY <1>6, <1>7, <1>8

(* A request that is taken is of an event some call was made for.          *)
LEMMA ReceiveKeepsPromise ==
    ASSUME SinkInv, Receive
    PROVE  PromiseStep
<1> PICK m \in flight, accepts \in BOOLEAN :
          accepted' = IF accepts THEN accepted \cup {[event |-> m.event, url |-> m.url]}
                      ELSE accepted
  BY DEF Receive
<1>1. UNCHANGED <<sink, call>> /\ UNCHANGED Outcome
  BY DEF Receive, Outcome, OutcomeOf
<1>2. m.event \in Event /\ m.url = Endpoint(m.event) /\ call[m.event].pc # "none"
  BY DEF SinkInv, TypeOK, RequestOf, AnswersAreTrue
<1>3. Outcome[m.event] # "none"
  BY <1>2 DEF Outcome, OutcomeOf
<1>4. CASE accepts
  <2> DEFINE a == [event |-> m.event, url |-> m.url]
  <2>1. a.event = m.event /\ a.url \in Meant(m.event)
    BY <1>2, EndpointIsMeant DEF SinkInv, TypeOK
  <2>2. accepted' = accepted \cup {a}
    BY <1>4
  <2> HIDE DEF a
  <2>3. AcceptedEvents' = AcceptedEvents \cup {m.event}
    BY <1>1, <1>2, <2>1, <2>2 DEF AcceptedEvents, Accepted, Meant
  <2> QED
    BY <1>1, <1>2, <1>3, <2>3 DEF PromiseStep
<1>5. CASE ~accepts
  BY <1>1, <1>5 DEF PromiseStep, AcceptedEvents, Accepted, Meant
<1> QED
  BY <1>4, <1>5

(* A restart interrupts the calls under way.                               *)
LEMMA RestartKeepsPromise ==
    ASSUME SinkInv, Restart
    PROVE  PromiseStep
<1>1. UNCHANGED AcceptedEvents
  BY DEF Restart, AcceptedEvents, Accepted, Meant
<1>2. \A e \in Event :
          OutcomeOf(e)' = IF OutcomeOf(e) = "pending" THEN "failed" ELSE OutcomeOf(e)
  <2> SUFFICES ASSUME NEW e \in Event
               PROVE  OutcomeOf(e)' = IF OutcomeOf(e) = "pending" THEN "failed"
                                      ELSE OutcomeOf(e)
    OBVIOUS
  <2>1. CASE call[e].pc \in {"waiting", "sleeping"}
    <3>1. call'[e].pc = "interrupted"
      BY <2>1 DEF Restart, SinkInv, TypeOK
    <3> QED
      BY <2>1, <3>1 DEF OutcomeOf
  <2>2. CASE call[e].pc \notin {"waiting", "sleeping"}
    <3>1. call'[e].pc = call[e].pc
      BY <2>2 DEF Restart
    <3> QED
      BY <2>2, <3>1 DEF OutcomeOf
  <2> QED
    BY <2>1, <2>2
<1>3. Outcome' = [e \in Event |-> IF Outcome[e] = "pending" THEN "failed" ELSE Outcome[e]]
  BY <1>2 DEF Outcome
<1> QED
  BY <1>1, <1>3 DEF PromiseStep

(* The safety part of KeepsPromise: every step of the sink is a step of    *)
(* the promise or unseen by the observer.  However requests and answers    *)
(* are lost, delayed and repeated, and whatever options the constructor    *)
(* took, a call reports an event as delivered only when the endpoint of    *)
(* its own route has accepted it (delivery.ts 57-95).                      *)
THEOREM SinkImplementsDelivery ==
    Spec => Promise!Init /\ [][Promise!Next]_(Promise!vars)
<1>1. Init => Promise!Init
  BY DEF Init, Promise!Init
<1>2. SinkInv /\ [Next]_vars => [Promise!Next]_(Promise!vars)
  <2> SUFFICES ASSUME SinkInv, [Next]_vars PROVE PromiseStep
    BY PromiseStepIsItsOwn
  <2>1. CASE UNCHANGED vars
    BY <2>1 DEF vars, PromiseStep, Outcome, OutcomeOf, AcceptedEvents, Accepted, Meant
  <2> QED
    BY <2>1, PostKeepsPromise, AttemptKeepsPromise, ReceiveKeepsPromise,
       RestartKeepsPromise DEF Next
<1> QED
  BY <1>1, <1>2, SinkIsConsistent, PTL DEF Spec
=============================================================================
