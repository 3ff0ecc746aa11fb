------------------------------- MODULE MCAnalysis -------------------------------
(* Values TLC gives to the constants of FailureAnalysis.                       *)
EXTENDS FailureAnalysis

Tight(most) ==
    [maxFiles |-> 1, maxHunks |-> 2, maxLines |-> 3, maxBytes |-> 4, maxRequests |-> most]

Asked(caller, given, hasCallback, maxPayload, methods, ref) ==
    [caller |-> caller, maxJobs |-> 2, maxLogLines |-> 2, maxChanges |-> 2,
     maxHunkLines |-> 2, maxSignals |-> 1, budget |-> given,
     hasCallback |-> hasCallback, maxPayload |-> maxPayload,
     methods |-> methods, ref |-> ref]

(* The observer never gives a budget of its own.                               *)
ObserverInputs(methods) ==
    {Asked("observer", NoBudget, TRUE, 20, methods, "main"),
     Asked("observer", NoBudget, FALSE, 12, methods, "main"),
     Asked("observer", NoBudget, FALSE, 2, methods, "main")}

ClassInstances == ObserverInputs("inherited")

AllInputs ==
    ObserverInputs("own") \cup ClassInstances
    \cup {Asked("observer", NoBudget, FALSE, 12, "own", "a<b")}
    \cup {Asked("tool", b, FALSE, 0, "inherited", "main") : b \in {NoBudget, Tight(2), Tight(4)}}
    \cup {Asked("tool", Tight(2), FALSE, 0, "inherited", "a<b")}

Lists == {<<>>, <<3, 1, 2>>, <<2, 1>>, <<2>>, <<4>>, <<5>>}

Lengths == {1, 3}

AllPlans == {{"test", "build"}, {"lint"}}

Hunks == {<<>>, <<3, 1>>}

Change(path, hunks) == [path |-> path, hunks |-> hunks]

Changes ==
    {<<Change(2, <<3, 1>>), Change(1, h)>> : h \in Hunks}
    \cup {<<Change(3, <<2>>), Change(2, <<2>>), Change(1, <<2>>)>>, <<Change(3, <<1>>)>>}

Signal(id, kind, inWindow) == [id |-> id, kind |-> kind, bad |-> kind = "metric", inWindow |-> inWindow]

Signals ==
    {<<Signal(1, "metric", FALSE), Signal(2, "trace", TRUE)>>,
     <<Signal(2, "trace", TRUE), Signal(1, "metric", TRUE)>>, <<Signal(3, "metric", TRUE)>>}

Categories == [j \in 1..5 |-> IF j = 3 THEN "build" ELSE "test"]

Names == [j \in 1..5 |-> j]

(* A job, a path and a signal, of which the path and the signal may be cut.    *)
LongOnes == {<<"job", 4>>, <<"scm", 3>>, <<"telemetry", 3>>}

(* A name, in the basis of its category only if its job is the only one; a     *)
(* ref; an action; the warning of a log.                                       *)
MarkedOnes == {<<"name", 2>>, <<"ref", "a<b">>, <<"action", "lint">>, <<"ci-log", 5>>}

None == {}

Limits == [maxDiff |-> 1, maxLogs |-> 2, maxSignals |-> 1, maxBytes |-> 7]

Both == {"scm", "telemetry"}
===============================================================================
