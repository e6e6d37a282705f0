---------------------------- MODULE LocationFetch ----------------------------
(***************************************************************************)
(* The proxy to the geocoding and routing services (modules/location):     *)
(* fetchWithRetry, and the points getRoutePoints makes of the route it     *)
(* fetched.  searchLocations only renames what it fetched.  The services   *)
(* answer, refuse, break the connection or say nothing; a body follows the *)
(* headers of an answer, outside the try and after its timer is cleared.   *)
(***************************************************************************)
EXTENDS Naturals, Sequences, FiniteSets, SequencesExt, FiniteSetsExt

CONSTANTS
    Retries,      \* attempts: 3 in the code
    MaxSteps,     \* bound: steps of a route
    MaxPoints,    \* points between start and end: 100 in the code
    Names,        \* names of steps, alike up to case and blanks
    Blocked,      \* an empty name, a short one, or one with a blocked word
    BodyFails,    \* TRUE: the body of an answer may break off
    BodyStalls    \* TRUE: it may never end

Assumptions ==
    /\ Retries \in Nat \ {0}
    /\ {MaxSteps, MaxPoints} \subseteq Nat
    /\ {BodyFails, BodyStalls} \subseteq BOOLEAN

VARIABLES
    at,        \* "idle", "waiting", "body", "answered" or "failed"
    attempt,   \* of the loop, from 0
    timers,    \* attempts whose 15 seconds are running
    route,     \* the steps of the route that was fetched
    points     \* the steps of it the answer names

vars == <<at, attempt, timers, route, points>>

Step == [name: Names \cup {Blocked}, located: BOOLEAN]

\* One type invariant: the attempts stay within the loop.
TypeOK ==
    /\ at \in {"idle", "waiting", "body", "answered", "failed"}
    /\ attempt \in 0 .. Retries - 1
    /\ timers \subseteq 0 .. Retries - 1
    /\ route \in SeqOf(Step, MaxSteps)
    /\ points \in SeqOf(1..MaxSteps, MaxSteps)

Init ==
    /\ at = "idle"
    /\ attempt = 0
    /\ timers = {}
    /\ route = <<>>
    /\ points = <<>>

------------------------------------------------------------------------------
Ask ==
    /\ at \in {"idle", "answered", "failed"}
    /\ timers = {}    \* bound: the timers of one request at a time
    /\ at' = "waiting"
    /\ attempt' = 0
    /\ timers' = {0}
    /\ route' = <<>> /\ points' = <<>>

\* The catch: the last attempt throws on, another one tries again.
LastAttempt_OneEarlier == attempt >= Retries - 2
LastAttempt == attempt = Retries - 1
Catch(running) ==
    /\ IF LastAttempt
       THEN at' = "failed" /\ timers' = running /\ UNCHANGED attempt
       ELSE /\ attempt' = attempt + 1
            /\ timers' = running \cup {attempt + 1}
            /\ UNCHANGED at
    /\ UNCHANGED <<route, points>>

(* fetch rejects: the timer of the attempt is left to run.                 *)
ConnectionBreaks ==
    /\ at = "waiting"
    /\ Catch(timers)

(* fetch answers, and the timer is cleared; a status that is not ok throws.*)
AnswersError ==
    /\ at = "waiting"
    /\ Catch(timers \ {attempt})
AnswersOk ==
    /\ at = "waiting"
    /\ at' = "body"
    /\ timers' = timers \ {attempt}
    /\ UNCHANGED <<attempt, route, points>>

(* A timer aborts the fetch of its own attempt, if that one still waits.   *)
Aborts_Nothing(a) == FALSE
Aborts(a) == at = "waiting" /\ a = attempt
TimerFires(a) ==
    /\ a \in timers
    /\ IF Aborts(a) THEN Catch(timers \ {a})
       ELSE timers' = timers \ {a} /\ UNCHANGED <<at, attempt, route, points>>

------------------------------------------------------------------------------
(* getRoutePoints: the steps with a place and a name that is not blocked,  *)
(* the first of every name in the order of the route, and of those the     *)
(* first hundred.                                                          *)
Named(steps) ==
    {i \in 1..Len(steps) : steps[i].located /\ steps[i].name # Blocked}
FirstOfName(steps) ==
    {i \in Named(steps) : \A j \in Named(steps) : j < i => steps[j].name # steps[i].name}
UniquePoints(steps) ==
    LET unique[n \in 0..Len(steps)] ==
            IF n = 0 THEN <<>>
            ELSE IF n \in FirstOfName(steps) THEN Append(unique[n - 1], n)
                 ELSE unique[n - 1]
    IN unique[Len(steps)]
RoutePoints(steps) ==
    LET unique == UniquePoints(steps)
    IN SubSeq(unique, 1, Min({MaxPoints, Len(unique)}))

(* response.json() resolves, with a route or, for the search, none; getOSRM*)
(* Route throws if there is none, which its caller answers as an error.    *)
BodyArrives(steps) ==
    /\ at = "body"
    /\ at' = "answered"
    /\ route' = steps
    /\ points' = RoutePoints(steps)
    /\ UNCHANGED <<attempt, timers>>

\* It rejects: the promise was returned, not awaited, so nothing catches it.
BodyBreaks ==
    /\ BodyFails
    /\ at = "body"
    /\ at' = "failed"
    /\ UNCHANGED <<attempt, timers, route, points>>

BodyEnds == BodyBreaks \/ \E steps \in SeqOf(Step, MaxSteps) : BodyArrives(steps)
SomeTimer == \E a \in timers : TimerFires(a)

Next == Ask \/ ConnectionBreaks \/ AnswersError \/ AnswersOk \/ SomeTimer \/ BodyEnds

Spec == Init /\ [][Next]_vars

(* Timers fire, and unless a body may stall, it ends.                      *)
FairSpec == Spec /\ WF_vars(SomeTimer) /\ (BodyStalls \/ WF_vars(BodyEnds))

------------------------------------------------------------------------------
(* "Generic Fetch With Retry": a request fails only when every one of its  *)
(* attempts has failed.                                                    *)
FailsAfterEveryAttempt == at = "failed" => attempt = Retries - 1

(* A request ends, whatever the services do, as long as a body that began  *)
(* ends: three silent attempts end by their timers, and the timer of a     *)
(* broken attempt does not get in the way of a later one.                  *)
IsOpen == at \in {"waiting", "body"}
HasEnded == at \in {"answered", "failed"}
EveryFetchEnds == IsOpen ~> HasEnded

(* The answer's points are on the route in its order, each name once, at   *)
(* the place where the route first carries it, and none is left out but by *)
(* the limit.                                                              *)
PointsFollowRoute ==
    LET named == {i \in 1..Len(route) : route[i].located /\ route[i].name # Blocked}
    IN at = "answered" =>
       /\ \A k \in 1..Len(points) : \A i \in named :
              i < points[k] =>
                  /\ route[i].name # route[points[k]].name
                  /\ \E l \in 1 .. k - 1 : route[points[l]].name = route[i].name
       /\ Len(points) < MaxPoints =>
              {route[i].name : i \in named} = {route[points[k]].name : k \in 1..Len(points)}
==============================================================================
